--------------------------- MODULE SessionProofs ---------------------------
(***************************************************************************)
(* Theorems about module Session, for every set of shells, session files,  *)
(* passwords and collections.                                              *)
(***************************************************************************)
EXTENDS Session, TLAPS

---------------------------------------------------------------------------
(* Type correctness, one lemma per program *)

LEMMA DisturbTyped ==
    ASSUME NEW s \in Shells, DisturbOthers(s)
    PROVE  disturbed' \in SUBSET Shells
BY DEF DisturbOthers

LEMMA PwTyped ==
    ASSUME TypeOK, NEW s \in Shells,
           PwSteps(s) \/ PwStart(s, NativeScheme(Contents)),
           UNCHANGED <<iiVars, cdVars, exVars, otherPw>>
    PROVE  TypeOK'
<1> USE SessionAssumption, IpasswdAssumption
    DEF TypeOK, PwType, IiType, PwStay, PwExit, PwDone, PwForget, Goto, Exit,
        Start, pwVars, files, server, iiVars, cdVars, exVars, Killed
<1>1. CASE PwStart(s, NativeScheme(Contents))
  BY <1>1 DEF PwStart
<1>2. CASE PwConnect(s)
  BY <1>2 DEF PwConnect
<1>3. CASE PwSaveCurrent(s)
  <2>1. CASE PwExit(s, 1)
    BY <2>1, <1>3 DEF PwSaveCurrent
  <2>2. CASE \E typed \in Passwords : WriteAuthFile(s, typed) /\ ~PwExit(s, 1)
    <3>1. authFile' \in Passwords /\ disturbed' \in SUBSET Shells
      BY <2>2, DisturbTyped DEF WriteAuthFile
    <3> QED
      BY <2>2, <3>1, <1>3 DEF PwSaveCurrent
  <2> QED
    BY <1>3, <2>1, <2>2 DEF PwSaveCurrent
<1>4. CASE PwAuthenticate(s)
  <2>1. CASE RecordCredential(s) /\ ~PwExit(s, 7) /\ ~IsNativePw(s)
    <3>1. /\ authFile' \in {authFile, Temporary} /\ token' \in {"absent", "present"}
          /\ disturbed' \in SUBSET Shells
      BY <2>1, DisturbTyped DEF RecordCredential, WriteAuthFile
    <3> QED
      BY <1>4, <2>1, <3>1 DEF PwAuthenticate
  <2>2. CASE ~(RecordCredential(s) /\ ~PwExit(s, 7) /\ ~IsNativePw(s))
    BY <1>4, <2>2 DEF PwAuthenticate
  <2> QED
    BY <2>1, <2>2
<1>5. CASE PwNew(s)
  BY <1>5 DEF PwNew
<1>6. CASE PwAgain(s)
  BY <1>6 DEF PwAgain
<1>7. CASE PwEncode(s)
  BY <1>7 DEF PwEncode
<1>8. CASE PwAdmin(s)
  BY <1>8, DisturbTyped DEF PwAdmin
<1>9. CASE PwSaveNew(s)
  BY <1>9, DisturbTyped DEF PwSaveNew, WriteAuthFile
<1> QED
  BY <1>1, <1>2, <1>3, <1>4, <1>5, <1>6, <1>7, <1>8, <1>9 DEF PwSteps

LEMMA AdTyped ==
    ASSUME TypeOK, NEW s \in Shells,
           AdSteps(s) \/ AdStart(s, NativeScheme(Contents)),
           UNCHANGED <<iiVars, cdVars, exVars>>
    PROVE  TypeOK'
<1> USE SessionAssumption, IpasswdAssumption
    DEF TypeOK, PwType, IiType, PwStay, PwExit, PwDone, PwForget, Goto, Exit,
        Start, pwVars, files, server, iiVars, cdVars, exVars, Killed
<1>1. CASE AdStart(s, NativeScheme(Contents))
  BY <1>1 DEF AdStart
<1>2. CASE AdConnect(s)
  BY <1>2 DEF AdConnect
<1>3. CASE AdAuthenticate(s)
  BY <1>3 DEF AdAuthenticate
<1>4. CASE AdEncode(s)
  <2>1. PICK pw \in Passwords : newPw' = [newPw EXCEPT ![s] = pw]
    BY <1>4 DEF AdEncode
  <2>2. PICK whose \in SUBSET {"own"} :
          \/ opts' = [opts EXCEPT ![s] = @ \union whose \union {"no-scramble"}]
          \/ opts' = [opts EXCEPT ![s] = @ \union whose]
          \/ opts' = [opts EXCEPT ![s] = @ \union whose \union {"typed"}]
    BY <1>4 DEF AdEncode
  <2>3. opts' \in [Shells -> SUBSET {"native", "force", "no-scramble", "own", "typed"}]
    <3> DEFINE Options == {"native", "force", "no-scramble", "own", "typed"}
    <3>1. PICK more \in SUBSET {"own", "no-scramble", "typed"} :
            opts' = [opts EXCEPT ![s] = @ \union more]
      <4>1. CASE opts' = [opts EXCEPT ![s] = @ \union whose \union {"no-scramble"}]
        BY <4>1, opts[s] \union whose \union {"no-scramble"} = opts[s] \union (whose \union {"no-scramble"})
      <4>2. CASE opts' = [opts EXCEPT ![s] = @ \union whose]
        BY <4>2
      <4>3. CASE opts' = [opts EXCEPT ![s] = @ \union whose \union {"typed"}]
        BY <4>3, opts[s] \union whose \union {"typed"} = opts[s] \union (whose \union {"typed"})
      <4> QED
        BY <2>2, <4>1, <4>2, <4>3
    <3>2. opts[s] \union more \in SUBSET Options
      OBVIOUS
    <3> QED
      BY <3>1, <3>2
  <2>4. key' \in [Shells -> Passwords \union {Temporary, NoPw}]
    BY <1>4 DEF AdEncode
  <2> QED
    BY <1>4, <2>1, <2>3, <2>4 DEF AdEncode
<1>5. CASE AdSend(s)
  BY <1>5 DEF AdSend
<1>6. CASE AdQuit(s)
  BY <1>6 DEF AdQuit
<1> QED
  BY <1>1, <1>2, <1>3, <1>4, <1>5, <1>6 DEF AdSteps

LEMMA MergeTyped ==
    ASSUME NEW old \in Env, NEW new \in Env
    PROVE  Merge(old, new) \in Env
BY DEF Merge, Env

LEMMA ContentsTyped == Contents \in Env
BY DEF Contents, NoSettings, Env, AnyValue

LEMMA NoSettingsTyped == NoSettings \in Env
BY DEF NoSettings, Env, AnyValue

LEMMA OverlapTyped ==
    ASSUME NEW s \in Shells, NEW content, WriteEnvFile(s, content)
    PROVE  envFile' = content /\ overlapped' \in SUBSET Shells
BY DEF WriteEnvFile

LEMMA IiTyped ==
    ASSUME TypeOK, NEW s \in Shells, IiSteps(s) \/ IiStart(s),
           UNCHANGED <<pwVars, cdVars, exVars, otherPw>>
    PROVE  TypeOK'
<1> USE SessionAssumption, IinitAssumption, NoSettingsTyped
    DEF TypeOK, PwType, IiType, IiStay, IiExit, IiForget, Goto, Exit,
        Start, pwVars, files, server, cdVars, exVars, Killed
<1>1. CASE IiStart(s)
  BY <1>1, ContentsTyped DEF IiStart
<1>2. CASE IiPrompt(s)
  <2>1. CASE IiExit(s, 1)
    BY <2>1, <1>2 DEF IiPrompt
  <2>2. PICK new \in Env : ~IiExit(s, 1) =>
                             /\ update' = [update EXCEPT ![s] = new]
                             /\ myEnv' = [myEnv EXCEPT ![s] = Merge(@, new)]
    BY <1>2 DEF IiPrompt
  <2>3. CASE ~IiExit(s, 1)
    <3>1. Merge(myEnv[s], new) \in Env
      BY MergeTyped
    <3> QED
      BY <2>2, <2>3, <3>1, <1>2 DEF IiPrompt
  <2> QED
    BY <2>1, <2>3
<1>3. CASE IiRead(s)
  <2>1. Merge(Contents, update[s]) \in Env
    BY MergeTyped, ContentsTyped
  <2> QED
    BY <2>1, <1>3 DEF IiRead
<1>4. CASE IiOpen(s)
  BY <1>4, OverlapTyped DEF IiOpen
<1>5. CASE IiWrite(s)
  BY <1>5, OverlapTyped DEF IiWrite
<1>6. CASE IiConnect(s)
  BY <1>6 DEF IiConnect
<1>7. CASE IiAuthenticate(s)
  <2>1. /\ authFile' \in Passwords \union {NoFile, Temporary}
        /\ token' \in {"absent", "present"}
        /\ disturbed' \in SUBSET Shells
    BY <1>7, DisturbTyped DEF IiAuthenticate, RecordCredential, WriteAuthFile
  <2>2. IiExit(s, 0) \/ IiExit(s, 7)
    BY <1>7 DEF IiAuthenticate
  <2> QED
    BY <1>7, <2>1, <2>2 DEF IiAuthenticate
<1>8. CASE IiReload(s)
  <2>1. Contents \in Env /\ Merge(myEnv[s], Contents) \in Env
    BY MergeTyped, ContentsTyped
  <2> QED
    BY <2>1, <1>8 DEF IiReload
<1> QED
  BY <1>1, <1>2, <1>3, <1>4, <1>5, <1>6, <1>7, <1>8 DEF IiSteps

LEMMA CdTyped ==
    ASSUME TypeOK, NEW s \in Shells,
           \/ CdSteps(s) \/ CdAuthenticate(s, NativeScheme(Contents))
           \/ CdStart(s) \/ CdHome(s) \/ Ipwd(s),
           UNCHANGED <<pwVars, iiVars, exVars, otherPw>>
    PROVE  TypeOK'
<1> USE SessionAssumption
    DEF TypeOK, PwType, IiType, CdExit, SetSession, UnlinkSession, SessionNow,
        OnlyReads, Goto, Exit, Start, pwVars, iiVars, files, server, exVars,
        Killed
<1>1. CASE CdStart(s)
  BY <1>1 DEF CdStart
<1>2. CASE CdHome(s)
  BY <1>2 DEF CdHome
<1>3. CASE Ipwd(s)
  BY <1>3 DEF Ipwd
<1>4. CASE CdConnect(s)
  BY <1>4 DEF CdConnect
<1>5. CASE CdAuthenticate(s, NativeScheme(Contents))
  BY <1>5 DEF CdAuthenticate
<1>6. CASE CdCheck(s)
  BY <1>6 DEF CdCheck
<1>7. CASE CdOpen(s)
  BY <1>7 DEF CdOpen
<1>8. CASE CdWrite(s)
  BY <1>8 DEF CdWrite
<1> QED
  BY <1>1, <1>2, <1>3, <1>4, <1>5, <1>6, <1>7, <1>8 DEF CdSteps

LEMMA ExTyped ==
    ASSUME TypeOK, NEW s \in Shells, ExSteps(s) \/ ExStart(s),
           UNCHANGED <<pwVars, iiVars, cdVars, otherPw>>
    PROVE  TypeOK'
<1> USE SessionAssumption
    DEF TypeOK, PwType, IiType, UnlinkSession, Goto, Exit, pwVars, iiVars,
        files, server, cdVars, Killed
<1>1. CASE ExStart(s)
  BY <1>1 DEF ExStart
<1>2. CASE ExRemoveAuth(s)
  BY <1>2, DisturbTyped DEF ExRemoveAuth, WriteAuthFile
<1>3. CASE ExRemoveToken(s)
  BY <1>3 DEF ExRemoveToken
<1> QED
  BY <1>1, <1>2, <1>3 DEF ExSteps

LEMMA StepTyped == TypeOK /\ [Next]_vars => TypeOK'
<1> SUFFICES ASSUME TypeOK, [Next]_vars PROVE TypeOK'
  OBVIOUS
<1>1. ASSUME NEW s \in Shells, Step(s) PROVE TypeOK'
  BY <1>1, PwTyped, AdTyped, IiTyped, CdTyped, ExTyped DEF Step
<1>2. ASSUME NEW s \in Shells, Type(s) PROVE TypeOK'
  BY <1>2, PwTyped, AdTyped, IiTyped, CdTyped, ExTyped DEF Type
<1>3. ASSUME NEW s \in Shells, Kill(s) PROVE TypeOK'
  BY <1>3, NoSettingsTyped, IpasswdAssumption
  DEF Kill, TypeOK, PwType, IiType, Exit, PwForget, IiForget, server, Killed
<1>4. CASE AdminSetsPassword
  BY <1>4 DEF AdminSetsPassword, TypeOK, PwType, IiType, InWindow, files,
              pwVars, iiVars, cdVars, exVars, Killed
<1>5. CASE CollectionsChange
  BY <1>5 DEF CollectionsChange, TypeOK, PwType, IiType, files,
              pwVars, iiVars, cdVars, exVars, Killed
<1>6. CASE UNCHANGED vars
  BY <1>6 DEF vars, TypeOK, PwType, IiType, files, server,
              pwVars, iiVars, cdVars, exVars, Killed
<1> QED
  BY <1>1, <1>2, <1>3, <1>4, <1>5, <1>6 DEF Next

\* Every variable keeps its type, and ipasswd never uses a new password that
\* was not entered.
THEOREM TypeCorrect == Spec => []TypeOK
<1>1. Init => TypeOK
  BY SessionAssumption, IpasswdAssumption, NoSettingsTyped
  DEF Init, TypeOK, PwInit, AdInit, PwType, IiInit, IiType, Killed
<1>2. TypeOK /\ [Next]_vars => TypeOK'
  BY StepTyped
<1> QED
  BY <1>1, <1>2, PTL DEF Spec

---------------------------------------------------------------------------
(* The password of an undisturbed ipasswd or iadmin *)

\* What shell s does leaves the ipasswd or iadmin of shell u alone, except that u is
\* marked when .irodsA or the account changes in its window.
Spares(s, u) ==
    /\ pc'[u] = pc[u] /\ opts'[u] = opts[u]
    /\ key'[u] = key[u] /\ newPw'[u] = newPw[u]
    /\ u \in disturbed => u \in disturbed'
    /\ InWindow(u) => u \in disturbed' \/ UNCHANGED <<authFile, serverPw>>

LEMMA PwSpares ==
    ASSUME TypeOK, NEW s \in Shells, NEW u \in Shells \ {s},
           PwSteps(s) \/ PwStart(s, NativeScheme(Contents))
    PROVE  Spares(s, u)
<1> USE DEF TypeOK, PwType, PwStay, PwExit, PwDone, PwForget, Goto, Exit,
        Start, pwVars, files, server, Spares, DisturbOthers, WriteAuthFile
<1>1. CASE PwStart(s, NativeScheme(Contents))
  BY <1>1 DEF PwStart
<1>2. CASE PwConnect(s)
  BY <1>2 DEF PwConnect
<1>3. CASE PwSaveCurrent(s)
  BY <1>3 DEF PwSaveCurrent
<1>4. CASE PwAuthenticate(s)
  BY <1>4 DEF PwAuthenticate, RecordCredential
<1>5. CASE PwNew(s)
  BY <1>5 DEF PwNew
<1>6. CASE PwAgain(s)
  BY <1>6 DEF PwAgain
<1>7. CASE PwEncode(s)
  BY <1>7 DEF PwEncode
<1>8. CASE PwAdmin(s)
  BY <1>8 DEF PwAdmin
<1>9. CASE PwSaveNew(s)
  BY <1>9 DEF PwSaveNew
<1> QED
  BY <1>1, <1>2, <1>3, <1>4, <1>5, <1>6, <1>7, <1>8, <1>9 DEF PwSteps

LEMMA AdSpares ==
    ASSUME TypeOK, NEW s \in Shells, NEW u \in Shells \ {s},
           AdSteps(s) \/ AdStart(s, NativeScheme(Contents))
    PROVE  Spares(s, u)
<1> USE DEF TypeOK, PwType, PwStay, PwExit, PwDone, PwForget, Goto, Exit,
        Start, pwVars, files, server, Spares
<1>1. CASE AdStart(s, NativeScheme(Contents))
  BY <1>1 DEF AdStart
<1>2. CASE AdConnect(s)
  BY <1>2 DEF AdConnect
<1>3. CASE AdAuthenticate(s)
  BY <1>3 DEF AdAuthenticate
<1>4. CASE AdEncode(s)
  BY <1>4 DEF AdEncode
<1>5. CASE AdSend(s)
  BY <1>5 DEF AdSend
<1>6. CASE AdQuit(s)
  BY <1>6 DEF AdQuit
<1> QED
  BY <1>1, <1>2, <1>3, <1>4, <1>5, <1>6 DEF AdSteps

LEMMA IiSpares ==
    ASSUME TypeOK, NEW s \in Shells, NEW u \in Shells \ {s},
           IiSteps(s) \/ IiStart(s), UNCHANGED pwVars
    PROVE  Spares(s, u)
<1> USE DEF TypeOK, PwType, IiStay, IiExit, Goto, Exit,
        Start, pwVars, files, server, Spares, DisturbOthers, WriteAuthFile
<1>1. CASE IiStart(s)
  BY <1>1 DEF IiStart
<1>2. CASE IiPrompt(s)
  BY <1>2 DEF IiPrompt
<1>3. CASE IiRead(s)
  BY <1>3 DEF IiRead
<1>4. CASE IiOpen(s)
  BY <1>4 DEF IiOpen
<1>5. CASE IiWrite(s)
  BY <1>5 DEF IiWrite
<1>6. CASE IiConnect(s)
  BY <1>6 DEF IiConnect
<1>7. CASE IiAuthenticate(s)
  BY <1>7 DEF IiAuthenticate, RecordCredential
<1>8. CASE IiReload(s)
  BY <1>8 DEF IiReload
<1> QED
  BY <1>1, <1>2, <1>3, <1>4, <1>5, <1>6, <1>7, <1>8 DEF IiSteps

LEMMA CdSpares ==
    ASSUME TypeOK, NEW s \in Shells, NEW u \in Shells \ {s},
           \/ CdSteps(s) \/ CdAuthenticate(s, NativeScheme(Contents))
           \/ CdStart(s) \/ CdHome(s) \/ Ipwd(s),
           UNCHANGED pwVars
    PROVE  Spares(s, u)
<1> USE DEF TypeOK, CdExit, OnlyReads, Goto, Exit, Start, pwVars, files,
        server, Spares
<1>1. CASE CdStart(s) \/ CdHome(s) \/ Ipwd(s)
  BY <1>1 DEF CdStart, CdHome, Ipwd
<1>2. CASE CdConnect(s) \/ CdAuthenticate(s, NativeScheme(Contents))
  BY <1>2 DEF CdConnect, CdAuthenticate
<1>3. CASE CdCheck(s)
  BY <1>3 DEF CdCheck
<1>4. CASE CdOpen(s)
  BY <1>4 DEF CdOpen
<1>5. CASE CdWrite(s)
  BY <1>5 DEF CdWrite
<1> QED
  BY <1>1, <1>2, <1>3, <1>4, <1>5 DEF CdSteps

LEMMA ExSpares ==
    ASSUME TypeOK, NEW s \in Shells, NEW u \in Shells \ {s},
           ExSteps(s) \/ ExStart(s), UNCHANGED pwVars
    PROVE  Spares(s, u)
BY DEF ExSteps, ExStart, ExRemoveAuth, ExRemoveToken, TypeOK, Goto, Exit,
       pwVars, files, server, Spares, DisturbOthers, WriteAuthFile

LEMMA KillSpares ==
    ASSUME TypeOK, NEW s \in Shells, NEW u \in Shells \ {s}, Kill(s)
    PROVE  Spares(s, u)
BY DEF Kill, PwForget, TypeOK, PwType, Exit, server, Spares

\* So what is known of an undisturbed ipasswd or iadmin stays true.
LEMMA SparedKeeps ==
    ASSUME TypeOK, CredentialsAgree, NEW s \in Shells, NEW u \in Shells,
           Spares(s, u), IsNativePw(u)', (u \notin disturbed)'
    PROVE  HoldsThePassword(u)'
BY DEF CredentialsAgree, HoldsThePassword, Spares, IsNativePw, Plain, InWindow

\* An ipasswd's own steps: it authenticates with a password that was typed, which
\* establishes that .irodsA is the account's password, encoding takes the key from there, and a server that
\* decodes with the right key has the new password.
LEMMA OwnPassword ==
    ASSUME TypeOK, CredentialsAgree, NEW s \in Shells,
           PwSteps(s) \/ PwStart(s, NativeScheme(Contents)),
           IsNativePw(s)', (s \notin disturbed)'
    PROVE  HoldsThePassword(s)'
<1> USE DEF TypeOK, PwType, PwStay, PwExit, PwDone, PwForget, Goto, Exit,
        Start, pwVars, files, server, CredentialsAgree, HoldsThePassword,
        IsNativePw, Plain
<1>1. CASE PwStart(s, NativeScheme(Contents))
  BY <1>1 DEF PwStart
<1>2. CASE PwConnect(s)
  BY <1>2 DEF PwConnect
<1>3. CASE PwSaveCurrent(s)
  BY <1>3 DEF PwSaveCurrent, WriteAuthFile
<1>4. CASE PwAuthenticate(s)
  <2>1. CASE PwExit(s, 7)
    BY <2>1
  <2>2. CASE ~PwExit(s, 7)
    <3>1. /\ pc[s] = "pw_auth" /\ pc'[s] = "pw_new"
          /\ UNCHANGED <<authFile, serverPw>>
          /\ disturbed' = IF authFile = Temporary THEN disturbed ELSE disturbed \ {s}
          /\ NativeAuthCanSucceed /\ IsNativePw(s)
      BY <1>4, <2>2 DEF PwAuthenticate
    <3>2. authFile # Temporary
      BY <3>1, SessionAssumption
    <3> QED
      BY <3>1, <3>2 DEF NativeAuthCanSucceed
  <2> QED
    BY <2>1, <2>2
<1>5. CASE PwNew(s)
  BY <1>5 DEF PwNew
<1>6. CASE PwAgain(s)
  BY <1>6 DEF PwAgain
<1>7. CASE PwEncode(s)
  BY <1>7 DEF PwEncode
<1>8. CASE PwAdmin(s)
  BY <1>8 DEF PwAdmin, KeyFits, DisturbOthers
<1>9. CASE PwSaveNew(s)
  BY <1>9 DEF PwSaveNew
<1> QED
  BY <1>1, <1>2, <1>3, <1>4, <1>5, <1>6, <1>7, <1>8, <1>9 DEF PwSteps

\* Those of iadmin: one that changes the user's own password is disturbed by it.
LEMMA OwnAccount ==
    ASSUME TypeOK, CredentialsAgree, NEW s \in Shells,
           AdSteps(s) \/ AdStart(s, NativeScheme(Contents)),
           IsNativePw(s)', (s \notin disturbed)'
    PROVE  HoldsThePassword(s)'
<1> USE DEF TypeOK, PwType, PwStay, PwExit, PwDone, PwForget, Goto, Exit,
        Start, pwVars, files, server, CredentialsAgree, HoldsThePassword,
        IsNativePw, Plain
<1>1. CASE AdStart(s, NativeScheme(Contents))
  BY <1>1 DEF AdStart
<1>2. CASE AdConnect(s)
  BY <1>2 DEF AdConnect
<1>3. CASE AdAuthenticate(s)
  BY <1>3 DEF AdAuthenticate, NativeAuthCanSucceed
<1>4. CASE AdEncode(s)
  BY <1>4 DEF AdEncode
<1>5. CASE AdSend(s)
  BY <1>5 DEF AdSend, InWindow
<1>6. CASE AdQuit(s)
  BY <1>6 DEF AdQuit
<1> QED
  BY <1>1, <1>2, <1>3, <1>4, <1>5, <1>6 DEF AdSteps

LEMMA CredentialsStep ==
    TypeOK /\ CredentialsAgree /\ [Next]_vars => CredentialsAgree'
<1> SUFFICES ASSUME TypeOK, CredentialsAgree, [Next]_vars,
                    NEW u \in Shells, IsNativePw(u)', (u \notin disturbed)'
             PROVE  HoldsThePassword(u)'
  BY DEF CredentialsAgree
<1>1. ASSUME NEW s \in Shells \ {u}, Step(s) \/ Type(s) \/ Kill(s)
      PROVE  HoldsThePassword(u)'
  <2>1. Spares(s, u)
    BY <1>1, PwSpares, AdSpares, IiSpares, CdSpares, ExSpares, KillSpares
    DEF Step, Type
  <2> QED
    BY <2>1, SparedKeeps
<1>2. CASE Step(u) \/ Type(u)
  <2>1. CASE PwSteps(u) \/ PwStart(u, NativeScheme(Contents))
    BY <2>1, OwnPassword
  <2>2. CASE AdSteps(u) \/ AdStart(u, NativeScheme(Contents))
    BY <2>2, OwnAccount
  <2>3. CASE ~(\/ PwSteps(u) \/ PwStart(u, NativeScheme(Contents))
               \/ AdSteps(u) \/ AdStart(u, NativeScheme(Contents)))
    <3>1. pc'[u] \notin {"pw_auth", "pw_new", "pw_again", "pw_encode", "pw_admin", "pw_savenew",
                         "ad_command", "ad_send"}
      BY <1>2, <2>3 DEF Step, Type, IiSteps, IiStart, IiPrompt, IiRead, IiOpen,
         IiWrite, IiReload, IiConnect, IiAuthenticate, IiExit, CdSteps, CdAuthenticate,
         CdStart, CdHome, Ipwd, CdConnect, CdCheck, CdOpen, CdWrite, CdExit,
         ExSteps, ExStart, ExRemoveAuth, ExRemoveToken, Goto, Exit, Start, TypeOK
    <3> QED
      BY <3>1 DEF HoldsThePassword
  <2> QED
    BY <2>1, <2>2, <2>3
<1>3. CASE Kill(u)
  BY <1>3 DEF Kill, Exit, TypeOK, HoldsThePassword
<1>4. CASE AdminSetsPassword
  BY <1>4 DEF AdminSetsPassword, InWindow, CredentialsAgree, HoldsThePassword,
              pwVars, files, IsNativePw, Plain
<1>5. CASE CollectionsChange \/ UNCHANGED vars
  BY <1>5 DEF CollectionsChange, vars, CredentialsAgree, HoldsThePassword,
              pwVars, files, server, IsNativePw, Plain
<1> QED
  BY <1>1, <1>2, <1>3, <1>4, <1>5 DEF Next

\* Unless another process interferes during its work, a native ipasswd encodes
\* with the account's password and saves the password the server now has, and a
\* native iadmin encodes with the account's password or the temporary one.
THEOREM CredentialsSafe == Spec => []CredentialsAgree
<1>1. Init => CredentialsAgree
  BY DEF Init, CredentialsAgree, HoldsThePassword
<1>2. TypeOK /\ CredentialsAgree /\ [Next]_vars => CredentialsAgree'
  BY CredentialsStep
<1> QED
  BY <1>1, <1>2, TypeCorrect, PTL DEF Spec

\* Hence only a disturbed ipasswd or iadmin, one of another scheme, or an iadmin
\* that was given the key or found a temporary password, can turn a password
\* into one nobody typed, and only with a long password.
THEOREM GarbledCauses == Spec => GarbledHasCause
<1>1. ASSUME TypeOK, CredentialsAgree, [Next]_vars,
             \/ serverPw' # serverPw /\ serverPw' = Garbled
             \/ otherPw' # otherPw /\ otherPw' = Garbled
      PROVE  \E s \in Shells : SendsUnchecked(s)
  <2> USE DEF files, server, pwVars
  <2>1. PICK s \in Shells : (PwSteps(s) /\ UNCHANGED otherPw) \/ AdSteps(s)
    BY <1>1, SessionAssumption
    DEF Next, Step, Type, Kill, AdminSetsPassword, CollectionsChange, vars,
        IiSteps, IiStart, IiPrompt, IiRead, IiOpen, IiWrite, IiReload,
        IiConnect, IiAuthenticate, IiStay, CdSteps, CdAuthenticate, CdStart, CdHome, Ipwd,
        CdConnect, CdCheck, CdOpen, CdWrite, OnlyReads, ExSteps, ExStart,
        ExRemoveAuth, ExRemoveToken, PwStart, PwStay, AdStart
  <2>2. (PwAdmin(s) /\ UNCHANGED otherPw) \/ AdSend(s)
    BY <1>1, <2>1, SessionAssumption
    DEF PwSteps, PwConnect, PwSaveCurrent, PwAuthenticate, PwNew, PwAgain,
        PwEncode, PwSaveNew, PwExit, PwStay,
        AdSteps, AdConnect, AdAuthenticate, AdEncode, AdQuit
  <2>3. pc[s] \in {"pw_admin", "ad_send"} /\ ~KeyFits(s) /\ ~Padded(newPw[s])
    BY <1>1, <2>2, SessionAssumption DEF PwAdmin, AdSend, PwExit, TypeOK, PwType
  <2>4. newPw[s] \in LongPasswords
    BY <1>1, <2>3 DEF Padded, TypeOK, PwType, Passwords
  <2>5. \/ s \in disturbed \/ ~IsNativePw(s)
        \/ pc[s] = "ad_send" /\ ("typed" \in opts[s] \/ key[s] = Temporary)
    BY <1>1, <2>3 DEF KeyFits, CredentialsAgree, HoldsThePassword
  <2> QED
    BY <2>3, <2>4, <2>5 DEF SendsUnchecked
<1>2. TypeOK /\ CredentialsAgree /\ [Next]_vars
        => [serverPw' = Garbled => \E s \in Shells : SendsUnchecked(s)]_serverPw
  BY <1>1
<1>3. TypeOK /\ CredentialsAgree /\ [Next]_vars
        => [otherPw' = Garbled => \E s \in Shells : SendsUnchecked(s)]_otherPw
  BY <1>1
<1> QED
  BY <1>2, <1>3, TypeCorrect, CredentialsSafe, PTL DEF Spec, GarbledHasCause
============================================================================
