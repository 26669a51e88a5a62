------------------------- MODULE SharedFilesProofs -------------------------
(***************************************************************************)
(* What the programs of module Session leave in the files they share, for  *)
(* every set of shells: the settings iinit writes, the collection icd      *)
(* stores, who may bring .irodsA back, and the working collection.         *)
(***************************************************************************)
EXTENDS SessionProofs

---------------------------------------------------------------------------
(* The environment file *)

\* An iinit that nobody overlaps: what it works with is what it is to write, and
\* after its truncation the file is empty until it writes.
OwnSettings(u) ==
    /\ pc[u] = "ii_prompt" => myEnv[u] = Contents
    /\ pc[u] = "ii_read" =>
         /\ myEnv[u] = Merge(Contents, update[u])
         /\ \/ u \in EnvVarShells
            \/ update[u]["required"] # Unset
            \/ Contents["required"] = "given"
    /\ pc[u] \in {"ii_open", "ii_write"} =>
         /\ merged[u] = myEnv[u]
         /\ \/ u \in EnvVarShells
            \/ update[u]["required"] = "blank"
            \/ merged[u]["required"] = "given"
    /\ pc[u] = "ii_write" => envFile = Empty

EnvInv == \A u \in Shells : u \notin overlapped => OwnSettings(u)

\* What shell s does leaves the iinit of shell u alone, except that u is marked
\* when the environment file changes in its window.
SparesEnv(s, u) ==
    /\ pc'[u] = pc[u]
    /\ myEnv'[u] = myEnv[u] /\ update'[u] = update[u] /\ merged'[u] = merged[u]
    /\ u \in overlapped => u \in overlapped'
    /\ InEnvWindow(u) => u \in overlapped' \/ UNCHANGED envFile

LEMMA SparedSettings ==
    ASSUME EnvInv, NEW s \in Shells, NEW u \in Shells, SparesEnv(s, u), (u \notin overlapped)'
    PROVE  OwnSettings(u)'
<1>1. OwnSettings(u) /\ (InEnvWindow(u) => UNCHANGED envFile)
  BY DEF SparesEnv, EnvInv
<1>2. CASE InEnvWindow(u)
  BY <1>1, <1>2 DEF SparesEnv, OwnSettings, Contents
<1>3. CASE ~InEnvWindow(u)
  BY <1>3 DEF SparesEnv, OwnSettings, InEnvWindow
<1> QED
  BY <1>2, <1>3

\* The programs that do not write the environment file.
LEMMA NotIinit ==
    ASSUME TypeOK, NEW s \in Shells, UNCHANGED iiVars,
           \/ PwSteps(s) \/ PwStart(s, NativeScheme(Contents))
           \/ AdSteps(s) \/ AdStart(s, NativeScheme(Contents))
           \/ CdSteps(s) \/ CdAuthenticate(s, NativeScheme(Contents))
           \/ CdStart(s) \/ CdHome(s) \/ Ipwd(s)
           \/ ExSteps(s) \/ ExStart(s)
    PROVE  /\ \A u \in Shells \ {s} : SparesEnv(s, u)
           /\ pc'[s] \notin {"ii_prompt", "ii_read", "ii_open", "ii_write"}
<1> USE DEF TypeOK, SparesEnv, iiVars
<1>1. CASE PwSteps(s) \/ PwStart(s, NativeScheme(Contents))
  <2> USE DEF PwExit, PwDone, Goto, Exit, Start
  <2>1. CASE PwStart(s, NativeScheme(Contents)) \/ PwConnect(s) \/ PwSaveCurrent(s)
    BY <2>1 DEF PwStart, PwConnect, PwSaveCurrent
  <2>2. CASE PwAuthenticate(s) \/ PwNew(s) \/ PwAgain(s)
    BY <2>2 DEF PwAuthenticate, PwNew, PwAgain
  <2>3. CASE PwEncode(s) \/ PwAdmin(s) \/ PwSaveNew(s)
    BY <2>3 DEF PwEncode, PwAdmin, PwSaveNew
  <2> QED
    BY <1>1, <2>1, <2>2, <2>3 DEF PwSteps
<1>2. CASE CdSteps(s) \/ CdAuthenticate(s, NativeScheme(Contents)) \/ CdStart(s)
  BY <1>2 DEF CdSteps, CdConnect, CdAuthenticate, CdCheck, CdOpen, CdWrite, CdStart, CdExit,
              Goto, Exit, Start
<1>3. CASE CdHome(s) \/ Ipwd(s)
  BY <1>3 DEF CdHome, Ipwd
<1>4. CASE ExSteps(s) \/ ExStart(s)
  BY <1>4 DEF ExSteps, ExRemoveAuth, ExRemoveToken, ExStart, Goto, Exit
<1>5. CASE AdSteps(s) \/ AdStart(s, NativeScheme(Contents))
  BY <1>5 DEF AdSteps, AdStart, AdConnect, AdAuthenticate, AdEncode, AdSend, AdQuit,
              PwExit, PwDone, Goto, Exit, Start
<1> QED
  BY <1>1, <1>2, <1>3, <1>4, <1>5

LEMMA WriteMarks ==
    ASSUME NEW s \in Shells, NEW content, WriteEnvFile(s, content), NEW u \in Shells \ {s}
    PROVE  /\ u \in overlapped => u \in overlapped'
           /\ InEnvWindow(u) => u \in overlapped'
BY DEF WriteEnvFile

LEMMA IinitSpares ==
    ASSUME TypeOK, NEW s \in Shells, IiSteps(s) \/ IiStart(s), NEW u \in Shells \ {s}
    PROVE  SparesEnv(s, u)
<1> USE DEF TypeOK, IiType, SparesEnv, Goto, Exit, IiExit, IiForget, Start
<1>1. CASE IiStart(s) \/ IiPrompt(s) \/ IiRead(s)
  BY <1>1 DEF IiStart, IiPrompt, IiRead
<1>2. CASE IiOpen(s) \/ IiWrite(s)
  <2>1. /\ pc'[u] = pc[u]
        /\ myEnv'[u] = myEnv[u] /\ update'[u] = update[u] /\ merged'[u] = merged[u]
    BY <1>2 DEF IiOpen, IiWrite
  <2>2. (\E content : WriteEnvFile(s, content)) \/ UNCHANGED <<envFile, overlapped>>
    BY <1>2 DEF IiOpen, IiWrite
  <2> QED
    BY <2>1, <2>2, WriteMarks
<1>3. CASE IiReload(s) \/ IiConnect(s) \/ IiAuthenticate(s)
  BY <1>3 DEF IiReload, IiConnect, IiAuthenticate
<1> QED
  BY <1>1, <1>2, <1>3 DEF IiSteps

\* iinit's own steps.
LEMMA OwnIinit ==
    ASSUME TypeOK, EnvInv, NEW s \in Shells, IiSteps(s) \/ IiStart(s), (s \notin overlapped)'
    PROVE  OwnSettings(s)'
<1> USE DEF TypeOK, IiType, Goto, Exit, IiExit, IiForget, Start
<1>1. CASE IiStart(s)
  <2>1. pc'[s] = "ii_prompt" /\ myEnv'[s] = Contents /\ envFile' = envFile
    BY <1>1 DEF IiStart
  <2> QED
    BY <2>1 DEF OwnSettings, Contents
<1>2. CASE IiPrompt(s)
  <2>1. CASE IiExit(s, 1)
    <3>1. pc'[s] = "idle"
      BY <2>1
    <3> QED
      BY <3>1 DEF OwnSettings
  <2>2. ASSUME NEW new \in Env, Missing(s) <=> new["required"] # Unset,
               update' = [update EXCEPT ![s] = new],
               myEnv' = [myEnv EXCEPT ![s] = Merge(@, new)], Goto(s, "ii_read")
        PROVE  OwnSettings(s)'
    <3>1. /\ pc'[s] = "ii_read" /\ update'[s] = new /\ myEnv'[s] = Merge(myEnv[s], new)
          /\ UNCHANGED <<envFile, overlapped>>
      BY <1>2, <2>2 DEF IiPrompt
    <3>2. myEnv[s] = Contents
      BY <1>2, <3>1 DEF IiPrompt, EnvInv, OwnSettings
    <3>3. \/ s \in EnvVarShells
          \/ new["required"] # Unset
          \/ Contents["required"] = "given"
      BY <2>2, <3>2 DEF Missing
    <3> QED
      BY <3>1, <3>2, <3>3 DEF OwnSettings, Contents
  <2> QED
    BY <1>2, <2>1, <2>2 DEF IiPrompt
<1>3. CASE IiRead(s)
  <2>1. /\ pc[s] = "ii_read" /\ pc'[s] = "ii_open" /\ merged'[s] = Merge(Contents, update[s])
        /\ UNCHANGED <<envFile, myEnv, update, overlapped>>
    BY <1>3 DEF IiRead
  <2>2. /\ myEnv[s] = Merge(Contents, update[s])
        /\ \/ s \in EnvVarShells
           \/ update[s]["required"] # Unset
           \/ Contents["required"] = "given"
    BY <2>1 DEF EnvInv, OwnSettings
  <2>3. merged'[s]["required"] = IF update[s]["required"] = Unset THEN Contents["required"]
                                 ELSE update[s]["required"]
    BY <2>1 DEF Merge, Settings
  <2>4. update[s]["required"] \in {"blank", "given", Unset}
    BY DEF Env, Settings, ValuesOf
  <2> QED
    BY <2>1, <2>2, <2>3, <2>4 DEF OwnSettings
<1>4. CASE IiOpen(s)
  <2>1. /\ pc[s] = "ii_open" /\ UNCHANGED <<myEnv, update, merged>>
        /\ \/ pc'[s] = "ii_write" /\ envFile' = Empty
           \/ pc'[s] = "ii_reload"
    BY <1>4 DEF IiOpen, WriteEnvFile
  <2>2. s \notin overlapped
    BY <1>4, <2>1 DEF IiOpen, WriteEnvFile
  <2> QED
    BY <2>1, <2>2 DEF EnvInv, OwnSettings
<1>5. CASE IiWrite(s) \/ IiReload(s) \/ IiConnect(s) \/ IiAuthenticate(s)
  <2>1. pc'[s] \in {"ii_reload", "ii_connect", "ii_auth", "idle"}
    BY <1>5 DEF IiWrite, IiReload, IiConnect, IiAuthenticate
  <2> QED
    BY <2>1 DEF OwnSettings
<1> QED
  BY <1>1, <1>2, <1>3, <1>4, <1>5 DEF IiSteps

LEMMA EnvInvStep == TypeOK /\ EnvInv /\ [Next]_vars => EnvInv'
<1> SUFFICES ASSUME TypeOK, EnvInv, [Next]_vars, NEW u \in Shells, (u \notin overlapped)'
             PROVE  OwnSettings(u)'
  BY DEF EnvInv
<1>1. ASSUME NEW s \in Shells, Step(s) \/ Type(s) PROVE OwnSettings(u)'
  <2>1. CASE IiSteps(s) \/ IiStart(s)
    BY <2>1, IinitSpares, OwnIinit, SparedSettings
  <2>2. CASE ~(IiSteps(s) \/ IiStart(s))
    <3>1. /\ \A t \in Shells \ {s} : SparesEnv(s, t)
          /\ pc'[s] \notin {"ii_prompt", "ii_read", "ii_open", "ii_write"}
      BY <1>1, <2>2, NotIinit DEF Step, Type
    <3>2. CASE u = s
      BY <3>1, <3>2 DEF OwnSettings
    <3> QED
      BY <3>1, <3>2, SparedSettings
  <2> QED
    BY <2>1, <2>2
<1>2. ASSUME NEW s \in Shells, Kill(s) PROVE OwnSettings(u)'
  <2>1. CASE u = s
    <3>1. pc'[s] = "idle"
      BY <1>2 DEF Kill, Exit, TypeOK
    <3> QED
      BY <2>1, <3>1 DEF OwnSettings
  <2>2. CASE u # s
    <3>1. SparesEnv(s, u)
      BY <1>2, <2>2 DEF Kill, Exit, IiForget, TypeOK, IiType, SparesEnv
    <3> QED
      BY <3>1, SparedSettings
  <2> QED
    BY <2>1, <2>2
<1>3. CASE AdminSetsPassword \/ CollectionsChange \/ UNCHANGED vars
  <2>1. UNCHANGED <<pc, iiVars>>
    BY <1>3 DEF AdminSetsPassword, CollectionsChange, vars
  <2> QED
    BY <2>1 DEF iiVars, EnvInv, OwnSettings, Contents
<1> QED
  BY <1>1, <1>2, <1>3 DEF Next

\* Throughout every run the iinits hold what EnvInv says of the environment
\* file they read and of their copy of it.
THEOREM EnvInvAlways == Spec => []EnvInv
<1>1. Init => EnvInv
  BY DEF Init, EnvInv, OwnSettings
<1> QED
  BY <1>1, EnvInvStep, TypeCorrect, PTL DEF Spec

\* RequiredComplete: what configure_required_settings asks for is what the file
\* lacks, for any number of iinits.
THEOREM RequiredAsked == Spec => []RequiredComplete
<1>1. EnvInv => RequiredComplete
  BY DEF EnvInv, OwnSettings, RequiredComplete
<1> QED
  BY <1>1, EnvInvAlways, PTL

\* SettingsKept: an iinit that nobody overlaps writes the settings it works with,
\* or leaves a file that cannot be read.
THEOREM SettingsWritten == Spec => SettingsKept
<1>1. ASSUME TypeOK, EnvInv, [Next]_vars, NEW s \in Shells,
             pc[s] = "ii_write", pc'[s] # pc[s], s \notin overlapped, envFile' \in Env
      PROVE  envFile' = myEnv[s]
  <2>1. merged[s] = myEnv[s] /\ envFile = Empty /\ Empty \notin Env
    BY <1>1, IinitAssumption DEF EnvInv, OwnSettings
  <2>2. Broken \notin Env
    BY IinitAssumption
  <2>3. ASSUME NEW t \in Shells, Step(t) \/ Type(t) \/ Kill(t) PROVE envFile' \in {envFile, merged[s], Broken}
    <3>1. CASE t # s
      <4>1. pc'[s] = pc[s]
        <5>1. CASE IiSteps(t) \/ IiStart(t)
          BY <1>1, <3>1, <5>1, IinitSpares DEF SparesEnv
        <5>2. CASE Kill(t)
          BY <1>1, <3>1, <5>2 DEF Kill, Exit, TypeOK
        <5> QED
          BY <1>1, <2>3, <3>1, <5>1, <5>2, NotIinit DEF Step, Type, SparesEnv
      <4> QED
        BY <1>1, <4>1
    <3>2. CASE t = s
      <4>1. CASE IiSteps(s) \/ IiStart(s)
        <5>1. IiWrite(s)
          BY <1>1, <4>1 DEF IiSteps, IiStart, IiPrompt, IiRead, IiOpen, IiReload, IiConnect,
                            IiAuthenticate, Start
        <5> QED
          BY <5>1 DEF IiWrite, WriteEnvFile
      <4> QED
        BY <2>3, <3>2, <4>1 DEF Step, Type, Kill, iiVars
    <3> QED
      BY <3>1, <3>2
  <2>4. CASE AdminSetsPassword \/ CollectionsChange \/ UNCHANGED vars
    BY <1>1, <2>4 DEF AdminSetsPassword, CollectionsChange, vars
  <2> QED
    BY <1>1, <2>1, <2>2, <2>3, <2>4 DEF Next
<1>2. TypeOK /\ EnvInv /\ [Next]_vars =>
        [\A s \in Shells :
           /\ pc[s] = "ii_write" /\ pc'[s] # pc[s] /\ s \notin overlapped
           /\ envFile' \in Env
           => envFile' = myEnv[s]]_vars
  BY <1>1
<1> QED
  BY <1>2, EnvInvAlways, TypeCorrect, PTL DEF Spec, SettingsKept

---------------------------------------------------------------------------
(* The credentials *)

\* An ipasswd that encoded its new password took the key from .irodsA, which is
\* there until somebody else touches it.
KeyInv ==
    \A u \in Shells :
        /\ pc[u] \in {"pw_admin", "pw_savenew"} /\ ~Plain(u) /\ u \notin disturbed
        => authFile # NoFile

LEMMA OwnKey ==
    ASSUME TypeOK, KeyInv, NEW s \in Shells,
           PwSteps(s) \/ PwStart(s, NativeScheme(Contents)),
           pc'[s] \in {"pw_admin", "pw_savenew"}, ~Plain(s)', (s \notin disturbed)'
    PROVE  authFile' # NoFile
<1> USE DEF TypeOK, PwType, Goto, Exit, PwExit, PwDone, Start, PwStay, files, pwVars
<1>1. PwEncode(s) \/ PwAdmin(s)
  BY DEF PwSteps, PwStart, PwConnect, PwSaveCurrent, PwAuthenticate, PwNew, PwAgain, PwSaveNew
<1>2. CASE PwEncode(s)
  BY <1>2 DEF PwEncode, Plain
<1>3. CASE PwAdmin(s)
  <2>1. /\ pc[s] = "pw_admin" /\ opts'[s] = opts[s] /\ authFile' = authFile
        /\ DisturbOthers(s)
    BY <1>3 DEF PwAdmin
  <2> QED
    BY <2>1 DEF KeyInv, Plain, DisturbOthers
<1> QED
  BY <1>1, <1>2, <1>3

LEMMA KeyInvStep == TypeOK /\ KeyInv /\ [Next]_vars => KeyInv'
<1> SUFFICES ASSUME TypeOK, KeyInv, [Next]_vars, NEW u \in Shells,
                    pc'[u] \in {"pw_admin", "pw_savenew"}, ~Plain(u)', (u \notin disturbed)'
             PROVE  authFile' # NoFile
  BY DEF KeyInv
<1>1. ASSUME NEW s \in Shells \ {u}, Step(s) \/ Type(s) \/ Kill(s)
      PROVE  authFile' # NoFile
  <2>1. Spares(s, u)
    BY <1>1, PwSpares, AdSpares, IiSpares, CdSpares, ExSpares, KillSpares DEF Step, Type
  <2> QED
    BY <2>1 DEF Spares, KeyInv, InWindow, Plain
<1>2. CASE Step(u) \/ Type(u)
  <2>1. PwSteps(u) \/ PwStart(u, NativeScheme(Contents))
    BY <1>2 DEF Step, Type, IiSteps, IiStart, IiPrompt, IiRead, IiOpen,
       IiWrite, IiReload, IiConnect, IiAuthenticate, IiExit, CdSteps, CdAuthenticate,
       CdStart, CdHome, Ipwd, CdConnect, CdCheck, CdOpen, CdWrite, CdExit,
       ExSteps, ExStart, ExRemoveAuth, ExRemoveToken, Goto, Exit, Start, TypeOK,
       AdSteps, AdStart, AdConnect, AdAuthenticate, AdEncode, AdSend, AdQuit, PwExit, PwDone
  <2> QED
    BY <2>1, OwnKey
<1>3. ~Kill(u)
  BY DEF Kill, Exit, TypeOK
<1>4. CASE AdminSetsPassword
  BY <1>4 DEF AdminSetsPassword, KeyInv, pwVars, files, Plain
<1>5. CASE CollectionsChange \/ UNCHANGED vars
  BY <1>5 DEF CollectionsChange, vars, KeyInv, pwVars, files, Plain
<1> QED
  BY <1>1, <1>2, <1>3, <1>4, <1>5 DEF Next

\* RestoredOnlyByLogin: .irodsA comes back only through a command that asks for a
\* password, or through an ipasswd that had it in hand or does not need it.
THEOREM RestoredByLogin == Spec => RestoredOnlyByLogin
<1> DEFINE ByLogin == \E s \in Shells : \/ pc[s] \in {"pw_save", "ii_auth"}
                                        \/ pc[s] = "pw_auth" /\ ~IsNativePw(s)
                                        \/ /\ pc[s] = "pw_savenew"
                                           /\ s \in disturbed \/ Plain(s)
<1>1. Init => KeyInv
  BY DEF Init, KeyInv
<1>2. ASSUME TypeOK, KeyInv, [Next]_vars, authFile = NoFile, authFile' # authFile
      PROVE  ByLogin
  <2> USE DEF files, server, PwStay, PwExit, IiStay, OnlyReads
  <2>1. PICK s \in Shells : Step(s) \/ Type(s)
    BY <1>2 DEF Next, Kill, AdminSetsPassword, CollectionsChange, vars
  <2>2. CASE PwSteps(s) \/ PwStart(s, NativeScheme(Contents))
    <3>1. PwSaveCurrent(s) \/ PwSaveNew(s) \/ PwAuthenticate(s)
      BY <1>2, <2>2 DEF PwSteps, PwStart, PwConnect, PwNew, PwAgain, PwEncode, PwAdmin
    <3>2. CASE PwSaveCurrent(s) \/ PwSaveNew(s)
      <4>1. pc[s] \in {"pw_save", "pw_savenew"}
        BY <3>2 DEF PwSaveCurrent, PwSaveNew
      <4> QED
        BY <1>2, <4>1 DEF KeyInv
    <3>3. CASE PwAuthenticate(s)
      <4>1. pc[s] = "pw_auth" /\ ~IsNativePw(s)
        BY <1>2, <3>3 DEF PwAuthenticate
      <4> QED
        BY <4>1
    <3> QED
      BY <3>1, <3>2, <3>3
  <2>3. CASE IiSteps(s) \/ IiStart(s)
    <3>1. IiAuthenticate(s)
      BY <1>2, <2>3 DEF IiSteps, IiStart, IiPrompt, IiRead, IiOpen, IiWrite, IiReload, IiConnect
    <3> QED
      BY <3>1 DEF IiAuthenticate
  <2>4. CASE \/ CdSteps(s) \/ CdAuthenticate(s, NativeScheme(Contents))
             \/ CdStart(s) \/ CdHome(s) \/ Ipwd(s)
    BY <1>2, <2>4 DEF CdSteps, CdConnect, CdAuthenticate, CdCheck, CdOpen, CdWrite, CdStart,
                      CdHome, Ipwd
  <2>5. CASE ExSteps(s) \/ ExStart(s)
    BY <1>2, <2>5 DEF ExSteps, ExRemoveAuth, ExRemoveToken, ExStart, WriteAuthFile
  <2>6. CASE AdSteps(s) \/ AdStart(s, NativeScheme(Contents))
    BY <1>2, <2>6 DEF AdSteps, AdStart, AdConnect, AdAuthenticate, AdEncode, AdSend, AdQuit
  <2> QED
    BY <2>1, <2>2, <2>3, <2>4, <2>5, <2>6 DEF Step, Type
<1>3. TypeOK /\ KeyInv /\ [Next]_vars => [authFile = NoFile => ByLogin]_authFile
  BY <1>2
<1> QED
  BY <1>1, <1>3, KeyInvStep, TypeCorrect, PTL DEF Spec, RestoredOnlyByLogin

---------------------------------------------------------------------------
(* The session file *)

Unshared(u) == \A t \in Shells \ {u} : SessionFileOf[t] # SessionFileOf[u]

\* Between the truncation and the write of an icd, nobody else touches a file
\* that is not shared.
OpenInv ==
    \A u \in Shells : Unshared(u) /\ pc[u] = "cd_write" => u \in linked /\ SessionNow(u) = Empty

\* What shell s does to the session files.
SparesSession(s, u) ==
    /\ pc'[u] = pc[u]
    /\ SessionFileOf[s] # SessionFileOf[u] =>
         /\ session'[SessionFileOf[u]] = session[SessionFileOf[u]]
         /\ u \in linked => u \in linked'

LEMMA SessionSpared ==
    ASSUME TypeOK, NEW s \in Shells, Step(s) \/ Type(s) \/ Kill(s), NEW u \in Shells \ {s}
    PROVE  SparesSession(s, u)
<1> USE SessionAssumption DEF TypeOK, SparesSession
<1>1. CASE Kill(s)
  BY <1>1 DEF Kill, Exit
<1>2. CASE PwSteps(s) \/ PwStart(s, NativeScheme(Contents))
  <2>1. UNCHANGED <<session, linked>>
    BY <1>2 DEF PwSteps, PwStart, PwConnect, PwSaveCurrent, PwAuthenticate, PwNew, PwAgain,
                PwEncode, PwAdmin, PwSaveNew, PwStay, PwExit, files
  <2>2. pc'[u] = pc[u]
    BY <1>2, PwSpares DEF Spares
  <2> QED
    BY <2>1, <2>2
<1>3. CASE IiSteps(s) \/ IiStart(s)
  <2>1. UNCHANGED <<session, linked>>
    BY <1>3 DEF IiSteps, IiStart, IiPrompt, IiRead, IiOpen, IiWrite, IiReload, IiConnect,
                IiAuthenticate, IiStay, files
  <2>2. pc'[u] = pc[u]
    BY <1>3, IinitSpares DEF SparesEnv
  <2> QED
    BY <2>1, <2>2
<1>4. CASE CdSteps(s) \/ CdAuthenticate(s, NativeScheme(Contents)) \/ CdStart(s)
  BY <1>4 DEF CdSteps, CdConnect, CdAuthenticate, CdCheck, CdOpen, CdWrite, CdStart, CdExit,
              OnlyReads, SetSession, Goto, Exit, Start, files
<1>5. CASE CdHome(s) \/ Ipwd(s)
  BY <1>5 DEF CdHome, Ipwd, OnlyReads, UnlinkSession, files
<1>6. CASE ExSteps(s) \/ ExStart(s)
  BY <1>6 DEF ExSteps, ExRemoveAuth, ExRemoveToken, ExStart, UnlinkSession, Goto, Exit
<1>7. CASE AdSteps(s) \/ AdStart(s, NativeScheme(Contents))
  <2>1. UNCHANGED <<session, linked>>
    BY <1>7 DEF AdSteps, AdStart, AdConnect, AdAuthenticate, AdEncode, AdSend, AdQuit, PwStay,
                PwExit, files
  <2>2. pc'[u] = pc[u]
    BY <1>7, AdSpares DEF Spares
  <2> QED
    BY <2>1, <2>2
<1> QED
  BY <1>1, <1>2, <1>3, <1>4, <1>5, <1>6, <1>7 DEF Step, Type

LEMMA OpenInvStep == TypeOK /\ OpenInv /\ [Next]_vars => OpenInv'
<1> SUFFICES ASSUME TypeOK, OpenInv, [Next]_vars, NEW u \in Shells, Unshared(u), pc'[u] = "cd_write"
             PROVE  u \in linked' /\ session'[SessionFileOf[u]] = Empty
  BY DEF OpenInv, SessionNow, Unshared
<1>1. ASSUME NEW s \in Shells \ {u}, Step(s) \/ Type(s) \/ Kill(s)
      PROVE  u \in linked' /\ session'[SessionFileOf[u]] = Empty
  <2>1. SparesSession(s, u)
    BY <1>1, SessionSpared
  <2> QED
    BY <2>1 DEF SparesSession, OpenInv, Unshared, SessionNow
<1>2. CASE Step(u) \/ Type(u)
  <2>1. CdOpen(u)
    BY <1>2 DEF Step, Type, PwSteps, PwStart, PwConnect, PwSaveCurrent, PwAuthenticate, PwNew, PwAgain,
       PwEncode, PwAdmin, PwSaveNew, PwExit, PwDone,
       IiSteps, IiStart, IiPrompt, IiRead, IiOpen,
       IiWrite, IiReload, IiConnect, IiAuthenticate, IiExit, CdSteps, CdAuthenticate,
       CdStart, CdHome, Ipwd, CdConnect, CdCheck, CdWrite, CdExit,
       ExSteps, ExStart, ExRemoveAuth, ExRemoveToken, Goto, Exit, Start, TypeOK,
       AdSteps, AdStart, AdConnect, AdAuthenticate, AdEncode, AdSend, AdQuit
  <2> QED
    BY <2>1, SessionAssumption DEF CdOpen, CdExit, Exit, SetSession, TypeOK
<1>3. ~Kill(u)
  BY DEF Kill, Exit, TypeOK
<1>4. CASE AdminSetsPassword \/ CollectionsChange \/ UNCHANGED vars
  BY <1>4 DEF AdminSetsPassword, CollectionsChange, vars, files, OpenInv, SessionNow
<1> QED
  BY <1>1, <1>2, <1>3, <1>4 DEF Next

\* IcdStores: in a session file that is not shared, success means that the
\* collection was stored.
THEOREM IcdSuccess == Spec => IcdStores
<1>1. Init => OpenInv
  BY DEF Init, OpenInv
<1>2. ASSUME TypeOK, OpenInv, [Next]_vars, NEW s \in Shells,
             pc[s] = "cd_write", pc'[s] = "idle", exit'[s] = 0, Unshared(s)
      PROVE  session'[SessionFileOf[s]] = target[s]
  <2>1. s \in linked /\ SessionNow(s) = Empty
    BY <1>2 DEF OpenInv
  <2>2. PICK t \in Shells : Step(t) \/ Type(t) \/ Kill(t)
    BY <1>2 DEF Next, AdminSetsPassword, CollectionsChange, vars
  <2>3. t = s
    BY <1>2, <2>2, SessionSpared DEF SparesSession
  <2>4. ~Kill(s)
    BY <1>2 DEF Kill, Exit, TypeOK, Killed
  <2>5. CdWrite(s)
    BY <1>2, <2>2, <2>3, <2>4 DEF Step, Type, PwSteps, PwStart, PwConnect, PwSaveCurrent,
       PwAuthenticate, PwNew, PwAgain, PwEncode, PwAdmin, PwSaveNew,
       IiSteps, IiStart, IiPrompt, IiRead, IiOpen,
       IiWrite, IiReload, IiConnect, IiAuthenticate, CdSteps, CdAuthenticate,
       CdStart, CdHome, Ipwd, CdConnect, CdCheck, CdOpen,
       ExSteps, ExStart, ExRemoveAuth, ExRemoveToken, Start,
       AdSteps, AdStart, AdConnect, AdAuthenticate, AdEncode, AdSend, AdQuit
  <2> QED
    BY <1>2, <2>1, <2>5, SessionAssumption DEF CdWrite, CdExit, Exit, SetSession, SessionNow, TypeOK
<1>3. TypeOK /\ OpenInv /\ [Next]_vars =>
        [\A s \in Shells :
           /\ pc[s] = "cd_write" /\ pc'[s] = "idle" /\ exit'[s] = 0
           /\ \A t \in Shells \ {s} : SessionFileOf[t] # SessionFileOf[s]
           => session'[SessionFileOf[s]] = target[s]]_vars
  BY <1>2 DEF Unshared
<1> QED
  BY <1>1, <1>3, OpenInvStep, TypeCorrect, PTL DEF Spec, IcdStores

---------------------------------------------------------------------------
(* The refinement: the session commands implement the working collection   *)
(* that module WorkingCollection promises, however the shells share the    *)
(* files.                                                                  *)

(* The inductive invariant: nothing but a collection that was found gets   *)
(* into a session file, because an icd past its check is after one.        *)

FilesVerified ==
    \A f \in SessionFiles :
        session[f] \in verified \union {NoFile, Empty, Broken}

TargetsVerified ==
    \A s \in Shells :
        pc[s] \in {"cd_open", "cd_write"} => target[s] \in verified

CwdInv == FilesVerified /\ TargetsVerified

\* What every step outside icd and iexit does.
LeavesCwd == UNCHANGED <<session, verified, target>>

LEMMA PwLeavesCwd ==
    ASSUME TypeOK, NEW s \in Shells,
           PwSteps(s) \/ PwStart(s, NativeScheme(Contents)), UNCHANGED cdVars
    PROVE  /\ LeavesCwd /\ UNCHANGED colls
           /\ \A u \in Shells : pc'[u] \in {"cd_open", "cd_write"} => pc'[u] = pc[u]
<1> USE DEF TypeOK, PwStay, PwExit, PwDone, Goto, Exit, Start, files, server,
        cdVars, LeavesCwd
<1>1. CASE PwStart(s, NativeScheme(Contents))
  BY <1>1 DEF PwStart
<1>2. CASE PwConnect(s) \/ PwSaveCurrent(s)
  BY <1>2 DEF PwConnect, PwSaveCurrent
<1>3. CASE PwAuthenticate(s) \/ PwNew(s)
  BY <1>3 DEF PwAuthenticate, PwNew
<1>4. CASE PwAgain(s) \/ PwEncode(s)
  BY <1>4 DEF PwAgain, PwEncode
<1>5. CASE PwAdmin(s) \/ PwSaveNew(s)
  BY <1>5 DEF PwAdmin, PwSaveNew
<1> QED
  BY <1>1, <1>2, <1>3, <1>4, <1>5 DEF PwSteps

LEMMA AdLeavesCwd ==
    ASSUME TypeOK, NEW s \in Shells,
           AdSteps(s) \/ AdStart(s, NativeScheme(Contents)), UNCHANGED cdVars
    PROVE  /\ LeavesCwd /\ UNCHANGED colls
           /\ \A u \in Shells : pc'[u] \in {"cd_open", "cd_write"} => pc'[u] = pc[u]
BY DEF AdSteps, AdStart, AdConnect, AdAuthenticate, AdEncode, AdSend, AdQuit, TypeOK,
       PwStay, PwExit, PwDone, Goto, Exit, Start, files, server, cdVars, LeavesCwd

LEMMA IiLeavesCwd ==
    ASSUME TypeOK, NEW s \in Shells, IiSteps(s) \/ IiStart(s), UNCHANGED cdVars
    PROVE  /\ LeavesCwd /\ UNCHANGED colls
           /\ \A u \in Shells : pc'[u] \in {"cd_open", "cd_write"} => pc'[u] = pc[u]
BY DEF TypeOK, IiSteps, IiStart, IiPrompt, IiRead, IiOpen, IiWrite, IiReload, IiConnect,
       IiAuthenticate, IiStay, IiExit, Goto, Exit, Start, files, server,
       cdVars, LeavesCwd

LEMMA OthersLeaveCwd ==
    ASSUME TypeOK, NEW s \in Shells,
           Kill(s) \/ ((ExRemoveAuth(s) \/ ExRemoveToken(s)) /\ UNCHANGED cdVars)
    PROVE  /\ UNCHANGED <<session, verified, colls>>
           /\ \A u \in Shells :
                pc'[u] \in {"cd_open", "cd_write"} => /\ pc'[u] = pc[u]
                                                      /\ target'[u] = target[u]
<1>1. CASE Kill(s)
  BY <1>1 DEF TypeOK, Kill, Exit, server
<1>2. CASE (ExRemoveAuth(s) \/ ExRemoveToken(s)) /\ UNCHANGED cdVars
  BY <1>2 DEF TypeOK, ExRemoveAuth, ExRemoveToken, Goto, Exit, server, cdVars
<1> QED
  BY <1>1, <1>2

\* One step of an icd, or of another program that removes the session file,
\* with what it does to the promise.
LEMMA CdStep ==
    ASSUME TypeOK, CwdInv, NEW s \in Shells,
           \/ CdSteps(s) \/ CdAuthenticate(s, NativeScheme(Contents))
           \/ CdStart(s) \/ CdHome(s) \/ Ipwd(s)
           \/ ExStart(s) /\ UNCHANGED cdVars
    PROVE  /\ CwdInv'
           /\ \/ \E c \in Collections : /\ c \in colls
                                        /\ verified' = verified \union {c}
                                        /\ UNCHANGED <<session, colls>>
              \/ /\ \E content \in verified \union {NoFile, Empty, Broken} :
                      session' = [session EXCEPT ![SessionFileOf[s]] = content]
                 /\ UNCHANGED <<verified, colls>>
<1> USE SessionAssumption
    DEF TypeOK, CwdInv, FilesVerified, TargetsVerified, CdExit, SetSession,
        UnlinkSession, OnlyReads, Goto, Exit, Start, files, server, cdVars
<1>1. CASE CdStart(s)
  BY <1>1 DEF CdStart
<1>2. CASE CdHome(s)
  BY <1>2 DEF CdHome
<1>3. CASE Ipwd(s)
  BY <1>3 DEF Ipwd
<1>4. CASE CdConnect(s)
  BY <1>4 DEF CdConnect
<1>5. CASE CdAuthenticate(s, NativeScheme(Contents))
  BY <1>5 DEF CdAuthenticate
<1>6. CASE CdCheck(s)
  BY <1>6 DEF CdCheck
<1>7. CASE CdOpen(s)
  BY <1>7 DEF CdOpen
<1>8. CASE CdWrite(s)
  BY <1>8 DEF CdWrite
<1>9. CASE ExStart(s) /\ UNCHANGED cdVars
  <2>1. /\ session' = [session EXCEPT ![SessionFileOf[s]] = NoFile]
        /\ UNCHANGED <<target, verified, colls>>
    BY <1>9 DEF ExStart
  <2>2. \A u \in Shells : pc'[u] \in {"cd_open", "cd_write"} => pc'[u] = pc[u]
    BY <1>9 DEF ExStart
  <2>3. CwdInv'
    BY <2>1, <2>2
  <2> QED
    BY <2>1, <2>3
<1> QED
  BY <1>1, <1>2, <1>3, <1>4, <1>5, <1>6, <1>7, <1>8, <1>9 DEF CdSteps

\* What a step of the system is for the promise: it finds a collection, or
\* one session file changes, or nothing it speaks of changes.
CwdStep ==
    \/ \E c \in Collections : /\ c \in colls
                              /\ verified' = verified \union {c}
                              /\ UNCHANGED <<session, colls>>
    \/ /\ \E f \in SessionFiles, content \in verified \union {NoFile, Empty, Broken} :
            session' = [session EXCEPT ![f] = content]
       /\ UNCHANGED <<verified, colls>>
    \/ UNCHANGED <<session, verified>> /\ colls' \in SUBSET Collections

LEMMA StepIsCwdStep ==
    TypeOK /\ CwdInv /\ [Next]_vars => CwdInv' /\ CwdStep
<1> SUFFICES ASSUME TypeOK, CwdInv, [Next]_vars PROVE CwdInv' /\ CwdStep
  OBVIOUS
<1>1. ASSUME UNCHANGED <<session, verified>>, colls' \in SUBSET Collections,
             \A u \in Shells : pc'[u] \in {"cd_open", "cd_write"} =>
                /\ pc'[u] = pc[u]
                /\ target'[u] = target[u]
      PROVE  CwdInv' /\ CwdStep
  BY <1>1 DEF CwdInv, FilesVerified, TargetsVerified, CwdStep
<1>2. colls \in SUBSET Collections
  BY DEF TypeOK
<1>3. ASSUME NEW s \in Shells, Step(s) \/ Type(s) \/ Kill(s)
      PROVE  CwdInv' /\ CwdStep
  <2> USE DEF cdVars, Step, Type
  <2>1. CASE /\ PwSteps(s) \/ PwStart(s, NativeScheme(Contents))
             /\ UNCHANGED cdVars
    BY <2>1, <1>1, <1>2, PwLeavesCwd DEF LeavesCwd
  <2>2. CASE (IiSteps(s) \/ IiStart(s)) /\ UNCHANGED cdVars
    BY <2>2, <1>1, <1>2, IiLeavesCwd DEF LeavesCwd
  <2>3. CASE Kill(s) \/ ((ExRemoveAuth(s) \/ ExRemoveToken(s)) /\ UNCHANGED cdVars)
    BY <2>3, <1>1, <1>2, OthersLeaveCwd
  <2>4. CASE \/ CdSteps(s) \/ CdAuthenticate(s, NativeScheme(Contents))
             \/ CdStart(s) \/ CdHome(s) \/ Ipwd(s)
             \/ ExStart(s) /\ UNCHANGED cdVars
    <3>1. SessionFileOf[s] \in SessionFiles
      BY SessionAssumption
    <3> QED
      BY <2>4, <3>1, CdStep DEF CwdStep
  <2>5. CASE /\ AdSteps(s) \/ AdStart(s, NativeScheme(Contents))
             /\ UNCHANGED cdVars
    BY <2>5, <1>1, <1>2, AdLeavesCwd DEF LeavesCwd
  <2> QED
    BY <1>3, <2>1, <2>2, <2>3, <2>4, <2>5 DEF ExSteps
<1>4. CASE AdminSetsPassword
  BY <1>4, <1>1, <1>2 DEF AdminSetsPassword, files, cdVars
<1>5. CASE CollectionsChange
  BY <1>5, <1>1 DEF CollectionsChange, files, cdVars
<1>6. CASE UNCHANGED vars
  BY <1>6, <1>1, <1>2 DEF vars, files, server, cdVars
<1> QED
  BY <1>3, <1>4, <1>5, <1>6 DEF Next

LEMMA CwdStepRefines ==
    ASSUME TypeOK, CwdInv, CwdStep
    PROVE  [WC!Next]_WC!vars
<1> USE SessionAssumption DEF WC!Next, WC!vars, Cwd
<1>1. ASSUME NEW c \in Collections, c \in colls,
             verified' = verified \union {c}, UNCHANGED <<session, colls>>
      PROVE  WC!Lookup(c)
  BY <1>1 DEF WC!Lookup
<1>2. ASSUME NEW f \in SessionFiles,
             NEW content \in verified \union {NoFile, Empty, Broken},
             session' = [session EXCEPT ![f] = content],
             UNCHANGED <<verified, colls>>
      PROVE  WC!Change(f)
  <2> DEFINE c == IF content \in Collections THEN content ELSE Home
  <2>1. c \in verified \union {Home}
    BY DEF TypeOK
  <2>2. [g \in SessionFiles |-> Cwd(g)]' = [[g \in SessionFiles |-> Cwd(g)] EXCEPT ![f] = c]
    BY <1>2 DEF TypeOK
  <2> QED
    BY <1>2, <2>1, <2>2 DEF WC!Change
<1>3. ASSUME UNCHANGED <<session, verified>>, colls' \in SUBSET Collections
      PROVE  WC!Server
  BY <1>3 DEF WC!Server
<1> QED
  BY <1>1, <1>2, <1>3 DEF CwdStep

\* Through truncations, short and overlapping writes, unlinks and kills of
\* any number of shells on any assignment of session files, the working
\* collection is home or a collection that icd found on the server.
THEOREM SessionImplementsWorkingCollection == Spec => WorkingCollectionSpec
<1>1. Init => WC!Init /\ CwdInv
  BY SessionAssumption
  DEF Init, WC!Init, CwdInv, FilesVerified, TargetsVerified, Cwd
<1>2. TypeOK /\ CwdInv /\ [Next]_vars => CwdInv' /\ [WC!Next]_WC!vars
  BY StepIsCwdStep, CwdStepRefines
<1> QED
  BY <1>1, <1>2, TypeCorrect, PTL DEF Spec, WC!Spec, WorkingCollectionSpec
============================================================================
