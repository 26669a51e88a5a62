------------------------------ MODULE Ipasswd ------------------------------
(***************************************************************************)
(* ipasswd: change the account's password on the server and the password   *)
(* saved in .irodsA (ipasswd.cpp, main).  The two are changed by separate  *)
(* steps, before and after the server is asked, and nothing locks .irodsA  *)
(* against the other shells.                                               *)
(***************************************************************************)
EXTENDS SessionState

CONSTANTS
    NoPw,       \* no password entered yet
    MaxTries    \* how often the new password is asked for: 3 in the code

ASSUME IpasswdAssumption ==
    /\ NoPw \notin Passwords \union {Temporary}
    /\ MaxTries \in Nat \ {0}

VARIABLES
    opts,    \* the scheme and options of each shell's ipasswd
    newPw,   \* the new password as first entered
    key,     \* the password the new one is encoded with
    tries    \* unusable new passwords entered so far

pwVars == <<opts, newPw, key, tries>>

PwType ==
    /\ opts \in [Shells -> SUBSET {"native", "force", "no-scramble", "own", "typed"}]
    /\ newPw \in [Shells -> Passwords \union {NoPw}]
    /\ key \in [Shells -> Passwords \union {Temporary, NoPw}]
    /\ tries \in [Shells -> 0..MaxTries]
    /\ \A s \in Shells :
         pc[s] \in {"pw_again", "pw_encode", "pw_admin", "pw_savenew", "ad_send"}
           => newPw[s] \in Passwords

PwInit ==
    /\ opts = [s \in Shells |-> {}]
    /\ newPw = [s \in Shells |-> NoPw]
    /\ key = [s \in Shells |-> NoPw]
    /\ tries = [s \in Shells |-> 0]

IsNativePw(s) == "native" \in opts[s]
Forced(s)     == "force" \in opts[s]
Plain(s)      == "no-scramble" \in opts[s]

\* The process is gone, and its locals with it.
PwForget(s) ==
    /\ opts' = [opts EXCEPT ![s] = {}]
    /\ newPw' = [newPw EXCEPT ![s] = NoPw]
    /\ key' = [key EXCEPT ![s] = NoPw]
    /\ tries' = [tries EXCEPT ![s] = 0]

PwDone(s, code) == Exit(s, code) /\ PwForget(s)

\* A step that changes nothing but the program itself.
PwStay == UNCHANGED <<files, server, disturbed>>

\* The program gives up or ends without touching anything.
PwExit(s, code) ==
    /\ PwDone(s, code)
    /\ disturbed' = disturbed \ {s}
    /\ UNCHANGED <<files, server>>

\* Options, getRodsEnv: isNative is the scheme the environment file names.
PwStart(s, isNative) ==
    /\ Start(s, "ipasswd", "pw_connect")
    /\ \E given \in SUBSET {"force", "no-scramble"} :
         opts' = [opts EXCEPT ![s] = IF isNative THEN given \union {"native"}
                                     ELSE given]
    /\ UNCHANGED <<newPw, key, tries>>
    /\ PwStay

\* rcConnect, then the version check of --no-scramble.
PwConnect(s) ==
    /\ pc[s] = "pw_connect"
    /\ \/ /\ Goto(s, IF IsNativePw(s) THEN "pw_save" ELSE "pw_auth")
          /\ UNCHANGED pwVars
          /\ PwStay
       \/ PwExit(s, 2)
       \/ Plain(s) /\ PwExit(s, 3)

\* obfSavePw of the current password as the user typed it, right or wrong.
PwSaveCurrent(s) ==
    /\ pc[s] = "pw_save"
    /\ \/ /\ \E typed \in Passwords : WriteAuthFile(s, typed)
          /\ Goto(s, "pw_auth")
          /\ UNCHANGED <<session, linked, token, server, pwVars>>
       \/ PwExit(s, 1)

\* authenticate_client: the native scheme uses what .irodsA holds by now, the
\* other schemes prompt and record a credential.  If it was the account's own
\* password, what came before does not matter any more.
PwAuthenticate(s) ==
    /\ pc[s] = "pw_auth"
    /\ \/ /\ \/ /\ IsNativePw(s)
                /\ NativeAuthCanSucceed
                /\ disturbed' = IF authFile = Temporary THEN disturbed
                                ELSE disturbed \ {s}
                /\ UNCHANGED <<authFile, token>>
             \/ ~IsNativePw(s) /\ RecordCredential(s)
          /\ Goto(s, "pw_new")
          /\ UNCHANGED <<session, linked, server, pwVars>>
       \/ PwExit(s, 7)

\* Mutant: the accepted password ends up in another buffer.
PwNewMisplaced(s) ==
    /\ pc[s] = "pw_new"
    /\ Goto(s, IF Forced(s) THEN "pw_encode" ELSE "pw_again")
    /\ UNCHANGED pwVars
    /\ PwStay

\* Mutant: a refused password starts the count over.
PwNewForever(s) ==
    /\ pc[s] = "pw_new"
    /\ \/ /\ newPw' = [newPw EXCEPT ![s] = CHOOSE pw \in Passwords : TRUE]
          /\ Goto(s, IF Forced(s) THEN "pw_encode" ELSE "pw_again")
          /\ UNCHANGED <<opts, key, tries>>
       \/ /\ tries' = [tries EXCEPT ![s] = (@ + 1) % MaxTries]
          /\ UNCHANGED <<pc, exit, opts, newPw, key>>
    /\ PwStay

\* One turn of the loop that asks for the new password: accepted, too short
\* or too long, or the end (end of file, or the last try was unusable too).
PwNew(s) ==
    /\ pc[s] = "pw_new"
    /\ \/ /\ \E typed \in Passwords : newPw' = [newPw EXCEPT ![s] = typed]
          /\ tries' = [tries EXCEPT ![s] = 0]
          /\ Goto(s, IF Forced(s) THEN "pw_encode" ELSE "pw_again")
          /\ UNCHANGED <<opts, key>>
          /\ PwStay
       \/ /\ tries[s] + 1 < MaxTries
          /\ tries' = [tries EXCEPT ![s] = @ + 1]
          /\ UNCHANGED <<pc, exit, opts, newPw, key>>
          /\ PwStay
       \/ PwExit(s, 8)

\* The new password must be entered twice.
PwAgain(s) ==
    /\ pc[s] = "pw_again"
    /\ \E typed \in Passwords \union {NoPw} :
         IF typed = newPw[s]
         THEN Goto(s, "pw_encode") /\ UNCHANGED pwVars /\ PwStay
         ELSE PwExit(s, 8)

\* Mutant: without .irodsA the password typed at the prompt is the key.
PwEncodeWithoutFile(s) ==
    /\ pc[s] = "pw_encode"
    /\ key' = [key EXCEPT ![s] = IF authFile = NoFile THEN serverPw ELSE authFile]
    /\ Goto(s, "pw_admin")
    /\ UNCHANGED <<opts, newPw, tries>>
    /\ PwStay

\* Unless --no-scramble was given, the new password is encoded with the
\* password .irodsA holds now.
PwEncode(s) ==
    /\ pc[s] = "pw_encode"
    /\ \/ /\ Plain(s) \/ authFile # NoFile
          /\ key' = IF Plain(s) THEN key ELSE [key EXCEPT ![s] = authFile]
          /\ Goto(s, "pw_admin")
          /\ UNCHANGED <<opts, newPw, tries>>
          /\ PwStay
       \/ ~Plain(s) /\ PwExit(s, 1)

\* Mutant: no password gets the padding.
PaddedNever(pw) == FALSE

Padded(pw) == pw \in ShortPasswords

KeyFits(s) == Plain(s) \/ key[s] = serverPw

\* Mutant: the new password is saved whatever the server answers.
PwAdminUnchecked(s) ==
    /\ pc[s] = "pw_admin"
    /\ \/ UNCHANGED <<server, disturbed>>
       \/ KeyFits(s) /\ serverPw' = newPw[s] /\ DisturbOthers(s) /\ UNCHANGED colls
    /\ Goto(s, "pw_savenew")
    /\ UNCHANGED <<files, pwVars>>

\* rcUserAdmin userpw.  The server decodes with the password it knows.  With
\* the wrong key it does not find the padding and refuses, but without
\* padding there is nothing to find.  The request may also fail, or be
\* carried out with the answer lost: that is only logged, and the exit
\* status is 0.
PwAdmin(s) ==
    /\ pc[s] = "pw_admin"
    /\ \/ PwExit(s, 0)
       \/ /\ KeyFits(s) \/ ~Padded(newPw[s])
          /\ serverPw' = IF KeyFits(s) THEN newPw[s] ELSE Garbled
          /\ \/ IsNativePw(s) /\ Goto(s, "pw_savenew") /\ UNCHANGED pwVars
             \/ PwDone(s, 0)
          /\ DisturbOthers(s)
          /\ UNCHANGED <<files, colls>>

\* obfSavePw of the new password; its result is not looked at.
PwSaveNew(s) ==
    /\ pc[s] = "pw_savenew"
    /\ \/ /\ WriteAuthFile(s, newPw[s])
          /\ PwDone(s, 0)
          /\ UNCHANGED <<session, linked, token, server>>
       \/ PwExit(s, 0)

PwSteps(s) ==
    \/ PwConnect(s) \/ PwSaveCurrent(s) \/ PwAuthenticate(s) \/ PwNew(s)
    \/ PwAgain(s) \/ PwEncode(s) \/ PwAdmin(s) \/ PwSaveNew(s)
=============================================================================
