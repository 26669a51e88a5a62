------------------------------ MODULE Moduser ------------------------------
(***************************************************************************)
(* iadmin moduser NAME password, when the user of the shells is an         *)
(* administrator: any number of such commands in one iadmin, for the       *)
(* user's own account or for another one (iadmin.cpp, main and doCommand). *)
(* Each encodes the new password with what .irodsA holds at that moment,   *)
(* as ipasswd does, and none writes .irodsA.  The locals of the command    *)
(* are those of ipasswd; opts says "own" when the account is the user's,   *)
(* "typed" when the key is not from .irodsA.                               *)
(***************************************************************************)
EXTENDS Ipasswd

VARIABLE otherPw   \* the password of the other account

AdInit == otherPw \in Passwords

\* Options, getRodsEnv: isNative is the scheme the environment file names.
AdStart(s, isNative) ==
    /\ Start(s, "iadmin", "ad_connect")
    /\ opts' = [opts EXCEPT ![s] = IF isNative THEN {"native"} ELSE {}]
    /\ UNCHANGED <<newPw, key, tries, otherPw>>
    /\ PwStay

AdConnect(s) ==
    /\ pc[s] = "ad_connect"
    /\ \/ Goto(s, "ad_auth") /\ UNCHANGED pwVars /\ PwStay
       \/ \E code \in {1, 2} : PwExit(s, code)
    /\ UNCHANGED otherPw

\* authenticate_client, and the question whether the user is an administrator.
AdAuthenticate(s) ==
    /\ pc[s] = "ad_auth"
    /\ \/ /\ IsNativePw(s) => NativeAuthCanSucceed
          /\ disturbed' = disturbed \ {s}
          /\ Goto(s, "ad_command")
          /\ UNCHANGED <<files, server, pwVars>>
       \/ \E code \in {3, 5, 6, 7, 8} : PwExit(s, code)
    /\ UNCHANGED otherPw

\* The new password is encoded with what .irodsA holds now, or else with a
\* password asked for, or with no-scramble not at all.
AdEncode(s) ==
    /\ pc[s] = "ad_command"
    /\ \E pw \in Passwords : newPw' = [newPw EXCEPT ![s] = pw]
    /\ \E whose \in SUBSET {"own"} :
         \/ /\ opts' = [opts EXCEPT ![s] = @ \union whose \union {"no-scramble"}]
            /\ UNCHANGED key
         \/ /\ authFile # NoFile
            /\ opts' = [opts EXCEPT ![s] = @ \union whose]
            /\ key' = [key EXCEPT ![s] = authFile]
         \/ /\ opts' = [opts EXCEPT ![s] = @ \union whose \union {"typed"}]
            /\ \E typed \in Passwords : key' = [key EXCEPT ![s] = typed]
    /\ Goto(s, "ad_send")
    /\ UNCHANGED <<tries, otherPw>>
    /\ PwStay

\* rcGeneralAdmin: as in PwAdmin the server decodes with the password of the
\* user who asks, refuses a wrong key if there is padding to find, and may fail.
AdSend(s) ==
    /\ pc[s] = "ad_send"
    /\ \/ UNCHANGED <<serverPw, otherPw, disturbed>>
       \/ /\ KeyFits(s) \/ ~Padded(newPw[s])
          /\ LET stored == IF KeyFits(s) THEN newPw[s] ELSE Garbled
             IN \/ /\ "own" \in opts[s]
                   /\ serverPw' = stored
                   /\ disturbed' = disturbed \union {t \in Shells : InWindow(t)}
                   /\ UNCHANGED otherPw
                \/ /\ "own" \notin opts[s]
                   /\ otherPw' = stored
                   /\ UNCHANGED <<serverPw, disturbed>>
    /\ Goto(s, "ad_command")
    /\ opts' = [opts EXCEPT ![s] = @ \intersect {"native"}]
    /\ newPw' = [newPw EXCEPT ![s] = NoPw]
    /\ key' = [key EXCEPT ![s] = NoPw]
    /\ UNCHANGED <<files, colls, tries>>

\* The end of the loop; module AdminShell tells when the status is which.
AdQuit(s) ==
    /\ pc[s] = "ad_command"
    /\ PwExit(s, 0) \/ PwExit(s, 4)
    /\ UNCHANGED otherPw

AdSteps(s) ==
    AdConnect(s) \/ AdAuthenticate(s) \/ AdEncode(s) \/ AdSend(s) \/ AdQuit(s)
=============================================================================
