---------------------------- MODULE Igroupadmin ----------------------------
(***************************************************************************)
(* igroupadmin's commands (igroupadmin.cpp, doCommand): no status of a     *)
(* call is ever recorded.                                                  *)
(***************************************************************************)
EXTENDS CommandLoop

\* userAdmin.
UserAdmin(ok) == Call(ok) /\ Unrecorded(ok) /\ Return(0)

\* mkuser: not with no-scramble on an old server; a password needs the
\* groupadmin's own to be encoded with, and the program exits without it.
MakeUser ==
    /\ pc = "command" /\ cmd = "mkuser"
    /\ \/ Unrecorded(FALSE) /\ Return(0) /\ UNCHANGED connected
       \/ /\ End(1)
          /\ Unrecorded(FALSE)
          /\ UNCHANGED <<ret, connected>>
       \/ \E ok \in BOOLEAN : UserAdmin(ok)
    /\ UNCHANGED <<loopVars, cmd>>

\* atg, rfg and mkgroup.
Member ==
    /\ pc = "command" /\ cmd = "member"
    /\ \E ok \in BOOLEAN : UserAdmin(ok)
    /\ UNCHANGED <<loopVars, cmd>>

\* lg: if the first query fails, what is printed is read through a pointer
\* that was never set.
ShowGroup ==
    /\ pc = "command" /\ cmd = "lg"
    /\ \/ \E ok \in BOOLEAN : Call(ok) /\ Failing(ok) /\ Return(0)
       \/ End(Crashed) /\ failed' = TRUE /\ UNCHANGED <<ret, connected>>
    /\ UNCHANGED <<loopVars, cmd, lastCommandStatus, refused>>

GroupSteps == MakeUser \/ Member \/ ShowGroup
============================================================================
