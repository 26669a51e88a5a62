----------------------------- MODULE AdminShell -----------------------------
(***************************************************************************)
(* One run of iadmin, iticket or igroupadmin, from its command line to its *)
(* exit status.                                                            *)
(***************************************************************************)
EXTENDS Iadmin, Iticket, Igroupadmin

vars == <<loopVars, cmd, pc, ret, lastCommandStatus, connected, exit, history,
          printedRows>>

TypeOK ==
    /\ tool \in Tools
    /\ given \in CommandsOf(tool)
    /\ cmd \in CommandsOf(tool)
    /\ pc \in {"setup", "command", "returned", "input", "end", "user", "general",
               "prompt", "data", "collection", "basic"}
    /\ keepGoing \in BOOLEAN
    /\ firstTime \in BOOLEAN
    /\ ret \in {0, 1, -1, -2, -3, Error}
    /\ lastCommandStatus \in {0, Error}
    /\ connected \in BOOLEAN
    /\ lines \in 0..MaxLines
    /\ exit \in {Running, Crashed} \union 0..8
    /\ refused \in SUBSET CommandsOf(tool)
    /\ failed \in BOOLEAN
    /\ printedRows \in BOOLEAN

Init == LoopInit /\ TicketInit

Next ==
    \/ Setup /\ UNCHANGED printedRows
    \/ Common /\ UNCHANGED printedRows
    \/ AfterCommand /\ UNCHANGED printedRows
    \/ GetInput /\ UNCHANGED printedRows
    \/ IadminSteps /\ UNCHANGED printedRows
    \/ TicketSteps
    \/ GroupSteps /\ UNCHANGED printedRows

Spec == Init /\ [][Next]_vars

\* The program goes on: the calls return, and each question is answered or
\* the input ends.
FairSpec == Spec /\ WF_vars(Next)
-----------------------------------------------------------------------------
(* Properties *)

OneCommand == given # "empty"

\* Whose failure leaves no trace in lastCommandStatus: modrepl, the grid
\* configuration and an unusable path are told by doCommand's -2, which
\* counts for a command of the command line only; the user's call of atg and
\* rfg, a refused no-scramble and igroupadmin's commands not at all.
Untold ==
    {"password", "mkuser", "member"} \union
    IF OneCommand THEN {} ELSE {"modrepl", "gridconfig", "create"}

\* An exit status of 0 means that the server carried out every change that
\* was asked for, or that a later call was recorded as a success, or that the
\* change was of a kind that is not told.
ExitTells == exit = 0 => refused \subseteq Untold

\* An exit status of 4 means that something went wrong, though not which
\* command: an earlier failure is overwritten, by iticket's listings too.
FourAfterFailure == exit = 4 => failed

\* A program started with a command does not go on to read others: doCommand
\* returns 0, -1 or -2 for it wherever the loop depends on it.
ReadsNoCommand == OneCommand => pc # "input"

\* Every run ends: at "quit" or at the end of the input.
Terminates == <>(pc = "end")
=============================================================================
