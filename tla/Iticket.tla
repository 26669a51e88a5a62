------------------------------ MODULE Iticket ------------------------------
(***************************************************************************)
(* iticket's commands (iticket.cpp, doCommand).  Changes are single calls; *)
(* a listing is up to three queries with sub-queries for each row, every   *)
(* one of which that finds something overwrites lastCommandStatus.         *)
(***************************************************************************)
EXTENDS CommandLoop

VARIABLE printedRows    \* the listing printed a ticket

TicketInit == printedRows = FALSE

\* doTicketOp.
DoTicketOp(ok) == Call(ok) /\ Recorded(ok) /\ Return(0)

\* create, with a path that may not be usable.
Create ==
    /\ pc = "command" /\ cmd = "create"
    /\ \/ Unrecorded(FALSE) /\ Return(-2) /\ UNCHANGED connected
       \/ \E ok \in BOOLEAN : DoTicketOp(ok)
    /\ UNCHANGED <<loopVars, cmd, printedRows>>

\* delete and mod.
ChangeTicket ==
    /\ pc = "command" /\ cmd = "ticket"
    /\ \E ok \in BOOLEAN : DoTicketOp(ok)
    /\ UNCHANGED <<loopVars, cmd, printedRows>>

\* ls looks for tickets of data objects first, ls-all has one query only.
ListTickets ==
    /\ pc = "command" /\ cmd \in {"ls", "ls-all"}
    /\ pc' = IF cmd = "ls" THEN "data" ELSE "basic"
    /\ printedRows' = FALSE
    /\ UNCHANGED <<loopVars, cmd, ret, exit, lastCommandStatus, connected, history>>

\* ... then of collections, then of targets that are gone.
NextPart ==
    IF pc = "data" THEN pc' = "collection" /\ UNCHANGED <<ret, exit>>
    ELSE IF pc = "collection" /\ ~printedRows'
    THEN pc' = "basic" /\ UNCHANGED <<ret, exit>>
    ELSE Return(0)

\* printResultsAndSubQuery: ok is the last query, clean all of them.
PrintResults(ok, clean) ==
    /\ Record(ok)
    /\ refused' = IF ok THEN {} ELSE refused
    /\ Failing(clean)

\* showTickets1, to its last page.  Nothing found: nothing is recorded.
\* Otherwise the last of the queries, of the tickets or of the restrictions
\* of one of them, is what lastCommandStatus tells of, whatever the earlier
\* ones came to.  After an error on a later page of tickets the row count is
\* read through the null pointer freeGenQueryOut left.
ShowTickets1 ==
    /\ pc \in {"data", "collection", "basic"}
    /\ \/ /\ connected
          /\ UNCHANGED <<lastCommandStatus, connected, history, printedRows>>
          /\ NextPart
       \/ \E ok, clean, rows \in BOOLEAN :
            /\ ok => rows
            /\ clean => ok
            /\ rows => connected
            /\ Call(ok)
            /\ PrintResults(ok, clean)
            /\ printedRows' = IF rows THEN TRUE ELSE printedRows
            /\ NextPart
       \/ /\ connected
          /\ End(Crashed)
          /\ failed' = TRUE
          /\ printedRows' = TRUE
          /\ UNCHANGED <<ret, lastCommandStatus, connected, refused>>
    /\ UNCHANGED <<loopVars, cmd>>

TicketSteps == Create \/ ChangeTicket \/ ListTickets \/ ShowTickets1
============================================================================
