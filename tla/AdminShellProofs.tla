-------------------------- MODULE AdminShellProofs --------------------------
(***************************************************************************)
(* What holds of every run of iadmin, iticket and igroupadmin, however     *)
(* many lines the input has: the types, that a program started with a      *)
(* command reads no other (ReadsNoCommand), and what the exit statuses 0   *)
(* and 4 tell (ExitTells, FourAfterFailure).                               *)
(***************************************************************************)
EXTENDS AdminShell, TLAPS

\* The statuses doCommand returns to a loop that would go on reading are
\* those that end it: the others belong to iadmin, or to an empty command.
LoopInv ==
    /\ OneCommand /\ tool = "iadmin" => ~keepGoing
    /\ OneCommand /\ pc # "end" => firstTime /\ cmd = given
    /\ OneCommand /\ keepGoing /\ pc = "returned" => ret \in {0, -1, -2}
    /\ ReadsNoCommand

\* What is refused without a record until the loop sees doCommand's -2.
Reported ==
    IF OneCommand /\ pc = "returned" /\ ret = -2
    THEN {"modrepl", "gridconfig", "create"} ELSE {}

\* lastCommandStatus tells of everything but that, from the start to the end.
StatusInv ==
    /\ exit = Running \/ pc = "end"
    /\ pc = "setup" => lastCommandStatus = 0 /\ refused = {}
    /\ pc # "end" /\ lastCommandStatus = 0 => refused \subseteq Untold \union Reported
    /\ lastCommandStatus # 0 => failed
    /\ pc = "returned" /\ ret = -2 => failed
    /\ pc = "user" => lastCommandStatus = Error
    /\ ExitTells
    /\ FourAfterFailure

-----------------------------------------------------------------------------

\* Only iadmin's commands return something else than 0, -1, -2 and -3.
LEMMA OnlyIadmin ==
    ASSUME TypeOK, cmd \in {"query", "delayinfo", "byname"}
    PROVE  tool = "iadmin"
  BY CommandLoopAssumption DEF TypeOK, CommandsOf

\* A line read when the input has one more.
LEMMA NextLine ==
    ASSUME TypeOK
    PROVE  /\ lines' = lines => lines' \in 0..MaxLines
           /\ lines < MaxLines /\ lines' = lines + 1 => lines' \in 0..MaxLines
  BY CommandLoopAssumption DEF TypeOK

\* Every program starts with the types.
LEMMA TypeInit == ASSUME Init PROVE TypeOK
<1> USE DEF Init, LoopInit
<1>1. /\ tool \in Tools
      /\ given \in CommandsOf(tool)
      /\ cmd \in CommandsOf(tool)
      /\ refused \in SUBSET CommandsOf(tool)
  OBVIOUS
<1>2. pc \in {"setup", "command", "returned", "input", "end", "user", "general",
               "prompt", "data", "collection", "basic"}
  OBVIOUS
<1>3. keepGoing \in BOOLEAN
  OBVIOUS
<1>4. /\ firstTime \in BOOLEAN
      /\ connected \in BOOLEAN
      /\ failed \in BOOLEAN
      /\ printedRows \in BOOLEAN
  BY DEF TicketInit
<1>5. /\ ret \in {0, 1, -1, -2, -3, Error}
      /\ lastCommandStatus \in {0, Error}
  OBVIOUS
<1>6. lines \in 0..MaxLines
  BY CommandLoopAssumption
<1>7. exit \in {Running, Crashed} \union 0..8
  OBVIOUS
<1> QED
  BY <1>1, <1>2, <1>3, <1>4, <1>5, <1>6, <1>7 DEF TypeOK

\* Every step of a program keeps the types.
LEMMA TypeNext == ASSUME TypeOK, [Next]_vars PROVE TypeOK'
<1> USE DEF TypeOK, loopVars, history, End, Return
<1>1. CASE Setup /\ UNCHANGED printedRows
  BY <1>1 DEF Setup, SetupFailures
<1>2. CASE Common /\ UNCHANGED printedRows
  BY <1>2 DEF Common, Local
<1>3. CASE AfterCommand /\ UNCHANGED printedRows
  <2> USE DEF AfterCommand
  <2>1. lastCommandStatus' \in {0, Error} /\ firstTime' \in BOOLEAN
    BY <1>3
  <2>2. keepGoing' \in BOOLEAN
    BY <1>3
  <2>3. /\ pc' \in {"input", "end"}
        /\ exit' = exit \/ exit' = 0 \/ exit' = 4
    BY <1>3 DEF ExitCode
  <2>4. /\ UNCHANGED <<tool, given, cmd, ret, connected, lines, refused, failed>>
        /\ UNCHANGED printedRows
    BY <1>3
  <2> HIDE DEF AfterCommand, End
  <2> QED
    BY <2>1, <2>2, <2>3, <2>4
<1>4. CASE GetInput /\ UNCHANGED printedRows
  <2>1. {"quit"} \subseteq CommandsOf(tool)
    BY DEF CommandsOf
  <2> QED
    BY <1>4, <2>1, CommandLoopAssumption DEF GetInput, ExitCode
<1>5. CASE IadminSteps /\ UNCHANGED printedRows
  <2> USE DEF Call, Record, Recorded, Unrecorded, Failing, GeneralAdmin
  <2>1. CASE Change
    BY <1>5, <2>1 DEF Change
  <2>2. CASE Group
    BY <1>5, <2>2 DEF Group
  <2>3. CASE RemoveUnused
    BY <1>5, <2>3 DEF RemoveUnused
  <2>4. CASE SpecificQuery
    BY <1>5, <2>4 DEF SpecificQuery
  <2>5. CASE ModifyReplica
    BY <1>5, <2>5 DEF ModifyReplica, InvalidUnless
  <2>6. CASE GridConfig
    BY <1>5, <2>6 DEF GridConfig, InvalidUnless
  <2>7. CASE DelayServerInfo
    BY <1>5, <2>7 DEF DelayServerInfo
  <2>8. CASE ListByName
    BY <1>5, <2>8 DEF ListByName
  <2>9. CASE List
    BY <1>5, <2>9 DEF List
  <2>10. CASE Password
    BY <1>5, <2>10 DEF Password
  <2>11. CASE Confirmed
    BY <1>5, <2>11 DEF Confirmed
  <2>12. CASE Answer
    <3> USE DEF Answer
    <3>1. lines' \in 0..MaxLines
      <4>1. PICK line \in {"end of input", "yes", "other"} :
              /\ line # "end of input" => lines < MaxLines
              /\ lines' = IF line = "end of input" THEN lines ELSE lines + 1
        BY <2>12
      <4> QED
        BY <4>1, NextLine
    <3>2. /\ pc' \in {"general", "returned"}
          /\ ret' = ret \/ ret' = 0
          /\ exit' = exit
      BY <1>5, <2>12
    <3> QED
      BY <1>5, <2>12, <3>1, <3>2
  <2>13. CASE AfterAnswer
    BY <1>5, <2>13 DEF AfterAnswer
  <2> QED
    BY <1>5, <2>1, <2>2, <2>3, <2>4, <2>5, <2>6, <2>7, <2>8, <2>9, <2>10,
       <2>11, <2>12, <2>13
    DEF IadminSteps
<1>6. CASE TicketSteps
  <2> USE DEF Call, Record, Recorded, Unrecorded, Failing, DoTicketOp
  <2>1. CASE Create
    BY <1>6, <2>1 DEF Create
  <2>2. CASE ChangeTicket
    BY <1>6, <2>2 DEF ChangeTicket
  <2>3. CASE ListTickets
    BY <1>6, <2>3 DEF ListTickets
  <2>4. CASE ShowTickets1
    <3> USE DEF ShowTickets1, PrintResults
    <3>1. /\ pc' \in {"collection", "basic", "returned", "end"}
          /\ ret' = ret \/ ret' = 0
          /\ exit' = exit \/ exit' = Crashed
      BY <1>6, <2>4 DEF NextPart
    <3>2. /\ lastCommandStatus' \in {0, Error}
          /\ refused' = refused \/ refused' = {}
      BY <1>6, <2>4
    <3>3. connected' \in BOOLEAN
      BY <1>6, <2>4
    <3>4. failed' \in BOOLEAN /\ printedRows' \in BOOLEAN
      BY <1>6, <2>4
    <3> QED
      BY <1>6, <2>4, <3>1, <3>2, <3>3, <3>4
  <2> QED
    BY <1>6, <2>1, <2>2, <2>3, <2>4 DEF TicketSteps
<1>7. CASE GroupSteps /\ UNCHANGED printedRows
  <2> USE DEF Call, Unrecorded, Failing, UserAdmin
  <2>1. CASE MakeUser
    <3> USE DEF MakeUser
    <3>1. /\ pc' \in {"returned", "end"}
          /\ ret' = ret \/ ret' = 0
          /\ exit' = exit \/ exit' = 1
      BY <1>7, <2>1
    <3>2. refused' = refused \/ refused' = refused \union {cmd}
      BY <1>7, <2>1
    <3>3. connected' \in BOOLEAN /\ failed' \in BOOLEAN
      BY <1>7, <2>1
    <3>4. /\ UNCHANGED <<loopVars, cmd, lastCommandStatus>>
          /\ UNCHANGED printedRows
      BY <1>7, <2>1
    <3> HIDE DEF MakeUser, End, Return, Call, Unrecorded, Failing, UserAdmin
    <3> QED
      BY <3>1, <3>2, <3>3, <3>4
  <2>2. CASE Member
    BY <1>7, <2>2 DEF Member
  <2>3. CASE ShowGroup
    BY <1>7, <2>3 DEF ShowGroup
  <2> QED
    BY <1>7, <2>1, <2>2, <2>3 DEF GroupSteps
<1>8. CASE UNCHANGED vars
  BY <1>8 DEF vars
<1> QED
  BY <1>1, <1>2, <1>3, <1>4, <1>5, <1>6, <1>7, <1>8 DEF Next

\* Every variable keeps its type, for inputs of any length.
THEOREM TypeCorrect == Spec => []TypeOK
<1>1. Init => TypeOK
  BY TypeInit
<1>2. TypeOK /\ [Next]_vars => TypeOK'
  BY TypeNext
<1> QED
  BY <1>1, <1>2, PTL DEF Spec
-----------------------------------------------------------------------------

\* A step of doCommand that stays in it, or returns what a loop that would
\* read on does not go on after.
LEMMA StaysFirst ==
    ASSUME TypeOK, LoopInv, pc \notin {"returned", "input", "end"},
           UNCHANGED <<given, tool, keepGoing, firstTime, cmd>>,
           pc' # "input",
           pc' = "returned" => \/ ret' \in {0, -1, -2}
                               \/ tool = "iadmin"
                               \/ cmd = "empty"
    PROVE  LoopInv'
  BY DEF TypeOK, LoopInv, OneCommand, ReadsNoCommand

\* Every step keeps LoopInv.
LEMMA LoopNext == ASSUME TypeOK, LoopInv, [Next]_vars PROVE LoopInv'
<1> USE DEF loopVars, history
<1>1. CASE Setup
  BY <1>1, StaysFirst DEF Setup, End
<1>2. CASE Common
  BY <1>2, StaysFirst DEF Common, Local, Return
<1>3. CASE AfterCommand
  BY <1>3 DEF AfterCommand, End, TypeOK, LoopInv, OneCommand, ReadsNoCommand
<1>4. CASE GetInput
  BY <1>4 DEF GetInput, LoopInv, OneCommand, ReadsNoCommand
<1>5. CASE IadminSteps
  <2> USE DEF Return
  <2>1. CASE Change
    BY <2>1, StaysFirst DEF Change
  <2>2. CASE Group
    BY <2>2, StaysFirst DEF Group
  <2>3. CASE RemoveUnused
    BY <2>3, StaysFirst DEF RemoveUnused
  <2>4. CASE SpecificQuery
    BY <2>4, StaysFirst, OnlyIadmin DEF SpecificQuery
  <2>5. CASE ModifyReplica
    BY <2>5, StaysFirst DEF ModifyReplica, InvalidUnless
  <2>6. CASE GridConfig
    BY <2>6, StaysFirst DEF GridConfig, InvalidUnless
  <2>7. CASE DelayServerInfo
    BY <2>7, StaysFirst, OnlyIadmin DEF DelayServerInfo
  <2>8. CASE ListByName
    BY <2>8, StaysFirst, OnlyIadmin DEF ListByName
  <2>9. CASE List
    BY <2>9, StaysFirst DEF List
  <2>10. CASE Password
    BY <2>10, StaysFirst DEF Password
  <2>11. CASE Confirmed
    BY <2>11, StaysFirst DEF Confirmed
  <2>12. CASE Answer
    BY <2>12, StaysFirst DEF Answer
  <2>13. CASE AfterAnswer
    BY <2>13, StaysFirst DEF AfterAnswer
  <2> QED
    BY <1>5, <2>1, <2>2, <2>3, <2>4, <2>5, <2>6, <2>7, <2>8, <2>9, <2>10,
       <2>11, <2>12, <2>13
    DEF IadminSteps
<1>6. CASE TicketSteps
  <2> USE DEF DoTicketOp, Return
  <2>1. CASE Create
    BY <2>1, StaysFirst DEF Create
  <2>2. CASE ChangeTicket
    BY <2>2, StaysFirst DEF ChangeTicket
  <2>3. CASE ListTickets
    BY <2>3, StaysFirst DEF ListTickets
  <2>4. CASE ShowTickets1
    BY <2>4, StaysFirst DEF ShowTickets1, NextPart, End
  <2> QED
    BY <1>6, <2>1, <2>2, <2>3, <2>4 DEF TicketSteps
<1>7. CASE GroupSteps
  <2> USE DEF UserAdmin, Return, End
  <2>1. CASE MakeUser
    BY <2>1, StaysFirst DEF MakeUser
  <2>2. CASE Member
    BY <2>2, StaysFirst DEF Member
  <2>3. CASE ShowGroup
    BY <2>3, StaysFirst DEF ShowGroup
  <2> QED
    BY <1>7, <2>1, <2>2, <2>3 DEF GroupSteps
<1>8. CASE UNCHANGED vars
  BY <1>8 DEF vars, LoopInv, OneCommand, ReadsNoCommand
<1> QED
  BY <1>1, <1>2, <1>3, <1>4, <1>5, <1>6, <1>7, <1>8 DEF Next

\* A program started with a command does not read another one: whatever
\* doCommand returns for it ends the loop of main.
THEOREM OneCommandOnly == Spec => []ReadsNoCommand
<1>1. Init => LoopInv
  BY DEF Init, LoopInit, LoopInv, OneCommand, ReadsNoCommand
<1>2. TypeOK /\ LoopInv /\ [Next]_vars => LoopInv'
  BY LoopNext
<1>3. LoopInv => ReadsNoCommand
  BY DEF LoopInv
<1> QED
  BY <1>1, <1>2, <1>3, TypeCorrect, PTL DEF Spec
-----------------------------------------------------------------------------

\* doCommand goes on or returns: no exit status yet.
InCommand ==
    /\ pc \notin {"setup", "returned", "input", "end"}
    /\ pc' \notin {"setup", "input", "end", "user"}
    /\ UNCHANGED <<given, exit>>

\* What a call with a recorded status does, ...
LEMMA RecordedStep ==
    ASSUME TypeOK, StatusInv, InCommand, NEW ok \in BOOLEAN, Recorded(ok),
           ret' # -2 \/ pc' # "returned"
    PROVE  StatusInv'
  BY DEF TypeOK, StatusInv, InCommand, Recorded, Record, Failing, Error,
         Running, ExitTells, FourAfterFailure

\* ... one without, ...
LEMMA UnrecordedStep ==
    ASSUME TypeOK, StatusInv, InCommand, NEW ok \in BOOLEAN, Unrecorded(ok),
           \/ ok
           \/ lastCommandStatus # 0
           \/ cmd \in Untold \union Reported',
           ret' = -2 /\ pc' = "returned" => ~ok
    PROVE  StatusInv'
  BY DEF TypeOK, StatusInv, InCommand, Unrecorded, Failing, Error,
         Running, ExitTells, FourAfterFailure, Untold, Reported, OneCommand

\* ... and a step without one.
LEMMA QuietStep ==
    ASSUME TypeOK, StatusInv, InCommand,
           UNCHANGED <<lastCommandStatus, refused>>,
           failed => failed',
           ret' = -2 /\ pc' = "returned" => failed'
    PROVE  StatusInv'
  BY DEF TypeOK, StatusInv, InCommand, Error,
         Running, ExitTells, FourAfterFailure, Untold, Reported, OneCommand
\* Every step keeps StatusInv.
LEMMA StatusNext ==
    ASSUME TypeOK, LoopInv, StatusInv, [Next]_vars
    PROVE  StatusInv'
<1> USE DEF loopVars, history
<1>1. CASE Setup
  BY <1>1 DEF Setup, SetupFailures, End, ExitTells, FourAfterFailure, StatusInv
<1>2. CASE Common
  BY <1>2, QuietStep DEF Common, Local, Return, InCommand
<1>3. CASE AfterCommand
  <2> USE DEF AfterCommand
  <2>1. /\ UNCHANGED <<given, refused, failed>>
        /\ pc = "returned"
        /\ \/ pc' = "input" /\ exit' = exit
           \/ pc' = "end" /\ exit' = ExitCode(lastCommandStatus')
    BY <1>3 DEF End
  <2>2. lastCommandStatus' = 0 => lastCommandStatus = 0 /\ refused \subseteq Untold
    BY <1>3 DEF LoopInv, StatusInv, Reported, Error
  <2>3. lastCommandStatus' # 0 => failed
    BY <1>3 DEF StatusInv
  <2> QED
    BY <2>1, <2>2, <2>3
    DEF StatusInv, ExitCode, ExitTells, FourAfterFailure, Untold, Reported,
        OneCommand, Running
<1>4. CASE GetInput
  BY <1>4
  DEF GetInput, End, ExitCode, StatusInv, ExitTells, FourAfterFailure, Untold,
      Reported, OneCommand, Running
<1>5. CASE IadminSteps
  <2> USE DEF Return, GeneralAdmin, InCommand
  <2>1. CASE Change
    BY <2>1, RecordedStep DEF Change
  <2>2. CASE Group
    <3>1. CASE pc' = "user"
      BY <2>2, <3>1
      DEF Group, Record, StatusInv, Reported, Running, Error, ExitTells,
          FourAfterFailure
    <3>2. CASE pc = "command" /\ pc' # "user"
      <4>1. PICK ok \in BOOLEAN : Recorded(ok) /\ Return(0)
        BY <2>2, <3>2 DEF Group
      <4> QED
        BY <2>2, <3>2, <4>1, RecordedStep DEF Group
    <3>3. CASE pc = "user" /\ pc' # "user"
      <4>1. lastCommandStatus # 0
        BY <3>3 DEF StatusInv, Error
      <4> QED
        BY <2>2, <3>3, <4>1, UnrecordedStep DEF Group
    <3> QED
      BY <2>2, <3>1, <3>2, <3>3 DEF Group
  <2>3. CASE RemoveUnused
    <3>1. pc = "command" /\ pc' = "returned" /\ ret' = 0 /\ UNCHANGED <<given, exit>>
      BY <2>3 DEF RemoveUnused
    <3>2. InCommand
      BY <3>1
    <3>3. ret' # -2
      BY <3>1
    <3>4. \E ok \in BOOLEAN : Recorded(ok)
      <4>1. PICK answer \in {"removed", "nothing to remove", "error"} :
              Recorded(answer # "error")
        BY <2>3 DEF RemoveUnused
      <4> QED
        BY <4>1 DEF Recorded, Record, Failing
    <3> HIDE DEF InCommand
    <3> QED
      BY <3>2, <3>3, <3>4, RecordedStep
  <2>4. CASE SpecificQuery
    BY <2>4, RecordedStep DEF SpecificQuery, Error
  <2>5. CASE ModifyReplica \/ GridConfig
    <3>1. PICK ok \in BOOLEAN : Unrecorded(ok) /\ Return(IF ok THEN 0 ELSE -2)
      BY <2>5 DEF ModifyReplica, GridConfig, InvalidUnless
    <3>2. InCommand /\ cmd \in {"modrepl", "gridconfig"}
      BY <2>5 DEF ModifyReplica, GridConfig, InvalidUnless
    <3>3. ok \/ cmd \in Untold \union Reported'
      BY <3>1, <3>2 DEF Untold, Reported, OneCommand
    <3> QED
      BY <3>1, <3>2, <3>3, UnrecordedStep
  <2>6. CASE DelayServerInfo \/ ListByName \/ List
    <3>1. failed => failed'
      BY <2>6 DEF DelayServerInfo, ListByName, List, Failing
    <3>2. ret' \in {0, 1, Error}
      BY <2>6 DEF DelayServerInfo, ListByName, List
    <3>3. ret' # -2
      BY <3>2 DEF Error
    <3> QED
      BY <2>6, <3>1, <3>3, QuietStep DEF DelayServerInfo, ListByName, List
  <2>10. CASE Password
    <3>1. CASE Unrecorded(FALSE) /\ Return(0)
      BY <2>10, <3>1, UnrecordedStep DEF Password, Untold
    <3>2. CASE pc' \in {"general", "prompt"}
      <4>1. /\ pc = "command"
            /\ UNCHANGED <<given, exit, lastCommandStatus, refused, failed>>
        BY <2>10, <3>2 DEF Password
      <4> QED
        BY <3>2, <4>1, QuietStep
    <3> QED
      BY <2>10, <3>1, <3>2 DEF Password
  <2>11. CASE Confirmed
    BY <2>11, QuietStep DEF Confirmed
  <2>12. CASE Answer
    <3>1. \/ pc' = "general" /\ exit' = exit
          \/ pc' = "returned" /\ ret' = 0 /\ exit' = exit
      BY <2>12 DEF Answer
    <3>2. /\ pc = "prompt"
          /\ UNCHANGED <<given, lastCommandStatus, refused, failed>>
      BY <2>12 DEF Answer
    <3> QED
      BY <3>1, <3>2, QuietStep
  <2>13. CASE AfterAnswer
    BY <2>13, RecordedStep DEF AfterAnswer
  <2> QED
    BY <1>5, <2>1, <2>2, <2>3, <2>4, <2>5, <2>6, <2>10, <2>11, <2>12, <2>13
    DEF IadminSteps
<1>6. CASE TicketSteps
  <2> USE DEF DoTicketOp, Return, InCommand
  <2>1. CASE Create
    <3>1. CASE Unrecorded(FALSE) /\ Return(-2)
      <4>1. cmd \in Untold \union Reported'
        BY <2>1, <3>1 DEF Create, Untold, Reported, OneCommand
      <4> QED
        BY <2>1, <3>1, <4>1, UnrecordedStep DEF Create
    <3>2. CASE \E ok \in BOOLEAN : DoTicketOp(ok)
      BY <2>1, <3>2, RecordedStep DEF Create
    <3> QED
      BY <2>1, <3>1, <3>2 DEF Create
  <2>2. CASE ChangeTicket
    BY <2>2, RecordedStep DEF ChangeTicket
  <2>3. CASE ListTickets
    BY <2>3, QuietStep DEF ListTickets
  <2>4. CASE ShowTickets1
    <3>1. pc \in {"data", "collection", "basic"} /\ UNCHANGED given
      BY <2>4 DEF ShowTickets1
    <3>2. CASE End(Crashed) /\ failed' = TRUE
      BY <2>4, <3>2
      DEF ShowTickets1, End, StatusInv, Crashed, ExitTells, FourAfterFailure
    <3>3. CASE NextPart /\ UNCHANGED <<lastCommandStatus, history>>
      <4>1. InCommand /\ (pc' = "returned" => ret' = 0)
        BY <3>1, <3>3 DEF NextPart
      <4> QED
        BY <3>3, <4>1, QuietStep
    <3>4. CASE /\ NextPart
               /\ \E ok, clean \in BOOLEAN :
                    /\ clean => ok
                    /\ PrintResults(ok, clean)
      <4>1. InCommand /\ (pc' = "returned" => ret' = 0)
        BY <3>1, <3>4 DEF NextPart
      <4>2. \/ lastCommandStatus' = 0 /\ refused' = {} /\ (failed => failed')
            \/ lastCommandStatus' = Error /\ failed'
        BY <3>4 DEF PrintResults, Record, Failing
      <4> QED
        BY <4>1, <4>2 DEF StatusInv, Error, Running, ExitTells, FourAfterFailure
    <3> QED
      BY <2>4, <3>2, <3>3, <3>4 DEF ShowTickets1
  <2> QED
    BY <1>6, <2>1, <2>2, <2>3, <2>4 DEF TicketSteps
<1>7. CASE GroupSteps
  <2> USE DEF UserAdmin, Return, InCommand
  <2>1. CASE MakeUser
    <3>1. CASE End(1) /\ Unrecorded(FALSE)
      BY <2>1, <3>1
      DEF MakeUser, End, Unrecorded, Failing, StatusInv, ExitTells, FourAfterFailure
    <3>2. CASE \E ok \in BOOLEAN : Unrecorded(ok) /\ Return(0)
      BY <2>1, <3>2, UnrecordedStep DEF MakeUser, Untold
    <3> QED
      BY <2>1, <3>1, <3>2 DEF MakeUser
  <2>2. CASE Member
    BY <2>2, UnrecordedStep DEF Member, Untold
  <2>3. CASE ShowGroup
    <3>1. CASE End(Crashed) /\ failed' = TRUE
      BY <2>3, <3>1
      DEF ShowGroup, End, StatusInv, Crashed, ExitTells, FourAfterFailure
    <3>2. CASE \E ok \in BOOLEAN : Failing(ok) /\ Return(0)
      <4>1. ret' = 0 /\ pc' = "returned" /\ exit' = exit /\ (failed => failed')
        BY <3>2 DEF Failing
      <4>2. pc = "command" /\ UNCHANGED <<given, lastCommandStatus, refused>>
        BY <2>3 DEF ShowGroup
      <4> QED
        BY <4>1, <4>2, QuietStep
    <3> QED
      BY <2>3, <3>1, <3>2 DEF ShowGroup
  <2> QED
    BY <1>7, <2>1, <2>2, <2>3 DEF GroupSteps
<1>8. CASE UNCHANGED vars
  BY <1>8
  DEF vars, StatusInv, Reported, Untold, OneCommand, ExitTells, FourAfterFailure
<1> QED
  BY <1>1, <1>2, <1>3, <1>4, <1>5, <1>6, <1>7, <1>8 DEF Next

\* At exit status 0 the server refused nothing but what is not told, at exit
\* status 4 something failed, whatever the commands and their number.
THEOREM ExitStatusTells == Spec => []ExitTells /\ []FourAfterFailure
<1>1. Init => LoopInv /\ StatusInv
  <2>1. Init => LoopInv
    BY DEF Init, LoopInit, LoopInv, OneCommand, ReadsNoCommand
  <2>2. Init => StatusInv
    <3> SUFFICES ASSUME Init PROVE StatusInv
      OBVIOUS
    <3>1. pc = "setup" /\ exit = Running /\ lastCommandStatus = 0 /\ refused = {}
      BY DEF Init, LoopInit
    <3> QED
      BY <3>1 DEF StatusInv, Running, ExitTells, FourAfterFailure
  <2> QED
    BY <2>1, <2>2
<1>2. TypeOK /\ LoopInv /\ StatusInv /\ [Next]_vars => LoopInv' /\ StatusInv'
  BY LoopNext, StatusNext
<1>3. LoopInv /\ StatusInv => ExitTells /\ FourAfterFailure
  BY DEF StatusInv
<1> QED
  BY <1>1, <1>2, <1>3, TypeCorrect, PTL DEF Spec

\* A shell that ends with 4, "at least one of the commands failed", had one
\* that failed.
THEOREM FourTells == Spec => []FourAfterFailure
BY ExitStatusTells, PTL
=============================================================================
