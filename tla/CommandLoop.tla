---------------------------- MODULE CommandLoop ----------------------------
(***************************************************************************)
(* What iadmin, iticket and igroupadmin have in common: one connection, a  *)
(* command from the command line or commands from the standard input, and  *)
(* lastCommandStatus, from which the exit status is made.  doCommand of    *)
(* each is in modules Iadmin, Iticket and Igroupadmin; module AdminShell   *)
(* puts them together.                                                     *)
(***************************************************************************)
EXTENDS Integers

CONSTANTS
    Tools,      \* the programs of this instance
    MaxLines    \* lines on the standard input, a bound of the instance

ASSUME CommandLoopAssumption ==
    /\ Tools \subseteq {"iadmin", "iticket", "igroupadmin"}
    /\ MaxLines \in Nat

VARIABLES
    tool,       \* the program that runs
    given,      \* the kind of the command on the command line, or "empty"
    cmd,        \* the kind of the command in cmdToken
    pc,
    keepGoing,
    firstTime,
    ret,        \* what doCommand returned; Error for any iRODS error
    lastCommandStatus,  \* 0, or Error for whatever is not 0
    connected,  \* the connection has not broken
    lines,      \* lines read
    exit,       \* exit status, Running until there is one
    refused,    \* history: kinds of commands that asked for a change in vain,
                \* since the last call recorded as a success
    failed      \* history: a command failed or was not understood

loopVars == <<given, keepGoing, firstTime, lines, tool>>
history  == <<refused, failed>>

Error   == -1000
Running == -1
Crashed == 139

CommandsOf(t) ==
    {"help", "quit", "empty", "unknown"} \union
    CASE t = "iadmin" ->
           {"change", "group", "rum", "query", "modrepl", "gridconfig",
            "delayinfo", "list", "byname", "password", "confirmed"}
      [] t = "iticket" -> {"create", "ticket", "ls", "ls-all"}
      [] t = "igroupadmin" -> {"mkuser", "member", "lg"}

\* iadmin is interactive only without any argument, the others whenever the
\* command line did not hold a command.
LoopInit ==
    /\ tool \in Tools
    /\ given \in CommandsOf(tool)
    /\ cmd = given
    /\ pc = "setup"
    /\ keepGoing \in IF tool # "iadmin" THEN {TRUE}
                     ELSE IF given = "empty" THEN BOOLEAN ELSE {FALSE}
    /\ firstTime = TRUE
    /\ ret = 0
    /\ lastCommandStatus = 0
    /\ connected = TRUE
    /\ lines = 0
    /\ exit = Running
    /\ refused = {}
    /\ failed = FALSE

---------------------------------------------------------------------------

End(code) == pc' = "end" /\ exit' = code

\* doCommand returns.
Return(value) == pc' = "returned" /\ ret' = value /\ UNCHANGED exit

\* lastCommandStatus tells of the command just carried out or refused.
Record(ok) == lastCommandStatus' = IF ok THEN 0 ELSE Error

\* A call that asks the server for a change: carried out, refused, or the
\* connection breaks before or after the server carried it out.
Call(ok) ==
    \/ ok /\ connected /\ UNCHANGED connected
    \/ ~ok /\ connected' \in {connected, FALSE}

Failing(ok) == failed' = IF ok THEN failed ELSE TRUE

\* The change was asked for by a call whose status is recorded ...
Recorded(ok) ==
    /\ Record(ok)
    /\ refused' = IF ok THEN {} ELSE refused \union {cmd}
    /\ Failing(ok)

\* ... or is not.
Unrecorded(ok) ==
    /\ refused' = IF ok THEN refused ELSE refused \union {cmd}
    /\ Failing(ok)
    /\ UNCHANGED lastCommandStatus

\* A command that asks the server for nothing.
Local(value) ==
    /\ Return(value)
    /\ UNCHANGED <<loopVars, cmd, lastCommandStatus, connected, history>>

SetupFailures == IF tool = "iadmin" THEN {1, 2, 3, 5, 6, 7, 8} ELSE {1, 2, 3}

\* main up to the loop: options, help, environment, connection, login; for
\* iadmin also the check that the user is a rodsadmin.
Setup ==
    /\ pc = "setup"
    /\ \/ \E code \in SetupFailures : End(code)
       \/ cmd = "help" /\ End(0)
       \/ cmd # "help" /\ pc' = "command" /\ UNCHANGED exit
    /\ UNCHANGED <<loopVars, cmd, ret, lastCommandStatus, connected, history>>

ExitCode(status) == IF status = 0 THEN 0 ELSE 4

\* Mutant: only a command that quits or is invalid ends the loop.
AfterCommandGoesOn ==
    /\ pc = "returned"
    /\ lastCommandStatus' = IF firstTime /\ ret = -2 THEN Error
                            ELSE lastCommandStatus
    /\ firstTime' = FALSE
    /\ keepGoing' = IF ret = -1 \/ (firstTime /\ ret = -2) THEN FALSE
                     ELSE keepGoing
    /\ IF keepGoing' THEN pc' = "input" /\ UNCHANGED exit
       ELSE End(ExitCode(lastCommandStatus'))
    /\ UNCHANGED <<tool, given, cmd, ret, connected, lines, history>>

\* The body of main's loop after doCommand.
AfterCommand ==
    /\ pc = "returned"
    /\ lastCommandStatus' = IF firstTime /\ ret = -2 THEN Error
                            ELSE lastCommandStatus
    /\ firstTime' = FALSE
    /\ keepGoing' = IF ret = -1 \/ (firstTime /\ ret \in {0, -2}) THEN FALSE
                     ELSE keepGoing
    /\ IF keepGoing' THEN pc' = "input" /\ UNCHANGED exit
       ELSE End(ExitCode(lastCommandStatus'))
    /\ UNCHANGED <<tool, given, cmd, ret, connected, lines, history>>

\* Mutant: the end of the input looks like an empty line.
GetInputForever ==
    /\ pc = "input"
    /\ \/ lines < MaxLines /\ lines' = lines + 1 /\ cmd' \in CommandsOf(tool)
       \/ cmd' = "empty" /\ UNCHANGED lines
    /\ pc' = "command"
    /\ UNCHANGED <<tool, given, keepGoing, firstTime, ret, lastCommandStatus,
                   exit, connected, history>>

\* getInput.  At the end of the input iadmin goes on as if "q" was entered,
\* the others exit on the spot.
GetInput ==
    /\ pc = "input"
    /\ \/ /\ lines < MaxLines
          /\ lines' = lines + 1
          /\ cmd' \in CommandsOf(tool)
          /\ pc' = "command"
          /\ UNCHANGED exit
       \/ /\ IF tool = "iadmin"
             THEN cmd' = "quit" /\ pc' = "command" /\ UNCHANGED exit
             ELSE End(ExitCode(lastCommandStatus)) /\ UNCHANGED cmd
          /\ UNCHANGED lines
    /\ UNCHANGED <<tool, given, keepGoing, firstTime, ret, lastCommandStatus,
                   connected, history>>

\* The commands every doCommand knows, and those it does not.
Common ==
    /\ pc = "command"
    /\ \/ cmd = "help" /\ Local(0)
       \/ cmd = "quit" /\ Local(-1)
       \/ /\ cmd = "unknown"
          /\ Return(-2)
          /\ failed' = TRUE
          /\ UNCHANGED <<loopVars, cmd, lastCommandStatus, connected, refused>>
       \/ cmd = "empty" /\ Local(-3)
===========================================================================
