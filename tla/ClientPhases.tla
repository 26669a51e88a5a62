---------------------------- MODULE ClientPhases ----------------------------
(***************************************************************************)
(* What the client programs that use one connection have in common: checks *)
(* of the command line and the environment, the connection, the login, the *)
(* work, the exit.  A program is the sequence of its phases; here are the  *)
(* phases before the work and the state of one run.                        *)
(***************************************************************************)
EXTENDS Integers, Sequences, FiniteSets

CONSTANTS
    MaxPaths,   \* bound: source paths on a command line
    Statuses    \* what a library call may return when it fails

ASSUME PathsAssumption ==
    /\ MaxPaths \in Nat \ {0}
    /\ Statuses # {} /\ Statuses \subseteq {i \in Int : i < 0}

VARIABLES
    prog,       \* the program, "none" before it starts
    at,         \* the phase it is in
    public,     \* it runs as the anonymous user
    written,    \* what it is asked to work on, as on the command line
    paths,      \* the same as the program passes it on
    conn,       \* "none", "open" or "closed"
    login,      \* the connection is authenticated
    exit,       \* exit status
    done,       \* history: the sources the request was carried out for
    failed,     \* history: the sources for which a failure was reported
    trouble     \* history: what else went wrong, or was not found

runVars == <<prog, at, public, written, paths, conn, login, exit>>
historyVars == <<done, failed, trouble>>

Running == -1
Aborted == 134      \* an exception nobody catches
Crashed == 139

---------------------------------------------------------------------------
(* Phases *)

\* The options: help, or a refusal with this exit status.
Options(code) == [is |-> "options", exit |-> code]

\* A check that may end the program with this exit status.
Check(code) == [is |-> "check", exit |-> code]

\* The result of getRodsEnv is the exit status.
RawEnvironment == [is |-> "raw environment"]

\* At least so many sources, each of one of these kinds.
Sources(n, code) == [is |-> "sources", least |-> n, kinds |-> {"path"}, exit |-> code]

Connect(code) == [is |-> "connect", exit |-> code]
Login(code) == [is |-> "login", exit |-> code]

\* The anonymous user is not asked to log in.
LoginUnlessPublic(code) == [is |-> "login unless public", exit |-> code]

\* A check after the login, and one that exits without rcDisconnect.
LateCheck(code) == [is |-> "late check", exit |-> code]
LateCheckLeft(code) == [is |-> "left late check", exit |-> code]

Return(code) == [is |-> "return", exit |-> code]

---------------------------------------------------------------------------
(* Steps *)

\* Mutant: the caller sees the whole status.
ExitStatusWhole(status) == status
\* What the operating system makes of a status.
ExitStatus(status) == status % 256

End(status) ==
    /\ exit' = ExitStatus(status)
    /\ UNCHANGED <<prog, at, public, written, paths, conn, login>>

Disconnect(status) ==
    /\ conn' = "closed"
    /\ exit' = ExitStatus(status)
    /\ UNCHANGED <<prog, at, public, written, paths, login>>

\* On to the next phase, with nothing else changed.
Advance == at' = at + 1 /\ UNCHANGED <<prog, public, written, paths, conn, login, exit>>

Begin(programs) ==
    /\ prog = "none"
    /\ prog' \in programs
    /\ public' \in BOOLEAN
    /\ UNCHANGED <<at, written, paths, conn, login, exit, done, failed, trouble>>

\* The program is in a phase of this kind.
In(phases, kind) ==
    /\ exit = Running
    /\ prog \in DOMAIN phases
    /\ phases[prog][at].is = kind

Phase(phases) == phases[prog][at]

ParseOptions(phases) ==
    /\ In(phases, "options")
    /\ Advance \/ End(0) \/ End(Phase(phases).exit)

CheckLocally(phases) ==
    /\ In(phases, "check")
    /\ Advance \/ End(Phase(phases).exit)

ReadEnvironment(phases) ==
    /\ In(phases, "raw environment")
    /\ \/ Advance
       \/ \E status \in Statuses : End(status)

TakeSources(phases) ==
    /\ In(phases, "sources")
    /\ \E n \in 0 .. MaxPaths : \E list \in [1 .. n -> Phase(phases).kinds] :
         IF n >= Phase(phases).least
         THEN /\ written' = list
              /\ paths' = list
              /\ at' = at + 1
              /\ UNCHANGED <<prog, public, conn, login, exit>>
         ELSE End(Phase(phases).exit)

OpenConnection(phases) ==
    /\ In(phases, "connect")
    /\ \/ /\ conn' = "open"
          /\ at' = at + 1
          /\ UNCHANGED <<prog, public, written, paths, login, exit>>
       \/ End(Phase(phases).exit)

\* authenticate_client.
LogIn(phases) ==
    /\ In(phases, "login") \/ (In(phases, "login unless public") /\ ~public)
    /\ \/ /\ login' = TRUE
          /\ at' = at + 1
          /\ UNCHANGED <<prog, public, written, paths, conn, exit>>
       \/ Disconnect(Phase(phases).exit)

SkipLogin(phases) ==
    /\ In(phases, "login unless public") /\ public
    /\ Advance

CheckLate(phases) ==
    /\ \/ /\ In(phases, "late check") \/ In(phases, "left late check")
          /\ Advance /\ UNCHANGED trouble
       \/ /\ \/ In(phases, "late check") /\ Disconnect(Phase(phases).exit)
             \/ In(phases, "left late check") /\ End(Phase(phases).exit)
          /\ trouble' = trouble \cup {"refused"}
    /\ UNCHANGED <<done, failed>>

ReturnStatus(phases) ==
    /\ In(phases, "return")
    /\ End(Phase(phases).exit)

\* The steps all programs share.
CommonSteps(phases) ==
    \/ /\ \/ ParseOptions(phases) \/ CheckLocally(phases) \/ ReadEnvironment(phases)
          \/ TakeSources(phases) \/ OpenConnection(phases) \/ LogIn(phases)
          \/ SkipLogin(phases) \/ ReturnStatus(phases)
       /\ UNCHANGED historyVars
    \/ CheckLate(phases)
=============================================================================
