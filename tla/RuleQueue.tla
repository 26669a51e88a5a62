----------------------------- MODULE RuleQueue -----------------------------
(***************************************************************************)
(* iqdel, iqmod and iqstat over the server's queue of delayed rules, which *)
(* goes on queueing and executing rules while they run.  A query gives the *)
(* rows there were when it was sent, in pages; an id is used once.         *)
(***************************************************************************)
EXTENDS Integers, Sequences, FiniteSets

CONSTANTS
    Shells,     \* each runs one program
    Rules,
    Users,
    Lines,      \* the command lines each shell may be given
    PageSize,   \* rows of a page (MAX_SQL_ROWS, 50 for iqstat)
    Unborn,     \* a rule that is not queued yet
    Gone        \* a rule that was deleted, or executed for the last time

ASSUME RuleQueueAssumption ==
    /\ Lines \in [Shells -> SUBSET [prog : {"iqdel", "iqmod", "iqstat"},
                                    all : BOOLEAN,
                                    user : SUBSET Users,    \* {} without -u
                                    ids : Seq(Rules)]]
    /\ PageSize \in Nat \ {0}
    /\ IsFiniteSet(Rules)
    /\ Unborn \notin Users
    /\ Gone \notin Users \union {Unborn}

VARIABLES
    queue,      \* the user of each rule that is queued
    line,       \* the program each shell runs, with its options
    ids,        \* rule ids on the command line, still to be handled
    pc,
    rows,       \* of the query's result, those not yet fetched
    page,       \* fetched and not yet handled
    more,       \* continueInx > 0
    saved,      \* status, or savedStatus
    exit,       \* exit status
    wanted,     \* history: what the program is about
    told,       \* history: the part of it that exit status 0 answers for
    printed,    \* history: rows listed
    failed,     \* history: shells one of whose calls failed
    handed      \* history: <<p, r>> if r changed hands after p asked for it

result  == <<rows, page, more>>
request == <<wanted, told>>
history == <<request, printed, failed, handed>>
vars    == <<queue, line, ids, pc, result, saved, exit, history>>

Running == -2
Usage   == -1
Crashed == 139
Error   == -1

NoLine == [prog |-> "none"]

Queued == {r \in Rules : queue[r] \in Users}

TypeOK ==
    /\ queue \in [Rules -> Users \union {Unborn, Gone}]
    /\ DOMAIN line = Shells
    /\ \A p \in Shells : line[p] \in Lines[p] \union {NoLine}
    /\ ids \in [Shells -> Seq(Rules)]
    /\ pc \in [Shells -> {"ready", "connect", "authenticate", "named", "query",
              "page", "next", "report", "modify", "list", "user exists", "more", "end"}]
    /\ rows \in [Shells -> SUBSET Rules]
    /\ page \in [Shells -> SUBSET Rules]
    /\ more \in [Shells -> BOOLEAN]
    /\ saved \in [Shells -> {0, Error}]
    /\ exit \in [Shells -> {Running, Usage, 0, 1, 2, 3, 4, Crashed}]
    /\ wanted \in [Shells -> SUBSET Rules]
    /\ told \in [Shells -> SUBSET Rules]
    /\ printed \in [Shells -> SUBSET Rules]
    /\ failed \in SUBSET Shells
    /\ handed \in SUBSET (Shells \X Rules)

Init ==
    /\ queue = [r \in Rules |-> Unborn]
    /\ line = [p \in Shells |-> NoLine]
    /\ ids = [p \in Shells |-> <<>>]
    /\ pc = [p \in Shells |-> "ready"]
    /\ rows = [p \in Shells |-> {}]
    /\ page = [p \in Shells |-> {}]
    /\ more = [p \in Shells |-> FALSE]
    /\ saved = [p \in Shells |-> 0]
    /\ exit = [p \in Shells |-> Running]
    /\ wanted = [p \in Shells |-> {}]
    /\ told = [p \in Shells |-> {}]
    /\ printed = [p \in Shells |-> {}]
    /\ failed = {}
    /\ handed = {}

---------------------------------------------------------------------------

Goto(p, label) == pc' = [pc EXCEPT ![p] = label] /\ UNCHANGED exit

End(p, code) ==
    /\ pc' = [pc EXCEPT ![p] = "end"]
    /\ exit' = [exit EXCEPT ![p] = code]

Failing(p, ok) == failed' = IF ok THEN failed ELSE failed \union {p}

\* Rules are queued, and executed for the last time.
Server ==
    /\ \E r \in Rules :
         \/ queue[r] = Unborn /\ \E u \in Users : queue' = [queue EXCEPT ![r] = u]
         \/ queue[r] \in Users /\ queue' = [queue EXCEPT ![r] = Gone]
    /\ UNCHANGED <<line, ids, pc, result, saved, exit, history>>

\* iqdel takes ids or options, iqmod one id (with a field and its value),
\* iqstat at most one; without -a or -u iqstat is about the rules of the user
\* who runs it.
Accepts(l) ==
    CASE l.prog = "iqdel"  -> (l.all \/ l.user # {}) <=> l.ids = <<>>
      [] l.prog = "iqmod"  -> Len(l.ids) = 1
      [] l.prog = "iqstat" -> ~(l.all /\ l.user # {})

Refusal(l) == IF l.prog = "iqstat" THEN 2 ELSE Usage

IdSet(names) == {names[i] : i \in DOMAIN names}

\* Options, arguments and environment, before the connection.
Start(p) ==
    /\ pc[p] = "ready"
    /\ \/ \E l \in Lines[p] :
            /\ line' = [line EXCEPT ![p] = l]
            /\ IF Accepts(l) THEN Goto(p, "connect") ELSE End(p, Refusal(l))
            /\ ids' = [ids EXCEPT ![p] = l.ids]
            /\ IF l.prog = "iqdel" /\ Accepts(l) /\ l.ids # <<>>
               THEN /\ wanted' = [wanted EXCEPT ![p] = IdSet(l.ids)]
                    /\ told' = [told EXCEPT ![p] = {l.ids[Len(l.ids)]}]
               ELSE UNCHANGED request
       \/ /\ \E code \in {0, 1} : End(p, code)  \* help; bad option, no environment
          /\ UNCHANGED <<line, ids, request>>
    /\ UNCHANGED <<queue, result, saved, printed, failed, handed>>

\* iqstat does not look at the result of rcConnect: authenticate_client
\* dereferences a null pointer.
Connect(p) ==
    /\ pc[p] = "connect"
    /\ \/ Goto(p, "authenticate")
       \/ End(p, IF line[p].prog = "iqstat" THEN Crashed ELSE 2)
    /\ UNCHANGED <<queue, line, ids, result, saved, history>>

\* iqstat then checks that its id is a number.
Authenticate(p) ==
    /\ pc[p] = "authenticate"
    /\ \/ End(p, 3)
       \/ line[p].prog = "iqdel" /\ Goto(p, IF ids[p] = <<>> THEN "query" ELSE "named")
       \/ line[p].prog = "iqmod" /\ Goto(p, "modify")
       \/ line[p].prog = "iqstat" /\ Goto(p, "list")
       \/ line[p].prog = "iqstat" /\ ids[p] # <<>> /\ End(p, 1)
    /\ UNCHANGED <<queue, line, ids, result, saved, history>>

---------------------------------------------------------------------------
(* Queries *)

PageOf(S) ==
    IF Cardinality(S) <= PageSize THEN S
    ELSE CHOOSE T \in SUBSET S : Cardinality(T) = PageSize

\* The server keeps a query open behind a full page, even if nothing follows.
Continues(S) == Cardinality(S) >= PageSize

Fetch(p, S) ==
    /\ page' = [page EXCEPT ![p] = PageOf(S)]
    /\ rows' = [rows EXCEPT ![p] = S \ PageOf(S)]
    /\ more' = [more EXCEPT ![p] = Continues(S)]

\* Mutant: the condition on the user is left out.
MatchingAnyone(p) == {r \in Queued : ids[p] # <<>> => r = ids[p][1]}

\* The conditions of qdelUtil and show_RuleExec: -a is no condition at all,
\* -u one on the user.
Matching(p) ==
    {r \in Queued : /\ line[p].all \/ queue[r] \in line[p].user
                    /\ ids[p] # <<>> => r = ids[p][1]}

---------------------------------------------------------------------------
(* iqdel *)

\* rcRuleExecDel: done; or no rule of that id, or refused, or carried out
\* with the answer lost, all of which are negative.
RuleExecDel(r, ok) ==
    \/ ok /\ r \in Queued /\ queue' = [queue EXCEPT ![r] = Gone]
    \/ ~ok /\ UNCHANGED queue
    \/ ~ok /\ r \in Queued /\ queue' = [queue EXCEPT ![r] = Gone]

\* Each id overwrites the status of the one before.
NamedStatus(p, ok) == IF ok THEN 0 ELSE Error

\* One of the ids of the command line.
DeleteNamed(p) ==
    /\ pc[p] = "named" /\ ids[p] # <<>>
    /\ \E ok \in BOOLEAN :
         /\ RuleExecDel(ids[p][1], ok)
         /\ saved' = [saved EXCEPT ![p] = NamedStatus(p, ok)]
         /\ Failing(p, ok)
    /\ ids' = [ids EXCEPT ![p] = Tail(ids[p])]
    /\ Goto(p, IF Len(ids[p]) > 1 THEN "named" ELSE "report")
    /\ UNCHANGED <<line, result, request, printed, handed>>

\* qdelUtil's query, S its rows still to come: CAT_NO_ROWS_FOUND ends the
\* loop, and so does an error, which is remembered.
DeletePage(p, S) ==
    \/ /\ S # {}
       /\ Fetch(p, S)
       /\ Goto(p, "page")
       /\ UNCHANGED <<saved, failed>>
    \/ /\ S = {}
       /\ Goto(p, "report")
       /\ UNCHANGED <<result, saved, failed>>
    \/ /\ saved' = [saved EXCEPT ![p] = Error]
       /\ Failing(p, FALSE)
       /\ Goto(p, "report")
       /\ UNCHANGED result

DeleteQuery(p) ==
    /\ pc[p] = "query"
    /\ DeletePage(p, Matching(p))
    /\ IF pc'[p] = "page"
       THEN /\ wanted' = [wanted EXCEPT ![p] = Matching(p)]
            /\ told' = [told EXCEPT ![p] = Matching(p)]
       ELSE UNCHANGED request
    /\ UNCHANGED <<queue, line, ids, printed, handed>>

\* Mutant: the next page is a query from the start.
DeleteNextAgain(p) ==
    /\ pc[p] = "next"
    /\ DeletePage(p, Matching(p))
    /\ UNCHANGED <<queue, line, ids, request, printed, handed>>

DeleteNext(p) ==
    /\ pc[p] = "next"
    /\ DeletePage(p, rows[p])
    /\ UNCHANGED <<queue, line, ids, request, printed, handed>>

\* Mutant: the statuses are added up.
RowStatusSum(p, ok) == saved[p] + (IF ok THEN 0 ELSE Error)

\* Mutant: the status of the last row decides.
RowStatusLast(p, ok) == IF ok THEN 0 ELSE Error

\* savedStatus keeps a failure.
RowStatus(p, ok) == IF ok THEN saved[p] ELSE Error

\* A row of the page; a failure is remembered, the others go on.
DeleteRow(p) ==
    /\ pc[p] = "page"
    /\ \E r \in page[p], ok \in BOOLEAN :
         /\ RuleExecDel(r, ok)
         /\ saved' = [saved EXCEPT ![p] = RowStatus(p, ok)]
         /\ Failing(p, ok)
         /\ page' = [page EXCEPT ![p] = @ \ {r}]
    /\ Goto(p, IF page'[p] # {} THEN "page" ELSE IF more[p] THEN "next" ELSE "report")
    /\ UNCHANGED <<line, ids, rows, more, request, printed, handed>>

Report(p) ==
    /\ pc[p] = "report"
    /\ End(p, IF saved[p] = 0 THEN 0 ELSE 4)
    /\ UNCHANGED <<queue, line, ids, result, saved, history>>

---------------------------------------------------------------------------
(* iqmod *)

\* modDelayedRule: a time that is not one is not sent; otherwise the field is
\* changed (the user's name, or one that matters to nobody here), or there is
\* no such rule, or the server refuses, or its answer is lost.
Modify(p) ==
    /\ pc[p] = "modify"
    /\ LET r == ids[p][1] IN
         \/ /\ UNCHANGED <<queue, handed>>
            /\ \E code \in IF r \in Queued THEN {0, 4} ELSE {4} : End(p, code)
         \/ /\ r \in Queued
            /\ \E u \in Users : queue' = [queue EXCEPT ![r] = u]
            /\ handed' = handed \union {<<s, r>> : s \in {t \in Shells : r \in wanted[t]}}
            /\ \E code \in {0, 4} : End(p, code)
    /\ UNCHANGED <<line, ids, result, saved, request, printed, failed>>

---------------------------------------------------------------------------
(* iqstat *)

\* printGenQueryResults, then the next page while there is one.
Show(p, S) ==
    /\ S # {}
    /\ Fetch(p, S)
    /\ printed' = [printed EXCEPT ![p] = @ \union PageOf(S)]
    /\ IF Continues(S) THEN Goto(p, "more") ELSE End(p, 0)

\* After an error of the first query there may be no result to free: the clean-up
\* of show_RuleExec dereferences it.
List(p) ==
    /\ pc[p] = "list"
    /\ wanted' = [wanted EXCEPT ![p] = Matching(p)]
    /\ \/ Show(p, Matching(p)) /\ UNCHANGED failed
       \/ /\ Matching(p) = {}
          /\ Goto(p, "user exists")
          /\ UNCHANGED <<result, printed, failed>>
       \/ /\ \E code \in {1, Crashed} : End(p, code)
          /\ Failing(p, FALSE)
          /\ UNCHANGED <<result, printed>>
    /\ UNCHANGED <<queue, line, ids, saved, told, handed>>

\* An unknown user is told, with status 0; the question may fail.
UserExists(p) ==
    /\ pc[p] = "user exists"
    /\ End(p, 0) \/ End(p, 1)
    /\ UNCHANGED <<queue, line, ids, result, saved, history>>

\* Mutant: the continuation is not passed on.
ListMoreAgain(p) ==
    /\ pc[p] = "more"
    /\ Show(p, Matching(p))
    /\ UNCHANGED <<queue, line, ids, saved, request, failed, handed>>

\* A page that fails is printed as an error, and the status is 0 all the same.
ListMore(p) ==
    /\ pc[p] = "more"
    /\ \/ Show(p, rows[p]) /\ UNCHANGED failed
       \/ /\ rows[p] = {}
          /\ End(p, 0)
          /\ UNCHANGED <<result, printed, failed>>
       \/ End(p, 0) /\ Failing(p, FALSE) /\ UNCHANGED <<result, printed>>
    /\ UNCHANGED <<queue, line, ids, saved, request, handed>>

---------------------------------------------------------------------------

Step(p) ==
    \/ Connect(p) \/ Authenticate(p)
    \/ DeleteNamed(p) \/ DeleteQuery(p) \/ DeleteNext(p) \/ DeleteRow(p) \/ Report(p)
    \/ Modify(p)
    \/ List(p) \/ UserExists(p) \/ ListMore(p)

Next == Server \/ \E p \in Shells : Start(p) \/ Step(p)

Spec == Init /\ [][Next]_vars

\* A running program goes on: its calls return.
FairSpec == Spec /\ \A p \in Shells : WF_vars(Step(p))
---------------------------------------------------------------------------
(* Properties *)

\* What an iqdel asks for, answers for, and has told so far.
Asked == [p \in Shells |-> IF line[p].prog = "iqdel" THEN wanted[p] ELSE {}]

Promised == [p \in Shells |-> IF line[p].prog = "iqdel" THEN told[p] ELSE {}]

Answer ==
    [p \in Shells |->
        IF line[p].prog # "iqdel" \/ exit[p] = Running THEN "none"
        ELSE IF exit[p] = 0 THEN "success" ELSE "failure"]

Q == INSTANCE QueueService WITH asked <- Asked, promised <- Promised, answer <- Answer

\* iqdel implements the queue service: it removes nothing but what matched its
\* request when it asked, and status 0 means that none of the rules found (with
\* -a or -u), or the last of the ids given, is still queued.
QueueServiceSpec == Q!Spec

\* iqdel -u removes a rule that is another user's by then only if iqmod gave
\* it away after the query (the rows of a page are old when they are used).
Removes(p, r) == r \in page[p] \ page'[p] /\ r \in Queued /\ queue'[r] = Gone

OthersOnlyIfHanded ==
    [][\A p \in Shells, r \in Rules :
         line[p].prog = "iqdel" /\ ~line[p].all /\ Removes(p, r)
           => queue[r] \in line[p].user \/ <<p, r>> \in handed]_vars

\* iqstat's status 0 without a failed page means that every rule there was
\* when it asked is in the list, also at a page boundary.
ListsAll ==
    \A p \in Shells :
        line[p].prog = "iqstat" /\ exit[p] = 0 /\ p \notin failed => printed[p] = wanted[p]

\* Every program ends, while rules come and go: the result of a query is
\* finite, and what cannot be deleted is not asked for again.
ProgramsEnd == \A p \in Shells : pc[p] # "ready" ~> pc[p] = "end"

\* "all(-a) and  user(-u) cannot be used together" (iqdel.cpp, qdelUtil).
NotTogether ==
    \A p \in Shells :
        line[p].prog = "iqdel" /\ line[p].all /\ line[p].user # {} /\ pc[p] = "end" => exit[p] # 0
===========================================================================
