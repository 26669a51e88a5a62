-------------------------- MODULE RuleQueueProofs --------------------------
(***************************************************************************)
(* iqdel, iqmod and iqstat for every set of shells, rules and users, every *)
(* page size and all command lines: the types, the refinement of the queue *)
(* service, what iqdel -u may remove, and that iqstat's list is whole.     *)
(***************************************************************************)
EXTENDS RuleQueue, FiniteSetTheorems, TLAPS

---------------------------------------------------------------------------
(* Pages *)

\* A set of more than n elements has a subset of n.
LEMMA SubsetOfSize ==
    ASSUME NEW S, IsFiniteSet(S), NEW n \in Nat, n <= Cardinality(S)
    PROVE  \E T \in SUBSET S : Cardinality(T) = n
<1>1. Cardinality(S) \in Nat /\ ExistsBijection(1 .. Cardinality(S), S)
  BY FS_CardinalityType
<1>2. PICK f : f \in Bijection(1 .. Cardinality(S), S)
  BY <1>1 DEF ExistsBijection
<1> DEFINE T == {f[i] : i \in 1 .. n}
           g == [i \in 1 .. n |-> f[i]]
<1>3. T \subseteq S
  BY <1>1, <1>2 DEF Bijection, Injection, Surjection
<1>4. g \in Bijection(1 .. n, T)
  <2>1. g \in [1 .. n -> T]
    OBVIOUS
  <2>2. \A i, j \in 1 .. n : g[i] = g[j] => i = j
    BY <1>1, <1>2 DEF Bijection, Injection, IsInjective
  <2>3. \A t \in T : \E i \in 1 .. n : g[i] = t
    OBVIOUS
  <2> QED
    BY <2>1, <2>2, <2>3 DEF Bijection, Injection, Surjection, IsInjective
<1>5. IsFiniteSet(1 .. n) /\ Cardinality(1 .. n) = n
  <2>1. 1 > n => n = 0
    OBVIOUS
  <2> QED
    BY <2>1, FS_Interval
<1>6. ExistsBijection(1 .. n, T)
  BY <1>4 DEF ExistsBijection
<1>7. Cardinality(T) = n
  BY <1>5, <1>6, FS_Bijection
<1> QED
  BY <1>3, <1>7

\* A page is a part of the result, and all of it if the query does not continue.
LEMMA PageFacts ==
    ASSUME NEW S \in SUBSET Rules
    PROVE  /\ PageOf(S) \subseteq S
           /\ ~Continues(S) => PageOf(S) = S
<1>1. IsFiniteSet(S) /\ Cardinality(S) \in Nat
  BY RuleQueueAssumption, FS_Subset, FS_CardinalityType
<1>2. PageSize \in Nat
  BY RuleQueueAssumption
<1>3. CASE Cardinality(S) <= PageSize
  BY <1>3 DEF PageOf
<1>4. CASE ~(Cardinality(S) <= PageSize)
  <2>1. \E T \in SUBSET S : Cardinality(T) = PageSize
    BY <1>1, <1>2, <1>4, SubsetOfSize
  <2> QED
    BY <1>1, <1>2, <1>4, <2>1 DEF PageOf, Continues
<1> QED
  BY <1>3, <1>4

---------------------------------------------------------------------------
(* Types *)

\* What a step of one shell does to the variables of types that depend on no
\* other part of the state.
Labels == {"ready", "connect", "authenticate", "named", "query", "page", "next",
           "report", "modify", "list", "user exists", "more", "end"}

LEMMA FetchTyped ==
    ASSUME TypeOK, NEW p \in Shells, NEW S \in SUBSET Rules, Fetch(p, S)
    PROVE  /\ page' \in [Shells -> SUBSET Rules]
           /\ rows' \in [Shells -> SUBSET Rules]
           /\ more' \in [Shells -> BOOLEAN]
<1>1. PageOf(S) \in SUBSET Rules /\ S \ PageOf(S) \in SUBSET Rules
  BY PageFacts
<1>2. Continues(S) \in BOOLEAN
  BY DEF Continues
<1> QED
  BY <1>1, <1>2 DEF Fetch, TypeOK

LEMMA MatchingTyped == ASSUME NEW p \in Shells PROVE Matching(p) \in SUBSET Rules
BY DEF Matching, Queued

LEMMA UpdateTyped ==
    ASSUME NEW f \in [Shells -> SUBSET Rules], NEW p \in Shells, NEW S \in SUBSET Rules
    PROVE  [f EXCEPT ![p] = S] \in [Shells -> SUBSET Rules]
OBVIOUS

LEMMA HandedTyped ==
    ASSUME NEW H \in SUBSET (Shells \X Rules), NEW T \in SUBSET Shells, NEW r \in Rules
    PROVE  (H \union {<<s, r>> : s \in T}) \in SUBSET (Shells \X Rules)
OBVIOUS

LEMMA NamesTyped ==
    ASSUME NEW names \in Seq(Rules), names # <<>>
    PROVE  names[1] \in Rules /\ Tail(names) \in Seq(Rules)
OBVIOUS

LEMMA LineTyped ==
    ASSUME NEW p \in Shells, NEW l \in Lines[p]
    PROVE  /\ l.ids \in Seq(Rules)
           /\ IdSet(l.ids) \in SUBSET Rules
           /\ l.ids # <<>> => l.ids[Len(l.ids)] \in Rules
<1>1. l.ids \in Seq(Rules)
  BY RuleQueueAssumption
<1> DEFINE names == l.ids
<1> HIDE DEF names
<1>2. names \in Seq(Rules)
  BY <1>1 DEF names
<1>3. IdSet(names) \in SUBSET Rules
  BY <1>2 DEF IdSet
<1>4. names # <<>> => names[Len(names)] \in Rules
  BY <1>2
<1> QED
  BY <1>2, <1>3, <1>4 DEF names

LEMMA StartTyped ==
    ASSUME TypeOK, NEW p \in Shells, Start(p)
    PROVE  TypeOK'
<1> USE DEF TypeOK, Goto, End, result, request
<1>1. UNCHANGED <<queue, result, saved, printed, failed, handed>>
  BY DEF Start
<1>2. CASE \E code \in {0, 1} : End(p, code) /\ UNCHANGED <<line, ids, request>>
  BY <1>1, <1>2
<1>3. ASSUME NEW l \in Lines[p],
             line' = [line EXCEPT ![p] = l],
             IF Accepts(l) THEN Goto(p, "connect") ELSE End(p, Refusal(l)),
             ids' = [ids EXCEPT ![p] = l.ids],
             IF l.prog = "iqdel" /\ Accepts(l) /\ l.ids # <<>>
             THEN /\ wanted' = [wanted EXCEPT ![p] = IdSet(l.ids)]
                  /\ told' = [told EXCEPT ![p] = {l.ids[Len(l.ids)]}]
             ELSE UNCHANGED request
      PROVE  TypeOK'
  <2> DEFINE names == l.ids
  <2>1. names \in Seq(Rules) /\ IdSet(names) \in SUBSET Rules
    BY <1>3, LineTyped
  <2>2. names # <<>> => names[Len(names)] \in Rules
    BY <1>3, LineTyped
  <2> HIDE DEF names
  <2>4. wanted' \in [Shells -> SUBSET Rules] /\ told' \in [Shells -> SUBSET Rules]
    <3>1. CASE UNCHANGED request
      BY <3>1
    <3>2. CASE /\ names # <<>>
               /\ wanted' = [wanted EXCEPT ![p] = IdSet(names)]
               /\ told' = [told EXCEPT ![p] = {names[Len(names)]}]
      BY <2>1, <2>2, <3>2
    <3> QED
      BY <1>3, <3>1, <3>2 DEF names
  <2>5. pc' \in [Shells -> Labels] /\ exit' \in [Shells -> {Running, Usage, 0, 1, 2, 3, 4, Crashed}]
    BY <1>3 DEF Refusal, Labels
  <2>6. DOMAIN line' = Shells /\ \A q \in Shells : line'[q] \in Lines[q] \union {NoLine}
    BY <1>3
  <2>7. ids' \in [Shells -> Seq(Rules)]
    BY <1>3, <2>1 DEF names
  <2> QED
    BY <1>1, <2>4, <2>5, <2>6, <2>7 DEF Labels
<1> QED
  BY <1>1, <1>2, <1>3 DEF Start

LEMMA DeletePageTyped ==
    ASSUME TypeOK, NEW p \in Shells, NEW S \in SUBSET Rules, DeletePage(p, S)
    PROVE  /\ page' \in [Shells -> SUBSET Rules]
           /\ rows' \in [Shells -> SUBSET Rules]
           /\ more' \in [Shells -> BOOLEAN]
           /\ saved' \in [Shells -> {0, Error}]
           /\ failed' \in SUBSET Shells
           /\ pc' \in [Shells -> Labels]
           /\ exit' = exit
<1> USE DEF TypeOK, DeletePage, Goto, Failing, result, Labels
<1>1. CASE S # {} /\ Fetch(p, S) /\ Goto(p, "page") /\ UNCHANGED <<saved, failed>>
  BY <1>1, FetchTyped
<1>2. CASE UNCHANGED result
  BY <1>2
<1> QED
  BY <1>1, <1>2

LEMMA StepTyped ==
    ASSUME TypeOK, NEW p \in Shells, Step(p)
    PROVE  TypeOK'
<1> USE DEF TypeOK, Goto, End, result, request, history, Failing
<1>0. \A ok \in BOOLEAN, r \in Rules : RuleExecDel(r, ok) =>
        queue' \in [Rules -> Users \union {Unborn, Gone}]
  BY DEF RuleExecDel
<1>1. CASE Connect(p) \/ Authenticate(p)
  BY <1>1 DEF Connect, Authenticate
<1>2. CASE Report(p) \/ UserExists(p)
  BY <1>2 DEF Report, UserExists
<1>3. CASE DeleteNamed(p)
  <2>1. ids[p] \in Seq(Rules) /\ ids[p] # <<>>
    BY <1>3 DEF DeleteNamed
  <2>2. ids[p][1] \in Rules /\ Tail(ids[p]) \in Seq(Rules)
    BY <2>1, NamesTyped
  <2>3. PICK ok \in BOOLEAN :
           /\ RuleExecDel(ids[p][1], ok)
           /\ saved' = [saved EXCEPT ![p] = NamedStatus(p, ok)]
           /\ Failing(p, ok)
    BY <1>3 DEF DeleteNamed
  <2>4. queue' \in [Rules -> Users \union {Unborn, Gone}]
    BY <1>0, <2>2, <2>3
  <2>5. saved' \in [Shells -> {0, Error}] /\ failed' \in SUBSET Shells
    BY <2>3 DEF NamedStatus
  <2>6. ids' \in [Shells -> Seq(Rules)]
    BY <1>3, <2>2 DEF DeleteNamed
  <2>7. pc' \in [Shells -> Labels] /\ exit' = exit
    BY <1>3 DEF DeleteNamed, Labels
  <2>8. UNCHANGED <<line, result, request, printed, handed>>
    BY <1>3 DEF DeleteNamed
  <2> QED
    BY <2>4, <2>5, <2>6, <2>7, <2>8 DEF Labels
<1>4. CASE DeleteQuery(p)
  <2>1. DeletePage(p, Matching(p)) /\ UNCHANGED <<queue, line, ids, printed, handed>>
    BY <1>4 DEF DeleteQuery
  <2>2. Matching(p) \in SUBSET Rules
    BY MatchingTyped
  <2>3. \/ UNCHANGED request
        \/ /\ wanted' = [wanted EXCEPT ![p] = Matching(p)]
           /\ told' = [told EXCEPT ![p] = Matching(p)]
    BY <1>4 DEF DeleteQuery
  <2>4. wanted' \in [Shells -> SUBSET Rules] /\ told' \in [Shells -> SUBSET Rules]
    <3>1. /\ [wanted EXCEPT ![p] = Matching(p)] \in [Shells -> SUBSET Rules]
          /\ [told EXCEPT ![p] = Matching(p)] \in [Shells -> SUBSET Rules]
      BY <2>2, UpdateTyped
    <3> QED
      BY <2>3, <3>1
  <2> HIDE DEF Goto, End
  <2> QED
    BY <2>1, <2>2, <2>4, DeletePageTyped DEF Labels
<1>5. CASE DeleteNext(p)
  <2>1. DeletePage(p, rows[p]) /\ UNCHANGED <<queue, line, ids, request, printed, handed>>
    BY <1>5 DEF DeleteNext
  <2> HIDE DEF Goto, End
  <2> QED
    BY <2>1, DeletePageTyped DEF Labels
<1>6. CASE DeleteRow(p)
  <2>1. PICK r \in page[p], ok \in BOOLEAN :
           /\ RuleExecDel(r, ok)
           /\ saved' = [saved EXCEPT ![p] = RowStatus(p, ok)]
           /\ Failing(p, ok)
           /\ page' = [page EXCEPT ![p] = @ \ {r}]
    BY <1>6 DEF DeleteRow
  <2>2. queue' \in [Rules -> Users \union {Unborn, Gone}]
    BY <1>0, <2>1
  <2>3. saved' \in [Shells -> {0, Error}]
    BY <2>1 DEF RowStatus
  <2>4. page' \in [Shells -> SUBSET Rules] /\ failed' \in SUBSET Shells
    BY <2>1
  <2>5. pc' \in [Shells -> Labels] /\ exit' = exit
    BY <1>6 DEF DeleteRow, Labels
  <2>6. UNCHANGED <<line, ids, rows, more, request, printed, handed>>
    BY <1>6 DEF DeleteRow
  <2> QED
    BY <2>2, <2>3, <2>4, <2>5, <2>6 DEF Labels
<1>7. CASE Modify(p)
  <2>1. \E code \in {0, 4} : End(p, code)
    BY <1>7 DEF Modify
  <2>5. /\ pc' \in [Shells -> Labels]
        /\ exit' \in [Shells -> {Running, Usage, 0, 1, 2, 3, 4, Crashed}]
    BY <2>1, ZenonT(30) DEF Labels
  <2>2. queue' \in [Rules -> Users \union {Unborn, Gone}]
    BY <1>7, ZenonT(60) DEF Modify
  <2>3. handed' \in SUBSET (Shells \X Rules)
    <3>1. CASE UNCHANGED handed
      BY <3>1
    <3>2. CASE /\ ids[p][1] \in Rules
               /\ handed' = handed \union {<<s, ids[p][1]>> : s \in {t \in Shells : ids[p][1] \in wanted[t]}}
      <4>1. {t \in Shells : ids[p][1] \in wanted[t]} \in SUBSET Shells
        OBVIOUS
      <4>2. handed \in SUBSET (Shells \X Rules)
        OBVIOUS
      <4> HIDE DEF TypeOK
      <4> QED
        BY <3>2, <4>1, <4>2, HandedTyped
    <3> QED
      BY <1>7, <3>1, <3>2 DEF Modify, Queued
  <2>4. UNCHANGED <<line, ids, result, saved, request, printed, failed>>
    BY <1>7 DEF Modify
  <2> QED
    BY <2>2, <2>3, <2>4, <2>5 DEF Labels
<1>8. CASE List(p) \/ ListMore(p)
  <2>1. ASSUME NEW S \in SUBSET Rules, Show(p, S)
        PROVE  /\ page' \in [Shells -> SUBSET Rules]
               /\ rows' \in [Shells -> SUBSET Rules]
               /\ more' \in [Shells -> BOOLEAN]
               /\ printed' \in [Shells -> SUBSET Rules]
               /\ pc' \in [Shells -> Labels]
               /\ exit' \in [Shells -> {Running, Usage, 0, 1, 2, 3, 4, Crashed}]
    BY <2>1, FetchTyped, PageFacts DEF Show, Labels
  <2>2. CASE List(p)
    <3>1. Matching(p) \in SUBSET Rules
      BY MatchingTyped
    <3>2. wanted' \in [Shells -> SUBSET Rules]
      BY <2>2, <3>1 DEF List
    <3>3. UNCHANGED <<queue, line, ids, saved, told, handed>> /\ failed' \in SUBSET Shells
      BY <2>2 DEF List
    <3>4. CASE Show(p, Matching(p))
      BY <2>1, <3>1, <3>2, <3>3, <3>4 DEF Labels
    <3>5. CASE UNCHANGED <<result, printed>> /\ (Goto(p, "user exists") \/ \E code \in {1, Crashed} : End(p, code))
      BY <3>2, <3>3, <3>5
    <3> QED
      BY <2>2, <3>4, <3>5 DEF List
  <2>3. CASE ListMore(p)
    BY <2>1, <2>3 DEF ListMore, Labels
  <2> QED
    BY <1>8, <2>2, <2>3
<1> QED
  BY <1>1, <1>2, <1>3, <1>4, <1>5, <1>6, <1>7, <1>8 DEF Step

\* The types hold throughout every run of any number of shells.
THEOREM TypeCorrect == Spec => []TypeOK
<1>1. Init => TypeOK
  BY DEF Init, TypeOK
<1>2. ASSUME TypeOK, [Next]_vars PROVE TypeOK'
  <2>1. CASE Server
    BY <1>2, <2>1 DEF Server, TypeOK, result, history, request
  <2>2. CASE UNCHANGED vars
    BY <1>2, <2>2 DEF vars, TypeOK, result, history, request
  <2> QED
    BY <1>2, <2>1, <2>2, StartTyped, StepTyped DEF Next
<1> QED
  BY <1>1, <1>2, PTL DEF Spec

---------------------------------------------------------------------------
(* The inductive invariant, one shell at a time *)

\* Where a program is tells which one it is; what was never asked is empty.
ProgramAt(p) ==
    /\ pc[p] = "end" <=> exit[p] # Running
    /\ pc[p] = "ready" =>
         /\ line[p] = NoLine
         /\ wanted[p] = {} /\ told[p] = {} /\ page[p] = {} /\ rows[p] = {} /\ printed[p] = {}
    /\ pc[p] \in {"named", "query", "page", "next", "report"} => line[p].prog = "iqdel"
    /\ pc[p] = "modify" => line[p].prog = "iqmod"
    /\ pc[p] \in {"list", "user exists", "more"} => line[p].prog = "iqstat"
    /\ pc[p] \in {"connect", "authenticate", "list"} => printed[p] = {}

\* The part of iqdel's request that is still to be handled.
NotAsked(p) ==
    pc[p] \in {"connect", "authenticate", "named", "query"} =>
        /\ page[p] = {} /\ rows[p] = {}
        /\ ids[p] = <<>> => wanted[p] = {} /\ told[p] = {}
        /\ ids[p] # <<>> => /\ IdSet(ids[p]) \subseteq wanted[p]
                            /\ told[p] = {ids[p][Len(ids[p])]}

ToDelete(p) == page[p] \union rows[p]

Deleting(p) ==
    line[p].prog = "iqdel" =>
        /\ NotAsked(p)
        /\ pc[p] = "query" => ids[p] = <<>>
        /\ pc[p] # "page" => page[p] = {}
        /\ ToDelete(p) \subseteq wanted[p]
        /\ pc[p] = "page" /\ ~more[p] => rows[p] = {}

\* With no failure so far, what is answered for and not handled yet is gone.
Answering(p) ==
    line[p].prog = "iqdel" /\ saved[p] = 0 =>
        /\ pc[p] \in {"page", "next"} =>
             \A r \in told[p] : r \in ToDelete(p) \/ queue[r] = Gone
        /\ pc[p] = "report" => \A r \in told[p] : queue[r] = Gone

\* A rule that is to be deleted is of the user it was asked for, or gone, or was
\* given away since.
OfUserOrHanded(p) ==
    line[p].prog = "iqdel" =>
        \A r \in ToDelete(p) :
            /\ queue[r] # Unborn
            /\ line[p].all \/ queue[r] = Gone \/ queue[r] \in line[p].user \/ <<p, r>> \in handed

\* What iqstat has printed and not printed is what it asked for.
Listing(p) ==
    line[p].prog = "iqstat" /\ p \notin failed =>
        /\ pc[p] = "user exists" => printed[p] = wanted[p]
        /\ pc[p] = "more" => printed[p] \union rows[p] = wanted[p]
        /\ pc[p] = "end" /\ exit[p] = 0 => printed[p] = wanted[p]

ShellInv(p) ==
    /\ ProgramAt(p) /\ Deleting(p) /\ Answering(p) /\ OfUserOrHanded(p) /\ Listing(p)

Inv == TypeOK /\ \A p \in Shells : ShellInv(p)

\* What a step may do to the rules: one that is gone stays gone, and one that
\* changes hands is marked for every shell that is after it.
QueueMoves ==
    /\ handed \subseteq handed'
    /\ \A r \in Rules :
         \/ queue'[r] = queue[r]
         \/ queue[r] = Unborn /\ queue'[r] \in Users
         \/ queue[r] \in Users /\ queue'[r] = Gone
         \/ /\ queue[r] \in Users /\ queue'[r] \in Users
            /\ \A s \in Shells : r \in wanted[s] => <<s, r>> \in handed'

\* A step of another shell leaves this one alone.
Untouched(s) ==
    /\ pc'[s] = pc[s] /\ line'[s] = line[s] /\ ids'[s] = ids[s]
    /\ rows'[s] = rows[s] /\ page'[s] = page[s] /\ more'[s] = more[s]
    /\ saved'[s] = saved[s] /\ exit'[s] = exit[s]
    /\ wanted'[s] = wanted[s] /\ told'[s] = told[s] /\ printed'[s] = printed[s]
    /\ s \in failed' <=> s \in failed

LEMMA UntouchedKeepsInv ==
    ASSUME TypeOK, NEW s \in Shells, ShellInv(s), Untouched(s), QueueMoves
    PROVE  ShellInv(s)'
<1> USE DEF Untouched
<1>0. /\ Unborn # Gone /\ Unborn \notin Users /\ Gone \notin Users
      /\ wanted[s] \in SUBSET Rules /\ told[s] \in SUBSET Rules
      /\ page[s] \in SUBSET Rules /\ rows[s] \in SUBSET Rules
  BY RuleQueueAssumption DEF TypeOK
<1>1. ProgramAt(s)'
  BY DEF ShellInv, ProgramAt
<1>2. Deleting(s)'
  BY DEF ShellInv, Deleting, NotAsked, ToDelete
<1>3. Answering(s)'
  BY <1>0 DEF ShellInv, Answering, ToDelete, QueueMoves
<1>4. OfUserOrHanded(s)'
  <2>1. ASSUME line[s].prog = "iqdel", NEW r \in ToDelete(s)
        PROVE  /\ queue'[r] # Unborn
               /\ line[s].all \/ queue'[r] = Gone \/ queue'[r] \in line[s].user \/ <<s, r>> \in handed'
    <3>1. r \in Rules /\ r \in wanted[s]
      BY <1>0, <2>1 DEF ShellInv, Deleting, ToDelete
    <3>2. /\ queue[r] # Unborn
          /\ line[s].all \/ queue[r] = Gone \/ queue[r] \in line[s].user \/ <<s, r>> \in handed
      BY <2>1 DEF ShellInv, OfUserOrHanded
    <3> QED
      BY <1>0, <3>1, <3>2 DEF QueueMoves
  <2> QED
    BY <2>1 DEF OfUserOrHanded, ToDelete
<1>5. Listing(s)'
  BY DEF ShellInv, Listing
<1> QED
  BY <1>1, <1>2, <1>3, <1>4, <1>5 DEF ShellInv

---------------------------------------------------------------------------
(* Every step keeps the invariant *)

\* What is to be shown of a step of shell p.
Kept(p) ==
    /\ ShellInv(p)'
    /\ QueueMoves
    /\ \A s \in Shells \ {p} : Untouched(s)

LEMMA StartKept ==
    ASSUME TypeOK, NEW p \in Shells, ShellInv(p), Start(p)
    PROVE  Kept(p)
<1> USE DEF Start, Goto, End, result, request
<1>1. QueueMoves
  BY DEF QueueMoves
<1>2. /\ pc[p] = "ready" /\ line[p] = NoLine /\ exit[p] = Running
      /\ wanted[p] = {} /\ told[p] = {} /\ page[p] = {} /\ rows[p] = {} /\ printed[p] = {}
      /\ UNCHANGED <<page, rows, printed, failed>>
  BY DEF ShellInv, ProgramAt
<1>3. CASE \E code \in {0, 1} : End(p, code) /\ UNCHANGED <<line, ids, request>>
  <2>1. /\ pc'[p] = "end" /\ exit'[p] \in {0, 1} /\ line'[p] = NoLine
    BY <1>2, <1>3 DEF TypeOK
  <2>2. line'[p].prog = "none"
    BY <2>1 DEF NoLine
  <2>3. \A s \in Shells \ {p} : Untouched(s)
    BY <1>2, <1>3 DEF TypeOK, Untouched
  <2> QED
    BY <1>1, <1>2, <2>1, <2>2, <2>3
    DEF Kept, ShellInv, ProgramAt, Deleting, Answering, OfUserOrHanded, Listing, Running
<1>4. ASSUME NEW l \in Lines[p],
             line' = [line EXCEPT ![p] = l],
             IF Accepts(l) THEN Goto(p, "connect") ELSE End(p, Refusal(l)),
             ids' = [ids EXCEPT ![p] = l.ids],
             IF l.prog = "iqdel" /\ Accepts(l) /\ l.ids # <<>>
             THEN /\ wanted' = [wanted EXCEPT ![p] = IdSet(l.ids)]
                  /\ told' = [told EXCEPT ![p] = {l.ids[Len(l.ids)]}]
             ELSE UNCHANGED request
      PROVE  Kept(p)
  <2>1. line'[p] = l /\ ids'[p] = l.ids /\ page'[p] = {} /\ rows'[p] = {} /\ printed'[p] = {}
    BY <1>2, <1>4 DEF TypeOK
  <2>2. \/ Accepts(l) /\ pc'[p] = "connect" /\ exit'[p] = Running
        \/ ~Accepts(l) /\ pc'[p] = "end" /\ exit'[p] = Refusal(l)
    <3>1. CASE Accepts(l) /\ Goto(p, "connect")
      BY <1>2, <3>1 DEF TypeOK
    <3>2. CASE ~Accepts(l) /\ End(p, Refusal(l))
      BY <3>2 DEF TypeOK
    <3> QED
      BY <1>4, <3>1, <3>2
  <2>3. Refusal(l) # Running /\ (l.prog = "iqstat" => Refusal(l) # 0)
    BY DEF Refusal, Running, Usage
  <2>4. ProgramAt(p)'
    BY <2>1, <2>2, <2>3 DEF ProgramAt
  <2>5. l.prog = "iqdel" /\ Accepts(l) =>
          /\ l.ids = <<>> => wanted'[p] = {} /\ told'[p] = {}
          /\ l.ids # <<>> => wanted'[p] = IdSet(l.ids) /\ told'[p] = {l.ids[Len(l.ids)]}
    <3> HIDE DEF Start, Goto, End
    <3>1. DOMAIN wanted = Shells /\ DOMAIN told = Shells
      BY DEF TypeOK
    <3> QED
      BY <1>2, <1>4, <3>1
  <2>6. Deleting(p)'
    BY <2>1, <2>2, <2>5 DEF Deleting, NotAsked, ToDelete
  <2>7. Answering(p)' /\ OfUserOrHanded(p)' /\ Listing(p)'
    BY <2>1, <2>2, <2>3 DEF Answering, OfUserOrHanded, ToDelete, Listing
  <2> QED
    <3>1. \A s \in Shells \ {p} : pc'[s] = pc[s] /\ exit'[s] = exit[s]
      <4>1. CASE Goto(p, "connect")
        BY <4>1 DEF TypeOK
      <4>2. CASE End(p, Refusal(l))
        BY <4>2 DEF TypeOK
      <4> QED
        BY <1>4, <4>1, <4>2
    <3>2. \A s \in Shells \ {p} : wanted'[s] = wanted[s] /\ told'[s] = told[s]
      <4>1. CASE UNCHANGED request
        BY <4>1
      <4>2. CASE /\ wanted' = [wanted EXCEPT ![p] = IdSet(l.ids)]
                 /\ told' = [told EXCEPT ![p] = {l.ids[Len(l.ids)]}]
        BY <4>2 DEF TypeOK
      <4> QED
        BY <1>4, <4>1, <4>2
    <3>3. \A s \in Shells \ {p} : line'[s] = line[s] /\ ids'[s] = ids[s]
      BY <1>4 DEF TypeOK
    <3>4. \A s \in Shells \ {p} : Untouched(s)
      BY <3>1, <3>2, <3>3 DEF Untouched
    <3> QED
      BY <1>1, <2>4, <2>6, <2>7, <3>4 DEF Kept, ShellInv
<1> QED
  BY <1>3, <1>4

LEMMA ConnectKept ==
    ASSUME TypeOK, NEW p \in Shells, ShellInv(p), Connect(p) \/ Authenticate(p)
    PROVE  Kept(p)
<1> USE DEF Connect, Authenticate, Goto, End, result, request, history
<1>1. QueueMoves /\ \A s \in Shells \ {p} : Untouched(s)
  BY DEF TypeOK, QueueMoves, Untouched
<1>2. UNCHANGED <<queue, line, ids, rows, page, more, saved, wanted, told, printed, failed, handed>>
  OBVIOUS
<1>3. pc[p] \in {"connect", "authenticate"} /\ exit[p] = Running
  BY DEF ShellInv, ProgramAt
<1>4. \/ pc'[p] = "authenticate" /\ exit'[p] = Running
      \/ pc'[p] = "end" /\ exit'[p] \in {1, 2, 3, Crashed}
      \/ /\ line[p].prog = "iqdel" /\ exit'[p] = Running
         /\ pc'[p] = (IF ids[p] = <<>> THEN "query" ELSE "named")
      \/ line[p].prog = "iqmod" /\ pc'[p] = "modify" /\ exit'[p] = Running
      \/ line[p].prog = "iqstat" /\ pc'[p] = "list" /\ exit'[p] = Running
  BY <1>3 DEF TypeOK
<1>9. pc'[p] = "end" <=> exit'[p] # Running
  BY <1>4 DEF Running, Crashed
<1>10. pc'[p] = "end" => exit'[p] # 0
  BY <1>4 DEF Running, Crashed
<1>5. ProgramAt(p)'
  BY <1>2, <1>3, <1>4, <1>9 DEF ShellInv, ProgramAt
<1>6. Deleting(p)'
  BY <1>2, <1>3, <1>4 DEF ShellInv, Deleting, NotAsked, ToDelete
<1>7. Answering(p)' /\ OfUserOrHanded(p)'
  BY <1>2, <1>3, <1>4 DEF ShellInv, Answering, OfUserOrHanded, ToDelete
<1>8. Listing(p)'
  BY <1>4, <1>10 DEF Listing
<1> QED
  BY <1>1, <1>5, <1>6, <1>7, <1>8 DEF Kept, ShellInv

\* What deleting a rule, or failing to, does.
LEMMA RuleExecDelMoves ==
    ASSUME TypeOK, NEW r \in Rules, NEW ok \in BOOLEAN, RuleExecDel(r, ok), UNCHANGED handed
    PROVE  /\ QueueMoves
           /\ ok => queue'[r] = Gone
           /\ \/ queue' = queue
              \/ r \in Queued /\ queue' = [queue EXCEPT ![r] = Gone]
<1>1. CASE queue' = queue /\ ~ok
  BY <1>1 DEF QueueMoves
<1>2. CASE r \in Queued /\ queue' = [queue EXCEPT ![r] = Gone]
  <2>1. queue'[r] = Gone /\ \A q \in Rules \ {r} : queue'[q] = queue[q]
    BY <1>2 DEF TypeOK
  <2>2. queue[r] \in Users
    BY <1>2 DEF Queued
  <2> QED
    BY <1>2, <2>1, <2>2 DEF QueueMoves
<1> QED
  BY <1>1, <1>2 DEF RuleExecDel

LEMMA EmptySeq == ASSUME NEW names \in Seq(Rules) PROVE names = <<>> <=> Len(names) = 0
OBVIOUS

LEMMA LastOfTail ==
    ASSUME NEW names \in Seq(Rules), names # <<>>
    PROVE  /\ Tail(names) # <<>> <=> Len(names) > 1
           /\ Tail(names) # <<>> => Tail(names)[Len(Tail(names))] = names[Len(names)]
           /\ IdSet(Tail(names)) \subseteq IdSet(names)
           /\ names[1] \in IdSet(names)
           /\ Tail(names) = <<>> => names[1] = names[Len(names)]
<1>1. Len(names) \in Nat /\ Len(names) >= 1
  OBVIOUS
<1>2. /\ Len(Tail(names)) = Len(names) - 1
      /\ \A i \in 1 .. Len(names) - 1 : Tail(names)[i] = names[i + 1]
      /\ DOMAIN Tail(names) = 1 .. Len(names) - 1
      /\ DOMAIN names = 1 .. Len(names)
  OBVIOUS
<1>3. IdSet(Tail(names)) \subseteq IdSet(names)
  BY <1>1, <1>2 DEF IdSet
<1>4. names[1] \in IdSet(names)
  BY <1>1, <1>2 DEF IdSet
<1>5. Tail(names) # <<>> <=> Len(names) > 1
  <2>1. Tail(names) \in Seq(Rules)
    OBVIOUS
  <2>2. Tail(names) = <<>> <=> Len(Tail(names)) = 0
    BY <2>1, EmptySeq
  <2> QED
    BY <1>1, <1>2, <2>2
<1>6. Tail(names) # <<>> => Tail(names)[Len(Tail(names))] = names[Len(names)]
  BY <1>1, <1>2, <1>5
<1>7. Tail(names) = <<>> => names[1] = names[Len(names)]
  BY <1>1, <1>5
<1> QED
  BY <1>3, <1>4, <1>5, <1>6, <1>7

LEMMA DeleteNamedKept ==
    ASSUME TypeOK, NEW p \in Shells, ShellInv(p), DeleteNamed(p)
    PROVE  Kept(p)
<1> USE DEF result, request
<1> DEFINE names == ids[p]
           r == names[1]
<1>1. /\ pc[p] = "named" /\ names \in Seq(Rules) /\ names # <<>> /\ r \in Rules
      /\ exit[p] = Running /\ line[p].prog = "iqdel"
  BY NamesTyped DEF DeleteNamed, TypeOK, ShellInv, ProgramAt
<1>2. PICK ok \in BOOLEAN :
         /\ RuleExecDel(r, ok)
         /\ saved' = [saved EXCEPT ![p] = NamedStatus(p, ok)]
         /\ Failing(p, ok)
  BY DEF DeleteNamed
<1>3. /\ UNCHANGED <<line, rows, page, more, exit, wanted, told, printed, handed>>
      /\ ids' = [ids EXCEPT ![p] = Tail(names)]
      /\ pc' = [pc EXCEPT ![p] = IF Len(names) > 1 THEN "named" ELSE "report"]
  BY DEF DeleteNamed, Goto
<1>4. /\ QueueMoves
      /\ ok => queue'[r] = Gone
  BY <1>1, <1>2, <1>3, RuleExecDelMoves
<1>5. \A s \in Shells \ {p} : Untouched(s)
  BY <1>2, <1>3 DEF TypeOK, Untouched, Failing
<1>6. /\ ids'[p] = Tail(names)
      /\ pc'[p] = (IF Len(names) > 1 THEN "named" ELSE "report")
      /\ saved'[p] = 0 => ok
  <2>1. ids'[p] = Tail(names) /\ pc'[p] = (IF Len(names) > 1 THEN "named" ELSE "report")
    BY <1>3 DEF TypeOK
  <2>2. saved'[p] = NamedStatus(p, ok)
    BY <1>2 DEF TypeOK
  <2>3. NamedStatus(p, ok) = 0 => ok
    BY DEF NamedStatus, Error
  <2> QED
    BY <2>1, <2>2, <2>3
<1>7. /\ page[p] = {} /\ rows[p] = {} /\ IdSet(names) \subseteq wanted[p]
      /\ told[p] = {names[Len(names)]}
  BY <1>1 DEF ShellInv, Deleting, NotAsked
<1> HIDE DEF names, r
<1>8. /\ Tail(names) # <<>> <=> Len(names) > 1
      /\ Tail(names) # <<>> => Tail(names)[Len(Tail(names))] = names[Len(names)]
      /\ IdSet(Tail(names)) \subseteq IdSet(names)
      /\ Tail(names) = <<>> => names[1] = names[Len(names)]
  BY <1>1, LastOfTail
<1>9. \/ pc'[p] = "named" /\ Tail(names) # <<>>
      \/ pc'[p] = "report" /\ Tail(names) = <<>>
  <2>1. ASSUME Len(names) > 1 PROVE pc'[p] = "named" /\ Tail(names) # <<>>
    <3>1. pc'[p] = "named"
      BY <1>6, <2>1
    <3>2. Tail(names) # <<>>
      BY <1>8, <2>1, Zenon
    <3> QED
      BY <3>1, <3>2
  <2>2. ASSUME ~(Len(names) > 1) PROVE pc'[p] = "report" /\ Tail(names) = <<>>
    <3>1. pc'[p] = "report"
      BY <1>6, <2>2
    <3>2. Tail(names) = <<>>
      BY <1>8, <2>2, Zenon
    <3> QED
      BY <3>1, <3>2
  <2> QED
    BY <2>1, <2>2
<1>10. ProgramAt(p)'
  BY <1>1, <1>3, <1>9 DEF ProgramAt
<1>11. Deleting(p)'
  BY <1>3, <1>6, <1>7, <1>8, <1>9 DEF Deleting, NotAsked, ToDelete
<1>12. Answering(p)'
  BY <1>3, <1>4, <1>6, <1>7, <1>8, <1>9 DEF Answering, r
<1>13. OfUserOrHanded(p)' /\ Listing(p)'
  BY <1>1, <1>3, <1>7 DEF OfUserOrHanded, ToDelete, Listing
<1> QED
  BY <1>4, <1>5, <1>10, <1>11, <1>12, <1>13 DEF Kept, ShellInv

\* A page of the rows S that are left: all that is known of the next state.
LEMMA DeletePageKept ==
    ASSUME TypeOK, NEW p \in Shells, NEW S \in SUBSET Rules, DeletePage(p, S),
           line[p].prog = "iqdel", exit[p] = Running,
           page[p] = {} /\ (rows[p] = {} \/ rows[p] = S)
    PROVE  /\ exit' = exit
           /\ \/ /\ pc'[p] = "page" /\ page'[p] \union rows'[p] = S /\ saved'[p] = saved[p]
                 /\ ~more'[p] => rows'[p] = {}
              \/ /\ pc'[p] = "report" /\ page'[p] = page[p] /\ rows'[p] = rows[p]
                 /\ S # {} => saved'[p] = Error
                 /\ saved'[p] = 0 => saved[p] = 0
           /\ \A s \in Shells \ {p} :
                /\ pc'[s] = pc[s] /\ page'[s] = page[s] /\ rows'[s] = rows[s]
                /\ more'[s] = more[s] /\ saved'[s] = saved[s] /\ (s \in failed' <=> s \in failed)
<1> USE DEF DeletePage, Goto
<1>1. CASE S # {} /\ Fetch(p, S) /\ Goto(p, "page") /\ UNCHANGED <<saved, failed>>
  <2>1. PageOf(S) \subseteq S /\ (~Continues(S) => PageOf(S) = S)
    BY PageFacts
  <2>2. page'[p] = PageOf(S) /\ rows'[p] = S \ PageOf(S) /\ more'[p] = Continues(S)
    BY <1>1 DEF Fetch, TypeOK
  <2> QED
    BY <1>1, <2>1, <2>2 DEF Fetch, TypeOK
<1>2. CASE S = {} /\ Goto(p, "report") /\ UNCHANGED <<result, saved, failed>>
  BY <1>2 DEF TypeOK, result
<1>3. CASE /\ saved' = [saved EXCEPT ![p] = Error]
           /\ Failing(p, FALSE) /\ Goto(p, "report") /\ UNCHANGED result
  <2>1. saved'[p] = Error /\ Error # 0
    <3>1. saved'[p] = Error
      BY <1>3 DEF TypeOK
    <3> QED
      BY <3>1 DEF Error
  <2>2. pc'[p] = "report" /\ page' = page /\ rows' = rows /\ more' = more /\ exit' = exit
    BY <1>3 DEF TypeOK, result
  <2> QED
    BY <1>3, <2>1, <2>2 DEF TypeOK, Failing
<1> QED
  BY <1>1, <1>2, <1>3

LEMMA DeleteQueryKept ==
    ASSUME TypeOK, NEW p \in Shells, ShellInv(p), DeleteQuery(p)
    PROVE  Kept(p)
<1> DEFINE S == Matching(p)
<1>1. /\ pc[p] = "query" /\ exit[p] = Running /\ line[p].prog = "iqdel"
      /\ ids[p] = <<>> /\ page[p] = {} /\ rows[p] = {} /\ wanted[p] = {} /\ told[p] = {}
  BY DEF DeleteQuery, ShellInv, ProgramAt, Deleting, NotAsked
<1>2. /\ DeletePage(p, S) /\ S \in SUBSET Rules
      /\ UNCHANGED <<queue, line, ids, printed, handed>>
      /\ IF pc'[p] = "page"
         THEN wanted' = [wanted EXCEPT ![p] = S] /\ told' = [told EXCEPT ![p] = S]
         ELSE wanted' = wanted /\ told' = told
  BY MatchingTyped DEF DeleteQuery, request
<1>3. \A r \in S : queue[r] \in Users /\ (line[p].all \/ queue[r] \in line[p].user)
  BY DEF Matching, Queued
<1>4. QueueMoves
  BY <1>2 DEF QueueMoves
<1> HIDE DEF S
<1>5. /\ exit' = exit
      /\ \/ /\ pc'[p] = "page" /\ page'[p] \union rows'[p] = S /\ saved'[p] = saved[p]
            /\ ~more'[p] => rows'[p] = {}
         \/ /\ pc'[p] = "report" /\ page'[p] = {} /\ rows'[p] = {}
      /\ \A s \in Shells \ {p} :
           /\ pc'[s] = pc[s] /\ page'[s] = page[s] /\ rows'[s] = rows[s]
           /\ more'[s] = more[s] /\ saved'[s] = saved[s] /\ (s \in failed' <=> s \in failed)
  BY <1>1, <1>2, DeletePageKept
<1>6. /\ pc'[p] = "page" => wanted'[p] = S /\ told'[p] = S
      /\ pc'[p] # "page" => wanted'[p] = {} /\ told'[p] = {}
      /\ \A s \in Shells \ {p} : wanted'[s] = wanted[s] /\ told'[s] = told[s]
  <2>1. CASE pc'[p] = "page"
    BY <1>2, <2>1 DEF TypeOK
  <2>2. CASE pc'[p] # "page"
    BY <1>1, <1>2, <2>2
  <2> QED
    BY <2>1, <2>2
<1>7. \A s \in Shells \ {p} : Untouched(s)
  BY <1>2, <1>5, <1>6 DEF Untouched
<1>8. ProgramAt(p)'
  BY <1>1, <1>2, <1>5 DEF ProgramAt
<1>9. Deleting(p)'
  BY <1>1, <1>2, <1>5, <1>6 DEF Deleting, NotAsked, ToDelete
<1>10. Answering(p)'
  BY <1>5, <1>6 DEF Answering, ToDelete
<1>11. OfUserOrHanded(p)'
  <2>1. \A r \in S : queue'[r] # Unborn /\ (line'[p].all \/ queue'[r] \in line'[p].user)
    BY <1>2, <1>3, RuleQueueAssumption
  <2>2. ToDelete(p)' \subseteq S
    BY <1>5 DEF ToDelete
  <2> QED
    BY <2>1, <2>2 DEF OfUserOrHanded
<1>12. Listing(p)'
  BY <1>1, <1>2 DEF Listing
<1> QED
  BY <1>4, <1>7, <1>8, <1>9, <1>10, <1>11, <1>12 DEF Kept, ShellInv

LEMMA DeleteNextKept ==
    ASSUME TypeOK, NEW p \in Shells, ShellInv(p), DeleteNext(p)
    PROVE  Kept(p)
<1>1. /\ pc[p] = "next" /\ exit[p] = Running /\ line[p].prog = "iqdel" /\ page[p] = {}
      /\ rows[p] \in SUBSET Rules /\ rows[p] \subseteq wanted[p]
  BY DEF DeleteNext, ShellInv, ProgramAt, Deleting, ToDelete, TypeOK
<1>2. /\ DeletePage(p, rows[p])
      /\ UNCHANGED <<queue, line, ids, wanted, told, printed, handed>>
  BY DEF DeleteNext, request
<1>3. QueueMoves
  BY <1>2 DEF QueueMoves
<1>4. /\ exit' = exit
      /\ \/ /\ pc'[p] = "page" /\ page'[p] \union rows'[p] = rows[p] /\ saved'[p] = saved[p]
            /\ ~more'[p] => rows'[p] = {}
         \/ /\ pc'[p] = "report" /\ page'[p] = {} /\ rows'[p] = rows[p]
            /\ rows[p] # {} => saved'[p] = Error
            /\ saved'[p] = 0 => saved[p] = 0
      /\ \A s \in Shells \ {p} :
           /\ pc'[s] = pc[s] /\ page'[s] = page[s] /\ rows'[s] = rows[s]
           /\ more'[s] = more[s] /\ saved'[s] = saved[s] /\ (s \in failed' <=> s \in failed)
  BY <1>1, <1>2, DeletePageKept
<1>5. \A s \in Shells \ {p} : Untouched(s)
  BY <1>2, <1>4 DEF Untouched
<1>6. ToDelete(p)' = ToDelete(p)
  BY <1>1, <1>4 DEF ToDelete
<1>7. ProgramAt(p)'
  BY <1>1, <1>2, <1>4 DEF ProgramAt
<1>8. Deleting(p)'
  BY <1>1, <1>2, <1>4, <1>6 DEF Deleting, NotAsked, ToDelete
<1>9. Answering(p)'
  <2>1. Error # 0
    BY DEF Error
  <2>2. saved[p] = 0 => \A r \in told[p] : r \in rows[p] \/ queue[r] = Gone
    BY <1>1 DEF ShellInv, Answering, ToDelete
  <2> QED
    BY <1>2, <1>4, <2>1, <2>2 DEF Answering, ToDelete
<1>10. OfUserOrHanded(p)'
  BY <1>2, <1>6 DEF ShellInv, OfUserOrHanded
<1>11. Listing(p)'
  BY <1>1, <1>2 DEF Listing
<1> QED
  BY <1>3, <1>5, <1>7, <1>8, <1>9, <1>10, <1>11 DEF Kept, ShellInv

LEMMA DeleteRowKept ==
    ASSUME TypeOK, NEW p \in Shells, ShellInv(p), DeleteRow(p)
    PROVE  Kept(p)
<1>1. /\ pc[p] = "page" /\ exit[p] = Running /\ line[p].prog = "iqdel"
      /\ page[p] \in SUBSET Rules /\ ToDelete(p) \subseteq wanted[p] /\ (~more[p] => rows[p] = {})
  BY DEF DeleteRow, ShellInv, ProgramAt, Deleting, TypeOK
<1>2. PICK r \in page[p], ok \in BOOLEAN :
         /\ RuleExecDel(r, ok)
         /\ saved' = [saved EXCEPT ![p] = RowStatus(p, ok)]
         /\ Failing(p, ok)
         /\ page' = [page EXCEPT ![p] = @ \ {r}]
  BY DEF DeleteRow
<1>3. /\ UNCHANGED <<line, ids, rows, more, exit, wanted, told, printed, handed>>
      /\ pc' = [pc EXCEPT ![p] = IF page'[p] # {} THEN "page" ELSE IF more[p] THEN "next" ELSE "report"]
  BY DEF DeleteRow, Goto, request
<1>4. /\ QueueMoves
      /\ ok => queue'[r] = Gone
  BY <1>1, <1>2, <1>3, RuleExecDelMoves
<1>5. \A s \in Shells \ {p} : Untouched(s)
  BY <1>2, <1>3 DEF TypeOK, Untouched, Failing
<1>6. /\ page'[p] = page[p] \ {r}
      /\ saved'[p] = 0 => ok /\ saved[p] = 0
      /\ pc'[p] \in {"page", "next", "report"}
      /\ pc'[p] # "page" => page'[p] = {}
      /\ pc'[p] = "report" => ~more[p]
  <2>1. page'[p] = page[p] \ {r}
    BY <1>2 DEF TypeOK
  <2>2. saved'[p] = RowStatus(p, ok)
    BY <1>2 DEF TypeOK
  <2>3. RowStatus(p, ok) = 0 => ok /\ saved[p] = 0
    BY DEF RowStatus, Error
  <2>4. pc'[p] = (IF page'[p] # {} THEN "page" ELSE IF more[p] THEN "next" ELSE "report")
    BY <1>3 DEF TypeOK
  <2> QED
    BY <2>1, <2>2, <2>3, <2>4
<1>7. ToDelete(p)' \subseteq ToDelete(p) /\ ToDelete(p) \subseteq ToDelete(p)' \union {r}
  BY <1>3, <1>6 DEF ToDelete
<1>8. ProgramAt(p)'
  BY <1>1, <1>3, <1>6 DEF ProgramAt
<1>9. Deleting(p)'
  BY <1>1, <1>3, <1>6, <1>7 DEF Deleting, NotAsked
<1>10. Answering(p)'
  <2>1. ASSUME saved'[p] = 0, NEW t \in told[p]
        PROVE  t \in ToDelete(p)' \/ queue'[t] = Gone
    <3>1. t \in Rules
      BY DEF TypeOK
    <3>2. t \in ToDelete(p) \/ queue[t] = Gone
      BY <1>1, <1>6, <2>1 DEF ShellInv, Answering
    <3>3. queue[t] = Gone => queue'[t] = Gone
      BY <1>4, <3>1, RuleQueueAssumption DEF QueueMoves
    <3> QED
      BY <1>4, <1>6, <1>7, <2>1, <3>2, <3>3
  <2>2. pc'[p] = "report" => ToDelete(p)' = {}
    BY <1>1, <1>3, <1>6 DEF ToDelete
  <2> QED
    BY <1>3, <2>1, <2>2 DEF Answering
<1>11. OfUserOrHanded(p)'
  <2>1. ASSUME NEW t \in ToDelete(p)'
        PROVE  /\ queue'[t] # Unborn
               /\ line'[p].all \/ queue'[t] = Gone \/ queue'[t] \in line'[p].user \/ <<p, t>> \in handed'
    <3>1. t \in Rules /\ t \in ToDelete(p)
      BY <1>1, <1>7, <2>1 DEF TypeOK
    <3>2. /\ queue[t] # Unborn
          /\ line[p].all \/ queue[t] = Gone \/ queue[t] \in line[p].user \/ <<p, t>> \in handed
      BY <1>1, <3>1 DEF ShellInv, OfUserOrHanded
    <3>3. queue'[t] = queue[t] \/ queue'[t] = Gone
      <4>1. queue' = queue \/ queue' = [queue EXCEPT ![r] = Gone]
        BY <1>2 DEF RuleExecDel
      <4> QED
        BY <3>1, <4>1 DEF TypeOK
    <3> QED
      BY <1>3, <3>2, <3>3, RuleQueueAssumption
  <2> QED
    BY <2>1 DEF OfUserOrHanded
<1>12. Listing(p)'
  BY <1>1, <1>3 DEF Listing
<1> QED
  BY <1>4, <1>5, <1>8, <1>9, <1>10, <1>11, <1>12 DEF Kept, ShellInv

LEMMA ReportKept ==
    ASSUME TypeOK, NEW p \in Shells, ShellInv(p), Report(p)
    PROVE  Kept(p)
<1> USE DEF Report, End, result, request, history
<1>1. QueueMoves /\ \A s \in Shells \ {p} : Untouched(s)
  BY DEF TypeOK, QueueMoves, Untouched
<1>2. pc'[p] = "end" /\ exit'[p] \in {0, 4}
  BY DEF TypeOK
<1>3. /\ pc[p] = "report" /\ line[p].prog = "iqdel"
      /\ UNCHANGED <<queue, line, ids, rows, page, more, saved, wanted, told, printed, failed, handed>>
  BY DEF ShellInv, ProgramAt
<1>4. ProgramAt(p)'
  <2>1. exit'[p] # Running
    BY <1>2 DEF Running
  <2> QED
    BY <1>2, <2>1 DEF ProgramAt
<1>5. Deleting(p)'
  BY <1>2, <1>3 DEF ShellInv, Deleting, NotAsked, ToDelete
<1>6. Answering(p)' /\ OfUserOrHanded(p)' /\ Listing(p)'
  BY <1>2, <1>3 DEF ShellInv, Answering, OfUserOrHanded, ToDelete, Listing
<1> QED
  BY <1>1, <1>4, <1>5, <1>6 DEF Kept, ShellInv

LEMMA ModifyKept ==
    ASSUME TypeOK, NEW p \in Shells, ShellInv(p), Modify(p)
    PROVE  Kept(p)
<1> USE DEF result, request
<1> DEFINE r == ids[p][1]
<1>1. /\ pc[p] = "modify" /\ line[p].prog = "iqmod"
      /\ UNCHANGED <<line, ids, rows, page, more, saved, wanted, told, printed, failed>>
  BY DEF Modify, ShellInv, ProgramAt
<1>2. PICK code \in {0, 4} : End(p, code)
  BY DEF Modify
<1>3. \/ UNCHANGED <<queue, handed>>
      \/ \E u \in Users : /\ r \in Queued
                          /\ queue' = [queue EXCEPT ![r] = u]
                          /\ handed' = handed \union {<<s, r>> : s \in {t \in Shells : r \in wanted[t]}}
  BY DEF Modify
<1>4. QueueMoves
  <2>1. CASE UNCHANGED <<queue, handed>>
    BY <2>1 DEF QueueMoves
  <2>2. ASSUME NEW u \in Users, r \in Queued, queue' = [queue EXCEPT ![r] = u],
               handed' = handed \union {<<s, r>> : s \in {t \in Shells : r \in wanted[t]}}
        PROVE  QueueMoves
    <3>1. r \in Rules /\ queue[r] \in Users
      BY <2>2 DEF Queued
    <3> HIDE DEF r
    <3>2. queue'[r] = u /\ \A q \in Rules \ {r} : queue'[q] = queue[q]
      BY <2>2, <3>1 DEF TypeOK
    <3>3. handed \subseteq handed' /\ \A s \in Shells : r \in wanted[s] => <<s, r>> \in handed'
      BY <2>2
    <3> QED
      BY <3>1, <3>2, <3>3 DEF QueueMoves
  <2> QED
    BY <1>3, <2>1, <2>2
<1>5. pc'[p] = "end" /\ exit'[p] # Running /\ \A s \in Shells \ {p} : Untouched(s)
  <2>1. pc'[p] = "end" /\ exit'[p] = code
    BY <1>2 DEF End, TypeOK
  <2>2. code # Running
    BY DEF Running
  <2>3. \A s \in Shells \ {p} : Untouched(s)
    BY <1>1, <1>2 DEF End, TypeOK, Untouched
  <2> QED
    BY <2>1, <2>2, <2>3
<1>6. ProgramAt(p)'
  BY <1>5 DEF ProgramAt
<1>7. Deleting(p)' /\ Answering(p)' /\ OfUserOrHanded(p)' /\ Listing(p)'
  BY <1>1 DEF Deleting, Answering, OfUserOrHanded, Listing
<1> QED
  BY <1>4, <1>5, <1>6, <1>7 DEF Kept, ShellInv

\* A page of the rows S that are left, printed.
LEMMA ShowMoves ==
    ASSUME TypeOK, NEW p \in Shells, NEW S \in SUBSET Rules, Show(p, S), exit[p] = Running
    PROVE  /\ printed'[p] \union rows'[p] = printed[p] \union S
           /\ \/ pc'[p] = "more" /\ exit'[p] = Running
              \/ pc'[p] = "end" /\ exit'[p] = 0 /\ printed'[p] = printed[p] \union S
           /\ \A s \in Shells \ {p} :
                /\ pc'[s] = pc[s] /\ page'[s] = page[s] /\ rows'[s] = rows[s]
                /\ more'[s] = more[s] /\ printed'[s] = printed[s] /\ exit'[s] = exit[s]
<1>1. PageOf(S) \subseteq S /\ (~Continues(S) => PageOf(S) = S)
  BY PageFacts
<1>2. rows'[p] = S \ PageOf(S) /\ printed'[p] = printed[p] \union PageOf(S)
  BY DEF Show, Fetch, TypeOK
<1>3. \A s \in Shells \ {p} :
         /\ page'[s] = page[s] /\ rows'[s] = rows[s] /\ more'[s] = more[s]
         /\ printed'[s] = printed[s]
  BY DEF Show, Fetch, TypeOK
<1>4. CASE Continues(S) /\ Goto(p, "more")
  BY <1>1, <1>2, <1>3, <1>4 DEF Goto, TypeOK
<1>5. CASE ~Continues(S) /\ End(p, 0)
  BY <1>1, <1>2, <1>3, <1>5 DEF End, TypeOK
<1> QED
  BY <1>4, <1>5 DEF Show

LEMMA ListKept ==
    ASSUME TypeOK, NEW p \in Shells, ShellInv(p), List(p)
    PROVE  Kept(p)
<1> USE DEF result
<1> DEFINE S == Matching(p)
<1>1. /\ pc[p] = "list" /\ line[p].prog = "iqstat" /\ exit[p] = Running /\ printed[p] = {}
      /\ UNCHANGED <<queue, line, ids, saved, told, handed>>
      /\ wanted' = [wanted EXCEPT ![p] = S] /\ S \in SUBSET Rules
  BY MatchingTyped DEF List, ShellInv, ProgramAt
<1>2. QueueMoves
  BY <1>1 DEF QueueMoves
<1>3. \/ Show(p, S) /\ UNCHANGED failed
      \/ S = {} /\ Goto(p, "user exists") /\ UNCHANGED <<result, printed, failed>>
      \/ \E code \in {1, Crashed} : End(p, code) /\ Failing(p, FALSE) /\ UNCHANGED <<result, printed>>
  BY DEF List
<1> HIDE DEF S
<1>4. wanted'[p] = S /\ \A s \in Shells \ {p} : wanted'[s] = wanted[s]
  BY <1>1 DEF TypeOK
<1>5. /\ \/ pc'[p] = "more" /\ exit'[p] = Running /\ printed'[p] \union rows'[p] = S
         \/ pc'[p] = "end" /\ exit'[p] = 0 /\ printed'[p] = S
         \/ pc'[p] = "user exists" /\ exit'[p] = Running /\ printed'[p] = S
         \/ pc'[p] = "end" /\ exit'[p] \in {1, Crashed}
      /\ \A s \in Shells \ {p} : Untouched(s)
  <2>1. CASE Show(p, S) /\ UNCHANGED failed
    <3>1. /\ printed'[p] \union rows'[p] = printed[p] \union S
          /\ \/ pc'[p] = "more" /\ exit'[p] = Running
             \/ pc'[p] = "end" /\ exit'[p] = 0 /\ printed'[p] = printed[p] \union S
      BY <1>1, <2>1, ShowMoves
    <3>2. \A s \in Shells \ {p} : Untouched(s)
      BY <1>1, <1>4, <2>1, ShowMoves DEF Untouched
    <3>3. printed[p] \union S = S
      BY <1>1
    <3> QED
      BY <3>1, <3>2, <3>3
  <2>2. CASE S = {} /\ Goto(p, "user exists") /\ UNCHANGED <<result, printed, failed>>
    BY <1>1, <1>4, <2>2 DEF Goto, TypeOK, Untouched
  <2>3. ASSUME NEW code \in {1, Crashed}, End(p, code), Failing(p, FALSE), UNCHANGED <<result, printed>>
        PROVE  /\ pc'[p] = "end" /\ exit'[p] \in {1, Crashed}
               /\ \A s \in Shells \ {p} : Untouched(s)
    BY <1>1, <1>4, <2>3 DEF End, Failing, TypeOK, Untouched
  <2> QED
    BY <1>3, <2>1, <2>2, <2>3
<1>6. exit'[p] \in {1, Crashed} => exit'[p] # Running /\ exit'[p] # 0
  BY DEF Running, Crashed
<1>7. 0 # Running
  BY DEF Running
<1>8. ProgramAt(p)'
  BY <1>1, <1>5, <1>6, <1>7 DEF ProgramAt
<1>9. Deleting(p)' /\ Answering(p)' /\ OfUserOrHanded(p)'
  BY <1>1 DEF Deleting, Answering, OfUserOrHanded
<1>10. Listing(p)'
  BY <1>4, <1>5, <1>6 DEF Listing
<1> QED
  BY <1>2, <1>5, <1>8, <1>9, <1>10 DEF Kept, ShellInv

LEMMA UserExistsKept ==
    ASSUME TypeOK, NEW p \in Shells, ShellInv(p), UserExists(p)
    PROVE  Kept(p)
<1> USE DEF result, request, history
<1>1. /\ pc[p] = "user exists" /\ line[p].prog = "iqstat"
      /\ UNCHANGED <<queue, line, ids, rows, page, more, saved, wanted, told, printed, failed, handed>>
  BY DEF UserExists, ShellInv, ProgramAt
<1>2. PICK code \in {0, 1} : End(p, code)
  BY DEF UserExists
<1>3. pc'[p] = "end" /\ exit'[p] = code /\ \A s \in Shells \ {p} : Untouched(s)
  BY <1>1, <1>2 DEF End, TypeOK, Untouched
<1>4. QueueMoves
  BY <1>1 DEF QueueMoves
<1>5. exit'[p] # Running
  BY <1>3 DEF Running
<1>6. ProgramAt(p)'
  BY <1>3, <1>5 DEF ProgramAt
<1>7. Deleting(p)' /\ Answering(p)' /\ OfUserOrHanded(p)'
  BY <1>1 DEF Deleting, Answering, OfUserOrHanded
<1>8. Listing(p)'
  BY <1>1, <1>3 DEF ShellInv, Listing
<1> QED
  BY <1>3, <1>4, <1>6, <1>7, <1>8 DEF Kept, ShellInv

LEMMA ListMoreKept ==
    ASSUME TypeOK, NEW p \in Shells, ShellInv(p), ListMore(p)
    PROVE  Kept(p)
<1> USE DEF result, request
<1>1. /\ pc[p] = "more" /\ line[p].prog = "iqstat" /\ exit[p] = Running
      /\ UNCHANGED <<queue, line, ids, saved, wanted, told, handed>>
      /\ rows[p] \in SUBSET Rules
      /\ p \notin failed => printed[p] \union rows[p] = wanted[p]
  BY DEF ListMore, ShellInv, ProgramAt, Listing, TypeOK
<1>2. QueueMoves
  BY <1>1 DEF QueueMoves
<1>3. /\ \/ pc'[p] = "more" /\ exit'[p] = Running
         \/ pc'[p] = "end" /\ exit'[p] = 0
      /\ p \notin failed' =>
           /\ p \notin failed
           /\ printed'[p] \union rows'[p] = printed[p] \union rows[p]
           /\ pc'[p] = "end" => printed'[p] = printed[p] \union rows[p]
      /\ \A s \in Shells \ {p} : Untouched(s)
  <2>1. CASE Show(p, rows[p]) /\ UNCHANGED failed
    BY <1>1, <2>1, ShowMoves DEF Untouched
  <2>2. CASE rows[p] = {} /\ End(p, 0) /\ UNCHANGED <<result, printed, failed>>
    BY <1>1, <2>2 DEF End, TypeOK, Untouched
  <2>3. CASE End(p, 0) /\ Failing(p, FALSE) /\ UNCHANGED <<result, printed>>
    BY <1>1, <2>3 DEF End, Failing, TypeOK, Untouched
  <2> QED
    BY <2>1, <2>2, <2>3 DEF ListMore
<1>4. 0 # Running
  BY DEF Running
<1>5. ProgramAt(p)'
  BY <1>1, <1>3, <1>4 DEF ProgramAt
<1>6. Deleting(p)' /\ Answering(p)' /\ OfUserOrHanded(p)'
  BY <1>1 DEF Deleting, Answering, OfUserOrHanded
<1>7. Listing(p)'
  BY <1>1, <1>3 DEF Listing
<1> QED
  BY <1>2, <1>3, <1>5, <1>6, <1>7 DEF Kept, ShellInv

LEMMA ServerMoves == ASSUME TypeOK, Server PROVE QueueMoves /\ \A s \in Shells : Untouched(s)
<1> USE DEF result, request, history
<1>1. UNCHANGED <<line, ids, pc, rows, page, more, saved, exit, wanted, told, printed, failed, handed>>
  BY DEF Server
<1>2. QueueMoves
  <2>1. PICK r \in Rules :
           \/ queue[r] = Unborn /\ \E u \in Users : queue' = [queue EXCEPT ![r] = u]
           \/ queue[r] \in Users /\ queue' = [queue EXCEPT ![r] = Gone]
    BY DEF Server
  <2>2. \A q \in Rules \ {r} : queue'[q] = queue[q]
    BY <2>1 DEF TypeOK
  <2>3. \/ queue[r] = Unborn /\ queue'[r] \in Users
        \/ queue[r] \in Users /\ queue'[r] = Gone
    BY <2>1 DEF TypeOK
  <2> QED
    BY <1>1, <2>2, <2>3 DEF QueueMoves
<1> QED
  BY <1>1, <1>2 DEF Untouched

LEMMA ShellKept ==
    ASSUME Inv, NEW p \in Shells, Start(p) \/ Step(p)
    PROVE  Kept(p)
BY StartKept, ConnectKept, DeleteNamedKept, DeleteQueryKept, DeleteNextKept, DeleteRowKept,
   ReportKept, ModifyKept, ListKept, UserExistsKept, ListMoreKept DEF Inv, Step

\* The invariant holds throughout every run.
THEOREM InvAlways == Spec => []Inv
<1>1. Init => Inv
  <2> SUFFICES ASSUME Init PROVE Inv
    OBVIOUS
  <2>1. TypeOK
    BY DEF Init, TypeOK
  <2>2. ASSUME NEW p \in Shells PROVE ShellInv(p)
    <3>1. /\ pc[p] = "ready" /\ line[p] = NoLine /\ line[p].prog = "none" /\ exit[p] = Running
          /\ wanted[p] = {} /\ told[p] = {} /\ page[p] = {} /\ rows[p] = {} /\ printed[p] = {}
      BY DEF Init, NoLine
    <3> QED
      BY <3>1 DEF ShellInv, ProgramAt, Deleting, Answering, OfUserOrHanded, Listing
  <2> QED
    BY <2>1, <2>2 DEF Inv
<1>2. ASSUME Inv, TypeOK', [Next]_vars PROVE Inv'
  <2>1. CASE Server
    BY <1>2, <2>1, ServerMoves, UntouchedKeepsInv DEF Inv
  <2>2. ASSUME NEW p \in Shells, Start(p) \/ Step(p) PROVE Inv'
    <3>1. Kept(p)
      BY <1>2, <2>2, ShellKept
    <3>2. \A s \in Shells \ {p} : ShellInv(s)'
      BY <1>2, <3>1, UntouchedKeepsInv DEF Inv, Kept
    <3> QED
      BY <1>2, <3>1, <3>2 DEF Inv, Kept
  <2>3. CASE UNCHANGED vars
    <3>1. QueueMoves /\ \A s \in Shells : Untouched(s)
      BY <2>3 DEF vars, result, request, history, QueueMoves, Untouched
    <3> QED
      BY <1>2, <3>1, UntouchedKeepsInv DEF Inv
  <2> QED
    BY <1>2, <2>1, <2>2, <2>3 DEF Next
<1> QED
  BY <1>1, <1>2, TypeCorrect, PTL DEF Spec

\* ListsAll, for every page size: a list that ends with status 0 and without a
\* failed page has every rule there was.
THEOREM ListsAllAlways == Spec => []ListsAll
<1>1. Inv => ListsAll
  <2>1. 0 # Running
    BY DEF Running
  <2> QED
    BY <2>1 DEF Inv, ShellInv, ProgramAt, Listing, ListsAll
<1> QED
  BY <1>1, InvAlways, PTL

\* OthersOnlyIfHanded, for any number of iqdels and iqmods at once.
THEOREM RemovesOwn == Spec => OthersOnlyIfHanded
<1>1. ASSUME Inv, NEW p \in Shells, NEW r \in Rules,
             line[p].prog = "iqdel", ~line[p].all, Removes(p, r)
      PROVE  queue[r] \in line[p].user \/ <<p, r>> \in handed
  <2>1. r \in ToDelete(p) /\ queue[r] \in Users
    BY <1>1 DEF Removes, ToDelete, Queued
  <2>2. queue[r] # Gone
    BY <2>1, RuleQueueAssumption
  <2> QED
    BY <1>1, <2>1, <2>2 DEF Inv, ShellInv, OfUserOrHanded
<1>2. Inv /\ [Next]_vars =>
        [\A p \in Shells, r \in Rules :
            line[p].prog = "iqdel" /\ ~line[p].all /\ Removes(p, r)
              => queue[r] \in line[p].user \/ <<p, r>> \in handed]_vars
  BY <1>1
<1> QED
  BY <1>2, InvAlways, PTL DEF Spec, OthersOnlyIfHanded

---------------------------------------------------------------------------
(* The queue service *)

\* A step of the service, or none.
Served == Q!Next \/ UNCHANGED <<queue, Asked, Promised, Answer>>

LEMMA DifferAt ==
    ASSUME NEW f, f = [s \in Shells |-> f[s]], NEW g, g = [s \in Shells |-> g[s]],
           NEW p \in Shells, \A s \in Shells \ {p} : g[s] = f[s]
    PROVE  g = [f EXCEPT ![p] = g[p]] /\ (g[p] = f[p] => g = f)
OBVIOUS

LEMMA ViewOfOthers ==
    ASSUME NEW p \in Shells, \A s \in Shells \ {p} : Untouched(s)
    PROVE  /\ Asked' = [Asked EXCEPT ![p] = Asked'[p]]
           /\ Promised' = [Promised EXCEPT ![p] = Promised'[p]]
           /\ Answer' = [Answer EXCEPT ![p] = Answer'[p]]
           /\ Asked'[p] = Asked[p] => Asked' = Asked
           /\ Promised'[p] = Promised[p] => Promised' = Promised
           /\ Answer'[p] = Answer[p] => Answer' = Answer
<1>1. \A s \in Shells \ {p} :
         Asked'[s] = Asked[s] /\ Promised'[s] = Promised[s] /\ Answer'[s] = Answer[s]
  BY DEF Asked, Promised, Answer, Untouched
<1>2. /\ Asked = [s \in Shells |-> Asked[s]] /\ Asked' = [s \in Shells |-> Asked'[s]]
      /\ Promised = [s \in Shells |-> Promised[s]] /\ Promised' = [s \in Shells |-> Promised'[s]]
      /\ Answer = [s \in Shells |-> Answer[s]] /\ Answer' = [s \in Shells |-> Answer'[s]]
  BY DEF Asked, Promised, Answer
<1> QED
  BY <1>1, <1>2, DifferAt

LEMMA SameView ==
    ASSUME NEW p \in Shells, \A s \in Shells \ {p} : Untouched(s),
           Asked'[p] = Asked[p], Promised'[p] = Promised[p], Answer'[p] = Answer[p]
    PROVE  UNCHANGED <<Asked, Promised, Answer>>
BY ViewOfOthers

\* A shell that runs no iqdel is not seen.
LEMMA OtherProgram ==
    ASSUME NEW p \in Shells, \A s \in Shells \ {p} : Untouched(s),
           line[p].prog # "iqdel", line'[p].prog # "iqdel"
    PROVE  UNCHANGED <<Asked, Promised, Answer>>
<1>1. Asked'[p] = Asked[p] /\ Promised'[p] = Promised[p] /\ Answer'[p] = Answer[p]
  BY DEF Asked, Promised, Answer
<1> QED
  BY <1>1, SameView

LEMMA AnswerServed ==
    ASSUME NEW p \in Shells, \A s \in Shells \ {p} : Untouched(s), UNCHANGED queue,
           Asked'[p] = Asked[p], Promised'[p] = Promised[p],
           Answer[p] = "none",
           \/ Answer'[p] = "failure"
           \/ Answer'[p] = "success" /\ Promised[p] \intersect Queued = {}
    PROVE  Served
<1>1. Answer' = [Answer EXCEPT ![p] = Answer'[p]] /\ UNCHANGED <<Asked, Promised>>
  BY ViewOfOthers
<1>2. Q!Answer(p)
  BY <1>1 DEF Q!Answer, Q!Queued, Queued
<1> QED
  BY <1>2 DEF Served, Q!Next

LEMMA AskServed ==
    ASSUME NEW p \in Shells, \A s \in Shells \ {p} : Untouched(s), UNCHANGED queue,
           Answer[p] = "none", Answer'[p] = "none", Asked[p] = {},
           \/ \E users \in SUBSET Users :
                Asked'[p] = Q!OfUsers(users) /\ Promised'[p] = Q!OfUsers(users)
           \/ \E S \in SUBSET Rules : \E r \in S : Asked'[p] = S /\ Promised'[p] = {r}
    PROVE  Served
<1>1. /\ Asked' = [Asked EXCEPT ![p] = Asked'[p]]
      /\ Promised' = [Promised EXCEPT ![p] = Promised'[p]]
      /\ UNCHANGED Answer
  BY ViewOfOthers
<1>2. Q!Ask(p)
  BY <1>1 DEF Q!Ask
<1> QED
  BY <1>2 DEF Served, Q!Next

LEMMA RemoveServed ==
    ASSUME NEW p \in Shells, UNCHANGED <<Asked, Promised, Answer>>,
           NEW r \in Rules, NEW ok \in BOOLEAN, RuleExecDel(r, ok), r \in Asked[p], Answer[p] = "none"
    PROVE  Served
<1>1. CASE UNCHANGED queue
  BY <1>1 DEF Served
<1>2. CASE r \in Queued /\ queue' = [queue EXCEPT ![r] = Gone]
  <2>1. Q!Remove(p)
    BY <1>2 DEF Q!Remove, Q!Queued, Queued
  <2> QED
    BY <2>1 DEF Served, Q!Next
<1> QED
  BY <1>1, <1>2 DEF RuleExecDel

LEMMA StartServed ==
    ASSUME Inv, NEW p \in Shells, Start(p)
    PROVE  Served
<1>1. \A s \in Shells \ {p} : Untouched(s)
  BY ShellKept DEF Kept
<1>2. /\ line[p] = NoLine /\ exit[p] = Running /\ wanted[p] = {} /\ told[p] = {} /\ UNCHANGED queue
      /\ line[p].prog # "iqdel"
  <2>1. /\ line[p] = NoLine /\ exit[p] = Running /\ wanted[p] = {} /\ told[p] = {}
        /\ UNCHANGED queue
    BY DEF Inv, ShellInv, ProgramAt, Start
  <2>2. NoLine.prog = "none"
    BY DEF NoLine
  <2> QED
    BY <2>1, <2>2
<1>3. Asked[p] = {} /\ Promised[p] = {} /\ Answer[p] = "none"
  BY <1>2 DEF Asked, Promised, Answer
<1>4. CASE UNCHANGED line
  BY <1>1, <1>2, <1>4, OtherProgram DEF Served
<1>5. ASSUME NEW l \in Lines[p], line' = [line EXCEPT ![p] = l],
             IF Accepts(l) THEN Goto(p, "connect") ELSE End(p, Refusal(l)),
             IF l.prog = "iqdel" /\ Accepts(l) /\ l.ids # <<>>
             THEN /\ wanted' = [wanted EXCEPT ![p] = IdSet(l.ids)]
                  /\ told' = [told EXCEPT ![p] = {l.ids[Len(l.ids)]}]
             ELSE UNCHANGED request
      PROVE  Served
  <2>1. line'[p] = l
    BY <1>5 DEF Inv, TypeOK
  <2>2. CASE l.prog # "iqdel"
    BY <1>1, <1>2, <2>1, <2>2, OtherProgram DEF Served
  <2>3. CASE l.prog = "iqdel" /\ ~Accepts(l)
    <3>1. exit'[p] = Usage /\ UNCHANGED <<wanted, told>>
      BY <1>5, <2>3 DEF End, Refusal, Inv, TypeOK, request
    <3>2. Usage # Running /\ Usage # 0
      BY DEF Usage, Running
    <3>3. Answer'[p] = "failure"
      BY <2>1, <2>3, <3>1, <3>2 DEF Answer
    <3>4. Asked'[p] = {} /\ Promised'[p] = {}
      BY <1>2, <2>1, <2>3, <3>1 DEF Asked, Promised
    <3> QED
      BY <1>1, <1>2, <1>3, <3>3, <3>4, AnswerServed
  <2>4. CASE l.prog = "iqdel" /\ Accepts(l) /\ l.ids = <<>>
    <3>1. exit'[p] = Running /\ UNCHANGED <<wanted, told>>
      BY <1>2, <1>5, <2>4 DEF Goto, request
    <3>2. Asked'[p] = {} /\ Promised'[p] = {} /\ Answer'[p] = "none"
      BY <1>2, <2>1, <2>4, <3>1 DEF Asked, Promised, Answer
    <3> QED
      BY <1>1, <1>2, <1>3, <3>2, SameView DEF Served
  <2>5. CASE l.prog = "iqdel" /\ Accepts(l) /\ l.ids # <<>>
    <3> DEFINE last == l.ids[Len(l.ids)]
    <3>1. exit'[p] = Running /\ wanted'[p] = IdSet(l.ids) /\ told'[p] = {last}
      BY <1>2, <1>5, <2>5 DEF Goto, Inv, TypeOK
    <3>2. Asked'[p] = IdSet(l.ids) /\ Promised'[p] = {last} /\ Answer'[p] = "none"
      BY <2>1, <2>5, <3>1 DEF Asked, Promised, Answer
    <3>3. IdSet(l.ids) \in SUBSET Rules /\ last \in IdSet(l.ids)
      <4>1. l.ids \in Seq(Rules) /\ IdSet(l.ids) \in SUBSET Rules
        BY LineTyped
      <4>2. Len(l.ids) \in DOMAIN l.ids
        BY <2>5, <4>1, EmptySeq
      <4> QED
        BY <4>1, <4>2 DEF IdSet
    <3> HIDE DEF last
    <3> QED
      BY <1>1, <1>2, <1>3, <3>2, <3>3, AskServed
  <2> QED
    BY <2>2, <2>3, <2>4, <2>5
<1> QED
  BY <1>4, <1>5 DEF Start

\* The steps of an iqdel that leave its request alone.
LEMMA DeletingView ==
    ASSUME Inv, NEW p \in Shells, \A s \in Shells \ {p} : Untouched(s),
           UNCHANGED <<line, exit, wanted, told>>
    PROVE  UNCHANGED <<Asked, Promised, Answer>>
BY DEF Asked, Promised, Answer

LEMMA StepServed ==
    ASSUME Inv, NEW p \in Shells, Step(p)
    PROVE  Served
<1>1. \A s \in Shells \ {p} : Untouched(s)
  BY ShellKept DEF Kept
<1>2. TypeOK /\ ShellInv(p)
  BY DEF Inv
<1>3. CASE Connect(p) \/ Authenticate(p)
  <2>1. UNCHANGED <<queue, line, wanted, told>>
    BY <1>3 DEF Connect, Authenticate, history, request
  <2>2. exit[p] = Running
    BY <1>2, <1>3 DEF ShellInv, ProgramAt, Connect, Authenticate
  <2>3. exit'[p] = Running \/ exit'[p] \in {1, 2, 3, Crashed}
    BY <1>2, <1>3, <2>2 DEF Connect, Authenticate, Goto, End, TypeOK
  <2>4. CASE line[p].prog # "iqdel"
    BY <1>1, <2>1, <2>4, OtherProgram DEF Served
  <2>5. CASE line[p].prog = "iqdel"
    <3>1. Asked'[p] = Asked[p] /\ Promised'[p] = Promised[p] /\ Answer[p] = "none"
      BY <2>1, <2>2 DEF Asked, Promised, Answer
    <3>2. CASE exit'[p] = Running
      <4>1. Answer'[p] = "none"
        BY <3>2 DEF Answer
      <4> QED
        BY <1>1, <2>1, <3>1, <4>1, SameView DEF Served
    <3>3. CASE exit'[p] \in {1, 2, 3, Crashed}
      <4>1. exit'[p] # Running /\ exit'[p] # 0
        BY <3>3 DEF Running, Crashed
      <4>2. Answer'[p] = "failure"
        BY <2>1, <2>5, <4>1 DEF Answer
      <4> QED
        BY <1>1, <2>1, <3>1, <4>2, AnswerServed
    <3> QED
      BY <2>3, <3>2, <3>3
  <2> QED
    BY <2>4, <2>5
<1>4. CASE DeleteNamed(p)
  <2> DEFINE r == ids[p][1]
  <2>1. /\ line[p].prog = "iqdel" /\ exit[p] = Running /\ ids[p] \in Seq(Rules) /\ ids[p] # <<>>
        /\ UNCHANGED <<line, exit, wanted, told>>
    BY <1>2, <1>4 DEF DeleteNamed, Goto, request, ShellInv, ProgramAt, TypeOK
  <2>2. IdSet(ids[p]) \subseteq wanted[p]
    BY <1>2, <1>4, <2>1 DEF DeleteNamed, ShellInv, Deleting, NotAsked
  <2>3. r \in Rules /\ r \in wanted[p]
    BY <2>1, <2>2, NamesTyped, LastOfTail
  <2>4. \E ok \in BOOLEAN : RuleExecDel(r, ok)
    BY <1>4 DEF DeleteNamed
  <2>5. r \in Asked[p] /\ Answer[p] = "none"
    BY <2>1, <2>3 DEF Asked, Answer
  <2>6. UNCHANGED <<Asked, Promised, Answer>>
    BY <1>1, <2>1, DeletingView
  <2> HIDE DEF r
  <2> QED
    BY <2>3, <2>4, <2>5, <2>6, RemoveServed
<1>5. CASE DeleteQuery(p)
  <2> DEFINE S == Matching(p)
             users == IF line[p].all THEN Users ELSE line[p].user
  <2>1. /\ line[p].prog = "iqdel" /\ exit[p] = Running /\ ids[p] = <<>>
        /\ wanted[p] = {} /\ UNCHANGED <<queue, line>>
        /\ page[p] = {} /\ rows[p] = {} /\ S \in SUBSET Rules
        /\ DeletePage(p, S)
    BY <1>2, <1>5, MatchingTyped DEF DeleteQuery, ShellInv, ProgramAt, Deleting, NotAsked
  <2>2. exit' = exit
    BY <1>2, <2>1, DeletePageKept
  <2>3. Asked[p] = {} /\ Answer[p] = "none" /\ Answer'[p] = "none"
    BY <2>1, <2>2 DEF Asked, Answer
  <2>4. CASE pc'[p] = "page"
    <3>1. wanted'[p] = S /\ told'[p] = S
      BY <1>2, <1>5, <2>4 DEF DeleteQuery, TypeOK
    <3>2. Asked'[p] = S /\ Promised'[p] = S
      BY <2>1, <3>1 DEF Asked, Promised
    <3>3. users \in SUBSET Users
      <4>1. line[p] \in Lines[p]
        <5>1. NoLine.prog = "none"
          BY DEF NoLine
        <5> QED
          BY <1>2, <2>1, <5>1 DEF TypeOK
      <4> QED
        BY <4>1, RuleQueueAssumption
    <3>4. S = Q!OfUsers(users)
      BY <2>1 DEF Matching, Q!OfUsers, Q!Queued, Queued
    <3> HIDE DEF S, users
    <3> QED
      BY <1>1, <2>1, <2>3, <3>2, <3>3, <3>4, AskServed
  <2>5. CASE pc'[p] # "page"
    <3>1. UNCHANGED <<wanted, told>>
      BY <1>5, <2>5 DEF DeleteQuery, request
    <3> QED
      BY <1>1, <2>1, <2>2, <3>1, DeletingView DEF Served
  <2> QED
    BY <2>4, <2>5
<1>6. CASE DeleteNext(p)
  <2>1. /\ line[p].prog = "iqdel" /\ exit[p] = Running /\ page[p] = {} /\ rows[p] \in SUBSET Rules
        /\ UNCHANGED <<queue, line, wanted, told>> /\ DeletePage(p, rows[p])
    BY <1>2, <1>6 DEF DeleteNext, request, ShellInv, ProgramAt, Deleting, TypeOK
  <2>2. exit' = exit
    BY <1>2, <2>1, DeletePageKept
  <2> QED
    BY <1>1, <2>1, <2>2, DeletingView DEF Served
<1>7. CASE DeleteRow(p)
  <2>1. /\ line[p].prog = "iqdel" /\ exit[p] = Running /\ page[p] \subseteq wanted[p]
        /\ UNCHANGED <<line, exit, wanted, told>>
        /\ page[p] \in SUBSET Rules
    BY <1>2, <1>7 DEF DeleteRow, Goto, request, ShellInv, ProgramAt, Deleting, ToDelete, TypeOK
  <2>2. PICK r \in page[p], ok \in BOOLEAN : RuleExecDel(r, ok)
    BY <1>7 DEF DeleteRow
  <2>3. r \in Rules /\ r \in Asked[p] /\ Answer[p] = "none"
    BY <2>1 DEF Asked, Answer
  <2>4. UNCHANGED <<Asked, Promised, Answer>>
    BY <1>1, <2>1, DeletingView
  <2> QED
    BY <2>2, <2>3, <2>4, RemoveServed
<1>8. CASE Report(p)
  <2>1. /\ line[p].prog = "iqdel" /\ exit[p] = Running /\ UNCHANGED <<queue, line, wanted, told>>
        /\ saved[p] = 0 => \A r \in told[p] : queue[r] = Gone
    BY <1>2, <1>8 DEF Report, history, request, ShellInv, ProgramAt, Answering
  <2>2. exit'[p] = IF saved[p] = 0 THEN 0 ELSE 4
    BY <1>2, <1>8 DEF Report, End, TypeOK
  <2>3. Asked'[p] = Asked[p] /\ Promised'[p] = Promised[p] /\ Answer[p] = "none" /\ Promised[p] = told[p]
    BY <2>1 DEF Asked, Promised, Answer
  <2>4. CASE saved[p] = 0
    <3>1. Answer'[p] = "success"
      <4>1. exit'[p] = 0 /\ 0 # Running
        BY <2>2, <2>4 DEF Running
      <4> QED
        BY <2>1, <4>1 DEF Answer
    <3>2. told[p] \intersect Queued = {}
      BY <2>1, <2>4, RuleQueueAssumption DEF Queued
    <3> QED
      BY <1>1, <2>1, <2>3, <3>1, <3>2, AnswerServed
  <2>5. CASE saved[p] # 0
    <3>1. Answer'[p] = "failure"
      <4>1. exit'[p] # 0 /\ exit'[p] # Running
        BY <2>2, <2>5 DEF Running
      <4> QED
        BY <2>1, <4>1 DEF Answer
    <3> QED
      BY <1>1, <2>1, <2>3, <3>1, AnswerServed
  <2> QED
    BY <2>4, <2>5
<1>9. CASE Modify(p)
  <2>1. line[p].prog # "iqdel" /\ UNCHANGED line
    BY <1>2, <1>9 DEF Modify, ShellInv, ProgramAt
  <2>2. UNCHANGED <<Asked, Promised, Answer>>
    BY <1>1, <2>1, OtherProgram
  <2>3. UNCHANGED queue \/ \E r \in Queued, u \in Users : queue' = [queue EXCEPT ![r] = u]
    BY <1>9 DEF Modify
  <2>4. Q!GiveTo \/ UNCHANGED queue
    BY <2>2, <2>3 DEF Q!GiveTo, Q!Queued, Queued
  <2> QED
    BY <2>2, <2>4 DEF Served, Q!Next
<1>10. CASE List(p) \/ UserExists(p) \/ ListMore(p)
  <2>1. line[p].prog # "iqdel" /\ UNCHANGED <<queue, line>>
    BY <1>2, <1>10 DEF List, UserExists, ListMore, ShellInv, ProgramAt
  <2> QED
    BY <1>1, <2>1, OtherProgram DEF Served
<1> QED
  BY <1>3, <1>4, <1>5, <1>6, <1>7, <1>8, <1>9, <1>10 DEF Step

\* QueueServiceSpec: iqdel, among iqmods, iqstats and the server, implements the
\* queue service.
THEOREM ImplementsQueueService == Spec => QueueServiceSpec
<1>1. Init => Q!Init
  BY DEF Init, Q!Init, Asked, Promised, Answer, NoLine
<1>2. Inv /\ [Next]_vars => [Q!Next]_Q!vars
  <2> SUFFICES ASSUME Inv, [Next]_vars PROVE Served
    BY DEF Served, Q!vars
  <2>1. CASE Server
    <3>1. UNCHANGED <<Asked, Promised, Answer>>
      BY <2>1 DEF Server, history, request, Asked, Promised, Answer
    <3>2. Q!Server
      BY <2>1, <3>1 DEF Server, Q!Server, Q!Queued
    <3> QED
      BY <3>2 DEF Served, Q!Next
  <2>2. CASE UNCHANGED vars
    BY <2>2 DEF vars, history, request, Served, Asked, Promised, Answer
  <2> QED
    BY <2>1, <2>2, StartServed, StepServed DEF Next
<1> QED
  BY <1>1, <1>2, InvAlways, PTL DEF Spec, QueueServiceSpec, Q!Spec
============================================================================
