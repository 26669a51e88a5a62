---------------------------- MODULE QueueService ----------------------------
(***************************************************************************)
(* What iqdel promises of the server's queue of delayed rules: it removes  *)
(* only rules that matched the request at one moment, and if it reports    *)
(* success, those it answers for are no longer queued.  Rules are queued,  *)
(* executed and given to other users all the while.                        *)
(***************************************************************************)
CONSTANTS Shells, Rules, Users, Unborn, Gone

VARIABLES
    queue,      \* the user of each rule that is queued, else Unborn or Gone
    asked,      \* what each request may remove
    promised,   \* what it answers for
    answer      \* "none", "success" or "failure"

vars == <<queue, asked, promised, answer>>

Init ==
    /\ queue = [r \in Rules |-> Unborn]
    /\ asked = [p \in Shells |-> {}]
    /\ promised = [p \in Shells |-> {}]
    /\ answer = [p \in Shells |-> "none"]

Queued == {r \in Rules : queue[r] \in Users}

\* The rules a request by user names; every user's if users is Users.
OfUsers(users) == {r \in Queued : queue[r] \in users}

Server ==
    /\ \E r \in Rules :
         \/ queue[r] = Unborn /\ \E u \in Users : queue' = [queue EXCEPT ![r] = u]
         \/ r \in Queued /\ queue' = [queue EXCEPT ![r] = Gone]
    /\ UNCHANGED <<asked, promised, answer>>

GiveTo ==
    /\ \E r \in Queued, u \in Users : queue' = [queue EXCEPT ![r] = u]
    /\ UNCHANGED <<asked, promised, answer>>

\* A request by user, or by ids, of which it answers for one only.
Ask(p) ==
    /\ answer[p] = "none"
    /\ asked[p] = {}
    /\ \/ \E users \in SUBSET Users :
            /\ asked' = [asked EXCEPT ![p] = OfUsers(users)]
            /\ promised' = [promised EXCEPT ![p] = OfUsers(users)]
       \/ \E ids \in SUBSET Rules : \E r \in ids :
            /\ asked' = [asked EXCEPT ![p] = ids]
            /\ promised' = [promised EXCEPT ![p] = {r}]
    /\ UNCHANGED <<queue, answer>>

Remove(p) ==
    /\ answer[p] = "none"
    /\ \E r \in asked[p] \intersect Queued :
         queue' = [queue EXCEPT ![r] = Gone]
    /\ UNCHANGED <<asked, promised, answer>>

Answer(p) ==
    /\ answer[p] = "none"
    /\ \/ /\ promised[p] \intersect Queued = {}
          /\ answer' = [answer EXCEPT ![p] = "success"]
       \/ answer' = [answer EXCEPT ![p] = "failure"]
    /\ UNCHANGED <<queue, asked, promised>>

Next == Server \/ GiveTo \/ \E p \in Shells : Ask(p) \/ Remove(p) \/ Answer(p)

Spec == Init /\ [][Next]_vars
=============================================================================
