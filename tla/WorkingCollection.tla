------------------------- MODULE WorkingCollection -------------------------
(***************************************************************************)
(* What the working collection promises, whatever happens to the session   *)
(* files: it is the home collection or a collection that was looked up and *)
(* found on the server, and losing it can only lead back home.             *)
(***************************************************************************)
CONSTANTS Sessions, Collections, Home

VARIABLES
    cwd,     \* the working collection of each session
    known,   \* the collections that were looked up and found
    colls    \* the collections that exist

vars == <<cwd, known, colls>>

Init ==
    /\ cwd = [f \in Sessions |-> Home]
    /\ known = {}
    /\ colls = Collections

Lookup(c) ==
    /\ c \in colls
    /\ known' = known \union {c}
    /\ UNCHANGED <<cwd, colls>>

Change(f) ==
    /\ \E c \in known \union {Home} : cwd' = [cwd EXCEPT ![f] = c]
    /\ UNCHANGED <<known, colls>>

Server ==
    /\ colls' \in SUBSET Collections
    /\ UNCHANGED <<cwd, known>>

Next ==
    \/ \E c \in Collections : Lookup(c)
    \/ \E f \in Sessions : Change(f)
    \/ Server

Spec == Init /\ [][Next]_vars
============================================================================
