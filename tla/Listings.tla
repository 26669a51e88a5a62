------------------------------ MODULE Listings ------------------------------
(***************************************************************************)
(* The programs that show the result of a query page by page: iquest,      *)
(* ilsresc, imeta ls, isysmeta ls and ldt, iuserinfo, iquota.  A page that *)
(* is full may be the last one: the query is then continued and the answer *)
(* is that there are no rows.  What each program makes of an answer (the   *)
(* sets of exit statuses below) is its own.                                *)
(***************************************************************************)
EXTENDS ClientPhases, FiniteSetsExt

CONSTANTS
    MaxRows,        \* bound: rows that match a query
    MaxResources,   \* bound: resources of the zone, for ilsresc
    PageSize        \* rows of a page: 256 (MAX_SQL_ROWS), 50 or 10

ASSUME RowsAssumption ==
    /\ MaxRows \in Nat \ {0} /\ MaxResources \in 1 .. MaxRows
    /\ PageSize \in Nat \ {0}

VARIABLES
    total,      \* rows that match the query being shown
    printed,    \* how many of them were taken from the answers
    more,       \* the server keeps the query open (continueInx > 0)
    whole,      \* history: every query that ended was taken to its end
    parents,    \* the resources of ilsresc: what each row names as its parent
    shown       \* the resources ilsresc has drawn

rowVars == <<total, printed, more>>
listVars == <<total, printed, more, whole, parents, shown>>

Unasked == -1

\* Not an exit status: the program goes on.
Onward == -2

\* A listing that must be there: none when it is not, error when the first
\* answer is one, lateNone and lateError for a later answer, all at its end.
\* pages: all of them, only the first, or as many as the user asked for.
Query(pages, none, error, lateNone, lateError, all) ==
    [is |-> "query", pages |-> pages, none |-> none, error |-> error,
     lateNone |-> lateNone, lateError |-> lateError, all |-> all]

\* Whether the object exists at all; stray: when it is taken for another.
Probe(found, absent, error, stray) ==
    [is |-> "probe", found |-> found, absent |-> absent, error |-> error, stray |-> stray]

---------------------------------------------------------------------------
(* The functions that show a listing: their queries, one after the other *)

\* Mutant: an error on a later page ends the listing like its end.
QueryAndShowStrCondQuiet == <<Query("asked", {1}, {4}, {0}, {0}, {0})>>
\* Mutant: the end of a full last page is told like a query without rows.
QueryAndShowStrCondEnd == <<Query("asked", {1}, {4}, {1}, {4}, {0})>>
QueryAndShowStrCond == <<Query("asked", {1}, {4}, {0}, {4}, {0})>>

\* With --sql the end of a full last page is "no rows" as well.
ExecAndShowSpecificQuery == <<Query("asked", {1}, {4}, {1}, {4}, {0})>>

\* The tree of ilsresc is drawn when all resources are known.
ShowRescTree == <<Query("all", {1}, {1}, {1}, {1}, {Onward}), [is |-> "tree"]>>

\* ilsresc -l or with the name of one resource.
ShowRescLong ==
    <<LateCheck(0), Query("all", {Onward}, {1}, {0}, {0}, {0}), Probe({0}, {0}, {1}, {})>>

\* imeta: the result of each page is freed and its row count read when the next
\* has failed.  main replaces what the pages left in lastCommandStatus.
AvuPages == Query("all", {Onward}, {0}, {0, Crashed}, {0, Crashed}, {0})

ShowDataObj == <<AvuPages, Probe({0}, {4}, {0}, {})>>
ShowColl == <<AvuPages, Probe({0}, {4}, {0}, {})>>
ShowResc == <<AvuPages, Probe({0}, {4}, {0}, {})>>

\* The probe is left with the first condition, the name without the zone.
ShowUser == <<AvuPages, Probe({0}, {4}, {0}, {0})>>

\* isysmeta
DoLs == <<Query("all", {Onward}, {0}, {0}, {0}, {0}), Probe({0}, {0}, {0}, {})>>
DoListDataTypes == <<Query("all", {0}, {0}, {0}, {0}, {0})>>

\* iuserinfo: the queries throw what is not "no rows".
ShowUserInfo ==
    <<Probe({Onward}, {0}, {Aborted}, {}),
      Query("all", {Onward}, {Aborted}, {Onward}, {Aborted}, {Onward}),
      Query("all", {0}, {Aborted}, {0}, {Aborted}, {0})>>

\* iquota: only the first page of each; no status is kept.
FirstPage(next) == Query("first", {next}, {next}, {next}, {next}, {next})
ShowQuotas(next) == <<FirstPage(next)>>
ShowUserUsage == <<FirstPage(0)>>
ShowUserGroupMembership == <<FirstPage(0)>>

---------------------------------------------------------------------------
(* The programs *)

\* The names of the attributes can be had without a connection.
Iquest ==
    <<Options(1), Check(0), Check(1), Check(0), Connect(2), Login(3)>> \o QueryAndShowStrCond
IquestSql ==
    <<Options(1), Check(0), Check(1), Connect(2), Login(3)>> \o ExecAndShowSpecificQuery

Ilsresc(show) == <<Options(1), Check(1), Connect(2), Login(3)>> \o show

\* 4: too few words, an unknown type, a path or a user name that is not one.
ImetaLs(show) ==
    <<Options(1), Check(1), Check(1), Connect(2), Login(3), LateCheck(4)>> \o show
IsysmetaLs == <<Options(1), Check(1), Connect(2), Login(3), LateCheckLeft(1)>> \o DoLs
IsysmetaLdt == <<Options(1), Check(1), Connect(2), Login(3)>> \o DoListDataTypes

\* The status of a user name that is not one is the exit status.
Iuserinfo == <<Options(1), Check(1), Connect(2), Login(3), LateCheck(-310000)>> \o ShowUserInfo

\* For one user, for all, and the usage.
Iquota(show) == <<Options(1), Check(1), Connect(2), Login(3)>> \o show
Quotas(last) == ShowQuotas(Onward) \o ShowQuotas(Onward) \o ShowQuotas(Onward) \o last

ListingPhases ==
    [iquest |-> Iquest, iquestsql |-> IquestSql, ilsresc |-> Ilsresc(ShowRescTree), ilsresclong |-> Ilsresc(ShowRescLong),
     imetadata |-> ImetaLs(ShowDataObj), imetacoll |-> ImetaLs(ShowColl),
     imetaresc |-> ImetaLs(ShowResc), imetauser |-> ImetaLs(ShowUser),
     isysmetals |-> IsysmetaLs, isysmetaldt |-> IsysmetaLdt, iuserinfo |-> Iuserinfo,
     iquota |-> Iquota(Quotas(ShowQuotas(Onward) \o ShowUserGroupMembership)),
     iquotaall |-> Iquota(Quotas(ShowQuotas(0))), iquotausage |-> Iquota(ShowUserUsage)]

---------------------------------------------------------------------------
(* Steps *)

\* What the program makes of an answer.
Finish(outcomes) ==
    \E status \in outcomes :
        \/ status = Onward /\ Advance
        \/ status \in {Aborted, Crashed} /\ End(status)
        \/ status \notin {Onward, Aborted, Crashed} /\ Disconnect(status)

Rows == 1 .. Min({PageSize, total - printed})

\* The resources at the top and what is below them: every set that has the
\* top and the children of its members has them.
Below(parentOf, top) ==
    {r \in DOMAIN parentOf :
        \A set \in SUBSET DOMAIN parentOf :
            top \subseteq set /\ (\A c \in DOMAIN parentOf : parentOf[c] \in set => c \in set) => r \in set}

Roots(parentOf) == {r \in DOMAIN parentOf : parentOf[r] = 0}

\* Resources named as parents: 0 no parent, r the id of row r, -r its name.
\* Zones before 4.2 name the parent, later ones give its id.
Forests(n) == {f \in [1 .. n -> 0 .. n] : Below(f, Roots(f)) = 1 .. n}

Resources(n) ==
    IF prog # "ilsresc" THEN {<<>>}
    ELSE UNION {{f, [r \in 1 .. n |-> -f[r]]} : f \in Forests(n)}

\* parseGenQueryOut: once every parent is the name of a resource seen so far
\* the names are replaced by ids.
Converted(known) ==
    IF \A r \in 1 .. known : parents[r] # 0 => -parents[r] \in 1 .. known
    THEN [r \in DOMAIN parents |-> IF r <= known THEN -parents[r] ELSE parents[r]]
    ELSE parents

\* The rows of an answer.
\* Mutant: a full page is taken for the last one.
TakePageOnly ==
    /\ printed' = printed + Cardinality(Rows)
    /\ more' = (Cardinality(Rows) > PageSize)
    /\ parents' = IF prog = "ilsresc" THEN Converted(printed') ELSE parents
    /\ UNCHANGED <<total, whole, shown, trouble>>
    /\ UNCHANGED runVars
TakePage ==
    /\ printed' = printed + Cardinality(Rows)
    /\ more' = (Cardinality(Rows) = PageSize)
    /\ parents' = IF prog = "ilsresc" THEN Converted(printed') ELSE parents
    /\ UNCHANGED <<total, whole, shown, trouble>>
    /\ UNCHANGED runVars

AskQuery ==
    /\ In(ListingPhases, "query") /\ total = Unasked
    /\ UNCHANGED <<printed, more, shown, done, failed>>
    /\ \/ \E n \in 1 .. (IF prog = "ilsresc" THEN MaxResources ELSE MaxRows) :
            /\ total' = n
            /\ parents' \in Resources(n)
            /\ UNCHANGED <<whole, trouble>>
            /\ UNCHANGED runVars
       \/ /\ Finish(Phase(ListingPhases).none)
          /\ trouble' = trouble \cup {"none"}
          /\ UNCHANGED <<total, whole, parents>>
       \/ /\ Finish(Phase(ListingPhases).error)
          /\ trouble' = trouble \cup {"error"}
          /\ UNCHANGED <<total, whole, parents>>

TakeFirst ==
    /\ In(ListingPhases, "query") /\ total # Unasked /\ printed = 0
    /\ TakePage
    /\ UNCHANGED <<done, failed>>

\* The rows of this query are done with; the next one has its own.
LeaveRows ==
    /\ whole' = (whole /\ printed = total)
    /\ total' = Unasked /\ printed' = 0 /\ more' = FALSE
    /\ UNCHANGED <<parents, shown>>

\* The loop while continueInx > 0; iquest may be told to stop.
Continue ==
    /\ In(ListingPhases, "query") /\ printed > 0
    /\ more /\ Phase(ListingPhases).pages # "first"
    /\ UNCHANGED <<done, failed>>
    /\ \/ /\ Rows # {}
          /\ TakePage
       \/ /\ Rows = {}
          /\ Finish(Phase(ListingPhases).lateNone)
          /\ IF at' = at THEN UNCHANGED listVars ELSE LeaveRows
          /\ UNCHANGED trouble
       \/ /\ Finish(Phase(ListingPhases).lateError)
          /\ trouble' = trouble \cup {"error"}
          /\ UNCHANGED listVars
       \/ /\ Phase(ListingPhases).pages = "asked"
          /\ Finish(Phase(ListingPhases).all)
          /\ trouble' = trouble \cup {"stopped"}
          /\ UNCHANGED listVars

EndQuery ==
    /\ In(ListingPhases, "query") /\ printed > 0
    /\ ~more \/ Phase(ListingPhases).pages = "first"
    /\ LeaveRows
    /\ Finish(Phase(ListingPhases).all)
    /\ UNCHANGED <<done, failed, trouble>>

AskProbe ==
    /\ In(ListingPhases, "probe")
    /\ \/ Finish(Phase(ListingPhases).found) /\ UNCHANGED trouble
       \/ /\ \/ Finish(Phase(ListingPhases).absent)
             \/ Finish(Phase(ListingPhases).stray)
          /\ trouble' = trouble \cup {"absent"}
       \/ Finish(Phase(ListingPhases).error) /\ trouble' = trouble \cup {"error"}
    /\ UNCHANGED listVars /\ UNCHANGED <<done, failed>>

\* build_child_list finds the parents by their ids; printRescTree draws a
\* resource and what is below it.
DrawTree ==
    /\ In(ListingPhases, "tree")
    /\ \/ shown' = Below(parents, Roots(parents)) /\ Disconnect(0) /\ UNCHANGED trouble
       \/ /\ \E name \in DOMAIN parents : shown' = Below(parents, {name})
          /\ Disconnect(0)
          /\ trouble' = trouble \cup {"one resource"}
       \/ Disconnect(1) /\ trouble' = trouble \cup {"absent"} /\ UNCHANGED shown
    /\ UNCHANGED rowVars /\ UNCHANGED <<whole, parents, done, failed>>

ListingSteps == AskQuery \/ TakeFirst \/ Continue \/ EndQuery \/ AskProbe \/ DrawTree
=============================================================================
