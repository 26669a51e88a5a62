------------------------------- MODULE Clients -------------------------------
(***************************************************************************)
(* One run of a program that uses one connection, from the command line to *)
(* the exit status.  What a caller, often a script, may conclude from the  *)
(* status is what the properties are about.                                *)
(***************************************************************************)
EXTENDS OneCall, Listings, Imeta

vars == <<runVars, historyVars, listVars, avuVars>>

Programs == DOMAIN OneCallPhases \cup DOMAIN ListingPhases \cup DOMAIN ImetaPhases

TypeOK ==
    /\ prog \in Programs \cup {"none"}
    /\ at \in 1 .. 9
    /\ public \in BOOLEAN
    /\ \A list \in {written, paths} :
         /\ Len(list) <= MaxPaths + 1
         /\ \A i \in DOMAIN list : list[i] \in {"request", "path", "local", "remote"}
    /\ conn \in {"none", "open", "closed"}
    /\ login \in BOOLEAN
    /\ exit \in {Running} \cup 0 .. 255
    /\ done \subseteq 1 .. MaxPaths /\ failed \subseteq 1 .. MaxPaths
    /\ trouble \subseteq {"refused", "none", "error", "absent", "stopped", "one resource"}
    /\ total \in {Unasked} \cup 1 .. MaxRows
    /\ printed \in 0 .. MaxRows
    /\ more \in BOOLEAN /\ whole \in BOOLEAN
    /\ \A r \in DOMAIN parents : parents[r] \in -MaxRows .. MaxRows
    /\ shown \subseteq 1 .. MaxRows
    /\ \A i \in DOMAIN given : given[i] \in Argument
    /\ DOMAIN sent = {"units", "new"}

Init ==
    /\ prog = "none" /\ at = 1 /\ public = FALSE
    /\ written = <<"request">> /\ paths = <<"request">>
    /\ conn = "none" /\ login = FALSE /\ exit = Running
    /\ done = {} /\ failed = {} /\ trouble = {}
    /\ total = Unasked /\ printed = 0 /\ more = FALSE /\ whole = TRUE
    /\ parents = <<>> /\ shown = {}
    /\ given = <<>> /\ sent = NoCall

RunOneCall ==
    /\ CommonSteps(OneCallPhases) \/ OneCallSteps
    /\ UNCHANGED listVars /\ UNCHANGED avuVars

RunListing ==
    /\ \/ CommonSteps(ListingPhases) /\ UNCHANGED listVars
       \/ ListingSteps
    /\ UNCHANGED avuVars

RunImeta ==
    /\ \/ CommonSteps(ImetaPhases) /\ UNCHANGED avuVars
       \/ ImetaSteps
    /\ UNCHANGED listVars

Next ==
    \/ Begin(Programs) /\ UNCHANGED listVars /\ UNCHANGED avuVars
    \/ RunOneCall
    \/ RunListing
    \/ RunImeta

Spec == Init /\ [][Next]_vars

---------------------------------------------------------------------------
(* Properties *)

\* The programs that exit with 0 although the request failed: rmdirUtil's
\* result is not kept, nor is that of isysmeta mod and of the two reports, and
\* a status of scanObj that is a multiple of 256 becomes 0.
Untold == {"irmdir", "isysmetamod", "iclienthints", "izonereport", "iscan"}

\* A request was carried out for every source, and no failure was reported.
RequestTells ==
    exit = 0 /\ conn # "none" /\ prog \in (DOMAIN OneCallPhases \cup {"imeta"}) \ Untold =>
        done = Targets /\ failed = {}

\* For the listings that can be relied on: nothing was missing, and no page, the
\* last ones included, failed.
ListingTells ==
    prog \in {"iquest", "iquestsql", "ilsresc"} /\ exit = 0 /\ conn = "closed" =>
        trouble \subseteq {"stopped", "one resource"}

\* What exit status 0 tells: the request was carried out, the listing is whole.
SuccessTells == RequestTells /\ ListingTells

\* The statuses of a command line, an environment, a connection or a login that
\* is refused mean that nothing was done, so that the command may be repeated.
\* iscan passes on the status of the library, iphymv and itouch use theirs twice.
RefusalsDoNothing ==
    prog \in DOMAIN OneCallPhases \ {"iscan", "itouch", "iquery"} =>
        /\ exit \in {1, 2} => done = {} /\ failed = {}
        /\ exit = 7 /\ prog # "iphymv" => done = {}

\* What was carried out for ichmod is the list up to the failure, and nothing
\* after it: a caller can go on from there.
ChangedUpToFailure ==
    prog = "ichmod" =>
        /\ \A i \in done : 1 .. i \subseteq done
        /\ \A f \in failed : done \subseteq 1 .. f
        /\ exit = 8 => failed # {}

\* Programs the anonymous user runs without a login, and the one without any.
PublicPrograms == {"iget", "ifsck", "iscan", "ils", "ips", "iclienthints", "izonereport"}

\* Nothing is asked of the server before the login, but by the anonymous user
\* of some programs and by imiscsvrinfo.
OnlyWithLogin ==
    done # {} \/ total # Unasked \/ sent # NoCall =>
        login \/ (public /\ prog \in PublicPrograms) \/ prog = "imiscsvrinfo"

\* irsync looks at the prefixes of all sources and keeps the type of one.  If
\* they are of one kind that is theirs, and two local sides are refused.
SyncAsWritten ==
    prog = "irsync" /\ conn # "none" =>
        /\ \E i \in DOMAIN paths : paths[i] = "remote"
        /\ (\A i, j \in Targets : written[i] = written[j]) => paths = written

\* The last page was full, and the query continued to learn that it is over.
EndOfFullPage == printed > 0 /\ printed = total /\ more

\* After the login a status other than 0 means that something was refused,
\* missing or failed; a full last page is told like that by some.
FailureHasCause ==
    login /\ exit \notin {Running, 0} =>
        \/ trouble \ {"stopped"} # {} \/ failed # {}
        \/ EndOfFullPage /\ prog \in {"iquestsql", "ilsresc", "imetadata", "imetacoll", "imetaresc", "imetauser"}

\* ilsresc draws every resource, whatever the order of the pages: in a zone
\* before 4.2 only if the resources fit on one page.
TreeWhole ==
    /\ prog = "ilsresc" /\ exit = 0 /\ conn = "closed" /\ trouble = {}
    /\ Len(parents) <= PageSize \/ \A r \in DOMAIN parents : parents[r] >= 0
    => shown = DOMAIN parents

\* A listing that ends with 0, without an error and not stopped by its user,
\* has taken every row of every query, page by page.
RowsAll ==
    /\ prog \in DOMAIN ListingPhases \ {"iquota", "iquotaall", "iquotausage"}
    /\ exit = 0 /\ trouble \cap {"error", "stopped"} = {}
    => whole /\ (total = Unasked \/ printed = total)

\* Every listing is whole: of rows as of resources.
ListsAll == RowsAll /\ TreeWhole

\* imeta mod: the labelled arguments reach the server once each and in the
\* order name, value, units, whatever the order they were typed in; what has
\* no label is the old units.
ModMeansArguments ==
    sent # NoCall =>
        /\ \A i \in DOMAIN given :
             given[i].label # "none" =>
                Cardinality({k \in DOMAIN sent.new : sent.new[k] = given[i]}) = 1
        /\ Range(sent.new) \subseteq Range(given)
        /\ \A j, k \in DOMAIN sent.new :
             j < k => <<sent.new[j].label, sent.new[k].label>> \in {<<"n", "v">>, <<"n", "u">>, <<"v", "u">>}
        /\ \A i \in DOMAIN given :
             given[i].label = "none" /\ (\A j \in DOMAIN given : j # i => given[j].label # "none") =>
                sent.units = <<given[i]>>
=============================================================================
