---------------------------- MODULE ClientsProofs ----------------------------
(***************************************************************************)
(* Theorems about Clients, for every number of paths, rows and resources,  *)
(* every page size and every status of the library.                        *)
(***************************************************************************)
EXTENDS Clients, FiniteSetTheorems, SequenceTheorems, WellFoundedInduction, TLAPS

---------------------------------------------------------------------------
(* The order of the phases *)

LocalKinds == {"options", "check", "raw environment", "sources", "sync sources"}
LoginKinds == {"login", "login unless public"}
LateKinds == {"late check", "left late check"}
UtilKinds == {"util", "left util", "raw util", "util by cause"}
CallKinds == UtilKinds \cup {"each path", "command"}
ListKinds == {"query", "probe", "tree"}

\* What the programs are known to get wrong, or to be alone in.
Strict == DOMAIN OneCallPhases \ {"iscan", "itouch", "iquery"}
Reliable == {"iquest", "iquestsql", "ilsresc"}
FirstPages == {"iquota", "iquotaall", "iquotausage"}
FullPageTold == {"iquestsql", "ilsresc", "imetadata", "imetacoll", "imetaresc", "imetauser"}

\* An exit status of this phase of this program, in what the caller sees of it.
CodeFits(p, a) ==
    /\ a.exit \in Int
    /\ p = "ichmod" /\ a.is # "each path" => a.exit % 256 # 8

Untellable(p, a) == p \in (DOMAIN OneCallPhases \cup {"imeta"}) \ Untold => a.exit % 256 # 0

LocalFits(p, a) ==
    /\ a.is \in LocalKinds \cup {"return"}
    /\ a.is \notin {"raw environment", "sync sources"} => CodeFits(p, a)
    /\ a.is = "raw environment" => p = "iput"
    /\ a.is = "sources" => a.least \in Int /\ a.kinds = {"path"} /\ p \notin {"irsync", "imeta"}
    /\ a.is = "sync sources" => p = "irsync"

LoginFits(p, a) ==
    /\ a.is \in LoginKinds
    /\ CodeFits(p, a) /\ Untellable(p, a)
    /\ a.is = "login unless public" => p \in PublicPrograms

LateFits(p, a) ==
    /\ a.is \in LateKinds
    /\ CodeFits(p, a) /\ Untellable(p, a)
    /\ p \notin Reliable \cup {"imeta"}

CallFits(p, a) ==
    /\ a.is \in CallKinds
    /\ a.is \in {"util", "left util"} =>
         /\ CodeFits(p, a) /\ Untellable(p, a)
         /\ p \in Strict => a.exit % 256 \notin {1, 2, 7}
    /\ a.is = "raw util" => p = "iscan"
    /\ a.is = "util by cause" => p = "iphymv" /\ a.exits = {3, 4, 5, 6, 7}
    /\ a.is = "each path" => p = "ichmod" /\ a.exit = 8
    /\ a.is \in UtilKinds => p \notin {"ichmod", "imeta"}
    /\ a.is = "command" => p = "imeta"

QueryFits(p, a) ==
    /\ a.is = "query"
    /\ a.pages \in {"all", "asked", "first"}
    /\ a.none \subseteq Int /\ a.error \subseteq Int
    /\ a.lateNone \subseteq Int /\ a.lateError \subseteq Int
    /\ a.all \subseteq {0, Onward}
    /\ a.pages = "first" => p \in FirstPages
    /\ a.pages = "asked" => Onward \notin a.all
    /\ a.pages # "first" => Onward \notin a.lateError
    /\ p \in Reliable => \A code \in a.none \cup a.error \cup a.lateError : code > 0 /\ code < 256
    /\ p \notin FullPageTold => a.lateNone \subseteq {0, Onward}
    /\ p = "ilsresc" => (\A code \in a.lateNone : code > 0 /\ code < 256) /\ a.all = {Onward}

ProbeFits(p, a) ==
    /\ a.is = "probe"
    /\ a.absent \subseteq Int /\ a.error \subseteq Int /\ a.stray \subseteq Int
    /\ a.found \subseteq {0, Onward}
    /\ p \notin Reliable

ListFits(p, a) == QueryFits(p, a) \/ ProbeFits(p, a) \/ (a.is = "tree" /\ p = "ilsresc")

Ends(a) ==
    \/ a.is \in CallKinds \cup {"return", "tree"}
    \/ a.is = "query" /\ Onward \notin a.none \cup a.error \cup a.lateNone \cup a.lateError \cup a.all
    \/ a.is = "probe" /\ Onward \notin a.found \cup a.absent \cup a.error \cup a.stray

Opens(p, a) == LocalFits(p, a) /\ a.is # "return"
Connects(p, a) == a.is = "connect" /\ CodeFits(p, a)

\* A query or a probe that others follow, and a last phase of the other kinds.
Pages(p, a) == QueryFits(p, a) \/ ProbeFits(p, a)
Closes(p, a) == ListFits(p, a) /\ Ends(a)
Returns(p, a) == LocalFits(p, a) /\ a.is = "return"

Fits(p, a) ==
    \/ LocalFits(p, a) \/ Connects(p, a) \/ LoginFits(p, a)
    \/ LateFits(p, a) \/ CallFits(p, a) \/ ListFits(p, a)

Follows(p, a, b) ==
    /\ a.is \in LocalKinds => b.is \in LocalKinds \cup {"return", "connect"}
    /\ a.is = "connect" => b.is \in LoginKinds \/ (p = "imiscsvrinfo" /\ b.is \in UtilKinds)
    /\ a.is \in LoginKinds \cup LateKinds => b.is \in LateKinds \cup CallKinds \cup ListKinds
    /\ a.is \in ListKinds => b.is \in ListKinds
    /\ a.is \notin CallKinds \cup {"return", "tree"}

WellOrdered(p, s) ==
    /\ Len(s) \in 1 .. 9
    /\ s[1].is \in LocalKinds
    /\ \A i \in 1 .. Len(s) : Fits(p, s[i])
    /\ \A i \in 1 .. Len(s) - 1 : Follows(p, s[i], s[i + 1])
    /\ Ends(s[Len(s)])

LEMMA PhaseFits ==
    ASSUME NEW p, NEW a
    PROVE  /\ Opens(p, a) => Fits(p, a) /\ a.is \in LocalKinds
           /\ Connects(p, a) \/ LoginFits(p, a) \/ LateFits(p, a) \/ Pages(p, a) => Fits(p, a)
           /\ CallFits(p, a) \/ Returns(p, a) \/ Closes(p, a) => Fits(p, a) /\ Ends(a)
  BY DEF Fits, Opens, Connects, Returns, Pages, Closes, ListFits, LocalFits, CallFits, Ends, LocalKinds

LEMMA PhaseOrder ==
    ASSUME NEW p, NEW a, NEW b
    PROVE  /\ Opens(p, a) /\ (Opens(p, b) \/ Connects(p, b) \/ Returns(p, b)) => Follows(p, a, b)
           /\ Connects(p, a) /\ LoginFits(p, b) => Follows(p, a, b)
           /\ Connects(p, a) /\ p = "imiscsvrinfo" /\ b.is \in UtilKinds => Follows(p, a, b)
           /\ LoginFits(p, a) \/ LateFits(p, a) =>
                (LateFits(p, b) \/ CallFits(p, b) \/ Pages(p, b) \/ Closes(p, b) => Follows(p, a, b))
           /\ Pages(p, a) /\ (Pages(p, b) \/ Closes(p, b)) => Follows(p, a, b)
  BY DEF Opens, Connects, Returns, Pages, Closes, LocalFits, LoginFits, LateFits, CallFits, ListFits, QueryFits, ProbeFits, Follows,
         LocalKinds, LoginKinds, LateKinds, UtilKinds, CallKinds, ListKinds

---------------------------------------------------------------------------
(* The phases of the programs *)

LEMMA LocalPhases ==
    ASSUME NEW p
    PROVE  /\ Opens(p, Options(1))
           /\ Opens(p, Check(0)) /\ Opens(p, Check(1)) /\ Opens(p, Check(2)) /\ Opens(p, Check(3))
           /\ Opens(p, Check(4)) /\ Opens(p, Check(-130000))
           /\ p = "iput" => Opens(p, RawEnvironment)
           /\ p \notin {"irsync", "imeta"} => Opens(p, Sources(1, 1)) /\ Opens(p, Sources(1, 2))
           /\ p = "irsync" => Opens(p, SyncSources)
           /\ LocalFits(p, Return(0)) /\ Return(0).is = "return"
  BY DEF Opens, Options, Check, RawEnvironment, Sources, SyncSources, Return, LocalFits, CodeFits, LocalKinds

LEMMA ConnectPhases ==
    ASSUME NEW p
    PROVE  Connects(p, Connect(1)) /\ Connects(p, Connect(2)) /\ Connects(p, Connect(5))
  BY DEF Connects, Connect, CodeFits

LEMMA LoginPhases ==
    ASSUME NEW p
    PROVE  /\ LoginFits(p, Login(1)) /\ LoginFits(p, Login(3)) /\ LoginFits(p, Login(6)) /\ LoginFits(p, Login(7))
           /\ p \in PublicPrograms => LoginFits(p, LoginUnlessPublic(7))
  BY DEF LoginFits, Login, LoginUnlessPublic, LoginKinds, CodeFits, Untellable

LEMMA LatePhases ==
    ASSUME NEW p, p \notin Reliable \cup {"imeta"}
    PROVE  /\ LateFits(p, LateCheck(1)) /\ LateFits(p, LateCheck(4)) /\ LateFits(p, LateCheck(7))
           /\ LateFits(p, LateCheckLeft(1)) /\ LateFits(p, LateCheckLeft(4))
           /\ p \in DOMAIN ListingPhases \ DOMAIN OneCallPhases =>
                LateFits(p, LateCheck(0)) /\ LateFits(p, LateCheck(-310000))
  BY DEF LateFits, LateCheck, LateCheckLeft, LateKinds, CodeFits, Untellable

LEMMA CallPhases ==
    ASSUME NEW p
    PROVE  /\ p \notin {"ichmod", "imeta"} => CallFits(p, Util(3)) /\ CallFits(p, Util(4)) /\ CallFits(p, UtilLeft(3))
           /\ p \in {"itouch", "iquery"} => CallFits(p, Util(1))
           /\ p \in Untold => CallFits(p, Util(0)) /\ CallFits(p, UtilLeft(0))
           /\ UtilLeft(3).is \in UtilKinds
           /\ p = "iscan" => CallFits(p, UtilRaw)
           /\ p = "iphymv" => CallFits(p, UtilByCause({3, 4, 5, 6, 7}))
           /\ p = "ichmod" => CallFits(p, EachPath(8))
           /\ p = "imeta" => CallFits(p, [is |-> "command"])
  BY DEF CallFits, Util, UtilLeft, UtilRaw, UtilByCause, EachPath, UtilKinds, CallKinds, CodeFits, Untellable,
         Strict, Untold

LEMMA QueryPhases ==
    ASSUME NEW p
    PROVE  /\ p # "ilsresc" => QueryFits(p, Query("asked", {1}, {4}, {0}, {4}, {0}))
           /\ p = "iquestsql" => QueryFits(p, Query("asked", {1}, {4}, {1}, {4}, {0}))
           /\ p = "ilsresc" => QueryFits(p, Query("all", {1}, {1}, {1}, {1}, {Onward}))
           /\ p \in FullPageTold \ Reliable => QueryFits(p, AvuPages)
           /\ p \notin Reliable =>
                /\ QueryFits(p, Query("all", {Onward}, {1}, {0}, {0}, {0}))
                /\ QueryFits(p, Query("all", {Onward}, {0}, {0}, {0}, {0}))
                /\ QueryFits(p, Query("all", {0}, {0}, {0}, {0}, {0}))
                /\ QueryFits(p, Query("all", {Onward}, {Aborted}, {Onward}, {Aborted}, {Onward}))
                /\ QueryFits(p, Query("all", {0}, {Aborted}, {0}, {Aborted}, {0}))
           /\ p \in FirstPages => QueryFits(p, FirstPage(Onward)) /\ QueryFits(p, FirstPage(0))
<1>1. ASSUME p # "ilsresc"
      PROVE  QueryFits(p, Query("asked", {1}, {4}, {0}, {4}, {0}))
  BY <1>1 DEF QueryFits, Query, Onward
<1>2. ASSUME p = "iquestsql"
      PROVE  QueryFits(p, Query("asked", {1}, {4}, {1}, {4}, {0}))
  BY <1>2 DEF QueryFits, Query, Onward, FullPageTold
<1>3. ASSUME p = "ilsresc"
      PROVE  QueryFits(p, Query("all", {1}, {1}, {1}, {1}, {Onward}))
  <2> DEFINE q == Query("all", {1}, {1}, {1}, {1}, {Onward})
  <2>1. /\ q.is = "query" /\ q.pages = "all" /\ q.none = {1} /\ q.error = {1}
        /\ q.lateNone = {1} /\ q.lateError = {1} /\ q.all = {Onward}
    BY DEF Query
  <2> HIDE DEF q
  <2>2. p \in FullPageTold
    BY <1>3 DEF FullPageTold
  <2>3. QueryFits(p, q)
    BY <1>3, <2>1, <2>2 DEF QueryFits, Onward
  <2>4. QED
    BY <2>3 DEF q
<1>4. ASSUME p \in FullPageTold \ Reliable
      PROVE  QueryFits(p, AvuPages)
  <2>1. p # "ilsresc"
    BY <1>4 DEF Reliable
  <2>2. QED
    BY <1>4, <2>1 DEF QueryFits, AvuPages, Query, Onward, Crashed
<1>5. ASSUME p \notin Reliable
      PROVE  /\ QueryFits(p, Query("all", {Onward}, {1}, {0}, {0}, {0}))
             /\ QueryFits(p, Query("all", {Onward}, {0}, {0}, {0}, {0}))
             /\ QueryFits(p, Query("all", {0}, {0}, {0}, {0}, {0}))
  BY <1>5 DEF QueryFits, Query, Onward, Reliable
<1>6. ASSUME p \notin Reliable
      PROVE  /\ QueryFits(p, Query("all", {Onward}, {Aborted}, {Onward}, {Aborted}, {Onward}))
             /\ QueryFits(p, Query("all", {0}, {Aborted}, {0}, {Aborted}, {0}))
  BY <1>6 DEF QueryFits, Query, Onward, Aborted, Reliable
<1>7. ASSUME p \in FirstPages
      PROVE  QueryFits(p, FirstPage(Onward)) /\ QueryFits(p, FirstPage(0))
  BY <1>7 DEF QueryFits, FirstPage, Query, Onward, FirstPages, Reliable
<1>8. QED
  BY <1>1, <1>2, <1>3, <1>4, <1>5, <1>6, <1>7

LEMMA ProbePhases ==
    ASSUME NEW p, p \notin Reliable
    PROVE  /\ ProbeFits(p, Probe({0}, {0}, {1}, {}))
           /\ ProbeFits(p, Probe({0}, {4}, {0}, {}))
           /\ ProbeFits(p, Probe({0}, {4}, {0}, {0}))
           /\ ProbeFits(p, Probe({0}, {0}, {0}, {}))
           /\ ProbeFits(p, Probe({Onward}, {0}, {Aborted}, {}))
  BY DEF ProbeFits, Probe, Onward, Aborted

LEMMA LastPhases ==
    /\ Ends(Query("asked", {1}, {4}, {0}, {4}, {0})) /\ Ends(Query("asked", {1}, {4}, {1}, {4}, {0}))
    /\ Ends([is |-> "tree"])
    /\ Ends(Query("all", {0}, {0}, {0}, {0}, {0})) /\ Ends(Query("all", {0}, {Aborted}, {0}, {Aborted}, {0}))
    /\ Ends(FirstPage(0))
    /\ Ends(Probe({0}, {0}, {1}, {})) /\ Ends(Probe({0}, {4}, {0}, {}))
    /\ Ends(Probe({0}, {4}, {0}, {0})) /\ Ends(Probe({0}, {0}, {0}, {}))
<1>1. /\ Ends(Query("asked", {1}, {4}, {0}, {4}, {0})) /\ Ends(Query("asked", {1}, {4}, {1}, {4}, {0}))
      /\ Ends(Query("all", {0}, {0}, {0}, {0}, {0})) /\ Ends(Query("all", {0}, {Aborted}, {0}, {Aborted}, {0}))
  BY DEF Ends, Query, Onward, Aborted
<1>2. Ends(FirstPage(0))
  BY DEF Ends, FirstPage, Query, Onward
<1>3. Ends([is |-> "tree"])
  BY DEF Ends
<1>4. /\ Ends(Probe({0}, {0}, {1}, {})) /\ Ends(Probe({0}, {4}, {0}, {}))
      /\ Ends(Probe({0}, {4}, {0}, {0})) /\ Ends(Probe({0}, {0}, {0}, {}))
  BY DEF Ends, Probe, Onward
<1>5. QED
  BY <1>1, <1>2, <1>3, <1>4

---------------------------------------------------------------------------
(* The programs, by the phases they are made of *)

LEMMA OneCheckReturn ==
    ASSUME NEW p, NEW a, NEW b,
           Opens(p, a), Returns(p, b)
    PROVE  WellOrdered(p, <<a, b>>)
  BY PhaseFits, PhaseOrder DEF WellOrdered

LEMMA TwoChecksReturn ==
    ASSUME NEW p, NEW a, NEW b, NEW c,
           Opens(p, a), Opens(p, b), Returns(p, c)
    PROVE  WellOrdered(p, <<a, b, c>>)
  BY PhaseFits, PhaseOrder DEF WellOrdered

LEMMA TwoChecksCall ==
    ASSUME NEW p, NEW a, NEW b, NEW c, NEW d, NEW e,
           Opens(p, a), Opens(p, b), Connects(p, c), LoginFits(p, d), CallFits(p, e)
    PROVE  WellOrdered(p, <<a, b, c, d, e>>)
  BY PhaseFits, PhaseOrder DEF WellOrdered

LEMMA ThreeChecksCall ==
    ASSUME NEW p, NEW a, NEW b, NEW c, NEW d, NEW e, NEW f,
           Opens(p, a), Opens(p, b), Opens(p, c), Connects(p, d), LoginFits(p, e),
           CallFits(p, f)
    PROVE  WellOrdered(p, <<a, b, c, d, e, f>>)
  BY PhaseFits, PhaseOrder DEF WellOrdered

LEMMA FiveChecksCall ==
    ASSUME NEW p, NEW a, NEW b, NEW c, NEW d, NEW e, NEW f, NEW g, NEW h,
           Opens(p, a), Opens(p, b), Opens(p, c), Opens(p, d), Opens(p, e),
           Connects(p, f), LoginFits(p, g), CallFits(p, h)
    PROVE  WellOrdered(p, <<a, b, c, d, e, f, g, h>>)
  BY PhaseFits, PhaseOrder DEF WellOrdered

LEMMA LateCheckCall ==
    ASSUME NEW p, NEW a, NEW b, NEW c, NEW d, NEW e, NEW f, NEW g,
           Opens(p, a), Opens(p, b), Opens(p, c), Connects(p, d), LoginFits(p, e),
           LateFits(p, f), CallFits(p, g)
    PROVE  WellOrdered(p, <<a, b, c, d, e, f, g>>)
  BY PhaseFits, PhaseOrder DEF WellOrdered

LEMMA FourChecksLateCall ==
    ASSUME NEW p, NEW a, NEW b, NEW c, NEW d, NEW e, NEW f, NEW g, NEW h,
           Opens(p, a), Opens(p, b), Opens(p, c), Opens(p, d), Connects(p, e),
           LoginFits(p, f), LateFits(p, g), CallFits(p, h)
    PROVE  WellOrdered(p, <<a, b, c, d, e, f, g, h>>)
  BY PhaseFits, PhaseOrder DEF WellOrdered

LEMMA TwoLateChecksCall ==
    ASSUME NEW p, NEW a, NEW b, NEW c, NEW d, NEW e, NEW f, NEW g,
           Opens(p, a), Opens(p, b), Connects(p, c), LoginFits(p, d), LateFits(p, e),
           LateFits(p, f), CallFits(p, g)
    PROVE  WellOrdered(p, <<a, b, c, d, e, f, g>>)
  BY PhaseFits, PhaseOrder DEF WellOrdered

LEMMA NoLoginCall ==
    ASSUME NEW a, NEW b, NEW c, NEW d,
           Opens("imiscsvrinfo", a), Opens("imiscsvrinfo", b), Connects("imiscsvrinfo", c),
           CallFits("imiscsvrinfo", d), d.is \in UtilKinds
    PROVE  WellOrdered("imiscsvrinfo", <<a, b, c, d>>)
  BY PhaseFits, PhaseOrder DEF WellOrdered

LEMMA OneCallOrder ==
    \A p \in DOMAIN OneCallPhases : WellOrdered(p, OneCallPhases[p])
<1>1. WellOrdered("iput", Iput)
  BY ThreeChecksCall, LocalPhases, ConnectPhases, LoginPhases, CallPhases DEF Iput
<1>2. WellOrdered("iget", Iget)
  BY ThreeChecksCall, LocalPhases, ConnectPhases, LoginPhases, CallPhases DEF Iget, PublicPrograms
<1>3. WellOrdered("icp", Icp)
  BY ThreeChecksCall, LocalPhases, ConnectPhases, LoginPhases, CallPhases DEF Icp
<1>4. WellOrdered("irepl", Irepl)
  BY ThreeChecksCall, LocalPhases, ConnectPhases, LoginPhases, CallPhases DEF Irepl
<1>5. WellOrdered("irm", Irm)
  BY ThreeChecksCall, LocalPhases, ConnectPhases, LoginPhases, CallPhases DEF Irm
<1>6. WellOrdered("itrim", Itrim)
  BY ThreeChecksCall, LocalPhases, ConnectPhases, LoginPhases, CallPhases DEF Itrim
<1>7. WellOrdered("ichksum", Ichksum)
  BY ThreeChecksCall, LocalPhases, ConnectPhases, LoginPhases, CallPhases DEF Ichksum
<1>8. WellOrdered("imv", Imv)
  BY ThreeChecksCall, LocalPhases, ConnectPhases, LoginPhases, CallPhases DEF Imv
<1>9. WellOrdered("iunreg", Iunreg)
  BY ThreeChecksCall, LocalPhases, ConnectPhases, LoginPhases, CallPhases DEF Iunreg
<1>10. WellOrdered("imkdir", Imkdir)
  BY ThreeChecksCall, LocalPhases, ConnectPhases, LoginPhases, CallPhases DEF Imkdir
<1>11. WellOrdered("irmdir", Irmdir)
  BY TwoChecksCall, LocalPhases, ConnectPhases, LoginPhases, CallPhases DEF Irmdir, Untold
<1>12. WellOrdered("irmtrash", Irmtrash)
  BY TwoChecksCall, LocalPhases, ConnectPhases, LoginPhases, CallPhases DEF Irmtrash
<1>13. WellOrdered("imcoll", Imcoll)
  BY FiveChecksCall, LocalPhases, ConnectPhases, LoginPhases, CallPhases DEF Imcoll
<1>14. WellOrdered("ibun", Ibun)
  BY TwoChecksCall, LocalPhases, ConnectPhases, LoginPhases, CallPhases DEF Ibun
<1>15. WellOrdered("ireg", Ireg)
  BY TwoChecksCall, LocalPhases, ConnectPhases, LoginPhases, CallPhases DEF Ireg
<1>16. WellOrdered("irsync", Irsync)
  BY ThreeChecksCall, LocalPhases, ConnectPhases, LoginPhases, CallPhases DEF Irsync
<1>17. WellOrdered("iphymv", Iphymv)
  BY TwoChecksCall, LocalPhases, ConnectPhases, LoginPhases, CallPhases DEF Iphymv
<1>18. WellOrdered("ichmod", Ichmod)
  BY FourChecksLateCall, LocalPhases, ConnectPhases, LoginPhases, LatePhases, CallPhases DEF Ichmod, Reliable
<1>19. WellOrdered("ifsck", Ifsck)
  BY LateCheckCall, LocalPhases, ConnectPhases, LoginPhases, LatePhases, CallPhases DEF Ifsck, PublicPrograms, Reliable
<1>20. WellOrdered("iscan", Iscan)
  BY LateCheckCall, LocalPhases, ConnectPhases, LoginPhases, LatePhases, CallPhases DEF Iscan, PublicPrograms, Reliable
<1>21. WellOrdered("ils", Ils)
  BY ThreeChecksCall, LocalPhases, ConnectPhases, LoginPhases, CallPhases DEF Ils, PublicPrograms
<1>22. WellOrdered("ips", Ips)
  BY TwoChecksCall, LocalPhases, ConnectPhases, LoginPhases, CallPhases DEF Ips, PublicPrograms
<1>23. WellOrdered("imiscsvrinfo", Imiscsvrinfo)
  BY NoLoginCall, LocalPhases, ConnectPhases, CallPhases DEF Imiscsvrinfo
<1>24. WellOrdered("iclienthints", Iclienthints)
  BY TwoChecksCall, LocalPhases, ConnectPhases, LoginPhases, CallPhases DEF Iclienthints, PublicPrograms, Untold
<1>25. WellOrdered("izonereport", Izonereport)
  BY TwoChecksCall, LocalPhases, ConnectPhases, LoginPhases, CallPhases DEF Izonereport, PublicPrograms, Untold
<1>26. WellOrdered("itouch", Itouch)
  BY TwoChecksCall, LocalPhases, ConnectPhases, LoginPhases, CallPhases DEF Itouch
<1>27. WellOrdered("iquery", Iquery)
  BY TwoChecksCall, LocalPhases, ConnectPhases, LoginPhases, CallPhases DEF Iquery
<1>28. WellOrdered("isysmetamod", IsysmetaMod)
  BY TwoLateChecksCall, LocalPhases, ConnectPhases, LoginPhases, LatePhases, CallPhases DEF IsysmetaMod, Reliable, Untold
<1>29. WellOrdered("ienv", Ienv)
  BY TwoChecksReturn, LocalPhases DEF Ienv, Returns
<1>30. WellOrdered("ierror", Ierror)
  BY OneCheckReturn, LocalPhases DEF Ierror, Returns
<1>31. WellOrdered("ihelp", Ihelp)
  BY OneCheckReturn, LocalPhases DEF Ihelp, Returns
<1>32. QED
  BY <1>1, <1>2, <1>3, <1>4, <1>5, <1>6, <1>7, <1>8, <1>9, <1>10, <1>11, <1>12, <1>13, <1>14, <1>15, <1>16, <1>17, <1>18, <1>19, <1>20, <1>21, <1>22, <1>23, <1>24, <1>25, <1>26, <1>27, <1>28, <1>29, <1>30, <1>31 DEF OneCallPhases

---------------------------------------------------------------------------
(* The listings: an entry, up to the login, and what is shown *)

Listed(s) == \E S : s \in Seq(S)

\* Phases that follow one another.
Chain(p, s) ==
    /\ Listed(s)
    /\ Len(s) >= 1
    /\ \A i \in 1 .. Len(s) : Fits(p, s[i])
    /\ \A i \in 1 .. Len(s) - 1 : Follows(p, s[i], s[i + 1])

\* s, and after it t.
Both(p, s, t, u) ==
    /\ Chain(p, u)
    /\ Len(u) = Len(s) + Len(t)
    /\ u[1] = s[1]
    /\ u[Len(s) + Len(t)] = t[Len(t)]

LEMMA Joined ==
    ASSUME NEW p, NEW s, NEW t, Chain(p, s), Chain(p, t), Follows(p, s[Len(s)], t[1])
    PROVE  Both(p, s, t, s \o t)
<1>1. PICK S : s \in Seq(S)
  BY DEF Chain, Listed
<1>2. PICK T : t \in Seq(T)
  BY DEF Chain, Listed
<1>3. s \in Seq(S \cup T) /\ t \in Seq(S \cup T)
  BY <1>1, <1>2, SeqMonotonic
<1> DEFINE u == s \o t
<1>4. u \in Seq(S \cup T) /\ Len(u) = Len(s) + Len(t)
  BY <1>3, ConcatProperties
<1>5. \A i \in 1 .. Len(s) + Len(t) : u[i] = IF i <= Len(s) THEN s[i] ELSE t[i - Len(s)]
  BY <1>3, ConcatProperties
<1> HIDE DEF u
<1>6. Len(s) \in Nat /\ Len(t) \in Nat /\ Len(s) >= 1 /\ Len(t) >= 1
  BY <1>1, <1>2 DEF Chain
<1>7. u[1] = s[1] /\ u[Len(s) + Len(t)] = t[Len(t)]
  BY <1>5, <1>6
<1>8. ASSUME NEW i \in 1 .. Len(u)
      PROVE  Fits(p, u[i])
  <2>1. CASE i <= Len(s)
    BY <2>1, <1>4, <1>5, <1>6 DEF Chain
  <2>2. CASE i > Len(s)
    <3>1. u[i] = t[i - Len(s)] /\ i - Len(s) \in 1 .. Len(t)
      BY <2>2, <1>4, <1>5, <1>6
    <3>2. QED
      BY <3>1 DEF Chain
  <2>3. QED
    BY <2>1, <2>2, <1>6
<1>9. ASSUME NEW i \in 1 .. Len(u) - 1
      PROVE  Follows(p, u[i], u[i + 1])
  <2>1. CASE i < Len(s)
    <3>1. u[i] = s[i] /\ u[i + 1] = s[i + 1] /\ i \in 1 .. Len(s) - 1
      BY <2>1, <1>4, <1>5, <1>6
    <3>2. QED
      BY <3>1 DEF Chain
  <2>2. CASE i = Len(s)
    BY <2>2, <1>4, <1>5, <1>6
  <2>3. CASE i > Len(s)
    <3>1. u[i] = t[i - Len(s)] /\ u[i + 1] = t[(i - Len(s)) + 1]
      BY <2>3, <1>4, <1>5, <1>6
    <3>2. i - Len(s) \in 1 .. Len(t) - 1
      BY <2>3, <1>4, <1>6
    <3>3. QED
      BY <3>1, <3>2 DEF Chain
  <2>4. QED
    BY <2>1, <2>2, <2>3, <1>6
<1>10. Listed(u)
  BY <1>4 DEF Listed
<1>11. Chain(p, u)
  BY <1>4, <1>6, <1>8, <1>9, <1>10 DEF Chain
<1>12. QED
  BY <1>4, <1>7, <1>11 DEF u, Both

LEMMA ChainWellOrdered ==
    ASSUME NEW p, NEW s, NEW t, Chain(p, s), Chain(p, t), Follows(p, s[Len(s)], t[1]),
           Len(s) + Len(t) <= 9, s[1].is \in LocalKinds, Ends(t[Len(t)])
    PROVE  WellOrdered(p, s \o t)
<1>1. PICK S : s \in Seq(S)
  BY DEF Chain, Listed
<1>2. PICK T : t \in Seq(T)
  BY DEF Chain, Listed
<1>3. Len(s) \in Nat /\ Len(t) \in Nat
  BY <1>1, <1>2
<1>4. Both(p, s, t, s \o t)
  BY Joined, Zenon
<1>5. \A u : Both(p, s, t, u) => WellOrdered(p, u)
  BY <1>3 DEF Both, Chain, WellOrdered
<1>6. QED
  BY <1>4, <1>5, Zenon

\* Some checks, the connection, the login and perhaps one more check.
Entry(p, s) ==
    /\ Chain(p, s) /\ Len(s) \in 4 .. 6
    /\ s[1].is \in LocalKinds
    /\ LoginFits(p, s[Len(s)]) \/ LateFits(p, s[Len(s)])

LEMMA TwoChecksEntry ==
    ASSUME NEW p, NEW a, NEW b, NEW c, NEW d,
           Opens(p, a), Opens(p, b), Connects(p, c), LoginFits(p, d)
    PROVE  Entry(p, <<a, b, c, d>>)
<1>1. <<a, b, c, d>> \in Seq({a, b, c, d})
  OBVIOUS
<1>2. Listed(<<a, b, c, d>>)
  BY <1>1 DEF Listed
<1>3. QED
  BY <1>2, PhaseFits, PhaseOrder DEF Entry, Chain

LEMMA ThreeChecksEntry ==
    ASSUME NEW p, NEW a, NEW b, NEW c, NEW d, NEW e,
           Opens(p, a), Opens(p, b), Opens(p, c), Connects(p, d), LoginFits(p, e)
    PROVE  Entry(p, <<a, b, c, d, e>>)
<1>1. <<a, b, c, d, e>> \in Seq({a, b, c, d, e})
  OBVIOUS
<1>2. Listed(<<a, b, c, d, e>>)
  BY <1>1 DEF Listed
<1>3. QED
  BY <1>2, PhaseFits, PhaseOrder DEF Entry, Chain

LEMMA FourChecksEntry ==
    ASSUME NEW p, NEW a, NEW b, NEW c, NEW d, NEW e, NEW f,
           Opens(p, a), Opens(p, b), Opens(p, c), Opens(p, d), Connects(p, e), LoginFits(p, f)
    PROVE  Entry(p, <<a, b, c, d, e, f>>)
<1>1. <<a, b, c, d, e, f>> \in Seq({a, b, c, d, e, f})
  OBVIOUS
<1>2. Listed(<<a, b, c, d, e, f>>)
  BY <1>1 DEF Listed
<1>3. QED
  BY <1>2, PhaseFits, PhaseOrder DEF Entry, Chain

LEMMA TwoChecksLateEntry ==
    ASSUME NEW p, NEW a, NEW b, NEW c, NEW d, NEW e,
           Opens(p, a), Opens(p, b), Connects(p, c), LoginFits(p, d), LateFits(p, e)
    PROVE  Entry(p, <<a, b, c, d, e>>)
<1>1. <<a, b, c, d, e>> \in Seq({a, b, c, d, e})
  OBVIOUS
<1>2. Listed(<<a, b, c, d, e>>)
  BY <1>1 DEF Listed
<1>3. QED
  BY <1>2, PhaseFits, PhaseOrder DEF Entry, Chain

LEMMA ThreeChecksLateEntry ==
    ASSUME NEW p, NEW a, NEW b, NEW c, NEW d, NEW e, NEW f,
           Opens(p, a), Opens(p, b), Opens(p, c), Connects(p, d), LoginFits(p, e), LateFits(p, f)
    PROVE  Entry(p, <<a, b, c, d, e, f>>)
<1>1. <<a, b, c, d, e, f>> \in Seq({a, b, c, d, e, f})
  OBVIOUS
<1>2. Listed(<<a, b, c, d, e, f>>)
  BY <1>1 DEF Listed
<1>3. QED
  BY <1>2, PhaseFits, PhaseOrder DEF Entry, Chain

\* Pages that others follow, and those that end the listing.
Start(p, t) == Chain(p, t) /\ Pages(p, t[1]) /\ Pages(p, t[Len(t)])
Display(p, t) == Chain(p, t) /\ (LateFits(p, t[1]) \/ Pages(p, t[1]) \/ Closes(p, t[1])) /\ Ends(t[Len(t)])
Brief(p, t) == Display(p, t) /\ Len(t) \in 1 .. 3

LEMMA OnePage ==
    ASSUME NEW p, NEW a
    PROVE  /\ Pages(p, a) => Start(p, <<a>>) /\ Len(<<a>>) = 1
           /\ Closes(p, a) => Brief(p, <<a>>) /\ Closes(p, <<a>>[1]) /\ Len(<<a>>) = 1
<1>1. <<a>> \in Seq({a})
  OBVIOUS
<1>2. Listed(<<a>>)
  BY <1>1 DEF Listed
<1>3. QED
  BY <1>2, PhaseFits, PhaseOrder DEF Start, Brief, Display, Chain

LEMMA TwoPages ==
    ASSUME NEW p, NEW a, NEW b, Pages(p, a), Closes(p, b)
    PROVE  Brief(p, <<a, b>>)
<1>1. <<a, b>> \in Seq({a, b})
  OBVIOUS
<1>2. Listed(<<a, b>>)
  BY <1>1 DEF Listed
<1>3. QED
  BY <1>2, PhaseFits, PhaseOrder DEF Brief, Display, Chain

LEMMA ThreePages ==
    ASSUME NEW p, NEW a, NEW b, NEW c, LateFits(p, a) \/ Pages(p, a), Pages(p, b), Closes(p, c)
    PROVE  Brief(p, <<a, b, c>>)
<1>1. <<a, b, c>> \in Seq({a, b, c})
  OBVIOUS
<1>2. Listed(<<a, b, c>>)
  BY <1>1 DEF Listed
<1>3. QED
  BY <1>2, PhaseFits, PhaseOrder DEF Brief, Display, Chain

LEMMA Shown ==
    ASSUME NEW p, NEW s, NEW t, Entry(p, s), Display(p, t), Len(s) + Len(t) <= 9
    PROVE  WellOrdered(p, s \o t)
<1>1. Follows(p, s[Len(s)], t[1])
  BY PhaseOrder DEF Entry, Display
<1>2. QED
  BY <1>1, ChainWellOrdered DEF Entry, Display

LEMMA BriefShown ==
    ASSUME NEW p, NEW s, NEW t, Entry(p, s), Brief(p, t)
    PROVE  WellOrdered(p, s \o t)
<1>1. Display(p, t) /\ Len(s) \in 4 .. 6 /\ Len(t) \in 1 .. 3
  BY DEF Entry, Brief
<1>2. \A m \in 4 .. 6, n \in 1 .. 3 : m + n <= 9
  OBVIOUS
<1>3. Len(s) + Len(t) <= 9
  BY <1>1, <1>2, Zenon
<1>4. QED
  BY <1>1, <1>3, Shown, Zenon

LEMMA Followed ==
    ASSUME NEW p, NEW s, NEW t, Start(p, s)
    PROVE  /\ Start(p, t) => Start(p, s \o t) /\ Len(s \o t) = Len(s) + Len(t)
           /\ Display(p, t) /\ (Pages(p, t[1]) \/ Closes(p, t[1])) =>
                /\ Display(p, s \o t) /\ Pages(p, (s \o t)[1])
                /\ Len(s \o t) = Len(s) + Len(t)
<1>1. ASSUME Chain(p, t), Pages(p, t[1]) \/ Closes(p, t[1])
      PROVE  /\ Chain(p, s \o t)
             /\ Len(s \o t) = Len(s) + Len(t)
             /\ (s \o t)[1] = s[1]
             /\ (s \o t)[Len(s \o t)] = t[Len(t)]
  <2>1. Chain(p, s) /\ Follows(p, s[Len(s)], t[1])
    BY <1>1, PhaseOrder DEF Start
  <2>2. Both(p, s, t, s \o t)
    BY <1>1, <2>1, Joined, Zenon
  <2>3. QED
    BY <2>2, Zenon DEF Both
<1>2. ASSUME Start(p, t)
      PROVE  Start(p, s \o t) /\ Len(s \o t) = Len(s) + Len(t)
  <2>1. Chain(p, t) /\ Pages(p, t[1])
    BY <1>2 DEF Start
  <2>2. \A u : Chain(p, u) /\ u[1] = s[1] /\ u[Len(u)] = t[Len(t)] => Start(p, u)
    BY <1>2 DEF Start
  <2>3. QED
    BY <1>1, <2>1, <2>2, Zenon
<1>3. ASSUME Display(p, t), Pages(p, t[1]) \/ Closes(p, t[1])
      PROVE  /\ Display(p, s \o t) /\ Pages(p, (s \o t)[1])
             /\ Len(s \o t) = Len(s) + Len(t)
  <2>1. Chain(p, t)
    BY <1>3 DEF Display
  <2>2. \A u : Chain(p, u) /\ u[1] = s[1] /\ u[Len(u)] = t[Len(t)] => Display(p, u) /\ Pages(p, u[1])
    BY <1>3 DEF Start, Display
  <2>3. QED
    BY <1>1, <1>3, <2>1, <2>2, Zenon
<1>4. QED
  BY <1>2, <1>3

LEMMA QuotaOrder ==
    ASSUME NEW p, p \in FirstPages, NEW t, Display(p, t), Pages(p, t[1]) \/ Closes(p, t[1]), Len(t) \in 1 .. 2
    PROVE  WellOrdered(p, Iquota(Quotas(t)))
<1> DEFINE q == ShowQuotas(Onward)
           e == <<Options(1), Check(1), Connect(2), Login(3)>>
<1>1. Start(p, q) /\ Len(q) = 1
  BY QueryPhases, OnePage DEF ShowQuotas, Pages
<1>2. Entry(p, e)
  BY TwoChecksEntry, LocalPhases, ConnectPhases, LoginPhases
<1>3. Len(e) = 4
  OBVIOUS
<1>4. Iquota(Quotas(t)) = e \o (((q \o q) \o q) \o t)
  BY DEF Iquota, Quotas
<1> HIDE DEF q, e
<1>5. Start(p, (q \o q) \o q) /\ Len((q \o q) \o q) = 3
  <2>1. Start(p, q \o q) /\ Len(q \o q) = 2
    <3>1. Start(p, q \o q) /\ Len(q \o q) = Len(q) + Len(q)
      BY <1>1, Followed, Zenon
    <3>2. QED
      BY <1>1, <3>1
  <2>2. Start(p, (q \o q) \o q) /\ Len((q \o q) \o q) = Len(q \o q) + Len(q)
    BY <1>1, <2>1, Followed, Zenon
  <2>3. QED
    BY <1>1, <2>1, <2>2
<1>6. Display(p, ((q \o q) \o q) \o t) /\ Len(((q \o q) \o q) \o t) = 3 + Len(t)
  BY <1>5, Followed, Zenon
<1>7. Len(e) + Len(((q \o q) \o q) \o t) <= 9
  <2>1. \A n \in 1 .. 2 : 4 + (3 + n) <= 9
    OBVIOUS
  <2>2. QED
    BY <1>3, <1>6, <2>1, Zenon
<1>8. WellOrdered(p, e \o (((q \o q) \o q) \o t))
  BY <1>2, <1>6, <1>7, Shown, Zenon
<1>9. QED
  BY <1>4, <1>8

LEMMA ListingOrder ==
    \A p \in DOMAIN ListingPhases : WellOrdered(p, ListingPhases[p])
<1>1. WellOrdered("iquest", Iquest)
  <2>1. Entry("iquest", <<Options(1), Check(0), Check(1), Check(0), Connect(2), Login(3)>>)
    BY FourChecksEntry, LocalPhases, ConnectPhases, LoginPhases
  <2>2. Brief("iquest", QueryAndShowStrCond)
    BY OnePage, QueryPhases, LastPhases DEF QueryAndShowStrCond, Closes, ListFits
  <2>3. QED
    BY <2>1, <2>2, BriefShown, Zenon DEF Iquest
<1>2. WellOrdered("iquestsql", IquestSql)
  <2>1. Entry("iquestsql", <<Options(1), Check(0), Check(1), Connect(2), Login(3)>>)
    BY ThreeChecksEntry, LocalPhases, ConnectPhases, LoginPhases
  <2>2. Brief("iquestsql", ExecAndShowSpecificQuery)
    BY OnePage, QueryPhases, LastPhases DEF ExecAndShowSpecificQuery, Closes, ListFits
  <2>3. QED
    BY <2>1, <2>2, BriefShown, Zenon DEF IquestSql
<1>3. WellOrdered("ilsresc", Ilsresc(ShowRescTree))
  <2>1. Entry("ilsresc", <<Options(1), Check(1), Connect(2), Login(3)>>)
    BY TwoChecksEntry, LocalPhases, ConnectPhases, LoginPhases
  <2>2. Brief("ilsresc", ShowRescTree)
    BY TwoPages, QueryPhases, LastPhases DEF ShowRescTree, Pages, Closes, ListFits
  <2>3. QED
    BY <2>1, <2>2, BriefShown, Zenon DEF Ilsresc
<1>4. WellOrdered("ilsresclong", Ilsresc(ShowRescLong))
  <2>1. "ilsresclong" \in DOMAIN ListingPhases \ DOMAIN OneCallPhases
    BY DEF ListingPhases, OneCallPhases
  <2>2. Entry("ilsresclong", <<Options(1), Check(1), Connect(2), Login(3)>>)
    BY TwoChecksEntry, LocalPhases, ConnectPhases, LoginPhases
  <2>3. Brief("ilsresclong", ShowRescLong)
    BY ThreePages, QueryPhases, ProbePhases, LatePhases, LastPhases, <2>1 DEF ShowRescLong, Pages, Closes, ListFits, Reliable
  <2>4. QED
    BY <2>2, <2>3, BriefShown, Zenon DEF Ilsresc
<1>5. WellOrdered("imetadata", ImetaLs(ShowDataObj))
  <2>1. Entry("imetadata", <<Options(1), Check(1), Check(1), Connect(2), Login(3), LateCheck(4)>>)
    BY ThreeChecksLateEntry, LocalPhases, ConnectPhases, LoginPhases, LatePhases DEF Reliable
  <2>2. Brief("imetadata", ShowDataObj)
    BY TwoPages, QueryPhases, ProbePhases, LastPhases DEF ShowDataObj, Pages, Closes, ListFits, Reliable, FullPageTold
  <2>3. QED
    BY <2>1, <2>2, BriefShown, Zenon DEF ImetaLs
<1>6. WellOrdered("imetacoll", ImetaLs(ShowColl))
  <2>1. Entry("imetacoll", <<Options(1), Check(1), Check(1), Connect(2), Login(3), LateCheck(4)>>)
    BY ThreeChecksLateEntry, LocalPhases, ConnectPhases, LoginPhases, LatePhases DEF Reliable
  <2>2. Brief("imetacoll", ShowColl)
    BY TwoPages, QueryPhases, ProbePhases, LastPhases DEF ShowColl, Pages, Closes, ListFits, Reliable, FullPageTold
  <2>3. QED
    BY <2>1, <2>2, BriefShown, Zenon DEF ImetaLs
<1>7. WellOrdered("imetaresc", ImetaLs(ShowResc))
  <2>1. Entry("imetaresc", <<Options(1), Check(1), Check(1), Connect(2), Login(3), LateCheck(4)>>)
    BY ThreeChecksLateEntry, LocalPhases, ConnectPhases, LoginPhases, LatePhases DEF Reliable
  <2>2. Brief("imetaresc", ShowResc)
    BY TwoPages, QueryPhases, ProbePhases, LastPhases DEF ShowResc, Pages, Closes, ListFits, Reliable, FullPageTold
  <2>3. QED
    BY <2>1, <2>2, BriefShown, Zenon DEF ImetaLs
<1>8. WellOrdered("imetauser", ImetaLs(ShowUser))
  <2>1. Entry("imetauser", <<Options(1), Check(1), Check(1), Connect(2), Login(3), LateCheck(4)>>)
    BY ThreeChecksLateEntry, LocalPhases, ConnectPhases, LoginPhases, LatePhases DEF Reliable
  <2>2. Brief("imetauser", ShowUser)
    BY TwoPages, QueryPhases, ProbePhases, LastPhases DEF ShowUser, Pages, Closes, ListFits, Reliable, FullPageTold
  <2>3. QED
    BY <2>1, <2>2, BriefShown, Zenon DEF ImetaLs
<1>9. WellOrdered("isysmetals", IsysmetaLs)
  <2>1. Entry("isysmetals", <<Options(1), Check(1), Connect(2), Login(3), LateCheckLeft(1)>>)
    BY TwoChecksLateEntry, LocalPhases, ConnectPhases, LoginPhases, LatePhases DEF Reliable
  <2>2. Brief("isysmetals", DoLs)
    BY TwoPages, QueryPhases, ProbePhases, LastPhases DEF DoLs, Pages, Closes, ListFits, Reliable
  <2>3. QED
    BY <2>1, <2>2, BriefShown, Zenon DEF IsysmetaLs
<1>10. WellOrdered("isysmetaldt", IsysmetaLdt)
  <2>1. Entry("isysmetaldt", <<Options(1), Check(1), Connect(2), Login(3)>>)
    BY TwoChecksEntry, LocalPhases, ConnectPhases, LoginPhases
  <2>2. Brief("isysmetaldt", DoListDataTypes)
    BY OnePage, QueryPhases, LastPhases DEF DoListDataTypes, Closes, ListFits, Reliable
  <2>3. QED
    BY <2>1, <2>2, BriefShown, Zenon DEF IsysmetaLdt
<1>11. WellOrdered("iuserinfo", Iuserinfo)
  <2>1. "iuserinfo" \in DOMAIN ListingPhases \ DOMAIN OneCallPhases
    BY DEF ListingPhases, OneCallPhases
  <2> DEFINE e == <<Options(1), Check(1), Connect(2), Login(3), LateCheck(-310000)>>
  <2>2. Entry("iuserinfo", e)
    BY TwoChecksLateEntry, LocalPhases, ConnectPhases, LoginPhases, LatePhases, <2>1 DEF Reliable
  <2>3. Brief("iuserinfo", ShowUserInfo)
    BY ThreePages, QueryPhases, ProbePhases, LastPhases DEF ShowUserInfo, Pages, Closes, ListFits, Reliable
  <2> HIDE DEF e
  <2>4. WellOrdered("iuserinfo", e \o ShowUserInfo)
    BY <2>2, <2>3, BriefShown, Zenon
  <2>5. QED
    BY <2>4 DEF Iuserinfo, e
<1>12. WellOrdered("iquota", Iquota(Quotas(ShowQuotas(Onward) \o ShowUserGroupMembership)))
  <2>1. Start("iquota", ShowQuotas(Onward)) /\ Len(ShowQuotas(Onward)) = 1
    BY OnePage, QueryPhases DEF ShowQuotas, Pages, FirstPages
  <2>2. /\ Display("iquota", ShowUserGroupMembership) /\ Closes("iquota", ShowUserGroupMembership[1])
        /\ Len(ShowUserGroupMembership) = 1
    BY OnePage, QueryPhases, LastPhases DEF ShowUserGroupMembership, Brief, Closes, ListFits, FirstPages
  <2>3. \A t : /\ Display("iquota", t) /\ Pages("iquota", t[1]) /\ Len(t) = 2
              => WellOrdered("iquota", Iquota(Quotas(t)))
    BY QuotaOrder DEF FirstPages
  <2>4. Len(ShowQuotas(Onward) \o ShowUserGroupMembership) = Len(ShowQuotas(Onward)) + Len(ShowUserGroupMembership)
    <3>1. \A s, t : Start("iquota", s) /\ Display("iquota", t) /\ Closes("iquota", t[1]) =>
                     Len(s \o t) = Len(s) + Len(t)
      BY Followed, Zenon
    <3>2. QED
      BY <2>1, <2>2, <3>1, Zenon
  <2>5. Len(ShowQuotas(Onward) \o ShowUserGroupMembership) = 2
    BY <2>1, <2>2, <2>4
  <2>6. QED
    BY <2>1, <2>2, <2>3, <2>5, Followed, Zenon
<1>13. WellOrdered("iquotaall", Iquota(Quotas(ShowQuotas(0))))
  <2>1. /\ Display("iquotaall", ShowQuotas(0)) /\ Closes("iquotaall", ShowQuotas(0)[1])
        /\ Len(ShowQuotas(0)) = 1
    BY OnePage, QueryPhases, LastPhases DEF ShowQuotas, Brief, Closes, ListFits, FirstPages
  <2>2. QED
    BY <2>1, QuotaOrder DEF FirstPages
<1>14. WellOrdered("iquotausage", Iquota(ShowUserUsage))
  <2>1. Entry("iquotausage", <<Options(1), Check(1), Connect(2), Login(3)>>)
    BY TwoChecksEntry, LocalPhases, ConnectPhases, LoginPhases
  <2>2. Brief("iquotausage", ShowUserUsage)
    BY OnePage, QueryPhases, LastPhases DEF ShowUserUsage, Closes, ListFits, FirstPages
  <2>3. QED
    BY <2>1, <2>2, BriefShown, Zenon DEF Iquota
<1>15. QED
  BY <1>1, <1>2, <1>3, <1>4, <1>5, <1>6, <1>7, <1>8, <1>9, <1>10, <1>11, <1>12, <1>13, <1>14 DEF ListingPhases

LEMMA ImetaOrder ==
    \A p \in DOMAIN ImetaPhases : WellOrdered(p, ImetaPhases[p])
<1>1. WellOrdered("imeta", Imeta)
  BY FiveChecksCall, LocalPhases, ConnectPhases, LoginPhases, CallPhases DEF Imeta
<1>2. QED
  BY <1>1 DEF ImetaPhases

LEMMA Disjoint ==
    /\ DOMAIN OneCallPhases \cap DOMAIN ListingPhases = {}
    /\ DOMAIN ImetaPhases = {"imeta"}
    /\ "imeta" \notin DOMAIN OneCallPhases \cup DOMAIN ListingPhases
    /\ Reliable \cup FirstPages \cup {"ilsresc"} \subseteq DOMAIN ListingPhases
    /\ {"irsync", "ichmod", "iphymv"} \subseteq DOMAIN OneCallPhases
    /\ "none" \notin Programs
  BY DEF OneCallPhases, ListingPhases, ImetaPhases, Programs, Reliable, FirstPages

---------------------------------------------------------------------------
(* The inductive invariant: what holds while a program runs *)

ScriptOf(p) ==
    IF p \in DOMAIN OneCallPhases THEN OneCallPhases[p]
    ELSE IF p \in DOMAIN ListingPhases THEN ListingPhases[p]
    ELSE ImetaPhases[p]

Script == ScriptOf(prog)

Kind == Script[at].is

Allowed == login \/ (public /\ prog \in PublicPrograms) \/ prog = "imiscsvrinfo"

\* The connection and the login, by the kind of the phase.
ConnInv ==
    /\ Kind \in LocalKinds \cup {"return", "connect"} => conn = "none" /\ ~login
    /\ Kind \in LoginKinds => conn = "open" /\ ~login
    /\ Kind \in LateKinds \cup CallKinds \cup ListKinds => conn = "open" /\ Allowed

\* What was carried out, and what went wrong.
WorkInv ==
    /\ Kind # "each path" => done = {} /\ failed = {}
    /\ Kind = "each path" =>
         \E n \in 0 .. Len(paths) :
            /\ done = 1 .. n
            /\ failed = {} \/ \E f \in {n, n + 1} \cap (1 .. Len(paths)) : failed = {f}
    /\ Kind \notin ListKinds \/ prog \in Reliable => trouble = {}
    /\ given = <<>> /\ sent = NoCall

NoRows == total = Unasked /\ printed = 0 /\ ~more

SomeRows ==
    /\ total \in 1 .. MaxRows
    /\ printed \in 0 .. total
    /\ printed = 0 => ~more
    /\ printed > 0 /\ ~more => printed = total

RowsInv ==
    /\ Kind # "query" => NoRows
    /\ Kind = "query" => NoRows \/ SomeRows
    /\ Kind \notin ListKinds \/ prog \notin FirstPages => whole
    /\ shown = {}

\* The hierarchy that is read, each parent as an id or as a name; as ids when
\* the first page had all of it.
Hierarchy(first) ==
    \E n \in 0 .. MaxResources : \E f \in Forests(n) :
        /\ parents \in [1 .. n -> -n .. n]
        /\ \A r \in 1 .. n : parents[r] \in {f[r], -f[r]}
        /\ IF first THEN parents = f \/ \A r \in 1 .. n : parents[r] = -f[r]
           ELSE n <= PageSize => parents = f

TreeInv ==
    /\ ~(prog = "ilsresc" /\ (Kind = "tree" \/ (Kind = "query" /\ total # Unasked))) => parents = <<>>
    /\ prog = "ilsresc" /\ Kind = "query" /\ total # Unasked => Hierarchy(printed = 0) /\ total = Len(parents)
    /\ prog = "ilsresc" /\ Kind = "tree" => Hierarchy(FALSE)

SyncInv ==
    /\ \E i \in DOMAIN paths : paths[i] = "remote"
    /\ (\A i, j \in Targets : written[i] = written[j]) => paths = written

PathsInv ==
    /\ Len(paths) \in Nat /\ DOMAIN paths = 1 .. Len(paths)
    /\ prog # "irsync" => Len(paths) <= MaxPaths
    /\ prog = "imeta" => paths = <<"request">>
    /\ prog = "irsync" /\ at >= 3 => SyncInv

RunInv == ConnInv /\ WorkInv /\ RowsInv /\ TreeInv /\ PathsInv

Idle ==
    /\ at = 1 /\ public = FALSE /\ written = <<"request">> /\ paths = <<"request">>
    /\ conn = "none" /\ login = FALSE /\ exit = Running
    /\ done = {} /\ failed = {} /\ trouble = {}
    /\ total = Unasked /\ printed = 0 /\ more = FALSE /\ whole = TRUE /\ parents = <<>> /\ shown = {}
    /\ given = <<>> /\ sent = NoCall

IInv ==
    /\ TypeOK
    /\ prog = "none" => Idle
    /\ prog # "none" /\ exit = Running => at \in 1 .. Len(Script) /\ RunInv


---------------------------------------------------------------------------
(* Where a program is *)

LEMMA Scripts ==
    ASSUME NEW p
    PROVE  /\ p \in DOMAIN OneCallPhases => ScriptOf(p) = OneCallPhases[p]
           /\ p \in DOMAIN ListingPhases => ScriptOf(p) = ListingPhases[p]
           /\ p \in DOMAIN ImetaPhases => ScriptOf(p) = ImetaPhases[p]
           /\ p \in Programs => WellOrdered(p, ScriptOf(p))
<1>1. p \in DOMAIN OneCallPhases => ScriptOf(p) = OneCallPhases[p]
  BY DEF ScriptOf
<1>2. p \in DOMAIN ListingPhases => ScriptOf(p) = ListingPhases[p]
  BY Disjoint DEF ScriptOf
<1>3. p \in DOMAIN ImetaPhases => ScriptOf(p) = ImetaPhases[p]
  BY Disjoint DEF ScriptOf
<1>4. p \in Programs => WellOrdered(p, ScriptOf(p))
  BY <1>1, <1>2, <1>3, OneCallOrder, ListingOrder, ImetaOrder DEF Programs
<1>5. QED
  BY <1>1, <1>2, <1>3, <1>4

LEMMA Here ==
    ASSUME IInv, prog # "none", exit = Running
    PROVE  /\ prog \in Programs
           /\ at \in 1 .. Len(Script) /\ Len(Script) \in 1 .. 9
           /\ Fits(prog, Script[at])
           /\ ~Ends(Script[at]) =>
                /\ at + 1 \in 1 .. Len(Script)
                /\ Fits(prog, Script[at + 1])
                /\ Follows(prog, Script[at], Script[at + 1])
<1>1. prog \in Programs
  BY DEF IInv, TypeOK
<1>2. WellOrdered(prog, Script)
  BY <1>1, Scripts DEF Script
<1>3. at \in 1 .. Len(Script)
  BY DEF IInv
<1>4. Len(Script) \in 1 .. 9
  BY <1>2 DEF WellOrdered
<1>5. Fits(prog, Script[at])
  BY <1>2, <1>3 DEF WellOrdered
<1>6. ASSUME ~Ends(Script[at])
      PROVE  /\ at + 1 \in 1 .. Len(Script)
             /\ Fits(prog, Script[at + 1])
             /\ Follows(prog, Script[at], Script[at + 1])
  <2>1. at # Len(Script)
    BY <1>2, <1>6 DEF WellOrdered
  <2>2. at \in 1 .. Len(Script) - 1 /\ at + 1 \in 1 .. Len(Script)
    BY <1>3, <1>4, <2>1
  <2>3. QED
    BY <1>2, <2>2 DEF WellOrdered
<1>7. QED
  BY <1>1, <1>3, <1>4, <1>5, <1>6

\* The phases by their kinds.
LEMMA KindFits ==
    ASSUME NEW p, NEW a, Fits(p, a)
    PROVE  /\ a.is \in LocalKinds \cup {"return", "connect"} \cup LoginKinds \cup LateKinds \cup CallKinds \cup ListKinds
           /\ a.is \in LocalKinds \cup {"return"} => LocalFits(p, a)
           /\ a.is = "connect" => Connects(p, a)
           /\ a.is \in LoginKinds => LoginFits(p, a)
           /\ a.is \in LateKinds => LateFits(p, a)
           /\ a.is \in CallKinds => CallFits(p, a)
           /\ a.is = "query" => QueryFits(p, a)
           /\ a.is = "probe" => ProbeFits(p, a)
           /\ a.is = "tree" => p = "ilsresc"
<1>1. /\ LocalFits(p, a) => a.is \in LocalKinds \cup {"return"}
      /\ Connects(p, a) => a.is = "connect"
      /\ LoginFits(p, a) => a.is \in LoginKinds
      /\ LateFits(p, a) => a.is \in LateKinds
      /\ CallFits(p, a) => a.is \in CallKinds
      /\ QueryFits(p, a) => a.is = "query"
      /\ ProbeFits(p, a) => a.is = "probe"
  BY Zenon DEF LocalFits, Connects, LoginFits, LateFits, CallFits, QueryFits, ProbeFits
<1>2. \/ LocalFits(p, a) \/ Connects(p, a) \/ LoginFits(p, a) \/ LateFits(p, a) \/ CallFits(p, a)
      \/ QueryFits(p, a) \/ ProbeFits(p, a) \/ (a.is = "tree" /\ p = "ilsresc")
  BY Zenon DEF Fits, ListFits
<1>3. QED
  BY <1>1, <1>2 DEF LocalKinds, LoginKinds, LateKinds, CallKinds, UtilKinds, ListKinds

LEMMA Unended ==
    ASSUME NEW a, a.is \in LocalKinds \cup {"connect"} \cup LoginKinds \cup LateKinds
    PROVE  ~Ends(a)
  BY DEF Ends, LocalKinds, LoginKinds, LateKinds, CallKinds, UtilKinds

---------------------------------------------------------------------------
(* While it runs, the invariant gives the properties *)

Properties ==
    /\ SuccessTells /\ RefusalsDoNothing /\ ChangedUpToFailure /\ OnlyWithLogin /\ SyncAsWritten
    /\ FailureHasCause /\ ListsAll /\ ModMeansArguments

LEMMA EmptyDomain == DOMAIN <<>> = {}
<1>1. <<>> \in Seq({}) /\ Len(<<>>) = 0
  OBVIOUS
<1>2. DOMAIN <<>> = 1 .. Len(<<>>)
  BY <1>1, LenProperties, Zenon
<1>3. 1 .. 0 = {}
  OBVIOUS
<1>4. QED
  BY <1>1, <1>2, <1>3, Zenon

LEMMA IrsyncOrder ==
    prog = "irsync" => /\ at = 1 => Kind = "options"
                       /\ at = 2 => Kind = "sync sources"
<1>1. SUFFICES ASSUME prog = "irsync"
               PROVE  /\ at = 1 => Kind = "options"
                      /\ at = 2 => Kind = "sync sources"
  OBVIOUS
<1>2. Script = Irsync
  BY <1>1, Scripts DEF Script, OneCallPhases
<1>3. Irsync[1].is = "options" /\ Irsync[2].is = "sync sources"
  BY DEF Irsync, Options, SyncSources
<1>4. QED
  BY <1>2, <1>3 DEF Kind

LEMMA RunningKind ==
    ASSUME IInv, prog # "none", exit = Running
    PROVE  Kind \in LocalKinds \cup {"return", "connect"} \cup LoginKinds \cup LateKinds \cup CallKinds \cup ListKinds
  BY Here, KindFits DEF Kind

LEMMA RunningSync ==
    ASSUME IInv, prog = "irsync", exit = Running, conn # "none"
    PROVE  SyncInv
<1>1. Kind \notin LocalKinds
  BY DEF IInv, RunInv, ConnInv
<1>2. at \notin {1, 2} /\ at \in 1 .. Len(Script) /\ Len(Script) \in 1 .. 9
  BY <1>1, IrsyncOrder, Here DEF LocalKinds
<1>3. at >= 3
  BY <1>2
<1>4. QED
  BY <1>3 DEF IInv, RunInv, PathsInv

LEMMA RunningProperties ==
    ASSUME IInv, prog # "none", exit = Running
    PROVE  Properties
<1>1. RunInv
  BY DEF IInv
<1>2. exit \notin {0, 1, 2, 7, 8} /\ exit = Running
  BY DEF Running
<1>3. SuccessTells /\ RefusalsDoNothing /\ FailureHasCause /\ ListsAll
  BY <1>2 DEF SuccessTells, RequestTells, ListingTells, RefusalsDoNothing, FailureHasCause, ListsAll, TreeWhole, RowsAll
<1>4. ChangedUpToFailure
  <2>1. CASE done = {} /\ failed = {}
    BY <2>1, <1>2 DEF ChangedUpToFailure
  <2>2. CASE Kind = "each path"
    <3>1. PICK n \in 0 .. Len(paths) : done = 1 .. n /\ (failed = {} \/ \E f \in {n, n + 1} \cap (1 .. Len(paths)) : failed = {f})
      BY <2>2, <1>1 DEF RunInv, WorkInv
    <3>2. \A i \in done : 1 .. i \subseteq done
      BY <3>1
    <3>3. \A f \in failed : done \subseteq 1 .. f
      BY <3>1
    <3>4. QED
      BY <1>2, <3>2, <3>3 DEF ChangedUpToFailure
  <2>3. QED
    BY <2>1, <2>2, <1>1 DEF RunInv, WorkInv
<1>5. OnlyWithLogin
  <2>1. Kind \notin CallKinds \cup ListKinds => done = {} /\ total = Unasked
    BY <1>1 DEF RunInv, WorkInv, RowsInv, NoRows, CallKinds, ListKinds
  <2>2. QED
    BY <1>1, <2>1 DEF RunInv, WorkInv, ConnInv, Allowed, OnlyWithLogin
<1>6. SyncAsWritten
  BY RunningSync DEF SyncAsWritten, SyncInv
<1>7. ModMeansArguments
  BY <1>1 DEF RunInv, WorkInv, ModMeansArguments
<1>8. QED
  BY <1>3, <1>4, <1>5, <1>6, <1>7 DEF Properties

LEMMA IdleProperties ==
    ASSUME IInv, prog = "none"
    PROVE  Properties
<1>1. Idle
  BY DEF IInv
<1>2. /\ "none" \notin DOMAIN OneCallPhases /\ "none" \notin DOMAIN ListingPhases
  BY Disjoint DEF Programs
<1>3. SuccessTells /\ RefusalsDoNothing /\ FailureHasCause /\ OnlyWithLogin /\ SyncAsWritten /\ ChangedUpToFailure /\ ModMeansArguments
  BY <1>1, <1>2 DEF Idle, Running, SuccessTells, RequestTells, ListingTells, RefusalsDoNothing, FailureHasCause, OnlyWithLogin,
       SyncAsWritten, ChangedUpToFailure, ModMeansArguments
<1>4. ListsAll
  BY <1>1 DEF Idle, Running, ListsAll, TreeWhole, RowsAll
<1>5. QED
  BY <1>3, <1>4 DEF Properties

LEMMA InitInv == Init => IInv
<1>1. SUFFICES ASSUME Init PROVE IInv
  OBVIOUS
<1>2. Idle /\ prog = "none"
  BY <1>1, Zenon DEF Init, Idle
<1>3. TypeOK
  <2>1. Len(<<"request">>) = 1 /\ DOMAIN <<"request">> = {1} /\ <<"request">>[1] = "request"
    OBVIOUS
  <2>2. /\ Len(<<"request">>) <= MaxPaths + 1
        /\ \A i \in DOMAIN <<"request">> : <<"request">>[i] \in {"request", "path", "local", "remote"}
    BY <2>1, PathsAssumption
  <2>3. \A list \in {written, paths} :
          /\ Len(list) <= MaxPaths + 1
          /\ \A i \in DOMAIN list : list[i] \in {"request", "path", "local", "remote"}
    BY <1>2, <2>2, Zenon DEF Idle
  <2>4. DOMAIN sent = {"units", "new"}
    BY <1>2 DEF Idle, NoCall
  <2>5. /\ \A r \in DOMAIN parents : parents[r] \in -MaxRows .. MaxRows
        /\ \A i \in DOMAIN given : given[i] \in Argument
    BY <1>2 DEF Idle
  <2>6. /\ total \in {Unasked} \cup 1 .. MaxRows /\ printed \in 0 .. MaxRows
        /\ exit \in {Running} \cup 0 .. 255
        /\ at \in 1 .. 9
    BY <1>2, RowsAssumption DEF Idle
  <2>7. public \in BOOLEAN /\ login \in BOOLEAN /\ more \in BOOLEAN /\ whole \in BOOLEAN
    BY <1>2, Zenon DEF Idle
  <2>8. /\ conn \in {"none", "open", "closed"}
        /\ done \subseteq 1 .. MaxPaths /\ failed \subseteq 1 .. MaxPaths
        /\ trouble \subseteq {"refused", "none", "error", "absent", "stopped", "one resource"}
        /\ shown \subseteq 1 .. MaxRows
        /\ prog \in Programs \cup {"none"}
    BY <1>2 DEF Idle
  <2>9. QED
    BY <2>3, <2>4, <2>5, <2>6, <2>7, <2>8, Zenon DEF TypeOK
<1>4. QED
  BY <1>2, <1>3 DEF IInv

---------------------------------------------------------------------------
(* Types *)

RunTypes ==
    /\ prog \in Programs \cup {"none"}
    /\ at \in 1 .. 9
    /\ public \in BOOLEAN
    /\ \A list \in {written, paths} :
         /\ Len(list) <= MaxPaths + 1
         /\ \A i \in DOMAIN list : list[i] \in {"request", "path", "local", "remote"}
    /\ conn \in {"none", "open", "closed"}
    /\ login \in BOOLEAN
    /\ exit \in {Running} \cup 0 .. 255

WorkTypes ==
    /\ done \subseteq 1 .. MaxPaths /\ failed \subseteq 1 .. MaxPaths
    /\ trouble \subseteq {"refused", "none", "error", "absent", "stopped", "one resource"}

RowTypes ==
    /\ total \in {Unasked} \cup 1 .. MaxRows
    /\ printed \in 0 .. MaxRows
    /\ more \in BOOLEAN /\ whole \in BOOLEAN
    /\ \A r \in DOMAIN parents : parents[r] \in -MaxRows .. MaxRows
    /\ shown \subseteq 1 .. MaxRows

AvuTypes ==
    /\ \A i \in DOMAIN given : given[i] \in Argument
    /\ DOMAIN sent = {"units", "new"}

LEMMA Types ==
    /\ TypeOK <=> RunTypes /\ WorkTypes /\ RowTypes /\ AvuTypes
    /\ TypeOK' <=> RunTypes' /\ WorkTypes' /\ RowTypes' /\ AvuTypes'
    /\ RowTypes /\ UNCHANGED listVars => RowTypes'
    /\ AvuTypes /\ UNCHANGED avuVars => AvuTypes'
    /\ WorkTypes /\ UNCHANGED historyVars => WorkTypes'
<1>1. TypeOK <=> RunTypes /\ WorkTypes /\ RowTypes /\ AvuTypes
  BY Zenon DEF TypeOK, RunTypes, WorkTypes, RowTypes, AvuTypes
<1>2. TypeOK' <=> RunTypes' /\ WorkTypes' /\ RowTypes' /\ AvuTypes'
  BY Zenon DEF TypeOK, RunTypes, WorkTypes, RowTypes, AvuTypes
<1>3. RowTypes /\ UNCHANGED listVars => RowTypes'
  BY DEF RowTypes, listVars
<1>4. AvuTypes /\ UNCHANGED avuVars => AvuTypes'
  BY DEF AvuTypes, avuVars
<1>5. WorkTypes /\ UNCHANGED historyVars => WorkTypes'
  BY DEF WorkTypes, historyVars
<1>6. QED
  BY <1>1, <1>2, <1>3, <1>4, <1>5

LEMMA ExitRange ==
    ASSUME NEW s \in Int
    PROVE  ExitStatus(s) \in 0 .. 255 /\ ExitStatus(s) # Running
  BY DEF ExitStatus, Running

---------------------------------------------------------------------------
(* Steps that end the program *)

LEMMA EndStep ==
    ASSUME RunTypes, NEW s \in Int, End(s) \/ Disconnect(s)
    PROVE  /\ RunTypes'
           /\ exit' = s % 256 /\ exit' \in 0 .. 255 /\ exit' # Running
           /\ UNCHANGED <<prog, at, public, written, paths, login>>
           /\ conn' \in {conn, "closed"}
<1>1. /\ exit' = s % 256
      /\ UNCHANGED <<prog, at, public, written, paths, login>>
      /\ conn' \in {conn, "closed"}
  BY DEF End, Disconnect, ExitStatus
<1>2. exit' \in 0 .. 255 /\ exit' # Running
  BY <1>1, ExitRange DEF ExitStatus
<1>3. RunTypes'
  BY <1>1, <1>2 DEF RunTypes
<1>4. QED
  BY <1>1, <1>2, <1>3

LEMMA EndInv ==
    ASSUME IInv, prog # "none", NEW s \in Int, End(s) \/ Disconnect(s),
           WorkTypes', RowTypes', AvuTypes'
    PROVE  IInv'
<1>1. RunTypes
  BY Types DEF IInv
<1>2. RunTypes' /\ exit' # Running /\ prog' = prog
  BY <1>1, EndStep
<1>3. TypeOK'
  BY <1>2, Types
<1>4. QED
  BY <1>2, <1>3 DEF IInv

\* A program that is refused before its work.
LEMMA Refused ==
    ASSUME IInv, prog # "none", exit = Running,
           NEW s \in Int,
           \/ End(s) /\ Kind \in LocalKinds \cup {"return", "connect"} /\ UNCHANGED trouble
           \/ Disconnect(s) /\ Kind \in LoginKinds /\ UNCHANGED trouble /\ Untellable(prog, Script[at])
              /\ s = Script[at].exit
           \/ /\ End(s) \/ Disconnect(s)
              /\ Kind \in LateKinds /\ trouble' = trouble \cup {"refused"}
              /\ Untellable(prog, Script[at]) /\ s = Script[at].exit /\ prog \notin Reliable \cup {"imeta"},
           UNCHANGED <<done, failed>>, UNCHANGED listVars, UNCHANGED avuVars,
           prog = "ichmod" => s % 256 # 8
    PROVE  IInv' /\ Properties'
<1>1. RunTypes /\ WorkTypes /\ RowTypes /\ AvuTypes
  BY Types DEF IInv
<1>2. End(s) \/ Disconnect(s)
  OBVIOUS
<1>3. /\ exit' = s % 256 /\ exit' \in 0 .. 255 /\ exit' # Running
      /\ UNCHANGED <<prog, at, public, written, paths, login>>
      /\ conn' \in {conn, "closed"}
  BY <1>1, <1>2, EndStep
<1> USE DEF LocalKinds, LoginKinds, LateKinds
<1>4. RunInv
  BY DEF IInv
<1>5. done' = {} /\ failed' = {} /\ trouble = {} /\ sent' = NoCall
  BY <1>4 DEF RunInv, WorkInv, avuVars, ListKinds
<1>6. total' = Unasked /\ whole' /\ parents' = <<>> /\ shown' = {}
  BY <1>4 DEF RunInv, RowsInv, NoRows, TreeInv, listVars, ListKinds
<1>7. trouble' \in {{}, {"refused"}}
  BY <1>5
<1>8. IInv'
  <2>1. WorkTypes'
    BY <1>1, <1>7 DEF WorkTypes
  <2>2. RowTypes' /\ AvuTypes'
    BY <1>1, Types
  <2>3. QED
    BY <1>2, <2>1, <2>2, EndInv
<1>9. SuccessTells'
  <2>1. CASE Kind \in LocalKinds \cup {"return", "connect"}
    <3>1. conn' = "none" /\ UNCHANGED trouble
      BY <1>4, <2>1 DEF RunInv, ConnInv, End
    <3>2. QED
      BY <1>3, <3>1 DEF SuccessTells, RequestTells, ListingTells
  <2>2. CASE Kind \in LoginKinds \cup LateKinds
    <3>1. Untellable(prog, Script[at]) /\ s = Script[at].exit
      BY <2>2
    <3>2. RequestTells'
      BY <1>3, <3>1 DEF RequestTells, Untellable
    <3>3. ListingTells'
      BY <1>3, <1>5, <2>2 DEF ListingTells, Reliable
    <3>4. QED
      BY <3>2, <3>3 DEF SuccessTells
  <2>3. QED
    BY <2>1, <2>2
<1>10. RefusalsDoNothing' /\ ChangedUpToFailure' /\ OnlyWithLogin' /\ ModMeansArguments'
  BY <1>3, <1>5, <1>6 DEF RefusalsDoNothing, ChangedUpToFailure, OnlyWithLogin, ModMeansArguments
<1>11. ListsAll'
  <2>1. TreeWhole'
    BY <1>6, EmptyDomain, Zenon DEF TreeWhole
  <2>2. RowsAll'
    BY <1>6, Zenon DEF RowsAll
  <2>3. QED
    BY <2>1, <2>2, Zenon DEF ListsAll
<1>12. SyncAsWritten'
  <2>1. ASSUME prog = "irsync", conn' # "none"
        PROVE  SyncInv
    <3>1. ASSUME conn = "none" PROVE FALSE
      <4>1. Kind \notin LoginKinds \cup LateKinds
        BY <1>4, <3>1 DEF RunInv, ConnInv
      <4>2. End(s)
        BY <4>1
      <4>3. QED
        BY <2>1, <3>1, <4>2 DEF End
    <3>2. QED
      BY <2>1, <3>1, RunningSync
  <2>2. SyncInv => SyncInv'
    <3>1. paths' = paths /\ written' = written /\ prog' = prog
      BY <1>3
    <3>2. Targets' = Targets
      BY <3>1, Zenon DEF Targets
    <3>3. QED
      BY <3>1, <3>2, Zenon DEF SyncInv
  <2>3. prog' = "irsync" /\ conn' # "none" => SyncInv'
    BY <1>3, <2>1, <2>2, Zenon
  <2>4. QED
    BY <2>3, Zenon DEF SyncAsWritten, SyncInv
<1>13. FailureHasCause'
  <2>1. CASE Kind \in LateKinds
    <3>1. trouble' = {"refused"}
      BY <1>5, <2>1
    <3>2. trouble' \ {"stopped"} # {}
      BY <3>1
    <3>3. QED
      BY <3>2 DEF FailureHasCause
  <2>2. CASE Kind \notin LateKinds
    <3>1. ~login'
      BY <1>3, <1>4, <2>2 DEF RunInv, ConnInv
    <3>2. QED
      BY <3>1 DEF FailureHasCause
  <2>3. QED
    BY <2>1, <2>2
<1>14. QED
  BY <1>8, <1>9, <1>10, <1>11, <1>12, <1>13 DEF Properties

---------------------------------------------------------------------------
(* Steps on to the next phase, before the work *)

LEMMA NoHierarchy ==
    ASSUME parents' = <<>>
    PROVE  Hierarchy(FALSE)'
<1>1. <<>> \in Seq({0}) /\ Len(<<>>) = 0
  OBVIOUS
<1>2. <<>> \in [1 .. 0 -> {0}]
  BY <1>1, LenProperties
<1>3. 0 .. 0 = {0} /\ -0 .. 0 = {0} /\ 1 .. 0 = {}
  OBVIOUS
<1>4. Below(<<>>, Roots(<<>>)) = 1 .. 0
  BY EmptyDomain, <1>3, Zenon DEF Below
<1>5. <<>> \in Forests(0)
  BY <1>2, <1>3, <1>4, Zenon DEF Forests
<1>6. 0 \in 0 .. MaxResources
  BY RowsAssumption
<1>7. /\ parents' \in [1 .. 0 -> -0 .. 0]
      /\ \A r \in 1 .. 0 : parents'[r] \in {<<>>[r], -<<>>[r]}
      /\ IF FALSE THEN parents' = <<>> \/ \A r \in 1 .. 0 : parents'[r] = -<<>>[r]
         ELSE 0 <= PageSize => parents' = <<>>
  BY <1>2, <1>3, Zenon
<1>8. QED
  BY <1>5, <1>6, <1>7, Zenon DEF Hierarchy

LEMMA Passed ==
    ASSUME IInv, prog # "none", exit = Running,
           Kind \in LocalKinds \cup {"connect"} \cup LoginKinds \cup LateKinds,
           at' = at + 1, UNCHANGED <<prog, public, exit>>,
           UNCHANGED historyVars, UNCHANGED listVars, UNCHANGED avuVars,
           Kind \in LocalKinds \cup LateKinds => UNCHANGED <<conn, login>>,
           Kind = "connect" => conn' = "open" /\ UNCHANGED login,
           Kind \in LoginKinds =>
             UNCHANGED conn /\ login' \in BOOLEAN /\ (login' \/ (public /\ prog \in PublicPrograms)),
           \A list \in {written', paths'} :
             /\ Len(list) <= MaxPaths + 1
             /\ \A i \in DOMAIN list : list[i] \in {"request", "path", "local", "remote"},
           PathsInv'
    PROVE  IInv'
<1>1. RunTypes /\ WorkTypes /\ RowTypes /\ AvuTypes /\ RunInv
  BY Types DEF IInv
<1>2. ~Ends(Script[at])
  BY Unended DEF Kind
<1>3. /\ prog \in Programs
      /\ at \in 1 .. Len(Script) /\ Len(Script) \in 1 .. 9
      /\ at + 1 \in 1 .. Len(Script)
      /\ Fits(prog, Script[at + 1])
      /\ Follows(prog, Script[at], Script[at + 1])
  BY <1>2, Here
<1>4. Script' = Script /\ Kind' = Script[at + 1].is
  BY DEF Script, Kind
<1>5. TypeOK'
  <2>1. conn' \in {"none", "open", "closed"} /\ login' \in BOOLEAN
    BY <1>1 DEF RunTypes, LocalKinds, LoginKinds, LateKinds
  <2>2. at' \in 1 .. 9
    BY <1>3
  <2>3. RunTypes'
    BY <1>1, <2>1, <2>2 DEF RunTypes
  <2>4. QED
    BY <1>1, <2>3, Types
<1>6. at' \in 1 .. Len(Script')
  BY <1>3, <1>4
<1>7. done' = {} /\ failed' = {} /\ trouble' = {} /\ given' = <<>> /\ sent' = NoCall
  BY <1>1 DEF RunInv, WorkInv, avuVars, historyVars, LocalKinds, LoginKinds, LateKinds, ListKinds
<1>8. total' = Unasked /\ printed' = 0 /\ ~more' /\ whole' /\ parents' = <<>> /\ shown' = {}
  BY <1>1 DEF RunInv, RowsInv, NoRows, TreeInv, listVars, LocalKinds, LoginKinds, LateKinds, ListKinds
<1>9. ConnInv'
  <2>1. CASE Kind \in LocalKinds
    <3>1. Kind' \in LocalKinds \cup {"return", "connect"}
      BY <1>3, <1>4, <2>1 DEF Follows, Kind
    <3>2. Kind' \notin LoginKinds \cup LateKinds \cup CallKinds \cup ListKinds
      BY <3>1 DEF LocalKinds, LoginKinds, LateKinds, CallKinds, UtilKinds, ListKinds
    <3>3. conn' = "none" /\ ~login'
      BY <1>1, <2>1 DEF ConnInv, RunInv
    <3>4. QED
      BY <3>2, <3>3 DEF ConnInv
  <2>2. CASE Kind = "connect"
    <3>1. Kind' \in LoginKinds \/ (prog = "imiscsvrinfo" /\ Kind' \in UtilKinds)
      BY <1>3, <1>4, <2>2 DEF Follows, Kind
    <3>2. Kind' \notin LocalKinds \cup {"return", "connect"}
      BY <3>1 DEF LocalKinds, LoginKinds, UtilKinds
    <3>3. Kind' \in LoginKinds => Kind' \notin LateKinds \cup CallKinds \cup ListKinds
      BY DEF LoginKinds, LateKinds, CallKinds, UtilKinds, ListKinds
    <3>4. conn' = "open" /\ ~login'
      BY <1>1, <2>2 DEF ConnInv, RunInv
    <3>5. QED
      BY <3>1, <3>2, <3>3, <3>4 DEF ConnInv, Allowed, LoginKinds, UtilKinds
  <2>3. CASE Kind \in LoginKinds
    BY <1>1, <1>3, <1>4, <2>3 DEF ConnInv, RunInv, Allowed, Follows, Kind, LocalKinds, LoginKinds, LateKinds, CallKinds, UtilKinds, ListKinds
  <2>4. CASE Kind \in LateKinds
    BY <1>1, <1>3, <1>4, <2>4 DEF ConnInv, RunInv, Allowed, Follows, Kind, LocalKinds, LoginKinds, LateKinds, CallKinds, UtilKinds, ListKinds
  <2>5. QED
    BY <2>1, <2>2, <2>3, <2>4
<1>10. WorkInv'
  <2>1. /\ 0 \in 0 .. Len(paths') /\ done' = 1 .. 0
    BY <1>7 DEF PathsInv
  <2>2. QED
    BY <1>7, <2>1 DEF WorkInv
<1>11. RowsInv'
  BY <1>8 DEF RowsInv, NoRows
<1>12. TreeInv'
  BY <1>8, NoHierarchy DEF TreeInv
<1>13. QED
  BY <1>5, <1>6, <1>9, <1>10, <1>11, <1>12 DEF IInv, RunInv

LEMMA PathsKept ==
    ASSUME IInv, prog # "none", exit = Running,
           UNCHANGED <<prog, paths, written>>, prog = "irsync" /\ at' >= 3 => at >= 3
    PROVE  PathsInv'
<1>1. PathsInv
  BY DEF IInv, RunInv
<1>2. SyncInv => SyncInv'
  BY DEF SyncInv, Targets
<1>3. QED
  BY <1>1, <1>2 DEF PathsInv

LEMMA NotSyncSources ==
    ASSUME IInv, prog # "none", exit = Running, at' = at + 1
    PROVE  Kind = "sync sources" \/ (prog = "irsync" /\ at' >= 3 => at >= 3)
<1>1. at \in 1 .. Len(Script) /\ Len(Script) \in 1 .. 9
  BY Here
<1>2. at' >= 3 /\ at # 2 => at >= 3
  BY <1>1
<1>3. prog = "irsync" /\ at = 2 => Kind = "sync sources"
  BY IrsyncOrder
<1>4. QED
  BY <1>2, <1>3

LEMMA PassedOn ==
    ASSUME IInv, prog # "none", exit = Running,
           Kind \in (LocalKinds \ {"sync sources"}) \cup LateKinds, Advance,
           UNCHANGED historyVars, UNCHANGED listVars, UNCHANGED avuVars
    PROVE  IInv' /\ exit' = Running
<1>1. /\ UNCHANGED <<prog, public, written, paths, conn, login, exit>>
      /\ at' = at + 1
  BY DEF Advance
<1>2. PathsInv'
  BY <1>1, PathsKept, NotSyncSources DEF LocalKinds, LateKinds
<1>3. RunTypes
  BY Types DEF IInv
<1>4. \A list \in {written', paths'} :
        /\ Len(list) <= MaxPaths + 1
        /\ \A i \in DOMAIN list : list[i] \in {"request", "path", "local", "remote"}
  BY <1>1, <1>3 DEF RunTypes
<1>5. Kind \notin LoginKinds /\ Kind # "connect"
  BY DEF LocalKinds, LateKinds, LoginKinds
<1>6. IInv'
  BY <1>1, <1>2, <1>4, <1>5, Passed
<1>7. QED
  BY <1>1, <1>6

LEMMA CommonStep ==
    ASSUME IInv, prog # "none", NEW phases, prog \in DOMAIN phases => Script = phases[prog],
           CommonSteps(phases), UNCHANGED listVars, UNCHANGED avuVars
    PROVE  IInv' /\ (exit' # Running => Properties')
<1>1. ASSUME NEW kind, In(phases, kind)
      PROVE  /\ exit = Running /\ Kind = kind /\ Phase(phases) = Script[at]
             /\ kind \in LocalKinds \cup {"return"} => LocalFits(prog, Script[at])
             /\ kind = "connect" => Connects(prog, Script[at])
             /\ kind \in LoginKinds => LoginFits(prog, Script[at])
             /\ kind \in LateKinds => LateFits(prog, Script[at])
  <2>1. exit = Running /\ Kind = kind /\ Phase(phases) = Script[at] /\ Script[at].is = kind
    BY <1>1 DEF In, Kind, Phase
  <2>2. Fits(prog, Script[at])
    BY <2>1, Here
  <2>3. QED
    BY <2>1, <2>2, KindFits
<1>2. Statuses \subseteq Int
  BY PathsAssumption
<1>3. CASE ParseOptions(phases) /\ UNCHANGED historyVars
  <2>1. exit = Running /\ Kind = "options" /\ Phase(phases) = Script[at] /\ LocalFits(prog, Script[at])
    <3>1. In(phases, "options") /\ "options" \in LocalKinds
      BY <1>3 DEF ParseOptions, LocalKinds
    <3>2. QED
      BY <1>1, <3>1, Zenon
  <2>2. Script[at].exit \in Int /\ (prog = "ichmod" => Script[at].exit % 256 # 8)
    BY <2>1 DEF LocalFits, CodeFits, Kind
  <2>3. CASE Advance
    BY <1>3, <2>1, <2>3, PassedOn DEF LocalKinds
  <2>4. CASE End(0)
    BY <1>3, <2>1, <2>4, Refused DEF LocalKinds, historyVars
  <2>5. CASE End(Phase(phases).exit)
    BY <1>3, <2>1, <2>2, <2>5, Refused DEF LocalKinds, historyVars
  <2>6. QED
    BY <1>3, <2>3, <2>4, <2>5 DEF ParseOptions
<1>4. CASE CheckLocally(phases) /\ UNCHANGED historyVars
  <2>1. exit = Running /\ Kind = "check" /\ Phase(phases) = Script[at] /\ LocalFits(prog, Script[at])
    <3>1. In(phases, "check") /\ "check" \in LocalKinds
      BY <1>4 DEF CheckLocally, LocalKinds
    <3>2. QED
      BY <1>1, <3>1, Zenon
  <2>2. Script[at].exit \in Int /\ (prog = "ichmod" => Script[at].exit % 256 # 8)
    BY <2>1 DEF LocalFits, CodeFits, Kind
  <2>3. CASE Advance
    BY <1>4, <2>1, <2>3, PassedOn DEF LocalKinds
  <2>4. CASE End(Phase(phases).exit)
    BY <1>4, <2>1, <2>2, <2>4, Refused DEF LocalKinds, historyVars
  <2>5. QED
    BY <1>4, <2>3, <2>4 DEF CheckLocally
<1>5. CASE ReadEnvironment(phases) /\ UNCHANGED historyVars
  <2>1. exit = Running /\ Kind = "raw environment" /\ LocalFits(prog, Script[at])
    <3>1. In(phases, "raw environment") /\ "raw environment" \in LocalKinds
      BY <1>5 DEF ReadEnvironment, LocalKinds
    <3>2. QED
      BY <1>1, <3>1, Zenon
  <2>2. prog = "iput"
    BY <2>1 DEF LocalFits, Kind
  <2>3. CASE Advance
    BY <1>5, <2>1, <2>3, PassedOn DEF LocalKinds
  <2>4. ASSUME NEW s \in Statuses, End(s)
        PROVE  IInv' /\ Properties'
    BY <1>2, <1>5, <2>1, <2>2, <2>4, Refused DEF LocalKinds, historyVars
  <2>5. QED
    BY <1>5, <2>3, <2>4 DEF ReadEnvironment
<1>6. CASE TakeSources(phases) /\ UNCHANGED historyVars
  <2>1. exit = Running /\ Kind = "sources" /\ Phase(phases) = Script[at] /\ LocalFits(prog, Script[at])
    <3>1. In(phases, "sources") /\ "sources" \in LocalKinds
      BY <1>6 DEF TakeSources, LocalKinds
    <3>2. QED
      BY <1>1, <3>1, Zenon
  <2>2. /\ Script[at].exit \in Int /\ (prog = "ichmod" => Script[at].exit % 256 # 8)
        /\ Script[at].kinds = {"path"} /\ Script[at].least \in Int /\ prog \notin {"irsync", "imeta"}
    BY <2>1 DEF LocalFits, CodeFits, Kind
  <2>3. CASE End(Phase(phases).exit)
    BY <1>6, <2>1, <2>2, <2>3, Refused DEF LocalKinds, historyVars
  <2>4. ASSUME NEW n \in 0 .. MaxPaths, NEW list \in [1 .. n -> {"path"}],
               written' = list, paths' = list, at' = at + 1, UNCHANGED <<prog, public, conn, login, exit>>
        PROVE  IInv' /\ exit' = Running
    <3>1. n \in Nat /\ n <= MaxPaths /\ MaxPaths \in Nat
      BY PathsAssumption
    <3>2. DOMAIN list = 1 .. n /\ Len(list) = n
      BY <3>1
    <3>3. PathsInv'
      BY <2>2, <2>4, <3>1, <3>2 DEF PathsInv
    <3>4. \A l \in {written', paths'} :
            /\ Len(l) <= MaxPaths + 1
            /\ \A i \in DOMAIN l : l[i] \in {"request", "path", "local", "remote"}
      BY <2>4, <3>1, <3>2
    <3>5. Kind \in LocalKinds /\ Kind \notin LateKinds \cup LoginKinds \cup {"connect"}
      BY <2>1 DEF LocalKinds, LateKinds, LoginKinds
    <3>6. IInv'
      BY <1>6, <2>1, <2>4, <3>3, <3>4, <3>5, Passed
    <3>7. QED
      BY <2>1, <2>4, <3>6
  <2>5. QED
    BY <1>6, <2>1, <2>2, <2>3, <2>4 DEF TakeSources
<1>7. CASE OpenConnection(phases) /\ UNCHANGED historyVars
  <2>1. exit = Running /\ Kind = "connect" /\ Phase(phases) = Script[at] /\ Connects(prog, Script[at])
    BY <1>1, <1>7 DEF OpenConnection
  <2>2. Script[at].exit \in Int /\ (prog = "ichmod" => Script[at].exit % 256 # 8)
    BY <2>1 DEF Connects, CodeFits
  <2>3. CASE End(Phase(phases).exit)
    BY <1>7, <2>1, <2>2, <2>3, Refused DEF historyVars
  <2>4. CASE conn' = "open" /\ at' = at + 1 /\ UNCHANGED <<prog, public, written, paths, login, exit>>
    <3>1. PathsInv'
      BY <2>1, <2>4, PathsKept, NotSyncSources
    <3>2. RunTypes
      BY Types DEF IInv
    <3>3. \A l \in {written', paths'} :
            /\ Len(l) <= MaxPaths + 1
            /\ \A i \in DOMAIN l : l[i] \in {"request", "path", "local", "remote"}
      BY <2>4, <3>2 DEF RunTypes
    <3>4. Kind \notin LocalKinds \cup LateKinds \cup LoginKinds
      BY <2>1 DEF LocalKinds, LateKinds, LoginKinds
    <3>5. QED
      BY <1>7, <2>1, <2>4, <3>1, <3>3, <3>4, Passed
  <2>5. QED
    BY <1>7, <2>3, <2>4 DEF OpenConnection
<1>8. CASE LogIn(phases) /\ UNCHANGED historyVars
  <2>1. /\ exit = Running /\ Kind \in LoginKinds
        /\ Phase(phases) = Script[at] /\ LoginFits(prog, Script[at])
    <3>1. In(phases, "login") \/ In(phases, "login unless public")
      BY <1>8 DEF LogIn
    <3>2. "login" \in LoginKinds /\ "login unless public" \in LoginKinds
      BY DEF LoginKinds
    <3>3. QED
      BY <1>1, <3>1, <3>2, Zenon
  <2>2. /\ Script[at].exit \in Int /\ (prog = "ichmod" => Script[at].exit % 256 # 8)
        /\ Untellable(prog, Script[at])
    BY <2>1 DEF LoginFits, CodeFits, LoginKinds
  <2>3. CASE Disconnect(Phase(phases).exit)
    BY <1>8, <2>1, <2>2, <2>3, Refused DEF historyVars
  <2>4. CASE login' = TRUE /\ at' = at + 1 /\ UNCHANGED <<prog, public, written, paths, conn, exit>>
    <3>1. PathsInv'
      BY <2>1, <2>4, PathsKept, NotSyncSources DEF LoginKinds
    <3>2. RunTypes
      BY Types DEF IInv
    <3>3. \A l \in {written', paths'} :
            /\ Len(l) <= MaxPaths + 1
            /\ \A i \in DOMAIN l : l[i] \in {"request", "path", "local", "remote"}
      BY <2>4, <3>2 DEF RunTypes
    <3>4. Kind \notin LocalKinds \cup LateKinds \cup {"connect"}
      BY <2>1 DEF LocalKinds, LateKinds, LoginKinds
    <3>5. QED
      BY <1>8, <2>1, <2>4, <3>1, <3>3, <3>4, Passed
  <2>5. QED
    BY <1>8, <2>3, <2>4 DEF LogIn
<1>9. CASE SkipLogin(phases) /\ UNCHANGED historyVars
  <2>1. exit = Running /\ Kind = "login unless public" /\ LoginFits(prog, Script[at]) /\ public
    <3>1. In(phases, "login unless public") /\ public /\ "login unless public" \in LoginKinds
      BY <1>9 DEF SkipLogin, LoginKinds
    <3>2. QED
      BY <1>1, <3>1, Zenon
  <2>2. /\ prog \in PublicPrograms
        /\ at' = at + 1 /\ UNCHANGED <<prog, public, written, paths, conn, login, exit>>
    BY <1>9, <2>1 DEF LoginFits, SkipLogin, Advance, Kind
  <2>3. PathsInv'
    BY <2>1, <2>2, PathsKept, NotSyncSources
  <2>4. RunTypes
    BY Types DEF IInv
  <2>5. \A l \in {written', paths'} :
          /\ Len(l) <= MaxPaths + 1
          /\ \A i \in DOMAIN l : l[i] \in {"request", "path", "local", "remote"}
    BY <2>2, <2>4 DEF RunTypes
  <2>6. Kind \in LoginKinds /\ Kind \notin LocalKinds \cup LateKinds \cup {"connect"}
    BY <2>1 DEF LocalKinds, LateKinds, LoginKinds
  <2>7. login' \in BOOLEAN
    BY <2>2, <2>4 DEF RunTypes
  <2>8. QED
    BY <1>9, <2>1, <2>2, <2>3, <2>5, <2>6, <2>7, Passed
<1>10. CASE ReturnStatus(phases) /\ UNCHANGED historyVars
  <2>1. exit = Running /\ Kind = "return" /\ Phase(phases) = Script[at] /\ LocalFits(prog, Script[at])
    BY <1>1, <1>10 DEF ReturnStatus
  <2>2. Script[at].exit \in Int /\ (prog = "ichmod" => Script[at].exit % 256 # 8)
    BY <2>1 DEF LocalFits, CodeFits, Kind
  <2>3. QED
    BY <1>10, <2>1, <2>2, Refused DEF ReturnStatus, historyVars
<1>11. CASE CheckLate(phases)
  <2>1. /\ exit = Running /\ Kind \in LateKinds
        /\ Phase(phases) = Script[at] /\ LateFits(prog, Script[at])
    <3>1. In(phases, "late check") \/ In(phases, "left late check")
      BY <1>11 DEF CheckLate
    <3>2. "late check" \in LateKinds /\ "left late check" \in LateKinds
      BY DEF LateKinds
    <3>3. QED
      BY <1>1, <3>1, <3>2, Zenon
  <2>2. /\ Script[at].exit \in Int /\ (prog = "ichmod" => Script[at].exit % 256 # 8)
        /\ Untellable(prog, Script[at]) /\ prog \notin Reliable \cup {"imeta"}
    BY <2>1 DEF LateFits, CodeFits, LateKinds
  <2>3. CASE Advance /\ UNCHANGED trouble
    BY <1>11, <2>1, <2>3, PassedOn DEF CheckLate, historyVars
  <2>4. CASE (End(Phase(phases).exit) \/ Disconnect(Phase(phases).exit)) /\ trouble' = trouble \cup {"refused"}
    BY <1>11, <2>1, <2>2, <2>4, Refused DEF CheckLate
  <2>5. QED
    BY <1>11, <2>3, <2>4 DEF CheckLate
<1>12. QED
  BY <1>3, <1>4, <1>5, <1>6, <1>7, <1>8, <1>9, <1>10, <1>11 DEF CommonSteps

---------------------------------------------------------------------------
(* The start, and the programs of one call *)

LEMMA BeginStep ==
    ASSUME IInv, Begin(Programs), UNCHANGED listVars, UNCHANGED avuVars
    PROVE  IInv' /\ exit' = Running /\ prog' # "none"
<1>1. /\ Idle
      /\ prog' \in Programs /\ public' \in BOOLEAN
      /\ UNCHANGED <<at, written, paths, conn, login, exit, done, failed, trouble>>
  BY DEF IInv, Begin
<1>2. prog' # "none"
  BY <1>1, Disjoint
<1>3. WellOrdered(prog', Script')
  BY <1>1, Scripts DEF Script
<1>4. at' = 1 /\ at' \in 1 .. Len(Script') /\ Kind' \in LocalKinds
  BY <1>1, <1>3 DEF WellOrdered, Idle, Kind
<1>5. Kind' \notin LoginKinds \cup LateKinds \cup CallKinds \cup ListKinds
  BY <1>4 DEF LocalKinds, LoginKinds, LateKinds, CallKinds, UtilKinds, ListKinds
<1>6. /\ done' = {} /\ failed' = {} /\ trouble' = {} /\ given' = <<>> /\ sent' = NoCall
      /\ conn' = "none" /\ ~login' /\ paths' = <<"request">>
  BY <1>1 DEF Idle, avuVars
<1>7. total' = Unasked /\ printed' = 0 /\ ~more' /\ whole' /\ parents' = <<>> /\ shown' = {}
  BY <1>1 DEF Idle, listVars
<1>8. TypeOK'
  <2>1. RunTypes /\ WorkTypes /\ RowTypes /\ AvuTypes
    BY Types DEF IInv
  <2>2. RunTypes'
    BY <1>1, <2>1 DEF RunTypes
  <2>3. WorkTypes'
    BY <1>1, <2>1 DEF WorkTypes
  <2>4. QED
    BY <2>1, <2>2, <2>3, Types
<1>9. ConnInv'
  BY <1>5, <1>6 DEF ConnInv
<1>10. WorkInv'
  BY <1>5, <1>6 DEF WorkInv, CallKinds
<1>11. RowsInv'
  BY <1>7 DEF RowsInv, NoRows
<1>12. TreeInv'
  BY <1>5, <1>7 DEF TreeInv, ListKinds
<1>13. PathsInv'
  <2>1. Len(<<"request">>) = 1 /\ DOMAIN <<"request">> = 1 .. 1
    OBVIOUS
  <2>2. 1 <= MaxPaths
    BY PathsAssumption
  <2>3. QED
    BY <1>4, <1>6, <2>1, <2>2 DEF PathsInv
<1>14. QED
  BY <1>1, <1>2, <1>4, <1>8, <1>9, <1>10, <1>11, <1>12, <1>13 DEF IInv, RunInv, Idle

LEMMA TargetsRange ==
    ASSUME IInv, prog # "none", exit = Running
    PROVE  Targets \subseteq 1 .. MaxPaths
<1>1. /\ Len(paths) \in Nat /\ DOMAIN paths = 1 .. Len(paths)
      /\ prog # "irsync" => Len(paths) <= MaxPaths
  BY DEF IInv, RunInv, PathsInv
<1>2. Len(paths) <= MaxPaths + 1
  BY Types DEF IInv, RunTypes
<1>3. MaxPaths \in Nat
  BY PathsAssumption
<1>4. CASE prog = "irsync"
  <2>1. Targets = 1 .. Len(paths) - 1
    BY <1>4 DEF Targets
  <2>2. QED
    BY <1>1, <1>2, <1>3, <2>1
<1>5. CASE prog # "irsync"
  <2>1. Targets = 1 .. Len(paths)
    BY <1>1, <1>5 DEF Targets
  <2>2. QED
    BY <1>1, <1>3, <1>5, <2>1
<1>6. QED
  BY <1>4, <1>5

\* The properties that are about listings, for a program of another kind.
LEMMA NoListing ==
    ASSUME prog' \in DOMAIN OneCallPhases \cup {"imeta"}
    PROVE  ListingTells' /\ ListsAll'
  BY Disjoint, Zenon DEF ListingTells, ListsAll, RowsAll, TreeWhole, Reliable

LEMMA SyncKept ==
    ASSUME IInv, prog # "none", exit = Running, conn # "none", UNCHANGED <<prog, paths, written>>
    PROVE  SyncAsWritten'
<1>1. prog = "irsync" => SyncInv
  BY RunningSync
<1>2. QED
  BY <1>1 DEF SyncAsWritten, SyncInv, Targets

\* The status tells a failure.
Told(s) ==
    /\ failed' = {} => s = 0
    /\ failed' # {} => /\ prog \notin Untold => s % 256 # 0
                       /\ prog \in Strict => s % 256 \notin {1, 2} /\ (s % 256 = 7 => prog = "iphymv")

\* The end of the one call of a program.
LEMMA Called ==
    ASSUME IInv, prog \in DOMAIN OneCallPhases, exit = Running, Kind \in UtilKinds, Carry,
           NEW s \in Int, End(s) \/ Disconnect(s), UNCHANGED listVars, UNCHANGED avuVars, Told(s)
    PROVE  IInv' /\ Properties'
<1>1. RunTypes /\ WorkTypes /\ RowTypes /\ AvuTypes /\ RunInv
  BY Types, Disjoint DEF IInv, Programs
<1>2. prog # "none" /\ prog \in Programs
  BY Disjoint DEF Programs
<1>3. /\ exit' = s % 256 /\ exit' \in 0 .. 255 /\ exit' # Running
      /\ UNCHANGED <<prog, at, public, written, paths, login>>
      /\ conn' \in {conn, "closed"}
  BY <1>1, EndStep
<1>4. done' \subseteq Targets /\ failed' \subseteq Targets /\ Targets \ done' \subseteq failed' /\ trouble' = trouble
  BY DEF Carry
<1>5. CallFits(prog, Script[at])
  BY <1>2, Here, KindFits DEF Kind, CallKinds
<1>6. prog \notin {"ichmod", "imeta"}
  BY <1>5 DEF CallFits, Kind
<1>7. Kind \in CallKinds /\ Kind \notin ListKinds \cup {"each path"}
  BY DEF CallKinds, UtilKinds, ListKinds
<1>8. conn = "open" /\ Allowed /\ trouble = {} /\ sent = NoCall
  BY <1>1, <1>7 DEF RunInv, ConnInv, WorkInv
<1>9. IInv'
  <2>1. done' \subseteq 1 .. MaxPaths /\ failed' \subseteq 1 .. MaxPaths
    BY <1>2, <1>4, TargetsRange
  <2>2. WorkTypes'
    BY <1>1, <1>4, <2>1 DEF WorkTypes
  <2>3. RowTypes' /\ AvuTypes'
    BY <1>1, Types
  <2>4. QED
    BY <1>2, <2>2, <2>3, EndInv
<1>10. RequestTells'
  <2>1. ASSUME exit' = 0, prog \notin Untold
        PROVE  done' = Targets /\ failed' = {}
    BY <1>3, <1>4, <2>1 DEF Told
  <2>2. Targets' = Targets
    BY <1>3 DEF Targets
  <2>3. QED
    BY <1>3, <2>1, <2>2 DEF RequestTells
<1>11. RefusalsDoNothing'
  <2>1. ASSUME prog \in Strict, exit' \in {1, 2} \/ (exit' = 7 /\ prog # "iphymv")
        PROVE  FALSE
    BY <1>3, <2>1 DEF Told
  <2>2. QED
    BY <1>3, <2>1 DEF RefusalsDoNothing, Strict
<1>12. ChangedUpToFailure'
  BY <1>3, <1>6 DEF ChangedUpToFailure
<1>13. OnlyWithLogin'
  BY <1>3, <1>8 DEF OnlyWithLogin, Allowed
<1>14. FailureHasCause'
  <2>1. exit' # 0 => failed' # {}
    BY <1>3 DEF Told
  <2>2. QED
    BY <2>1 DEF FailureHasCause
<1>15. ModMeansArguments'
  BY <1>8 DEF ModMeansArguments, avuVars
<1>16. SyncAsWritten'
  BY <1>2, <1>3, <1>8, SyncKept
<1>17. ListingTells' /\ ListsAll'
  BY <1>3, NoListing
<1>18. QED
  BY <1>9, <1>10, <1>11, <1>12, <1>13, <1>14, <1>15, <1>16, <1>17 DEF Properties, SuccessTells

\* The steps of ichmod: what was done is the list so far.
LEMMA NextPathStep ==
    ASSUME IInv, NextPath, UNCHANGED listVars, UNCHANGED avuVars
    PROVE  IInv' /\ (exit' # Running => Properties')
<1>1. /\ exit = Running /\ prog \in DOMAIN OneCallPhases
      /\ OneCallPhases[prog][at].is = "each path"
      /\ trouble' = trouble
  BY DEF NextPath, In
<1>2. prog # "none" /\ prog \in Programs /\ Script = OneCallPhases[prog]
  BY <1>1, Disjoint, Scripts DEF Programs, Script
<1>3. RunTypes /\ WorkTypes /\ RowTypes /\ AvuTypes /\ RunInv
  BY <1>1, <1>2, Types DEF IInv
<1>4. Kind = "each path" /\ Phase(OneCallPhases) = Script[at]
  BY <1>1, <1>2 DEF Kind, Phase
<1>5. CallFits(prog, Script[at])
  BY <1>1, <1>2, <1>4, Here, KindFits DEF Kind, CallKinds
<1>6. prog = "ichmod" /\ Script[at].exit = 8
  BY <1>4, <1>5 DEF CallFits, Kind
<1>7. /\ Len(paths) \in Nat /\ DOMAIN paths = 1 .. Len(paths) /\ Len(paths) <= MaxPaths /\ MaxPaths \in Nat
  BY <1>3, <1>6, PathsAssumption DEF RunInv, PathsInv
<1>8. PICK n \in 0 .. Len(paths) :
        /\ done = 1 .. n
        /\ failed = {} \/ \E f \in {n, n + 1} \cap (1 .. Len(paths)) : failed = {f}
  BY <1>3, <1>4 DEF RunInv, WorkInv
<1>9. n \in Nat /\ n <= Len(paths) /\ Cardinality(done) = n
  <2>1. n \in Nat /\ n <= Len(paths)
    BY <1>7
  <2>2. Cardinality(1 .. n) = n
    BY <2>1, FS_Interval
  <2>3. QED
    BY <1>8, <2>1, <2>2
<1>10. Kind \in CallKinds /\ Kind \notin ListKinds
  BY <1>4 DEF CallKinds, UtilKinds, ListKinds
<1>11. conn = "open" /\ Allowed /\ trouble = {} /\ sent = NoCall
  BY <1>3, <1>10 DEF RunInv, ConnInv, WorkInv
<1>12. CASE failed = {} /\ Cardinality(done) < Len(paths)
  <2>1. /\ \/ done' = done \cup {n + 1} /\ UNCHANGED failed
           \/ failed' = {n + 1} /\ UNCHANGED done
           \/ done' = done \cup {n + 1} /\ failed' = {n + 1}
        /\ UNCHANGED runVars
    BY <1>9, <1>12 DEF NextPath
  <2>2. n + 1 \in 1 .. Len(paths) /\ 1 .. n \cup {n + 1} = 1 .. (n + 1)
    BY <1>7, <1>9, <1>12
  <2>3. UNCHANGED <<prog, at, public, written, paths, conn, login, exit>>
    BY <2>1 DEF runVars
  <2>4. Kind' = Kind /\ Script' = Script
    BY <2>3 DEF Kind, Script
  <2>5. RunTypes'
    BY <1>3, <2>3 DEF RunTypes
  <2>6. done' \subseteq 1 .. Len(paths) /\ failed' \subseteq 1 .. Len(paths)
    <3>1. done' = done \/ done' = done \cup {n + 1}
      BY <2>1
    <3>2. 1 .. n \subseteq 1 .. Len(paths) /\ {n + 1} \subseteq 1 .. Len(paths)
      BY <1>7, <1>9, <2>2
    <3>3. failed' = {} \/ failed' = {n + 1}
      BY <1>12, <2>1
    <3>4. done' \subseteq 1 .. Len(paths)
      BY <1>8, <3>1, <3>2
    <3>5. failed' \subseteq 1 .. Len(paths)
      BY <3>2, <3>3
    <3>6. QED
      BY <3>4, <3>5
  <2>7. WorkTypes'
    <3>1. 1 .. Len(paths) \subseteq 1 .. MaxPaths
      BY <1>7
    <3>2. done' \subseteq 1 .. MaxPaths /\ failed' \subseteq 1 .. MaxPaths
      BY <2>6, <3>1, Zenon
    <3>3. QED
      BY <1>1, <1>3, <3>2, Zenon DEF WorkTypes
  <2>8. TypeOK'
    BY <1>3, <2>5, <2>7, Types
  <2>9. WorkInv'
    <3>1. CASE done' = done \cup {n + 1}
      <4>1. done' = 1 .. (n + 1) /\ failed' \in {{}, {n + 1}} /\ n + 1 \in 0 .. Len(paths')
        BY <1>8, <1>9, <1>12, <2>1, <2>2, <2>3, <3>1
      <4>2. n + 1 \in {n + 1, (n + 1) + 1} \cap (1 .. Len(paths'))
        BY <1>9, <2>2, <2>3
      <4>3. \E m \in 0 .. Len(paths') :
              /\ done' = 1 .. m
              /\ failed' = {} \/ \E f \in {m, m + 1} \cap (1 .. Len(paths')) : failed' = {f}
        BY <4>1, <4>2, Zenon
      <4>4. QED
        BY <1>1, <1>3, <1>4, <1>10, <2>4, <4>3 DEF WorkInv, RunInv, avuVars
    <3>2. CASE failed' = {n + 1} /\ UNCHANGED done
      <4>1. done' = 1 .. n /\ n \in 0 .. Len(paths')
        BY <1>8, <2>3, <3>2
      <4>2. n + 1 \in {n, n + 1} \cap (1 .. Len(paths'))
        BY <1>9, <2>2, <2>3
      <4>3. \E m \in 0 .. Len(paths') :
              /\ done' = 1 .. m
              /\ failed' = {} \/ \E f \in {m, m + 1} \cap (1 .. Len(paths')) : failed' = {f}
        BY <3>2, <4>1, <4>2, Zenon
      <4>4. QED
        BY <1>1, <1>3, <1>4, <1>10, <2>4, <4>3 DEF WorkInv, RunInv, avuVars
    <3>3. QED
      BY <2>1, <3>1, <3>2
  <2>10. ConnInv'
    BY <1>3, <2>3, <2>4 DEF RunInv, ConnInv, Allowed
  <2>11. RowsInv'
    BY <1>3, <2>3, <2>4 DEF RunInv, RowsInv, NoRows, SomeRows, listVars
  <2>12. TreeInv'
    <3>1. prog' # "ilsresc" /\ parents' = <<>>
      BY <1>3, <1>6, <2>3 DEF RunInv, TreeInv, listVars
    <3>2. QED
      BY <3>1 DEF TreeInv
  <2>13. PathsInv'
    BY <1>1, <1>2, <2>3, PathsKept
  <2>14. QED
    BY <1>1, <1>2, <2>3, <2>4, <2>8, <2>9, <2>10, <2>11, <2>12, <2>13 DEF IInv, RunInv
<1>13. CASE ~(failed = {} /\ Cardinality(done) < Len(paths))
  <2> DEFINE s == IF failed # {} THEN 8 ELSE 0
  <2>1. Disconnect(s) /\ UNCHANGED <<done, failed>>
    BY <1>4, <1>6, <1>13 DEF NextPath
  <2>2. s \in Int /\ (s % 256 = IF failed # {} THEN 8 ELSE 0)
    OBVIOUS
  <2> HIDE DEF s
  <2>3. /\ exit' = s % 256 /\ exit' \in 0 .. 255 /\ exit' # Running
        /\ UNCHANGED <<prog, at, public, written, paths, login>>
        /\ conn' \in {conn, "closed"}
    BY <1>3, <2>1, <2>2, EndStep
  <2>4. IInv'
    <3>1. WorkTypes' /\ RowTypes' /\ AvuTypes'
      BY <1>1, <1>3, <2>1, Types DEF historyVars
    <3>2. QED
      BY <1>2, <2>1, <2>2, <3>1, EndInv
  <2>5. exit' = IF failed # {} THEN 8 ELSE 0
    BY <2>2, <2>3
  <2>6. RequestTells'
    <3>1. ASSUME exit' = 0
          PROVE  failed = {} /\ n = Len(paths)
      <4>1. failed = {}
        BY <2>5, <3>1
      <4>2. ~(n < Len(paths))
        BY <1>9, <1>13, <4>1
      <4>3. \A a, b \in Nat : a <= b /\ ~(a < b) => a = b
        OBVIOUS
      <4>4. Len(paths) \in Nat
        BY <1>7
      <4>5. n = Len(paths)
        BY <1>9, <4>2, <4>3, <4>4, Zenon
      <4>6. QED
        BY <4>1, <4>5
    <3>2. Targets' = 1 .. Len(paths)
      BY <1>6, <1>7, <2>3 DEF Targets
    <3>3. QED
      BY <1>8, <2>1, <3>1, <3>2 DEF RequestTells
  <2>7. RefusalsDoNothing'
    BY <2>5 DEF RefusalsDoNothing
  <2>8. ChangedUpToFailure'
    <3>1. \A i \in 1 .. n : 1 .. i \subseteq 1 .. n
      BY <1>9
    <3>2. \A f \in failed : 1 .. n \subseteq 1 .. f
      BY <1>8, <1>9
    <3>3. QED
      BY <1>8, <2>1, <2>5, <3>1, <3>2 DEF ChangedUpToFailure
  <2>9. OnlyWithLogin'
    BY <1>11, <2>3 DEF OnlyWithLogin, Allowed
  <2>10. FailureHasCause'
    BY <2>1, <2>5 DEF FailureHasCause
  <2>11. ModMeansArguments'
    BY <1>11 DEF ModMeansArguments, avuVars
  <2>12. SyncAsWritten'
    BY <1>1, <1>2, <1>11, <2>3, SyncKept
  <2>13. ListingTells' /\ ListsAll'
    BY <1>1, <2>3, NoListing
  <2>14. QED
    BY <2>4, <2>6, <2>7, <2>8, <2>9, <2>10, <2>11, <2>12, <2>13 DEF Properties, SuccessTells
<1>14. QED
  BY <1>12, <1>13

\* irsync has taken the prefixes off.
LEMMA SyncStep ==
    ASSUME IInv, TakeSyncSources, UNCHANGED listVars, UNCHANGED avuVars
    PROVE  IInv' /\ (exit' # Running => Properties')
<1>1. /\ exit = Running /\ prog \in DOMAIN OneCallPhases
      /\ OneCallPhases[prog][at].is = "sync sources"
      /\ UNCHANGED historyVars
  BY DEF TakeSyncSources, In
<1>2. prog # "none" /\ Kind = "sync sources"
  BY <1>1, Disjoint, Scripts DEF Programs, Script, Kind
<1>3. prog = "irsync"
  <2>1. Fits(prog, Script[at]) /\ Script[at].is = "sync sources"
    BY <1>1, <1>2, Here DEF Kind
  <2>2. LocalFits(prog, Script[at])
    BY <2>1, KindFits DEF LocalKinds
  <2>3. QED
    BY <2>1, <2>2 DEF LocalFits
<1>4. CASE End(1)
  <2>1. UNCHANGED <<done, failed>> /\ UNCHANGED trouble /\ Kind \in LocalKinds \cup {"return", "connect"}
    BY <1>1, <1>2 DEF LocalKinds, historyVars
  <2>2. 1 \in Int /\ prog # "ichmod"
    BY <1>3
  <2>3. QED
    BY <1>1, <1>2, <1>4, <2>1, <2>2, Refused, Zenon
<1>5. ASSUME NEW n \in 2 .. MaxPaths + 1, NEW list \in [1 .. n -> {"local", "remote"}],
             ~(SourceType(list) = "local" /\ list[n] = "local"),
             written' = list,
             paths' = [i \in 1 .. n |-> IF i < n THEN SourceType(list) ELSE list[n]],
             at' = at + 1, UNCHANGED <<prog, public, conn, login, exit>>
      PROVE  IInv' /\ exit' = Running
  <2>1. n \in Nat /\ n >= 2 /\ n <= MaxPaths + 1 /\ MaxPaths \in Nat /\ 1 \in 1 .. n /\ n \in 1 .. n
    BY PathsAssumption
  <2>2. /\ DOMAIN list = 1 .. n /\ Len(list) = n
        /\ DOMAIN paths' = 1 .. n /\ Len(paths') = n
    BY <1>5, <2>1
  <2>3. \A i \in 1 .. n : paths'[i] = IF i < n THEN list[1] ELSE list[n]
    BY <1>5 DEF SourceType
  <2>4. /\ \A i \in 1 .. n : list[i] \in {"local", "remote"}
        /\ list[1] = "remote" \/ list[n] = "remote"
    BY <1>5, <2>1 DEF SourceType
  <2>5. \E i \in DOMAIN paths' : paths'[i] = "remote"
    BY <2>1, <2>2, <2>3, <2>4
  <2>6. ASSUME \A i, j \in 1 .. n - 1 : list[i] = list[j]
        PROVE  paths' = list
    <3>1. \A i \in 1 .. n : paths'[i] = list[i]
      BY <2>1, <2>3, <2>6
    <3>2. QED
      BY <1>5, <2>2, <3>1
  <2>7. SyncInv'
    <3>1. Targets' = 1 .. n - 1
      BY <1>3, <1>5, <2>2 DEF Targets
    <3>2. QED
      BY <1>5, <2>5, <2>6, <3>1 DEF SyncInv
  <2>8. PathsInv'
    BY <1>3, <1>5, <2>1, <2>2, <2>7 DEF PathsInv
  <2>9. \A l \in {written', paths'} :
          /\ Len(l) <= MaxPaths + 1
          /\ \A i \in DOMAIN l : l[i] \in {"request", "path", "local", "remote"}
    BY <1>5, <2>1, <2>2, <2>3, <2>4
  <2>10. Kind \in LocalKinds /\ Kind \notin LateKinds \cup LoginKinds \cup {"connect"}
    BY <1>2 DEF LocalKinds, LateKinds, LoginKinds
  <2>11. IInv'
    BY <1>1, <1>2, <1>5, <2>8, <2>9, <2>10, Passed
  <2>12. QED
    BY <1>1, <1>5, <2>11
<1>6. QED
  BY <1>4, <1>5 DEF TakeSyncSources

\* The calls of the library.
LEMMA CallStep ==
    ASSUME IInv, CallUtil \/ CallUtilRaw \/ CallUtilByCause \/ CallUtilLeft,
           UNCHANGED listVars, UNCHANGED avuVars
    PROVE  IInv' /\ (exit' # Running => Properties')
<1>1. ASSUME NEW kind \in UtilKinds, In(OneCallPhases, kind)
      PROVE  /\ exit = Running /\ prog \in DOMAIN OneCallPhases /\ Kind = kind
             /\ Phase(OneCallPhases) = Script[at] /\ CallFits(prog, Script[at])
  <2>1. exit = Running /\ prog \in DOMAIN OneCallPhases /\ OneCallPhases[prog][at].is = kind
    BY <1>1 DEF In
  <2>2. prog # "none" /\ Script = OneCallPhases[prog]
    BY <2>1, Disjoint, Scripts DEF Programs, Script
  <2>3. Kind = kind /\ Phase(OneCallPhases) = Script[at]
    BY <2>1, <2>2 DEF Kind, Phase
  <2>4. QED
    BY <2>1, <2>2, <2>3, Here, KindFits DEF Kind, CallKinds
<1>2. /\ "util" \in UtilKinds /\ "raw util" \in UtilKinds
      /\ "util by cause" \in UtilKinds /\ "left util" \in UtilKinds
  BY DEF UtilKinds
<1>3. CASE CallUtil \/ CallUtilLeft
  <2> DEFINE code == Script[at].exit
             s == IF failed' # {} THEN code ELSE 0
  <2>1. /\ In(OneCallPhases, "util") \/ In(OneCallPhases, "left util")
        /\ Carry
        /\ End(IF failed' # {} THEN Phase(OneCallPhases).exit ELSE 0)
             \/ Disconnect(IF failed' # {} THEN Phase(OneCallPhases).exit ELSE 0)
    BY <1>3 DEF CallUtil, CallUtilLeft
  <2>2. /\ exit = Running /\ prog \in DOMAIN OneCallPhases /\ Kind \in UtilKinds
        /\ Kind \in {"util", "left util"}
        /\ Phase(OneCallPhases) = Script[at] /\ CallFits(prog, Script[at])
    BY <1>1, <1>2, <2>1
  <2>3. /\ code \in Int
        /\ prog \notin Untold => code % 256 # 0
        /\ prog \in Strict => code % 256 \notin {1, 2, 7}
    BY <2>2 DEF CallFits, CodeFits, Untellable, Kind
  <2>4. End(s) \/ Disconnect(s)
    BY <2>1, <2>2
  <2>5. /\ s \in Int
        /\ failed' = {} => s = 0
        /\ failed' # {} => s = code
    BY <2>3
  <2> HIDE DEF s, code
  <2>6. Told(s)
    BY <2>3, <2>5 DEF Told
  <2>7. s \in Int
    BY <2>5
  <2>8. QED
    BY <2>1, <2>2, <2>4, <2>6, <2>7, Called, Zenon
<1>4. CASE CallUtilRaw
  <2>1. In(OneCallPhases, "raw util") /\ Carry
    BY <1>4 DEF CallUtilRaw
  <2>2. /\ exit = Running /\ prog \in DOMAIN OneCallPhases /\ Kind \in UtilKinds /\ Kind = "raw util"
        /\ CallFits(prog, Script[at])
    BY <1>1, <1>2, <2>1
  <2>3. prog \in Untold \ Strict
    BY <2>2 DEF CallFits, Untold, Strict, Kind
  <2>4. ASSUME NEW s \in Int, Disconnect(s), failed' = {} => s = 0
        PROVE  IInv' /\ Properties'
    <3>1. Told(s)
      BY <2>3, <2>4 DEF Told
    <3>2. QED
      BY <2>1, <2>2, <2>4, <3>1, Called, Zenon
  <2>5. CASE failed' = {}
    <3>1. Disconnect(0)
      BY <1>4, <2>5, Zenon DEF CallUtilRaw
    <3>2. 0 \in Int /\ (failed' = {} => 0 = 0)
      OBVIOUS
    <3>3. QED
      BY <2>4, <3>1, <3>2
  <2>6. CASE failed' # {}
    <3>1. PICK s \in Statuses : Disconnect(s)
      BY <1>4, <2>6 DEF CallUtilRaw
    <3>2. s \in Int
      BY PathsAssumption
    <3>3. QED
      BY <2>4, <2>6, <3>1, <3>2, Zenon
  <2>7. QED
    BY <2>5, <2>6
<1>5. CASE CallUtilByCause
  <2>1. In(OneCallPhases, "util by cause") /\ Carry
    BY <1>5 DEF CallUtilByCause
  <2>2. /\ exit = Running /\ prog \in DOMAIN OneCallPhases /\ Kind \in UtilKinds /\ Kind = "util by cause"
        /\ Phase(OneCallPhases) = Script[at] /\ CallFits(prog, Script[at])
    BY <1>1, <1>2, <2>1
  <2>3. prog = "iphymv" /\ Phase(OneCallPhases).exits = {3, 4, 5, 6, 7}
    BY <2>2 DEF CallFits, Kind
  <2>4. \E s \in {0, 3, 4, 5, 6, 7} :
          Disconnect(s) /\ (failed' = {} => s = 0) /\ (failed' # {} => s \in {3, 4, 5, 6, 7})
    BY <1>5, <2>3 DEF CallUtilByCause
  <2>5. PICK s \in {0, 3, 4, 5, 6, 7} :
          Disconnect(s) /\ (failed' = {} => s = 0) /\ (failed' # {} => s \in {3, 4, 5, 6, 7})
    BY <2>4
  <2>6. /\ s \in Int
        /\ s \in {3, 4, 5, 6, 7} => s % 256 \notin {0, 1, 2}
    OBVIOUS
  <2>7. Told(s)
    BY <2>3, <2>5, <2>6 DEF Told
  <2>8. QED
    BY <2>1, <2>2, <2>5, <2>6, <2>7, Called, Zenon
<1>6. QED
  BY <1>3, <1>4, <1>5

LEMMA OneCallStep ==
    ASSUME IInv, prog # "none", RunOneCall
    PROVE  IInv' /\ (exit' # Running => Properties')
<1>1. UNCHANGED listVars /\ UNCHANGED avuVars
  BY DEF RunOneCall
<1>2. CASE CommonSteps(OneCallPhases)
  <2>1. prog \in DOMAIN OneCallPhases => Script = OneCallPhases[prog]
    BY Scripts DEF Script
  <2>2. QED
    BY <1>1, <1>2, <2>1, CommonStep
<1>3. CASE TakeSyncSources
  BY <1>1, <1>3, SyncStep
<1>4. CASE CallUtil \/ CallUtilRaw \/ CallUtilByCause \/ CallUtilLeft
  BY <1>1, <1>4, CallStep
<1>5. CASE NextPath
  BY <1>1, <1>5, NextPathStep
<1>6. QED
  BY <1>2, <1>3, <1>4, <1>5 DEF RunOneCall, OneCallSteps

---------------------------------------------------------------------------
(* The pages of a query *)

LEMMA MinTwo ==
    ASSUME NEW a \in Int, NEW b \in Int
    PROVE  Min({a, b}) = IF a <= b THEN a ELSE b
<1> DEFINE m == IF a <= b THEN a ELSE b
<1>1. m \in {a, b} /\ \A y \in {a, b} : m <= y
  OBVIOUS
<1>2. \A x \in {a, b} : (\A y \in {a, b} : x <= y) => x = m
  OBVIOUS
<1>3. QED
  BY <1>1, <1>2 DEF Min

\* How many rows the next page has.
LEMMA NextRows ==
    ASSUME SomeRows
    PROVE  /\ PageSize \in Nat /\ PageSize >= 1 /\ total \in Nat /\ total >= 1
           /\ printed \in Nat /\ printed <= total
           /\ Cardinality(Rows) = IF PageSize <= total - printed THEN PageSize ELSE total - printed
           /\ Rows = {} <=> printed = total
<1>1. /\ PageSize \in Nat /\ PageSize >= 1 /\ MaxRows \in Nat
  BY RowsAssumption
<1>2. /\ total \in Nat /\ total >= 1 /\ printed \in Nat /\ printed <= total
  BY <1>1 DEF SomeRows
<1> DEFINE m == IF PageSize <= total - printed THEN PageSize ELSE total - printed
<1>3. Rows = 1 .. m
  BY <1>1, <1>2, MinTwo DEF Rows
<1>4. m \in Nat /\ (m = 0 <=> printed = total)
  BY <1>1, <1>2
<1> HIDE DEF m
<1>5. Cardinality(1 .. m) = m
  BY <1>4, FS_Interval
<1>6. 1 .. m = {} <=> m = 0
  BY <1>4
<1>7. QED
  BY <1>1, <1>2, <1>3, <1>4, <1>5, <1>6 DEF m

LEMMA PageTaken ==
    ASSUME SomeRows, RowTypes, Rows # {}, TakePage
    PROVE  /\ SomeRows' /\ printed' > 0 /\ total' = total /\ more' \in BOOLEAN
           /\ printed' \in 1 .. total /\ printed' \in 0 .. MaxRows
           /\ printed = 0 /\ total <= PageSize => printed' = total
<1> DEFINE c == Cardinality(Rows)
<1>1. /\ PageSize \in Nat /\ PageSize >= 1 /\ total \in Nat /\ total >= 1
      /\ printed \in Nat /\ printed < total
      /\ c = IF PageSize <= total - printed THEN PageSize ELSE total - printed
  BY NextRows
<1>2. printed' = printed + c /\ total' = total
  BY DEF TakePage
<1>3. more' = (c = PageSize)
  BY DEF TakePage
<1>4. more' \in BOOLEAN /\ (more' <=> c = PageSize)
  BY <1>3, Zenon
<1>5. total \in 1 .. MaxRows /\ MaxRows \in Nat
  BY RowsAssumption DEF SomeRows
<1> HIDE DEF c
<1>6. /\ printed' \in 1 .. total /\ printed' > 0 /\ printed' # 0
      /\ printed' \in 0 .. MaxRows /\ printed' \in 0 .. total
      /\ c # PageSize => printed' = total
      /\ printed = 0 /\ total <= PageSize => printed' = total
  BY <1>1, <1>2, <1>5
<1>7. SomeRows'
  BY <1>2, <1>4, <1>5, <1>6, Zenon DEF SomeRows
<1>8. QED
  BY <1>2, <1>4, <1>6, <1>7

LEMMA NoSign == \A x \in Int : x <= 0 /\ x >= 0 => -x = x
  OBVIOUS

\* Names become ids, and ids stay what they are.
LEMMA ConvertedKeeps ==
    ASSUME NEW n \in Nat, NEW f \in [1 .. n -> 0 .. n], parents \in [1 .. n -> -n .. n],
           \A r \in 1 .. n : parents[r] \in {f[r], -f[r]}, NEW known \in 0 .. n
    PROVE  /\ Converted(known) \in [1 .. n -> -n .. n]
           /\ \A r \in 1 .. n : Converted(known)[r] \in {f[r], -f[r]}
           /\ parents = f => Converted(known) = f
           /\ (\A r \in 1 .. n : parents[r] = -f[r]) /\ known = n => Converted(known) = f
<1> DEFINE named == \A r \in 1 .. known : parents[r] # 0 => -parents[r] \in 1 .. known
           g == [r \in 1 .. n |-> IF r <= known THEN -parents[r] ELSE parents[r]]
<1>1. DOMAIN parents = 1 .. n
  OBVIOUS
<1>2. Converted(known) = IF named THEN g ELSE parents
  BY <1>1 DEF Converted
<1>3. \A r \in 1 .. n : f[r] \in 0 .. n /\ parents[r] \in -n .. n
  OBVIOUS
<1>4. ASSUME NEW r \in 1 .. n
      PROVE  -parents[r] \in -n .. n /\ -parents[r] \in {f[r], -f[r]}
  <2> DEFINE x == parents[r]
             y == f[r]
  <2>1. x \in -n .. n /\ y \in 0 .. n /\ x \in {y, -y}
    BY <1>3
  <2> HIDE DEF x, y
  <2>2. -x \in -n .. n /\ -x \in {y, -y}
    BY <2>1
  <2>3. QED
    BY <2>2 DEF x, y
<1>5. \A r \in 1 .. n : g[r] \in -n .. n /\ g[r] \in {f[r], -f[r]}
  BY <1>3, <1>4
<1>6. g \in [1 .. n -> -n .. n]
  BY <1>5
<1>7. ASSUME parents = f, named
      PROVE  g = f
  <2>1. ASSUME NEW r \in 1 .. n
        PROVE  g[r] = f[r]
    <3>1. CASE r <= known
      <4>1. r \in 1 .. known /\ f[r] \in 0 .. n
        BY <1>3, <3>1
      <4>2. f[r] # 0 => -f[r] \in 1 .. known
        BY <1>7, <4>1
      <4>3. f[r] = 0
        BY <4>1, <4>2
      <4>4. g[r] = -parents[r] /\ parents[r] = 0
        BY <1>7, <3>1, <4>3
      <4>5. parents[r] \in Int /\ parents[r] <= 0 /\ parents[r] >= 0
        BY <4>4
      <4>6. g[r] = 0
        BY <4>4, <4>5, NoSign, Zenon
      <4>7. QED
        BY <4>3, <4>6, Zenon
    <3>2. CASE ~(r <= known)
      BY <1>7, <3>2
    <3>3. QED
      BY <3>1, <3>2
  <2>2. QED
    BY <2>1
<1>8. ASSUME \A r \in 1 .. n : parents[r] = -f[r], known = n
      PROVE  named /\ g = f
  <2>1. named
    <3>1. ASSUME NEW r \in 1 .. n, parents[r] # 0
          PROVE  -parents[r] \in 1 .. n
      <4>1. f[r] \in 0 .. n /\ parents[r] = -f[r]
        BY <1>3, <1>8
      <4>2. QED
        BY <3>1, <4>1
    <3>2. QED
      BY <1>8, <3>1
  <2>2. ASSUME NEW r \in 1 .. n
        PROVE  g[r] = f[r]
    <3>1. f[r] \in 0 .. n /\ parents[r] = -f[r] /\ r <= known
      BY <1>3, <1>8
    <3>2. QED
      BY <3>1
  <2>3. QED
    BY <2>1, <2>2
<1> HIDE DEF named, g
<1>9. QED
  BY <1>2, <1>3, <1>5, <1>6, <1>7, <1>8

LEMMA HierarchyTaken ==
    ASSUME prog = "ilsresc", SomeRows, RowTypes, Rows # {}, TakePage,
           Hierarchy(printed = 0), total = Len(parents)
    PROVE  Hierarchy(FALSE)' /\ total' = Len(parents') /\ (\A r \in DOMAIN parents' : parents'[r] \in -MaxRows .. MaxRows)
<1>1. PICK n \in 0 .. MaxResources : \E f \in Forests(n) :
        /\ parents \in [1 .. n -> -n .. n]
        /\ \A r \in 1 .. n : parents[r] \in {f[r], -f[r]}
        /\ IF printed = 0 THEN parents = f \/ \A r \in 1 .. n : parents[r] = -f[r]
           ELSE n <= PageSize => parents = f
  BY Zenon DEF Hierarchy
<1>2. PICK f \in Forests(n) :
        /\ parents \in [1 .. n -> -n .. n]
        /\ \A r \in 1 .. n : parents[r] \in {f[r], -f[r]}
        /\ IF printed = 0 THEN parents = f \/ \A r \in 1 .. n : parents[r] = -f[r]
           ELSE n <= PageSize => parents = f
  BY <1>1
<1>3. n \in Nat /\ n <= MaxRows /\ MaxRows \in Nat
  BY RowsAssumption
<1>4. f \in [1 .. n -> 0 .. n]
  BY Zenon DEF Forests
<1>5. Len(parents) = n
  BY <1>2, <1>3
<1>6. /\ printed' \in 1 .. n /\ total' = n
      /\ printed = 0 /\ n <= PageSize => printed' = n
  BY <1>5, PageTaken
<1> DEFINE known == printed'
<1>7. parents' = Converted(known)
  BY DEF TakePage
<1>8. known \in 0 .. n /\ (n <= PageSize /\ printed = 0 => known = n)
  BY <1>3, <1>6
<1> HIDE DEF known
<1>9. /\ Converted(known) \in [1 .. n -> -n .. n]
      /\ \A r \in 1 .. n : Converted(known)[r] \in {f[r], -f[r]}
      /\ parents = f => Converted(known) = f
      /\ (\A r \in 1 .. n : parents[r] = -f[r]) /\ known = n => Converted(known) = f
  <2>1. \A k \in 0 .. n :
          /\ Converted(k) \in [1 .. n -> -n .. n]
          /\ \A r \in 1 .. n : Converted(k)[r] \in {f[r], -f[r]}
          /\ parents = f => Converted(k) = f
          /\ (\A r \in 1 .. n : parents[r] = -f[r]) /\ k = n => Converted(k) = f
    BY <1>2, <1>3, <1>4, ConvertedKeeps
  <2>2. QED
    BY <1>8, <2>1, Zenon
<1>10. n <= PageSize => parents' = f
  BY <1>2, <1>7, <1>8, <1>9, Zenon
<1>11. parents' \in [1 .. n -> -n .. n] /\ \A r \in 1 .. n : parents'[r] \in {f[r], -f[r]}
  BY <1>7, <1>9
<1>12. Hierarchy(FALSE)'
  BY <1>10, <1>11, Zenon DEF Hierarchy
<1>13. Len(parents') = n
  BY <1>3, <1>11
<1>14. \A r \in DOMAIN parents' : parents'[r] \in -MaxRows .. MaxRows
  BY <1>3, <1>11
<1>15. QED
  BY <1>6, <1>12, <1>13, <1>14

---------------------------------------------------------------------------
(* The steps of the listings *)

\* The resources are drawn when their query is over.
LEMMA TreeFollows ==
    ASSUME prog = "ilsresc", Kind = "query", at \in 1 .. Len(Script)
    PROVE  Script[at + 1].is = "tree"
<1> DEFINE e == <<Options(1), Check(1), Connect(2), Login(3)>>
           q == Query("all", {1}, {1}, {1}, {1}, {Onward})
           t == <<q, [is |-> "tree"]>>
           S == {Options(1), Check(1), Connect(2), Login(3), q, [is |-> "tree"]}
           u == e \o t
<1>1. Script = u
  <2>1. "ilsresc" \in DOMAIN ListingPhases /\ ListingPhases["ilsresc"] = Ilsresc(ShowRescTree)
    BY DEF ListingPhases
  <2>2. Script = ListingPhases["ilsresc"]
    BY <2>1, Scripts DEF Script
  <2>3. Ilsresc(ShowRescTree) = u
    BY DEF Ilsresc, ShowRescTree
  <2>4. QED
    BY <2>1, <2>2, <2>3, Zenon
<1>2. e \in Seq(S) /\ t \in Seq(S) /\ Len(e) = 4 /\ Len(t) = 2
  <2>1. \A a, b, c, d, k, l :
          /\ <<a, b, c, d>> \in Seq({a, b, c, d, k, l}) /\ Len(<<a, b, c, d>>) = 4
          /\ <<k, l>> \in Seq({a, b, c, d, k, l}) /\ Len(<<k, l>>) = 2
    OBVIOUS
  <2>2. QED
    BY <2>1, Zenon
<1>3. /\ e[1].is # "query" /\ e[2].is # "query" /\ e[3].is # "query" /\ e[4].is # "query"
      /\ t[1].is = "query" /\ t[2].is = "tree"
  BY DEF Options, Check, Connect, Login, Query
<1> HIDE DEF e, t, S
<1>4. Len(u) = Len(e) + Len(t) /\ \A i \in 1 .. Len(e) + Len(t) : u[i] = IF i <= Len(e) THEN e[i] ELSE t[i - Len(e)]
  BY <1>2, ConcatProperties
<1> HIDE DEF u
<1>5. Len(u) = 6 /\ u[1] = e[1] /\ u[2] = e[2] /\ u[3] = e[3] /\ u[4] = e[4] /\ u[5] = t[1] /\ u[6] = t[2]
  BY <1>2, <1>4
<1>6. at \in 1 .. 6 /\ u[at].is = "query"
  BY <1>1, <1>5 DEF Kind
<1>7. at = 5 \/ at = 6
  BY <1>3, <1>5, <1>6
<1>8. at = 5 /\ at + 1 = 6
  BY <1>3, <1>5, <1>6, <1>7
<1>9. QED
  BY <1>1, <1>3, <1>5, <1>8

LEMMA FinishStep ==
    ASSUME NEW outcomes, outcomes \subseteq Int, Finish(outcomes)
    PROVE  \/ Onward \in outcomes /\ Advance
           \/ \E s \in Int : /\ s \in outcomes /\ s # Onward
                             /\ Disconnect(s) \/ (End(s) /\ s \in {Aborted, Crashed})
<1>1. PICK s \in outcomes :
        \/ s = Onward /\ Advance
        \/ s \in {Aborted, Crashed} /\ End(s)
        \/ s \notin {Onward, Aborted, Crashed} /\ Disconnect(s)
  BY Zenon DEF Finish
<1>2. s = Aborted \/ s = Crashed => s # Onward
  BY DEF Aborted, Crashed, Onward
<1>3. QED
  BY <1>1, <1>2

Troubles == {"refused", "none", "error", "absent", "stopped", "one resource"}

\* A listing that goes on to its next query.
LEMMA ListingOn ==
    ASSUME IInv, prog \in DOMAIN ListingPhases, exit = Running, Kind \in ListKinds, ~Ends(Script[at]),
           Advance, UNCHANGED <<done, failed, shown>>, UNCHANGED avuVars,
           trouble' \subseteq Troubles, prog \in Reliable => UNCHANGED trouble,
           total' = Unasked, printed' = 0, more' = FALSE,
           whole' \in BOOLEAN, prog \notin FirstPages => whole',
           prog # "ilsresc" => UNCHANGED parents,
           prog = "ilsresc" => Kind = "query" /\ Hierarchy(FALSE)'
    PROVE  IInv' /\ exit' = Running
<1>1. RunTypes /\ WorkTypes /\ RowTypes /\ AvuTypes /\ RunInv
  BY Types, Disjoint DEF IInv, Programs
<1>2. prog # "none" /\ prog \in Programs
  BY Disjoint DEF Programs
<1>3. /\ at \in 1 .. Len(Script) /\ Len(Script) \in 1 .. 9
      /\ at + 1 \in 1 .. Len(Script)
      /\ Fits(prog, Script[at + 1])
      /\ Follows(prog, Script[at], Script[at + 1])
  BY <1>2, Here
<1>4. /\ UNCHANGED <<prog, public, written, paths, conn, login, exit>>
      /\ at' = at + 1
  BY DEF Advance
<1>5. Script' = Script /\ Kind' = Script[at + 1].is
  BY <1>4 DEF Script, Kind
<1>6. Kind' \in ListKinds
  BY <1>3, <1>5 DEF Follows, Kind
<1>7. Kind' \notin LocalKinds \cup {"return", "connect"} \cup LoginKinds /\ Kind' # "each path"
  BY <1>6 DEF ListKinds, LocalKinds, LoginKinds
<1>8. Kind \notin LocalKinds \cup {"return", "connect"} \cup LoginKinds /\ Kind # "each path"
  BY DEF ListKinds, LocalKinds, LoginKinds
<1>9. ConnInv'
  <2>1. conn = "open" /\ Allowed
    BY <1>1 DEF RunInv, ConnInv
  <2>2. conn' = "open" /\ Allowed'
    BY <1>4, <2>1 DEF Allowed
  <2>3. QED
    BY <1>7, <2>2, Zenon DEF ConnInv
<1>10. WorkInv'
  <2>1. done' = {} /\ failed' = {} /\ given' = <<>> /\ sent' = NoCall
    BY <1>1, <1>8 DEF RunInv, WorkInv, avuVars
  <2>2. prog \in Reliable => trouble' = {}
    BY <1>1 DEF RunInv, WorkInv
  <2>3. QED
    BY <1>4, <1>6, <1>7, <2>1, <2>2, Zenon DEF WorkInv
<1>11. NoRows'
  BY Zenon DEF NoRows
<1>12. RowsInv'
  <2>1. shown' = {}
    BY <1>1 DEF RunInv, RowsInv
  <2>2. QED
    BY <1>4, <1>6, <1>11, <2>1 DEF RowsInv
<1>13. TreeInv'
  <2>1. CASE prog = "ilsresc"
    <3>1. Kind' = "tree"
      BY <1>3, <1>5, <2>1, TreeFollows
    <3>2. QED
      BY <1>4, <2>1, <3>1 DEF TreeInv
  <2>2. CASE prog # "ilsresc"
    BY <1>1, <1>4, <2>2 DEF TreeInv, RunInv
  <2>3. QED
    BY <2>1, <2>2
<1>14. PathsInv'
  <2>1. prog # "irsync"
    BY Disjoint
  <2>2. QED
    BY <1>2, <1>4, <2>1, PathsKept
<1>15. TypeOK'
  <2>1. RunTypes'
    <3>1. at' \in 1 .. 9
      BY <1>3, <1>4
    <3>2. QED
      BY <1>1, <1>4, <3>1 DEF RunTypes
  <2>2. WorkTypes'
    BY <1>1 DEF WorkTypes, Troubles
  <2>3. RowTypes'
    <3>1. total' \in {Unasked} \cup 1 .. MaxRows /\ printed' \in 0 .. MaxRows
      BY RowsAssumption
    <3>2. more' \in BOOLEAN /\ whole' \in BOOLEAN
      BY Zenon
    <3>3. \A r \in DOMAIN parents' : parents'[r] \in -MaxRows .. MaxRows
      <4>1. CASE prog = "ilsresc"
        <5>1. PICK n \in 0 .. MaxResources : parents' \in [1 .. n -> -n .. n]
          BY <4>1, Zenon DEF Hierarchy
        <5>2. n \in Nat /\ MaxRows \in Nat /\ n <= MaxRows
          BY RowsAssumption
        <5>3. QED
          BY <5>1, <5>2
      <4>2. CASE prog # "ilsresc"
        BY <1>1, <4>2 DEF RowTypes
      <4>3. QED
        BY <4>1, <4>2
    <3>4. shown' \subseteq 1 .. MaxRows
      BY <1>1 DEF RowTypes
    <3>5. QED
      BY <3>1, <3>2, <3>3, <3>4, Zenon DEF RowTypes
  <2>4. AvuTypes'
    BY <1>1, Types
  <2>5. QED
    BY <2>1, <2>2, <2>3, <2>4, Types
<1>16. at' \in 1 .. Len(Script')
  BY <1>3, <1>4, <1>5
<1>17. QED
  BY <1>2, <1>4, <1>9, <1>10, <1>12, <1>13, <1>14, <1>15, <1>16 DEF IInv, RunInv

\* A listing that stays with its query.
LEMMA ListingStays ==
    ASSUME IInv, prog \in DOMAIN ListingPhases, exit = Running, Kind = "query",
           UNCHANGED runVars, UNCHANGED <<done, failed, trouble>>, UNCHANGED avuVars, UNCHANGED <<whole, shown>>,
           SomeRows', RowTypes',
           prog # "ilsresc" => parents' = <<>>,
           prog = "ilsresc" => Hierarchy(printed = 0)' /\ total' = Len(parents')
    PROVE  IInv' /\ exit' = Running
<1>1. RunTypes /\ WorkTypes /\ RowTypes /\ AvuTypes /\ RunInv
  BY Types, Disjoint DEF IInv, Programs
<1>2. prog # "none" /\ prog \in Programs
  BY Disjoint DEF Programs
<1>3. UNCHANGED <<prog, at, public, written, paths, conn, login, exit>>
  BY DEF runVars
<1>4. Script' = Script /\ Kind' = Kind
  BY <1>3 DEF Script, Kind
<1>5. ConnInv'
  BY <1>1, <1>3, <1>4 DEF RunInv, ConnInv, Allowed
<1>6. WorkInv'
  BY <1>1, <1>3, <1>4 DEF RunInv, WorkInv, avuVars
<1>7. RowsInv'
  <2>1. shown' = {} /\ (prog \notin FirstPages => whole')
    BY <1>1 DEF RunInv, RowsInv
  <2>2. QED
    BY <1>3, <1>4, <2>1 DEF RowsInv, ListKinds
<1>8. TreeInv'
  <2>1. total' # Unasked
    BY RowsAssumption DEF SomeRows, Unasked
  <2>2. QED
    BY <1>3, <1>4, <2>1 DEF TreeInv
<1>9. PathsInv'
  BY <1>2, <1>3, PathsKept
<1>10. TypeOK'
  <2>1. RunTypes'
    BY <1>1, <1>3 DEF RunTypes
  <2>2. WorkTypes'
    BY <1>1 DEF WorkTypes
  <2>3. AvuTypes'
    BY <1>1, Types
  <2>4. QED
    BY <2>1, <2>2, <2>3, Types
<1>11. QED
  BY <1>2, <1>3, <1>4, <1>5, <1>6, <1>7, <1>8, <1>9, <1>10 DEF IInv, RunInv

LEMMA Over ==
    RunTypes => \A s \in Int : End(s) \/ Disconnect(s) =>
      /\ exit' = s % 256 /\ exit' \in 0 .. 255 /\ exit' # Running
      /\ UNCHANGED <<prog, at, public, written, paths, login>>
      /\ conn' \in {conn, "closed"}
  BY EndStep

\* A listing that ends.
LEMMA ListingEnds ==
    ASSUME IInv, prog \in DOMAIN ListingPhases, exit = Running, Kind \in ListKinds,
           NEW s \in Int, End(s) \/ Disconnect(s),
           UNCHANGED <<done, failed>>, UNCHANGED avuVars, RowTypes', trouble' \subseteq Troubles,
           s % 256 = 0 /\ prog \in Reliable => trouble' \subseteq {"stopped", "one resource"},
           s % 256 # 0 => trouble' \ {"stopped"} # {} \/ (EndOfFullPage' /\ prog \in FullPageTold),
           s % 256 = 0 /\ trouble' \cap {"error", "stopped"} = {} /\ prog \notin FirstPages =>
             whole' /\ (total' = Unasked \/ printed' = total'),
           prog = "ilsresc" /\ s % 256 = 0 => TreeWhole'
    PROVE  IInv' /\ Properties'
<1>1. RunTypes /\ WorkTypes /\ RowTypes /\ AvuTypes /\ RunInv
  BY Types, Disjoint DEF IInv, Programs
<1>2. /\ prog # "none" /\ prog \in Programs
      /\ prog \notin DOMAIN OneCallPhases \cup {"imeta", "irsync", "ichmod", "iphymv"}
  BY Disjoint DEF Programs
<1>3. /\ exit' = s % 256 /\ exit' \in 0 .. 255 /\ exit' # Running
      /\ UNCHANGED <<prog, at, public, written, paths, login>>
      /\ conn' \in {conn, "closed"}
  <2>1. End(s) \/ Disconnect(s)
    OBVIOUS
  <2>2. QED
    BY <1>1, <2>1, Over, Zenon
<1>4. Kind \notin LocalKinds \cup {"return", "connect"} \cup LoginKinds /\ Kind # "each path"
  BY DEF ListKinds, LocalKinds, LoginKinds
<1>5. Allowed /\ done' = {} /\ failed' = {} /\ sent' = NoCall
  BY <1>1, <1>4 DEF RunInv, ConnInv, WorkInv, avuVars
<1>6. IInv'
  <2>1. WorkTypes'
    BY <1>1 DEF WorkTypes, Troubles
  <2>2. AvuTypes'
    BY <1>1, Types
  <2>3. QED
    BY <1>2, <2>1, <2>2, EndInv
<1>7. RequestTells' /\ RefusalsDoNothing' /\ ChangedUpToFailure' /\ SyncAsWritten'
  <2>1. prog' \notin DOMAIN OneCallPhases \cup {"imeta", "irsync", "ichmod", "iphymv"}
    BY <1>2, <1>3
  <2>2. QED
    BY <2>1, Zenon DEF RequestTells, RefusalsDoNothing, ChangedUpToFailure, SyncAsWritten
<1>8. ListingTells'
  BY <1>3 DEF ListingTells, Reliable
<1>9. OnlyWithLogin'
  BY <1>3, <1>5 DEF OnlyWithLogin, Allowed
<1>10. FailureHasCause'
  BY <1>3 DEF FailureHasCause, FullPageTold
<1>11. ModMeansArguments'
  BY <1>5 DEF ModMeansArguments
<1>12. RowsAll'
  BY <1>3 DEF RowsAll, FirstPages
<1>13. TreeWhole'
  <2>1. CASE prog = "ilsresc" /\ s % 256 = 0
    BY <2>1
  <2>2. CASE ~(prog = "ilsresc" /\ s % 256 = 0)
    BY <1>3, <2>2 DEF TreeWhole
  <2>3. QED
    BY <2>1, <2>2
<1>14. QED
  BY <1>6, <1>7, <1>8, <1>9, <1>10, <1>11, <1>12, <1>13 DEF Properties, SuccessTells, ListsAll

LEMMA ListingPhase ==
    ASSUME IInv, NEW kind, In(ListingPhases, kind)
    PROVE  /\ exit = Running /\ prog \in DOMAIN ListingPhases /\ prog # "none"
           /\ Kind = kind /\ Phase(ListingPhases) = Script[at] /\ Script[at].is = kind
           /\ Fits(prog, Script[at])
           /\ RunTypes /\ WorkTypes /\ RowTypes /\ AvuTypes /\ RunInv
<1>1. exit = Running /\ prog \in DOMAIN ListingPhases /\ ListingPhases[prog][at].is = kind
  BY DEF In
<1>2. prog # "none" /\ Script = ListingPhases[prog]
  BY <1>1, Disjoint, Scripts DEF Programs, Script
<1>3. Kind = kind /\ Phase(ListingPhases) = Script[at] /\ Script[at].is = kind
  BY <1>1, <1>2 DEF Kind, Phase
<1>4. QED
  BY <1>1, <1>2, <1>3, Here, Types DEF IInv

\* What a query has shown so far.
LEMMA QueryRows ==
    ASSUME IInv, In(ListingPhases, "query")
    PROVE  /\ total = Unasked => NoRows /\ parents = <<>>
           /\ total # Unasked => SomeRows
           /\ prog # "ilsresc" => parents = <<>>
           /\ prog = "ilsresc" /\ total # Unasked => Hierarchy(printed = 0) /\ total = Len(parents)
           /\ prog \notin FirstPages => whole
           /\ shown = {} /\ trouble \subseteq Troubles /\ whole \in BOOLEAN
           /\ prog \in Reliable => trouble = {}
           /\ "query" \in ListKinds /\ QueryFits(prog, Script[at])
<1>1. /\ Kind = "query" /\ Script[at].is = "query" /\ RunInv /\ Fits(prog, Script[at]) /\ WorkTypes /\ RowTypes
  BY ListingPhase
<1>2. NoRows \/ SomeRows
  BY <1>1 DEF RunInv, RowsInv
<1>3. total = Unasked => ~SomeRows
  BY RowsAssumption DEF SomeRows, Unasked
<1>4. total # Unasked => ~NoRows
  BY DEF NoRows
<1>5. /\ prog # "ilsresc" => parents = <<>>
      /\ total = Unasked => parents = <<>>
      /\ prog = "ilsresc" /\ total # Unasked => Hierarchy(printed = 0) /\ total = Len(parents)
  BY <1>1 DEF RunInv, TreeInv
<1>6. /\ prog \notin FirstPages => whole
      /\ shown = {}
      /\ prog \in Reliable => trouble = {}
  BY <1>1 DEF RunInv, RowsInv, WorkInv
<1>7. trouble \subseteq Troubles /\ whole \in BOOLEAN
  BY <1>1, Zenon DEF WorkTypes, RowTypes, Troubles
<1>8. QueryFits(prog, Script[at])
  BY <1>1, KindFits
<1>9. "query" \in ListKinds
  BY DEF ListKinds
<1>10. QED
  BY <1>2, <1>3, <1>4, <1>5, <1>6, <1>7, <1>8, <1>9

\* What a query does not end with, it goes on with.
LEMMA QueryOn ==
    ASSUME NEW a, a.is = "query"
    PROVE  Onward \in a.none \cup a.error \cup a.lateNone \cup a.lateError \cup a.all => ~Ends(a)
  BY DEF Ends, CallKinds, UtilKinds

LEMMA CodeTold ==
    \A s \in Int : s > 0 /\ s < 256 => s # Onward /\ s % 256 # 0
  BY DEF Onward

\* The first answer is that there is nothing, or an error.
LEMMA AnswerStep ==
    ASSUME IInv, In(ListingPhases, "query"), total = Unasked,
           UNCHANGED <<printed, more, shown, done, failed, total, whole, parents>>, UNCHANGED avuVars,
           NEW outcomes, outcomes \in {Script[at].none, Script[at].error}, Finish(outcomes),
           NEW what \in {"none", "error"}, trouble' = trouble \cup {what}
    PROVE  IInv' /\ (exit' # Running => Properties')
<1>1. /\ exit = Running /\ prog \in DOMAIN ListingPhases /\ Kind = "query" /\ Script[at].is = "query"
      /\ RowTypes
  BY ListingPhase
<1>2. /\ NoRows /\ parents = <<>> /\ (prog \notin FirstPages => whole) /\ shown = {}
      /\ trouble \subseteq Troubles /\ whole \in BOOLEAN
      /\ Kind \in ListKinds /\ QueryFits(prog, Script[at])
  BY <1>1, QueryRows
<1>3. /\ outcomes \subseteq Int
      /\ prog \in Reliable => \A code \in outcomes : code > 0 /\ code < 256
  BY <1>2 DEF QueryFits
<1>4. total' = Unasked /\ printed' = 0 /\ ~more'
  BY <1>2 DEF NoRows
<1>5. more' = FALSE
  BY <1>1, <1>4 DEF RowTypes
<1>6. RowTypes'
  BY <1>1, Zenon DEF RowTypes
<1>7. trouble' \subseteq Troubles /\ trouble' \ {"stopped"} # {} /\ trouble' # {}
  BY <1>2 DEF Troubles
<1>8. CASE Onward \in outcomes /\ Advance
  <2>1. prog \notin Reliable
    BY <1>3, <1>8, CodeTold
  <2>2. prog # "ilsresc"
    BY <2>1 DEF Reliable
  <2>3. ~Ends(Script[at])
    BY <1>1, <1>8, QueryOn
  <2>4. UNCHANGED <<done, failed, shown>> /\ UNCHANGED parents /\ whole' \in BOOLEAN /\ (prog \notin FirstPages => whole')
    BY <1>2
  <2>5. QED
    BY <1>1, <1>2, <1>4, <1>5, <1>7, <1>8, <2>1, <2>2, <2>3, <2>4, ListingOn
<1>9. ASSUME NEW s \in Int, s \in outcomes, End(s) \/ Disconnect(s)
      PROVE  IInv' /\ Properties'
  <2>1. s % 256 = 0 => prog \notin Reliable
    BY <1>3, <1>9, CodeTold
  <2>2. prog \notin FirstPages => whole' /\ (total' = Unasked \/ printed' = total')
    BY <1>2, <1>4
  <2>3. prog = "ilsresc" => TreeWhole'
    BY <1>7 DEF TreeWhole
  <2>4. QED
    BY <1>1, <1>2, <1>6, <1>7, <1>9, <2>1, <2>2, <2>3, ListingEnds
<1>10. QED
  <2>1. \/ Onward \in outcomes /\ Advance
        \/ \E s \in Int : s \in outcomes /\ (End(s) \/ Disconnect(s))
    BY <1>3, FinishStep
  <2>2. QED
    BY <1>8, <1>9, <2>1

LEMMA AskStep ==
    ASSUME IInv, AskQuery, UNCHANGED avuVars
    PROVE  IInv' /\ (exit' # Running => Properties')
<1>1. /\ In(ListingPhases, "query") /\ total = Unasked
      /\ UNCHANGED <<printed, more, shown, done, failed>>
  BY DEF AskQuery
<1>2. /\ exit = Running /\ prog \in DOMAIN ListingPhases /\ Kind = "query"
      /\ Phase(ListingPhases) = Script[at] /\ RowTypes
  BY <1>1, ListingPhase
<1>3. NoRows /\ parents = <<>>
  BY <1>1, QueryRows
<1>4. MaxRows \in Nat /\ MaxResources \in 1 .. MaxRows
  BY RowsAssumption
<1>5. ASSUME NEW n \in 1 .. (IF prog = "ilsresc" THEN MaxResources ELSE MaxRows),
             total' = n, parents' \in Resources(n), UNCHANGED <<whole, trouble>>, UNCHANGED runVars
      PROVE  IInv' /\ exit' = Running
  <2>1. n \in Nat /\ n \in 1 .. MaxRows /\ (prog = "ilsresc" => n \in 0 .. MaxResources)
    BY <1>4
  <2>2. printed' = 0 /\ ~more'
    BY <1>1, <1>3 DEF NoRows
  <2>3. SomeRows'
    <3>1. total' \in 1 .. MaxRows /\ printed' \in 0 .. total' /\ ~(printed' > 0)
      BY <1>5, <2>1, <2>2
    <3>2. QED
      BY <2>2, <3>1, Zenon DEF SomeRows
  <2>4. CASE prog # "ilsresc"
    <3>1. parents' = <<>>
      BY <1>5, <2>4 DEF Resources
    <3>2. RowTypes'
      <4>1. \A r \in DOMAIN parents' : parents'[r] \in -MaxRows .. MaxRows
        BY <3>1, EmptyDomain
      <4>2. total' \in 1 .. MaxRows
        BY <1>5, <2>1
      <4>3. UNCHANGED <<printed, more, whole, shown>>
        BY <1>1, <1>5
      <4>4. QED
        BY <1>2, <4>1, <4>2, <4>3, Zenon DEF RowTypes
    <3>3. QED
      BY <1>1, <1>2, <1>5, <2>3, <2>4, <3>1, <3>2, ListingStays
  <2>5. CASE prog = "ilsresc"
    <3>1. PICK f \in Forests(n) : parents' \in {f, [r \in 1 .. n |-> -f[r]]}
      BY <1>5, <2>5 DEF Resources
    <3>2. f \in [1 .. n -> 0 .. n]
      BY Zenon DEF Forests
    <3>3. parents' \in [1 .. n -> -n .. n]
      BY <2>1, <3>1, <3>2
    <3>4. parents' = f \/ \A r \in 1 .. n : parents'[r] = -f[r]
      BY <3>1
    <3>5. \A r \in 1 .. n : parents'[r] \in {f[r], -f[r]}
      BY <3>4
    <3>6. Hierarchy(printed = 0)'
      BY <2>1, <2>2, <2>5, <3>3, <3>4, <3>5, Zenon DEF Hierarchy
    <3>7. total' = Len(parents')
      BY <1>5, <2>1, <3>3
    <3>8. RowTypes'
      <4>1. \A r \in DOMAIN parents' : parents'[r] \in -MaxRows .. MaxRows
        BY <1>4, <2>1, <3>3
      <4>2. total' \in 1 .. MaxRows
        BY <1>5, <2>1
      <4>3. UNCHANGED <<printed, more, whole, shown>>
        BY <1>1, <1>5
      <4>4. QED
        BY <1>2, <4>1, <4>2, <4>3, Zenon DEF RowTypes
    <3>9. QED
      BY <1>1, <1>2, <1>5, <2>3, <2>5, <3>6, <3>7, <3>8, ListingStays
  <2>6. QED
    BY <2>4, <2>5
<1>6. CASE Finish(Script[at].none) /\ trouble' = trouble \cup {"none"} /\ UNCHANGED <<total, whole, parents>>
  BY <1>1, <1>6, AnswerStep
<1>7. CASE Finish(Script[at].error) /\ trouble' = trouble \cup {"error"} /\ UNCHANGED <<total, whole, parents>>
  BY <1>1, <1>7, AnswerStep
<1>8. QED
  BY <1>2, <1>5, <1>6, <1>7 DEF AskQuery

\* The rows of a page.
LEMMA PageStep ==
    ASSUME IInv, In(ListingPhases, "query"), total # Unasked, Rows # {}, TakePage,
           UNCHANGED <<done, failed>>, UNCHANGED avuVars
    PROVE  IInv' /\ exit' = Running
<1>1. exit = Running /\ prog \in DOMAIN ListingPhases /\ Kind = "query" /\ RowTypes
  BY ListingPhase
<1>2. /\ SomeRows
      /\ prog # "ilsresc" => parents = <<>>
      /\ prog = "ilsresc" => Hierarchy(printed = 0) /\ total = Len(parents)
  BY QueryRows
<1>3. /\ SomeRows' /\ printed' > 0 /\ total' = total /\ more' \in BOOLEAN
      /\ printed' \in 0 .. MaxRows
  BY <1>1, <1>2, PageTaken
<1>4. /\ UNCHANGED <<whole, shown, trouble>> /\ UNCHANGED runVars
      /\ prog # "ilsresc" => UNCHANGED parents
  BY DEF TakePage
<1>5. CASE prog # "ilsresc"
  <2>1. parents' = <<>> /\ UNCHANGED parents
    BY <1>2, <1>4, <1>5
  <2>2. RowTypes'
    BY <1>1, <1>3, <1>4, <2>1, Zenon DEF RowTypes
  <2>3. QED
    BY <1>1, <1>3, <1>4, <1>5, <2>1, <2>2, ListingStays
<1>6. CASE prog = "ilsresc"
  <2>1. /\ Hierarchy(FALSE)' /\ total' = Len(parents')
        /\ \A r \in DOMAIN parents' : parents'[r] \in -MaxRows .. MaxRows
    BY <1>1, <1>2, <1>6, HierarchyTaken
  <2>2. RowTypes'
    BY <1>1, <1>3, <1>4, <2>1, Zenon DEF RowTypes
  <2>3. printed' # 0
    BY <1>3
  <2>4. Hierarchy(printed = 0)'
    BY <2>1, <2>3, Zenon DEF Hierarchy
  <2>5. QED
    BY <1>1, <1>3, <1>4, <1>6, <2>1, <2>2, <2>4, ListingStays
<1>7. QED
  BY <1>5, <1>6

LEMMA FirstStep ==
    ASSUME IInv, TakeFirst, UNCHANGED avuVars
    PROVE  IInv' /\ exit' = Running
<1>1. /\ In(ListingPhases, "query") /\ total # Unasked /\ printed = 0
      /\ TakePage /\ UNCHANGED <<done, failed>>
  BY DEF TakeFirst
<1>2. SomeRows
  BY <1>1, QueryRows
<1>3. Rows # {}
  BY <1>1, <1>2, NextRows
<1>4. QED
  BY <1>1, <1>3, PageStep

\* The rows that are left, and those of the next query.
LEMMA RowsLeft ==
    ASSUME IInv, In(ListingPhases, "query"), total # Unasked, LeaveRows,
           printed = total \/ prog \in FirstPages
    PROVE  /\ total' = Unasked /\ printed' = 0 /\ more' = FALSE
           /\ whole' \in BOOLEAN /\ (prog \notin FirstPages => whole') /\ UNCHANGED <<parents, shown>>
           /\ RowTypes'
<1>1. RowTypes /\ (prog \notin FirstPages => whole) /\ whole \in BOOLEAN
  BY ListingPhase, QueryRows
<1>2. total' = Unasked /\ printed' = 0 /\ more' = FALSE /\ UNCHANGED <<parents, shown>>
  BY DEF LeaveRows
<1>3. whole' = (whole /\ printed = total)
  BY DEF LeaveRows
<1>4. whole' \in BOOLEAN /\ (prog \notin FirstPages => whole')
  BY <1>1, <1>3, Zenon
<1>5. RowTypes'
  <2>1. 0 \in 0 .. MaxRows
    BY RowsAssumption
  <2>2. /\ \A r \in DOMAIN parents' : parents'[r] \in -MaxRows .. MaxRows
        /\ shown' \subseteq 1 .. MaxRows
    BY <1>1, <1>2 DEF RowTypes
  <2>3. QED
    BY <1>2, <1>4, <2>1, <2>2, Zenon DEF RowTypes
<1>6. QED
  BY <1>2, <1>4, <1>5

LEMMA ContinueStep ==
    ASSUME IInv, Continue, UNCHANGED avuVars
    PROVE  IInv' /\ (exit' # Running => Properties')
<1>1. /\ In(ListingPhases, "query") /\ printed > 0 /\ more
      /\ Phase(ListingPhases).pages # "first" /\ UNCHANGED <<done, failed>>
  BY DEF Continue
<1>2. /\ exit = Running /\ prog \in DOMAIN ListingPhases /\ prog # "none" /\ Kind = "query"
      /\ Phase(ListingPhases) = Script[at] /\ Script[at].is = "query" /\ RowTypes /\ RunTypes
  BY <1>1, ListingPhase
<1>3. total # Unasked
  <2>1. ~NoRows
    BY <1>1 DEF NoRows
  <2>2. QED
    BY <1>1, <2>1, QueryRows
<1>4. /\ SomeRows
      /\ prog # "ilsresc" => parents = <<>>
      /\ prog = "ilsresc" => Hierarchy(printed = 0)
      /\ prog \notin FirstPages => whole
      /\ shown = {} /\ trouble \subseteq Troubles /\ whole \in BOOLEAN
      /\ prog \in Reliable => trouble = {}
      /\ Kind \in ListKinds /\ QueryFits(prog, Script[at])
  BY <1>1, <1>2, <1>3, QueryRows
<1>5. /\ Script[at].none \subseteq Int /\ Script[at].error \subseteq Int
      /\ Script[at].lateNone \subseteq Int /\ Script[at].lateError \subseteq Int
      /\ Script[at].all \subseteq {0, Onward}
      /\ Script[at].pages = "asked" => Onward \notin Script[at].all
      /\ Onward \notin Script[at].lateError
      /\ prog \in Reliable => \A code \in Script[at].lateError : code > 0 /\ code < 256
      /\ prog \notin FullPageTold => Script[at].lateNone \subseteq {0, Onward}
      /\ prog = "ilsresc" => \A code \in Script[at].lateNone : code > 0 /\ code < 256
  BY <1>1, <1>2, <1>4 DEF QueryFits
<1>6. CASE Rows # {} /\ TakePage
  BY <1>1, <1>3, <1>6, PageStep
<1>7. ASSUME Rows = {}, Finish(Script[at].lateNone),
             IF at' = at THEN UNCHANGED listVars ELSE LeaveRows, UNCHANGED trouble
      PROVE  IInv' /\ (exit' # Running => Properties')
  <2>1. printed = total
    BY <1>4, <1>7, NextRows
  <2>2. CASE Onward \in Script[at].lateNone /\ Advance
    <3>1. prog # "ilsresc"
      BY <1>5, <2>2, CodeTold
    <3>2. at' # at
      <4>1. at' = at + 1 /\ at \in 1 .. 9
        BY <1>2, <2>2 DEF Advance, RunTypes
      <4>2. QED
        BY <4>1
    <3>3. LeaveRows
      BY <1>7, <3>2
    <3>4. /\ total' = Unasked /\ printed' = 0 /\ more' = FALSE
          /\ whole' \in BOOLEAN /\ (prog \notin FirstPages => whole') /\ UNCHANGED <<parents, shown>>
      BY <1>1, <1>3, <2>1, <3>3, RowsLeft
    <3>5. ~Ends(Script[at])
      BY <1>2, <2>2, QueryOn
    <3>6. UNCHANGED <<done, failed, shown>> /\ trouble' \subseteq Troubles
      BY <1>1, <1>4, <1>7, <3>4
    <3>7. QED
      BY <1>2, <1>4, <1>7, <2>2, <3>1, <3>4, <3>5, <3>6, ListingOn
  <2>3. ASSUME NEW s \in Int, s \in Script[at].lateNone, s # Onward, End(s) \/ Disconnect(s)
        PROVE  IInv' /\ Properties'
    <3>1. UNCHANGED listVars
      BY <1>7, <2>3 DEF End, Disconnect
    <3>2. RowTypes' /\ trouble' \subseteq Troubles
      BY <1>2, <1>4, <1>7, <3>1, Types
    <3>3. prog \in Reliable => trouble' \subseteq {"stopped", "one resource"}
      BY <1>4, <1>7
    <3>4. UNCHANGED <<total, printed, more, whole>>
      BY <3>1 DEF listVars
    <3>5. EndOfFullPage'
      BY <1>1, <2>1, <3>4, Zenon DEF EndOfFullPage
    <3>6. s % 256 # 0 => prog \in FullPageTold
      BY <1>5, <2>3
    <3>7. prog \notin FirstPages => whole' /\ printed' = total'
      BY <1>4, <2>1, <3>4
    <3>8. prog = "ilsresc" => s % 256 # 0
      BY <1>5, <2>3, CodeTold
    <3>9. QED
      BY <1>1, <1>2, <1>4, <2>3, <3>2, <3>3, <3>5, <3>6, <3>7, <3>8, ListingEnds
  <2>4. \/ Onward \in Script[at].lateNone /\ Advance
        \/ \E s \in Int : s \in Script[at].lateNone /\ s # Onward /\ (End(s) \/ Disconnect(s))
    BY <1>5, <1>7, FinishStep
  <2>5. QED
    BY <2>2, <2>3, <2>4
<1>8. ASSUME NEW outcomes, outcomes \subseteq Int, Onward \notin outcomes, Finish(outcomes),
             UNCHANGED listVars,
             \/ trouble' = trouble \cup {"stopped"} /\ outcomes \subseteq {0}
             \/ /\ trouble' = trouble \cup {"error"}
                /\ prog \in Reliable => \A code \in outcomes : code > 0 /\ code < 256
      PROVE  IInv' /\ (exit' # Running => Properties')
  <2>1. PICK s \in Int : s \in outcomes /\ (End(s) \/ Disconnect(s))
    BY <1>8, FinishStep
  <2>2. RowTypes' /\ trouble' \subseteq Troubles
    BY <1>2, <1>4, <1>8, Types DEF Troubles
  <2>3. trouble' \cap {"error", "stopped"} # {} /\ trouble' # {}
    BY <1>8
  <2>4. TreeWhole'
    BY <2>3 DEF TreeWhole
  <2>5. s % 256 = 0 /\ prog \in Reliable => trouble' \subseteq {"stopped", "one resource"}
    BY <1>4, <1>8, <2>1, CodeTold
  <2>6. s % 256 # 0 => trouble' \ {"stopped"} # {}
    <3>1. CASE trouble' = trouble \cup {"stopped"} /\ outcomes \subseteq {0}
      BY <2>1, <3>1
    <3>2. CASE trouble' = trouble \cup {"error"}
      BY <3>2
    <3>3. QED
      BY <1>8, <3>1, <3>2
  <2>7. QED
    BY <1>1, <1>2, <1>4, <2>1, <2>2, <2>3, <2>4, <2>5, <2>6, ListingEnds
<1>9. CASE Finish(Script[at].lateError) /\ trouble' = trouble \cup {"error"} /\ UNCHANGED listVars
  BY <1>5, <1>8, <1>9
<1>10. CASE /\ Script[at].pages = "asked"
            /\ Finish(Script[at].all) /\ trouble' = trouble \cup {"stopped"} /\ UNCHANGED listVars
  <2>1. Script[at].all \subseteq {0} /\ Script[at].all \subseteq Int /\ Onward \notin Script[at].all
    BY <1>5, <1>10
  <2>2. QED
    BY <1>8, <1>10, <2>1
<1>11. QED
  BY <1>2, <1>6, <1>7, <1>9, <1>10 DEF Continue

LEMMA EndQueryStep ==
    ASSUME IInv, EndQuery, UNCHANGED avuVars
    PROVE  IInv' /\ (exit' # Running => Properties')
<1>1. /\ In(ListingPhases, "query") /\ printed > 0
      /\ ~more \/ Phase(ListingPhases).pages = "first"
      /\ LeaveRows /\ Finish(Phase(ListingPhases).all)
      /\ UNCHANGED <<done, failed, trouble>>
  BY DEF EndQuery
<1>2. /\ exit = Running /\ prog \in DOMAIN ListingPhases /\ Kind = "query"
      /\ Phase(ListingPhases) = Script[at] /\ Script[at].is = "query" /\ RowTypes
  BY <1>1, ListingPhase
<1>3. total # Unasked
  <2>1. ~NoRows
    BY <1>1 DEF NoRows
  <2>2. QED
    BY <1>1, <2>1, QueryRows
<1>4. /\ SomeRows
      /\ prog # "ilsresc" => parents = <<>>
      /\ prog = "ilsresc" => Hierarchy(printed = 0)
      /\ trouble \subseteq Troubles
      /\ prog \in Reliable => trouble = {}
      /\ Kind \in ListKinds /\ QueryFits(prog, Script[at])
  BY <1>1, <1>2, <1>3, QueryRows
<1>5. /\ Script[at].all \subseteq {0, Onward}
      /\ Script[at].pages = "first" => prog \in FirstPages
      /\ prog = "ilsresc" => Script[at].all = {Onward}
  BY <1>4 DEF QueryFits
<1>6. printed = total \/ prog \in FirstPages
  <2>1. printed > 0 /\ ~more => printed = total
    BY <1>4, Zenon DEF SomeRows
  <2>2. QED
    BY <1>1, <1>2, <1>5, <2>1, Zenon
<1>7. /\ total' = Unasked /\ printed' = 0 /\ more' = FALSE
      /\ whole' \in BOOLEAN /\ (prog \notin FirstPages => whole') /\ UNCHANGED <<parents, shown>>
      /\ RowTypes'
  BY <1>1, <1>3, <1>6, RowsLeft
<1>8. CASE Onward \in Script[at].all /\ Advance
  <2>1. ~Ends(Script[at])
    BY <1>2, <1>8, QueryOn
  <2>2. ASSUME prog = "ilsresc"
        PROVE  Hierarchy(FALSE)'
    <3>1. printed # 0
      BY <1>1
    <3>2. Hierarchy(FALSE)
      BY <1>4, <2>2, <3>1, Zenon DEF Hierarchy
    <3>3. QED
      BY <1>7, <3>2, Zenon DEF Hierarchy
  <2>3. UNCHANGED <<done, failed, shown>> /\ UNCHANGED parents /\ UNCHANGED trouble
    BY <1>1, <1>7
  <2>4. QED
    BY <1>2, <1>4, <1>7, <1>8, <2>1, <2>2, <2>3, ListingOn
<1>9. ASSUME NEW s \in Int, s = 0, End(s) \/ Disconnect(s), prog # "ilsresc"
      PROVE  IInv' /\ Properties'
  <2>1. s % 256 = 0
    BY <1>9
  <2>2. prog \in Reliable => trouble' \subseteq {"stopped", "one resource"}
    BY <1>1, <1>4
  <2>3. UNCHANGED <<done, failed>> /\ trouble' \subseteq Troubles
    BY <1>1, <1>4
  <2>4. QED
    BY <1>2, <1>4, <1>7, <1>9, <2>1, <2>2, <2>3, ListingEnds
<1>10. QED
  <2>1. Script[at].all \subseteq Int
    BY <1>5 DEF Onward
  <2>2. \/ Onward \in Script[at].all /\ Advance
        \/ \E s \in Int : s \in Script[at].all /\ s # Onward /\ (End(s) \/ Disconnect(s))
    BY <1>1, <1>2, <2>1, FinishStep
  <2>3. QED
    BY <1>5, <1>8, <1>9, <2>2

LEMMA ProbeStep ==
    ASSUME IInv, AskProbe, UNCHANGED avuVars
    PROVE  IInv' /\ (exit' # Running => Properties')
<1>1. /\ In(ListingPhases, "probe") /\ UNCHANGED listVars /\ UNCHANGED <<done, failed>>
  BY DEF AskProbe
<1>2. /\ exit = Running /\ prog \in DOMAIN ListingPhases /\ Kind = "probe"
      /\ Phase(ListingPhases) = Script[at] /\ Script[at].is = "probe"
      /\ RowTypes /\ WorkTypes /\ RunInv /\ Fits(prog, Script[at])
  BY <1>1, ListingPhase
<1>3. ProbeFits(prog, Script[at]) /\ Kind \in ListKinds
  BY <1>2, KindFits DEF ListKinds
<1>4. /\ Script[at].absent \subseteq Int /\ Script[at].error \subseteq Int /\ Script[at].stray \subseteq Int
      /\ Script[at].found \subseteq {0, Onward} /\ Script[at].found \subseteq Int
      /\ prog \notin Reliable /\ prog # "ilsresc"
  BY <1>3 DEF ProbeFits, Reliable, Onward
<1>5. NoRows /\ (prog \notin FirstPages => whole)
  BY <1>2 DEF RunInv, RowsInv
<1>6. UNCHANGED <<total, printed, more, whole, parents, shown>>
  BY <1>1 DEF listVars
<1>7. total' = Unasked /\ printed' = 0 /\ more' = FALSE /\ whole' \in BOOLEAN /\ (prog \notin FirstPages => whole')
  BY <1>2, <1>5, <1>6, Zenon DEF NoRows, RowTypes
<1>8. RowTypes' /\ trouble \subseteq Troubles
  <2>1. RowTypes'
    BY <1>1, <1>2, Types
  <2>2. trouble \subseteq Troubles
    BY <1>2, Zenon DEF WorkTypes, Troubles
  <2>3. QED
    BY <2>1, <2>2
<1>9. ASSUME NEW outcomes \in SUBSET Int, Finish(outcomes),
             outcomes \subseteq Script[at].found \cup Script[at].absent \cup Script[at].error \cup Script[at].stray,
             \/ UNCHANGED trouble /\ outcomes \subseteq {0, Onward}
             \/ trouble' = trouble \cup {"absent"}
             \/ trouble' = trouble \cup {"error"}
      PROVE  IInv' /\ (exit' # Running => Properties')
  <2>1. trouble' \subseteq Troubles
    BY <1>8, <1>9 DEF Troubles
  <2>2. CASE Onward \in outcomes /\ Advance
    <3>1. ~Ends(Script[at])
      BY <1>2, <1>9, <2>2 DEF Ends, CallKinds, UtilKinds
    <3>2. UNCHANGED <<done, failed, shown>> /\ UNCHANGED parents
      BY <1>1, <1>6
    <3>3. QED
      BY <1>2, <1>3, <1>4, <1>7, <2>1, <2>2, <3>1, <3>2, ListingOn
  <2>3. ASSUME NEW s \in Int, s \in outcomes, s # Onward, End(s) \/ Disconnect(s)
        PROVE  IInv' /\ Properties'
    <3>1. s % 256 # 0 => trouble' \ {"stopped"} # {}
      <4>1. CASE outcomes \subseteq {0, Onward}
        <5>1. s = 0
          BY <2>3, <4>1
        <5>2. s % 256 = 0
          BY <5>1
        <5>3. QED
          BY <5>2
      <4>2. CASE trouble' = trouble \cup {"absent"} \/ trouble' = trouble \cup {"error"}
        BY <4>2
      <4>3. QED
        BY <1>9, <4>1, <4>2
    <3>2. QED
      BY <1>1, <1>2, <1>3, <1>4, <1>7, <1>8, <2>1, <2>3, <3>1, ListingEnds
  <2>4. \/ Onward \in outcomes /\ Advance
        \/ \E s \in Int : s \in outcomes /\ s # Onward /\ (End(s) \/ Disconnect(s))
    BY <1>9, FinishStep
  <2>5. QED
    BY <2>2, <2>3, <2>4
<1>10. QED
  BY <1>2, <1>4, <1>9 DEF AskProbe

LEMMA DrawStep ==
    ASSUME IInv, DrawTree, UNCHANGED avuVars
    PROVE  IInv' /\ (exit' # Running => Properties')
<1>1. /\ In(ListingPhases, "tree")
      /\ UNCHANGED rowVars /\ UNCHANGED <<whole, parents, done, failed>>
  BY DEF DrawTree
<1>2. /\ exit = Running /\ prog \in DOMAIN ListingPhases /\ Kind = "tree"
      /\ Script[at].is = "tree" /\ RowTypes /\ WorkTypes /\ RunInv /\ Fits(prog, Script[at])
  BY <1>1, ListingPhase
<1>3. prog = "ilsresc" /\ Kind \in ListKinds
  BY <1>2, KindFits DEF ListKinds
<1>4. prog \in Reliable /\ prog \notin FirstPages
  BY <1>3 DEF Reliable, FirstPages
<1>5. NoRows /\ whole /\ trouble = {} /\ shown = {} /\ Hierarchy(FALSE)
  BY <1>2, <1>3, <1>4 DEF RunInv, RowsInv, WorkInv, TreeInv
<1>6. PICK n \in 0 .. MaxResources : \E f \in Forests(n) :
        /\ parents \in [1 .. n -> -n .. n]
        /\ \A r \in 1 .. n : parents[r] \in {f[r], -f[r]}
        /\ n <= PageSize => parents = f
  BY <1>5, Zenon DEF Hierarchy
<1>7. PICK f \in Forests(n) :
        /\ parents \in [1 .. n -> -n .. n]
        /\ \A r \in 1 .. n : parents[r] \in {f[r], -f[r]}
        /\ n <= PageSize => parents = f
  BY <1>6
<1>8. n \in Nat /\ 1 .. n \subseteq 1 .. MaxRows
  BY RowsAssumption
<1>9. f \in [1 .. n -> 0 .. n] /\ Below(f, Roots(f)) = 1 .. n
  BY Zenon DEF Forests
<1>10. DOMAIN parents = 1 .. n /\ Len(parents) = n
  BY <1>7, <1>8
<1>11. UNCHANGED <<total, printed, more, whole, parents, done, failed>>
  BY <1>1 DEF rowVars
<1>12. whole' /\ total' = Unasked
  BY <1>5, <1>11 DEF NoRows
<1>13. shown' \subseteq 1 .. n => RowTypes'
  <2>1. ASSUME shown' \subseteq 1 .. n
        PROVE  shown' \subseteq 1 .. MaxRows
    BY <1>8, <2>1
  <2>2. QED
    BY <1>2, <1>11, <2>1, Zenon DEF RowTypes
<1>14. \A top : Below(parents, top) \subseteq 1 .. n
  BY <1>10, Zenon DEF Below
<1>15. CASE shown' = Below(parents, Roots(parents)) /\ Disconnect(0) /\ UNCHANGED trouble
  <2>1. (n <= PageSize \/ \A r \in 1 .. n : parents[r] >= 0) => parents = f
    <3>1. ASSUME \A r \in 1 .. n : parents[r] >= 0
          PROVE  parents = f
      <4>1. ASSUME NEW r \in 1 .. n
            PROVE  parents[r] = f[r]
        <5>1. f[r] \in 0 .. n /\ parents[r] \in {f[r], -f[r]} /\ parents[r] >= 0
          BY <1>7, <1>9, <3>1
        <5>2. QED
          BY <5>1, NoSign
      <4>2. QED
        BY <1>7, <1>9, <4>1
    <3>2. QED
      BY <1>7, <3>1
  <2>2. TreeWhole'
    <3>1. parents = f => shown' = 1 .. n
      BY <1>9, <1>15, Zenon
    <3>2. parents' = parents
      BY <1>11
    <3>3. QED
      BY <1>10, <2>1, <3>1, <3>2, Zenon DEF TreeWhole
  <2>3. 0 \in Int /\ 0 % 256 = 0
    OBVIOUS
  <2>4. trouble' = {} /\ trouble' \subseteq Troubles
    BY <1>5, <1>15
  <2>5. RowTypes'
    BY <1>13, <1>14, <1>15
  <2>6. QED
    BY <1>2, <1>3, <1>11, <1>12, <1>15, <2>2, <2>3, <2>4, <2>5, ListingEnds
<1>16. CASE /\ \E name \in DOMAIN parents : shown' = Below(parents, {name})
            /\ Disconnect(0) /\ trouble' = trouble \cup {"one resource"}
  <2>1. RowTypes'
    BY <1>13, <1>14, <1>16
  <2>2. trouble' = {"one resource"} /\ trouble' \subseteq Troubles
    BY <1>5, <1>16 DEF Troubles
  <2>3. TreeWhole'
    BY <2>2 DEF TreeWhole
  <2>4. 0 \in Int /\ 0 % 256 = 0
    OBVIOUS
  <2>5. QED
    BY <1>2, <1>3, <1>11, <1>12, <1>16, <2>1, <2>2, <2>3, <2>4, ListingEnds
<1>17. CASE Disconnect(1) /\ trouble' = trouble \cup {"absent"} /\ UNCHANGED shown
  <2>1. RowTypes'
    BY <1>5, <1>13, <1>17
  <2>2. trouble' \subseteq Troubles /\ trouble' \ {"stopped"} # {}
    BY <1>5, <1>17 DEF Troubles
  <2>3. 1 \in Int /\ 1 % 256 # 0
    OBVIOUS
  <2>4. QED
    BY <1>2, <1>3, <1>11, <1>12, <1>17, <2>1, <2>2, <2>3, ListingEnds
<1>18. QED
  BY <1>15, <1>16, <1>17 DEF DrawTree

LEMMA ListingStep ==
    ASSUME IInv, prog # "none", RunListing
    PROVE  IInv' /\ (exit' # Running => Properties')
<1>1. UNCHANGED avuVars
  BY DEF RunListing
<1>2. CASE CommonSteps(ListingPhases) /\ UNCHANGED listVars
  <2>1. prog \in DOMAIN ListingPhases => Script = ListingPhases[prog]
    BY Scripts DEF Script
  <2>2. QED
    BY <1>1, <1>2, <2>1, CommonStep
<1>3. CASE ListingSteps
  BY <1>1, <1>3, AskStep, FirstStep, ContinueStep, EndQueryStep, ProbeStep, DrawStep DEF ListingSteps
<1>4. QED
  BY <1>2, <1>3 DEF RunListing

---------------------------------------------------------------------------
(* imeta *)

LEMMA LargestOfFour ==
    ASSUME NEW T \in SUBSET (1 .. 4), T # {}
    PROVE  Max(T) \in T
<1>1. \E x \in T : \A y \in T : x >= y
  <2>1. CASE 4 \in T
    BY <2>1
  <2>2. CASE 4 \notin T /\ 3 \in T
    BY <2>2
  <2>3. CASE 4 \notin T /\ 3 \notin T /\ 2 \in T
    BY <2>3
  <2>4. CASE 4 \notin T /\ 3 \notin T /\ 2 \notin T
    <3>1. \A y \in T : y = 1
      BY <2>4
    <3>2. PICK x \in T : TRUE
      OBVIOUS
    <3>3. \A y \in T : x >= y
      BY <3>1, <3>2
    <3>4. QED
      BY <3>3
  <2>5. QED
    BY <2>1, <2>2, <2>3, <2>4
<1>2. QED
  BY <1>1 DEF Max

\* The argument with a label.
LEMMA LastOne ==
    ASSUME NEW k \in 1 .. 4, NEW args \in [1 .. k -> Argument], NEW label
    PROVE  \/ Last1(args, label) = <<>> /\ \A i \in 1 .. k : args[i].label # label
           \/ \E m \in 1 .. k : args[m].label = label /\ Last1(args, label) = <<args[m]>>
<1> DEFINE those == {i \in DOMAIN args : args[i].label = label}
<1>1. DOMAIN args = 1 .. k /\ 1 .. k \subseteq 1 .. 4
  OBVIOUS
<1>2. those \subseteq 1 .. 4 /\ those \subseteq 1 .. k
  BY <1>1
<1>3. Last1(args, label) = IF those = {} THEN <<>> ELSE <<args[Max(those)]>>
  BY Zenon DEF Last1
<1>4. \A i \in 1 .. k : i \in those <=> args[i].label = label
  BY <1>1
<1> HIDE DEF those
<1>5. CASE those = {}
  BY <1>3, <1>4, <1>5, Zenon
<1>6. CASE those # {}
  <2>1. Max(those) \in those
    BY <1>2, <1>6, LargestOfFour
  <2>2. Max(those) \in 1 .. k /\ args[Max(those)].label = label
    BY <1>2, <1>4, <2>1, Zenon
  <2>3. QED
    BY <1>3, <1>6, <2>2, Zenon
<1>7. QED
  BY <1>5, <1>6

LEMMA OneOf == \A T : (\E m : T = {m}) => Cardinality(T) = 1
  BY FS_Singleton

\* At most one of each, one after the other.
ThreeIn(w, p, q, r, x, y, z) ==
    /\ DOMAIN w = 1 .. x + y + z
    /\ \A i \in 1 .. x + y + z :
         /\ i <= x => w[i] = p
         /\ ~(i <= x) /\ i <= x + y => w[i] = q
         /\ ~(i <= x) /\ ~(i <= x + y) => w[i] = r

LEMMA ThreeParts ==
    ASSUME NEW S, NEW a \in Seq(S), NEW b \in Seq(S), NEW c \in Seq(S),
           Len(a) <= 1, Len(b) <= 1, Len(c) <= 1
    PROVE  ThreeIn((a \o b) \o c, a[1], b[1], c[1], Len(a), Len(b), Len(c))
<1> DEFINE u == a \o b
           w == u \o c
<1>1. /\ u \in Seq(S) /\ Len(u) = Len(a) + Len(b)
      /\ \A i \in 1 .. Len(a) + Len(b) : u[i] = IF i <= Len(a) THEN a[i] ELSE b[i - Len(a)]
  BY ConcatProperties
<1> HIDE DEF u
<1>2. /\ w \in Seq(S) /\ Len(w) = Len(u) + Len(c)
      /\ \A i \in 1 .. Len(u) + Len(c) : w[i] = IF i <= Len(u) THEN u[i] ELSE c[i - Len(u)]
  BY <1>1, ConcatProperties
<1> HIDE DEF w
<1>3. Len(a) \in {0, 1} /\ Len(b) \in {0, 1} /\ Len(c) \in {0, 1}
  <2>1. Len(a) \in Nat /\ Len(b) \in Nat /\ Len(c) \in Nat
    BY LenProperties
  <2>2. \A n \in Nat : n <= 1 => n \in {0, 1}
    OBVIOUS
  <2>3. QED
    BY <2>1, <2>2, Zenon
<1>4. DOMAIN w = 1 .. Len(a) + Len(b) + Len(c)
  <2>1. DOMAIN w = 1 .. Len(w)
    BY <1>2
  <2>2. QED
    BY <1>1, <1>2, <2>1
<1>5. ASSUME NEW i \in 1 .. Len(a) + Len(b) + Len(c)
      PROVE  /\ i <= Len(a) => w[i] = a[1]
             /\ ~(i <= Len(a)) /\ i <= Len(a) + Len(b) => w[i] = b[1]
             /\ ~(i <= Len(a)) /\ ~(i <= Len(a) + Len(b)) => w[i] = c[1]
  <2>1. CASE i <= Len(a)
    <3>1. i = 1 /\ i \in 1 .. Len(u) /\ i <= Len(u) /\ i \in 1 .. Len(u) + Len(c)
      BY <1>1, <1>3, <2>1
    <3>2. w[i] = u[i] /\ u[i] = a[i]
      BY <1>1, <1>2, <2>1, <3>1
    <3>3. QED
      BY <2>1, <3>1, <3>2
  <2>2. CASE ~(i <= Len(a)) /\ i <= Len(a) + Len(b)
    <3>1. i - Len(a) = 1 /\ i \in 1 .. Len(a) + Len(b) /\ i <= Len(u) /\ i \in 1 .. Len(u) + Len(c)
      BY <1>1, <1>3, <2>2
    <3>2. w[i] = u[i] /\ u[i] = b[i - Len(a)]
      BY <1>1, <1>2, <2>2, <3>1
    <3>3. QED
      BY <2>2, <3>1, <3>2
  <2>3. CASE ~(i <= Len(a)) /\ ~(i <= Len(a) + Len(b))
    <3>1. i - Len(u) = 1 /\ ~(i <= Len(u)) /\ i \in 1 .. Len(u) + Len(c)
      BY <1>1, <1>3, <2>3
    <3>2. w[i] = c[i - Len(u)]
      BY <1>2, <3>1
    <3>3. QED
      BY <2>3, <3>1, <3>2
  <2>4. QED
    BY <2>1, <2>2, <2>3
<1>6. QED
  BY <1>4, <1>5 DEF w, u, ThreeIn

\* What the typed arguments are, and what is to hold for those of the call.
SortedIs(args, k, new, a, b, c) ==
    /\ \A i, m \in 1 .. k : args[i].label = args[m].label /\ args[i].label # "none" => i = m
    /\ Len(a) \in {0, 1} /\ Len(b) \in {0, 1} /\ Len(c) \in {0, 1}
    /\ Len(a) = 0 => \A i \in 1 .. k : args[i].label # "n"
    /\ Len(a) = 1 => \E m \in 1 .. k : args[m].label = "n" /\ a[1] = args[m]
    /\ Len(b) = 0 => \A i \in 1 .. k : args[i].label # "v"
    /\ Len(b) = 1 => \E m \in 1 .. k : args[m].label = "v" /\ b[1] = args[m]
    /\ Len(c) = 0 => \A i \in 1 .. k : args[i].label # "u"
    /\ Len(c) = 1 => \E m \in 1 .. k : args[m].label = "u" /\ c[1] = args[m]
    /\ ThreeIn(new, a[1], b[1], c[1], Len(a), Len(b), Len(c))

Means(args, k, new) ==
    /\ \A i \in 1 .. k : args[i].label # "none" =>
         Cardinality({j \in DOMAIN new : new[j] = args[i]}) = 1
    /\ \A j \in DOMAIN new : \E i \in 1 .. k : new[j] = args[i]
    /\ \A j, l \in DOMAIN new :
         j < l => <<new[j].label, new[l].label>> \in {<<"n", "v">>, <<"n", "u">>, <<"v", "u">>}

\* The arguments with a label, in their order.
LEMMA Sorted ==
    ASSUME NEW k \in 1 .. 4, NEW args \in [1 .. k -> Argument], NEW new,
           NEW a \in Seq(Argument), NEW b \in Seq(Argument), NEW c \in Seq(Argument),
           SortedIs(args, k, new, a, b, c)
    PROVE  Means(args, k, new)
<1> DEFINE x == Len(a)
           y == Len(b)
           z == Len(c)
<1>6. \A i \in 1 .. k : args[i].label \in {"n", "v", "u", "none"}
  BY DEF Argument
<1>7. /\ DOMAIN new = 1 .. x + y + z
      /\ \A i \in 1 .. x + y + z :
           /\ i <= x => new[i] = a[1]
           /\ ~(i <= x) /\ i <= x + y => new[i] = b[1]
           /\ ~(i <= x) /\ ~(i <= x + y) => new[i] = c[1]
  BY DEF ThreeIn, SortedIs
<1>8. x \in {0, 1} /\ y \in {0, 1} /\ z \in {0, 1}
  BY DEF SortedIs
<1>9. /\ x = 1 => a[1].label = "n" /\ \E i \in 1 .. k : a[1] = args[i]
      /\ y = 1 => b[1].label = "v" /\ \E i \in 1 .. k : b[1] = args[i]
      /\ z = 1 => c[1].label = "u" /\ \E i \in 1 .. k : c[1] = args[i]
  BY DEF SortedIs
<1>10. \A i \in 1 .. k :
         /\ args[i].label = "n" => x = 1 /\ a[1] = args[i]
         /\ args[i].label = "v" => y = 1 /\ b[1] = args[i]
         /\ args[i].label = "u" => z = 1 /\ c[1] = args[i]
  BY <1>8 DEF SortedIs
<1> HIDE DEF x, y, z
<1>11. \A j \in DOMAIN new :
         \/ j <= x /\ j = 1 /\ x = 1 /\ new[j] = a[1]
         \/ j > x /\ j = x + 1 /\ y = 1 /\ new[j] = b[1]
         \/ j > x + y /\ j = x + y + 1 /\ z = 1 /\ new[j] = c[1]
  BY <1>7, <1>8
<1>12. /\ x = 1 => 1 \in DOMAIN new
       /\ y = 1 => x + 1 \in DOMAIN new
       /\ z = 1 => x + y + 1 \in DOMAIN new
  BY <1>7, <1>8
<1>13. /\ x = 1 => new[1] = a[1]
       /\ y = 1 => new[x + 1] = b[1]
       /\ z = 1 => new[x + y + 1] = c[1]
  BY <1>7, <1>8
<1>14. ASSUME NEW i \in 1 .. k, args[i].label # "none"
       PROVE  Cardinality({j \in DOMAIN new : new[j] = args[i]}) = 1
  <2>1. \E m : {j \in DOMAIN new : new[j] = args[i]} = {m}
    <3>1. CASE args[i].label = "n"
      <4>1. x = 1 /\ a[1] = args[i]
        BY <1>10, <3>1
      <4>2. \A j \in DOMAIN new : new[j] = args[i] => j = 1
        BY <1>9, <1>11, <3>1
      <4>3. {j \in DOMAIN new : new[j] = args[i]} = {1}
        BY <1>12, <1>13, <4>1, <4>2
      <4>4. QED
        BY <4>3
    <3>2. CASE args[i].label = "v"
      <4>1. y = 1 /\ b[1] = args[i]
        BY <1>10, <3>2
      <4>2. \A j \in DOMAIN new : new[j] = args[i] => j = x + 1
        BY <1>9, <1>11, <3>2
      <4>3. {j \in DOMAIN new : new[j] = args[i]} = {x + 1}
        BY <1>12, <1>13, <4>1, <4>2
      <4>4. QED
        BY <4>3
    <3>3. CASE args[i].label = "u"
      <4>1. z = 1 /\ c[1] = args[i]
        BY <1>10, <3>3
      <4>2. \A j \in DOMAIN new : new[j] = args[i] => j = x + y + 1
        BY <1>9, <1>11, <3>3
      <4>3. {j \in DOMAIN new : new[j] = args[i]} = {x + y + 1}
        BY <1>12, <1>13, <4>1, <4>2
      <4>4. QED
        BY <4>3
    <3>4. QED
      BY <1>6, <1>14, <3>1, <3>2, <3>3
  <2>2. QED
    BY <2>1, OneOf, Zenon
<1>15. \A j \in DOMAIN new : \E i \in 1 .. k : new[j] = args[i]
  BY <1>9, <1>11
<1>16. ASSUME NEW j \in DOMAIN new, NEW l \in DOMAIN new, j < l
       PROVE  <<new[j].label, new[l].label>> \in {<<"n", "v">>, <<"n", "u">>, <<"v", "u">>}
  <2>1. \/ new[j].label = "n" /\ j = 1 /\ x = 1
        \/ new[j].label = "v" /\ j = x + 1 /\ y = 1
        \/ new[j].label = "u" /\ j = x + y + 1 /\ z = 1
    BY <1>9, <1>11
  <2>2. \/ new[l].label = "n" /\ l = 1 /\ x = 1
        \/ new[l].label = "v" /\ l = x + 1 /\ y = 1
        \/ new[l].label = "u" /\ l = x + y + 1 /\ z = 1
    BY <1>9, <1>11
  <2>3. \/ new[j].label = "n" /\ new[l].label = "v"
        \/ new[j].label = "n" /\ new[l].label = "u"
        \/ new[j].label = "v" /\ new[l].label = "u"
    BY <1>8, <1>16, <2>1, <2>2
  <2>4. QED
    BY <2>3, Zenon
<1>17. QED
  BY <1>14, <1>15, <1>16, Zenon DEF Means

\* What the call of mod is given, in terms of what was typed.
LEMMA Reordered ==
    ASSUME NEW k \in 1 .. 4, NEW args \in [1 .. k -> Argument], ~Repeated(args),
           NEW new, new = ReorderArguments(Last1(args, "n"), Last1(args, "v"), Last1(args, "u"))
    PROVE  Means(args, k, new)
<1> DEFINE a == Last1(args, "n")
           b == Last1(args, "v")
           c == Last1(args, "u")
<1>1. \A label : \A s : s = Last1(args, label) =>
         /\ s \in Seq(Argument) /\ Len(s) \in {0, 1}
         /\ Len(s) = 0 => \A i \in 1 .. k : args[i].label # label
         /\ Len(s) = 1 => \E m \in 1 .. k : args[m].label = label /\ s[1] = args[m]
  <2>1. SUFFICES ASSUME NEW label, NEW s, s = Last1(args, label)
                 PROVE  /\ s \in Seq(Argument) /\ Len(s) \in {0, 1}
                        /\ Len(s) = 0 => \A i \in 1 .. k : args[i].label # label
                        /\ Len(s) = 1 => \E m \in 1 .. k : args[m].label = label /\ s[1] = args[m]
    OBVIOUS
  <2>2. CASE s = <<>> /\ \A i \in 1 .. k : args[i].label # label
    BY <2>2
  <2>3. ASSUME NEW m \in 1 .. k, args[m].label = label, s = <<args[m]>>
        PROVE  s \in Seq(Argument) /\ Len(s) = 1 /\ s[1] = args[m]
    BY <2>3
  <2>4. \/ Last1(args, label) = <<>> /\ \A i \in 1 .. k : args[i].label # label
        \/ \E m \in 1 .. k : args[m].label = label /\ Last1(args, label) = <<args[m]>>
    BY LastOne, Zenon
  <2>5. CASE \E m \in 1 .. k : args[m].label = label /\ s = <<args[m]>>
    BY <2>3, <2>5
  <2>6. QED
    BY <2>1, <2>2, <2>4, <2>5, Zenon
<1>2. /\ a \in Seq(Argument) /\ Len(a) \in {0, 1}
      /\ Len(a) = 0 => \A i \in 1 .. k : args[i].label # "n"
      /\ Len(a) = 1 => \E m \in 1 .. k : args[m].label = "n" /\ a[1] = args[m]
  BY <1>1
<1>3. /\ b \in Seq(Argument) /\ Len(b) \in {0, 1}
      /\ Len(b) = 0 => \A i \in 1 .. k : args[i].label # "v"
      /\ Len(b) = 1 => \E m \in 1 .. k : args[m].label = "v" /\ b[1] = args[m]
  BY <1>1
<1>4. /\ c \in Seq(Argument) /\ Len(c) \in {0, 1}
      /\ Len(c) = 0 => \A i \in 1 .. k : args[i].label # "u"
      /\ Len(c) = 1 => \E m \in 1 .. k : args[m].label = "u" /\ c[1] = args[m]
  BY <1>1
<1>5. \A i, m \in 1 .. k : args[i].label = args[m].label /\ args[i].label # "none" => i = m
  <2>1. DOMAIN args = 1 .. k
    OBVIOUS
  <2>2. \A i, m \in 1 .. k : ~(i < m) /\ ~(m < i) => i = m
    OBVIOUS
  <2>3. \A i, m \in 1 .. k : i < m => ~(args[i].label = args[m].label /\ args[i].label # "none")
    BY <2>1, Zenon DEF Repeated
  <2>4. QED
    BY <2>2, <2>3, Zenon
<1>6. new = (a \o b) \o c
  BY DEF ReorderArguments
<1> HIDE DEF a, b, c
<1>7. \A p, q, r \in Seq(Argument) : Len(p) <= 1 /\ Len(q) <= 1 /\ Len(r) <= 1 =>
         ThreeIn((p \o q) \o r, p[1], q[1], r[1], Len(p), Len(q), Len(r))
  BY ThreeParts, Zenon
<1>8. ThreeIn(new, a[1], b[1], c[1], Len(a), Len(b), Len(c))
  <2> DEFINE Few(n) == n \in {0, 1} => n <= 1
  <2>0. \A n : Few(n)
    OBVIOUS
  <2>1. Len(a) <= 1 /\ Len(b) <= 1 /\ Len(c) <= 1
    BY <1>2, <1>3, <1>4, <2>0, Zenon
  <2>2. a \in Seq(Argument) /\ b \in Seq(Argument) /\ c \in Seq(Argument)
    BY <1>2, <1>3, <1>4
  <2>3. ThreeIn((a \o b) \o c, a[1], b[1], c[1], Len(a), Len(b), Len(c))
    BY <1>7, <2>1, <2>2, Zenon
  <2>4. QED
    BY <1>6, <2>3
<1>9. \A p, q, r \in Seq(Argument) :
         SortedIs(args, k, new, p, q, r) => Means(args, k, new)
  BY Sorted, Zenon
<1>10. SortedIs(args, k, new, a, b, c)
  BY <1>2, <1>3, <1>4, <1>5, <1>8, Zenon DEF SortedIs
<1>11. QED
  BY <1>2, <1>3, <1>4, <1>9, <1>10, Zenon

---------------------------------------------------------------------------
(* The steps of imeta *)

LEMMA CommandPhase ==
    ASSUME IInv, In(ImetaPhases, "command")
    PROVE  /\ prog = "imeta" /\ exit = Running /\ Kind = "command" /\ RunInv
           /\ RunTypes /\ WorkTypes /\ RowTypes /\ AvuTypes
<1>1. exit = Running /\ prog \in DOMAIN ImetaPhases /\ ImetaPhases[prog][at].is = "command"
  BY DEF In
<1>2. prog = "imeta" /\ prog # "none"
  BY <1>1, Disjoint
<1>3. Kind = "command"
  BY <1>1, Scripts DEF Kind, Script
<1>4. QED
  BY <1>1, <1>2, <1>3, Types DEF IInv

\* The command is over: refused, carried out, or failed.
LEMMA ImetaEnds ==
    ASSUME IInv, In(ImetaPhases, "command"), NEW s \in {0, 4}, Disconnect(s),
           UNCHANGED listVars,
           done' \in {{}, {1}}, failed' \in {{}, {1}}, trouble' \in {{}, {"refused"}},
           s = 0 => done' = {1} /\ failed' = {},
           s = 4 => failed' = {1} \/ trouble' = {"refused"},
           AvuTypes', ModMeansArguments'
    PROVE  IInv' /\ Properties'
<1>1. /\ prog = "imeta" /\ exit = Running /\ Kind = "command" /\ RunInv
      /\ RunTypes /\ WorkTypes /\ RowTypes /\ AvuTypes
  BY CommandPhase
<1>2. /\ prog # "none" /\ prog \notin DOMAIN OneCallPhases /\ prog \notin DOMAIN ListingPhases
      /\ prog \in Programs /\ "imeta" \notin DOMAIN OneCallPhases
  BY <1>1, Disjoint DEF Programs, ImetaPhases
<1>3. s \in Int /\ s % 256 = s
  OBVIOUS
<1>4. /\ exit' = s % 256 /\ exit' \in 0 .. 255 /\ exit' # Running
      /\ UNCHANGED <<prog, at, public, written, paths, login>>
      /\ conn' \in {conn, "closed"}
  BY <1>1, <1>3, EndStep
<1>5. prog' = "imeta" /\ exit' = s
  BY <1>1, <1>3, <1>4
<1>6. 1 \in 1 .. MaxPaths
  BY PathsAssumption
<1>7. WorkTypes'
  BY <1>6 DEF WorkTypes
<1>8. RowTypes'
  BY <1>1, Types
<1>9. IInv'
  BY <1>2, <1>3, <1>7, <1>8, EndInv
<1>10. Targets' = {1}
  <2>1. paths = <<"request">>
    BY <1>1 DEF RunInv, PathsInv
  <2>2. DOMAIN <<"request">> = {1}
    OBVIOUS
  <2>3. paths' = <<"request">> /\ prog' # "irsync"
    BY <1>4, <1>5, <2>1
  <2>4. QED
    BY <2>2, <2>3 DEF Targets
<1>11. RequestTells'
  BY <1>5, <1>10 DEF RequestTells
<1>12. RefusalsDoNothing' /\ ChangedUpToFailure' /\ SyncAsWritten'
  BY <1>2, <1>5, Zenon DEF RefusalsDoNothing, ChangedUpToFailure, SyncAsWritten
<1>13. ListingTells' /\ ListsAll'
  BY <1>5, NoListing
<1>14. OnlyWithLogin'
  <2>1. Allowed
    BY <1>1 DEF RunInv, ConnInv, CallKinds
  <2>2. QED
    BY <1>4, <2>1 DEF OnlyWithLogin, Allowed
<1>15. FailureHasCause'
  BY <1>5, <1>3 DEF FailureHasCause
<1>16. QED
  BY <1>4, <1>9, <1>11, <1>12, <1>13, <1>14, <1>15 DEF Properties, SuccessTells

\* What a command may do.
LEMMA CommandOutcome ==
    ASSUME IInv, In(ImetaPhases, "command"), UNCHANGED listVars, AvuTypes', ModMeansArguments',
           Refuse \/ ModAVUMetadata
    PROVE  IInv' /\ Properties'
<1>1. RunInv /\ Kind = "command"
  BY CommandPhase
<1>2. done = {} /\ failed = {} /\ trouble = {}
  BY <1>1 DEF RunInv, WorkInv, ListKinds
<1>3. 0 \in {0, 4} /\ 4 \in {0, 4} /\ 0 # 4
  OBVIOUS
<1>4. CASE Refuse
  <2>1. Disconnect(4) /\ trouble' = {"refused"} /\ done' = {} /\ failed' = {}
    BY <1>2, <1>4 DEF Refuse
  <2>2. QED
    BY <1>3, <2>1, ImetaEnds
<1>5. CASE ModAVUMetadata
  <2>1. trouble' = {}
    BY <1>2, <1>5 DEF ModAVUMetadata
  <2>2. CASE done' = {1} /\ failed' = {} /\ Disconnect(0)
    BY <1>3, <2>1, <2>2, ImetaEnds
  <2>3. CASE done' \in {{}, {1}} /\ failed' = {1} /\ Disconnect(4)
    BY <1>3, <2>1, <2>3, ImetaEnds
  <2>4. QED
    BY <1>5, <2>2, <2>3 DEF ModAVUMetadata
<1>6. QED
  BY <1>4, <1>5

LEMMA DoCommandStep ==
    ASSUME IInv, DoCommand, UNCHANGED listVars
    PROVE  IInv' /\ Properties'
<1>1. /\ In(ImetaPhases, "command") /\ UNCHANGED given /\ UNCHANGED sent
      /\ Refuse \/ ModAVUMetadata
  BY DEF DoCommand, Refuse
<1>2. AvuTypes /\ sent = NoCall
  BY <1>1, CommandPhase DEF RunInv, WorkInv
<1>3. AvuTypes' /\ ModMeansArguments'
  BY <1>1, <1>2, Types DEF ModMeansArguments, avuVars
<1>4. QED
  BY <1>1, <1>3, CommandOutcome

\* The old units are the one argument without a label.
LEMMA OldUnits ==
    ASSUME NEW k \in 1 .. 4, NEW args \in [1 .. k -> Argument],
           NEW i \in 1 .. k
    PROVE  args[i].label = "none" /\ (\A j \in 1 .. k : j # i => args[j].label # "none")
             => Last1(args, "none") = <<args[i]>>
<1>1. \/ Last1(args, "none") = <<>> /\ \A m \in 1 .. k : args[m].label # "none"
      \/ \E m \in 1 .. k : args[m].label = "none" /\ Last1(args, "none") = <<args[m]>>
  BY LastOne, Zenon
<1>2. SUFFICES ASSUME args[i].label = "none", \A j \in 1 .. k : j # i => args[j].label # "none"
               PROVE  Last1(args, "none") = <<args[i]>>
  OBVIOUS
<1>3. PICK m \in 1 .. k : args[m].label = "none" /\ Last1(args, "none") = <<args[m]>>
  BY <1>1, <1>2, Zenon
<1>4. m = i
  BY <1>2, <1>3, Zenon
<1>5. QED
  BY <1>3, <1>4

LEMMA SentMeans ==
    ASSUME NEW k \in 1 .. 4, given' \in [1 .. k -> Argument], ~Repeated(given'),
           sent' = [units |-> Last1(given', "none"),
                    new |-> ReorderArguments(Last1(given', "n"), Last1(given', "v"), Last1(given', "u"))]
    PROVE  ModMeansArguments' /\ AvuTypes'
<1>1. \A args \in [1 .. k -> Argument] : \A new :
         ~Repeated(args) /\ new = ReorderArguments(Last1(args, "n"), Last1(args, "v"), Last1(args, "u")) =>
           Means(args, k, new)
  BY Reordered, Zenon
<1>2. \A args \in [1 .. k -> Argument] : \A i \in 1 .. k :
         args[i].label = "none" /\ (\A j \in 1 .. k : j # i => args[j].label # "none") =>
           Last1(args, "none") = <<args[i]>>
  BY OldUnits, Zenon
<1> DEFINE args == given'
           new == ReorderArguments(Last1(args, "n"), Last1(args, "v"), Last1(args, "u"))
           units == Last1(args, "none")
<1>3. args \in [1 .. k -> Argument] /\ DOMAIN args = 1 .. k
  OBVIOUS
<1>4. Means(args, k, new)
  BY <1>1, <1>3, Zenon
<1>5. \A i \in 1 .. k :
        args[i].label = "none" /\ (\A j \in 1 .. k : j # i => args[j].label # "none") => units = <<args[i]>>
  BY <1>2, <1>3, Zenon
<1> HIDE DEF new, units
<1>6. sent' = [units |-> units, new |-> new]
  BY Zenon DEF units, new
<1>7. sent'.units = units /\ sent'.new = new /\ DOMAIN sent' = {"units", "new"}
  BY <1>6
<1>8. AvuTypes'
  BY <1>3, <1>7 DEF AvuTypes
<1>9. /\ \A i \in 1 .. k : args[i].label # "none" => Cardinality({j \in DOMAIN new : new[j] = args[i]}) = 1
      /\ \A j \in DOMAIN new : \E i \in 1 .. k : new[j] = args[i]
      /\ \A j, l \in DOMAIN new :
           j < l => <<new[j].label, new[l].label>> \in {<<"n", "v">>, <<"n", "u">>, <<"v", "u">>}
  BY <1>4, Zenon DEF Means
<1>10. Range(new) \subseteq Range(args)
  <2>1. \A j \in DOMAIN new : new[j] \in Range(args)
    BY <1>3, <1>9 DEF Range
  <2>2. QED
    BY <2>1, Zenon DEF Range
<1>11. ModMeansArguments'
  <2> DEFINE call == sent'
  <2>0. call.new = new /\ call.units = units /\ DOMAIN args = 1 .. k
    BY <1>3, <1>7
  <2> HIDE DEF args, call
  <2>1. /\ \A i \in DOMAIN args : args[i].label # "none" => Cardinality({j \in DOMAIN call.new : call.new[j] = args[i]}) = 1
        /\ Range(call.new) \subseteq Range(args)
        /\ \A j, l \in DOMAIN call.new :
             j < l => <<call.new[j].label, call.new[l].label>> \in {<<"n", "v">>, <<"n", "u">>, <<"v", "u">>}
        /\ \A i \in DOMAIN args :
             args[i].label = "none" /\ (\A j \in DOMAIN args : j # i => args[j].label # "none") =>
               call.units = <<args[i]>>
    BY <1>5, <1>9, <1>10, <2>0
  <2>2. QED
    BY <2>1, Zenon DEF ModMeansArguments, args, call
<1>12. QED
  BY <1>8, <1>11

LEMMA DoModStep ==
    ASSUME IInv, DoMod, UNCHANGED listVars
    PROVE  IInv' /\ Properties'
<1>1. In(ImetaPhases, "command")
  BY DEF DoMod
<1>2. PICK words \in Mod : given' \in [1 .. words - 4 -> Argument]
  BY DEF DoMod
<1>3. words - 4 \in 1 .. 4
  BY <1>2 DEF Mod
<1>4. CASE Refuse
  <2>1. AvuTypes /\ sent' = NoCall
    BY <1>1, <1>4, CommandPhase DEF RunInv, WorkInv, Refuse
  <2>2. ModMeansArguments'
    BY <2>1 DEF ModMeansArguments
  <2>3. \A i \in DOMAIN given' : given'[i] \in Argument
    BY <1>2
  <2>4. AvuTypes'
    BY <2>1, <2>3 DEF AvuTypes, NoCall
  <2>5. QED
    BY <1>1, <1>4, <2>2, <2>4, CommandOutcome
<1>5. CASE /\ ~Repeated(given')
           /\ sent' = [units |-> Last1(given', "none"),
                       new |-> ReorderArguments(Last1(given', "n"), Last1(given', "v"), Last1(given', "u"))]
           /\ ModAVUMetadata
  <2>1. ModMeansArguments' /\ AvuTypes'
    BY <1>2, <1>3, <1>5, SentMeans, Zenon
  <2>2. QED
    BY <1>1, <1>5, <2>1, CommandOutcome
<1>6. QED
  BY <1>4, <1>5, Zenon DEF DoMod

LEMMA ImetaStep ==
    ASSUME IInv, prog # "none", RunImeta
    PROVE  IInv' /\ (exit' # Running => Properties')
<1>1. UNCHANGED listVars
  BY DEF RunImeta
<1>2. CASE CommonSteps(ImetaPhases) /\ UNCHANGED avuVars
  <2>1. prog \in DOMAIN ImetaPhases => Script = ImetaPhases[prog]
    BY Scripts DEF Script
  <2>2. QED
    BY <1>1, <1>2, <2>1, CommonStep
<1>3. CASE ImetaSteps
  BY <1>1, <1>3, DoCommandStep, DoModStep DEF ImetaSteps
<1>4. QED
  BY <1>2, <1>3 DEF RunImeta

---------------------------------------------------------------------------
(* Every step keeps the invariant *)

LEMMA OnlyRunning ==
    /\ RunOneCall => exit = Running /\ prog \in DOMAIN OneCallPhases
    /\ RunListing => exit = Running /\ prog \in DOMAIN ListingPhases
    /\ RunImeta => exit = Running /\ prog \in DOMAIN ImetaPhases
<1>1. ASSUME NEW phases, CommonSteps(phases)
      PROVE  exit = Running /\ prog \in DOMAIN phases
  BY <1>1, Zenon DEF CommonSteps, ParseOptions, CheckLocally, ReadEnvironment, TakeSources, OpenConnection,
       LogIn, SkipLogin, ReturnStatus, CheckLate, In
<1>2. OneCallSteps => exit = Running /\ prog \in DOMAIN OneCallPhases
  BY Zenon DEF OneCallSteps, TakeSyncSources, CallUtil, CallUtilRaw, CallUtilByCause, CallUtilLeft, NextPath, In
<1>3. ListingSteps => exit = Running /\ prog \in DOMAIN ListingPhases
  BY Zenon DEF ListingSteps, AskQuery, TakeFirst, Continue, EndQuery, AskProbe, DrawTree, In
<1>4. ImetaSteps => exit = Running /\ prog \in DOMAIN ImetaPhases
  BY Zenon DEF ImetaSteps, DoCommand, DoMod, In
<1>5. QED
  BY <1>1, <1>2, <1>3, <1>4, Zenon DEF RunOneCall, RunListing, RunImeta

\* A program that runs, and the state before any is started.
Active == prog # "none" /\ exit = Running
Unstarted == prog = "none"

LEMMA NextStep ==
    ASSUME IInv, Next
    PROVE  IInv' /\ (Active' \/ Unstarted' \/ Properties')
<1>1. CASE Begin(Programs) /\ UNCHANGED listVars /\ UNCHANGED avuVars
  BY <1>1, BeginStep DEF Active
<1>2. CASE RunOneCall \/ RunListing \/ RunImeta
  <2>1. prog # "none" /\ exit = Running
    BY <1>2, OnlyRunning, Disjoint DEF Programs
  <2>2. IInv' /\ (exit' # Running => Properties')
    BY <1>2, <2>1, OneCallStep, ListingStep, ImetaStep
  <2>3. QED
    BY <2>2 DEF Active, Unstarted
<1>3. QED
  BY <1>1, <1>2 DEF Next

LEMMA TypesStutter ==
    ASSUME TypeOK, UNCHANGED vars
    PROVE  TypeOK'
<1>1. UNCHANGED runVars /\ UNCHANGED historyVars /\ UNCHANGED listVars /\ UNCHANGED avuVars
  BY Zenon DEF vars
<1>2. RunTypes'
  <2>1. UNCHANGED <<prog, at, public, written, paths, conn, login, exit>>
    BY <1>1 DEF runVars
  <2>2. RunTypes
    BY Types
  <2>3. QED
    <3>1. \A list \in {written', paths'} :
            /\ Len(list) <= MaxPaths + 1
            /\ \A i \in DOMAIN list : list[i] \in {"request", "path", "local", "remote"}
      BY <2>1, <2>2, Zenon DEF RunTypes
    <3>2. public' \in BOOLEAN /\ login' \in BOOLEAN
      BY <2>1, <2>2, Zenon DEF RunTypes
    <3>3. QED
      BY <2>1, <2>2, <3>1, <3>2 DEF RunTypes
<1>3. WorkTypes' /\ RowTypes' /\ AvuTypes'
  BY <1>1, Types
<1>4. QED
  BY <1>2, <1>3, Types

LEMMA InvStutter ==
    ASSUME IInv, UNCHANGED vars
    PROVE  IInv'
<1>1. /\ UNCHANGED <<prog, at, public, written, paths, conn, login, exit>>
      /\ UNCHANGED <<done, failed, trouble>>
      /\ UNCHANGED <<total, printed, more, whole, parents, shown>> /\ UNCHANGED <<given, sent>>
  BY DEF vars, runVars, historyVars, listVars, avuVars, rowVars
<1>2. TypeOK'
  BY TypesStutter DEF IInv
<1>3. Idle => Idle'
  BY <1>1, Zenon DEF Idle
<1>4. Script' = Script /\ Kind' = Kind
  BY <1>1, Zenon DEF Script, Kind
<1>5. ConnInv => ConnInv'
  BY <1>1, <1>4, Zenon DEF ConnInv, Allowed
<1>6. WorkInv => WorkInv'
  BY <1>1, <1>4, Zenon DEF WorkInv
<1>7. RowsInv => RowsInv'
  BY <1>1, <1>4, Zenon DEF RowsInv, NoRows, SomeRows
<1>8. TreeInv => TreeInv'
  <2>1. Hierarchy(FALSE) => Hierarchy(FALSE)'
    BY <1>1, Zenon DEF Hierarchy
  <2>2. Hierarchy(printed = 0) => Hierarchy(printed = 0)'
    BY <1>1 DEF Hierarchy
  <2>3. QED
    BY <1>1, <1>4, <2>1, <2>2, Zenon DEF TreeInv
<1>9. PathsInv => PathsInv'
  <2>1. Targets' = Targets
    BY <1>1, Zenon DEF Targets
  <2>2. SyncInv => SyncInv'
    BY <1>1, <2>1, Zenon DEF SyncInv
  <2>3. QED
    BY <1>1, <2>2 DEF PathsInv
<1>10. QED
  BY <1>1, <1>2, <1>3, <1>4, <1>5, <1>6, <1>7, <1>8, <1>9, Zenon DEF IInv, RunInv

LEMMA PropertiesStutter ==
    ASSUME Properties, UNCHANGED vars
    PROVE  Properties'
<1>1. /\ UNCHANGED <<prog, at, public, written, paths, conn, login, exit>>
      /\ UNCHANGED <<done, failed, trouble>>
      /\ UNCHANGED <<total, printed, more, whole, parents, shown>> /\ UNCHANGED <<given, sent>>
  BY DEF vars, runVars, historyVars, listVars, avuVars, rowVars
<1>2. SuccessTells'
  BY <1>1, Zenon DEF Properties, SuccessTells, RequestTells, ListingTells, Targets
<1>3. RefusalsDoNothing'
  BY <1>1, Zenon DEF Properties, RefusalsDoNothing
<1>4. ChangedUpToFailure'
  BY <1>1, Zenon DEF Properties, ChangedUpToFailure
<1>5. OnlyWithLogin'
  BY <1>1, Zenon DEF Properties, OnlyWithLogin
<1>6. SyncAsWritten'
  BY <1>1, Zenon DEF Properties, SyncAsWritten, Targets
<1>7. FailureHasCause'
  BY <1>1, Zenon DEF Properties, FailureHasCause, EndOfFullPage
<1>8. ListsAll'
  BY <1>1, Zenon DEF Properties, ListsAll, RowsAll, TreeWhole
<1>9. ModMeansArguments'
  BY <1>1, Zenon DEF Properties, ModMeansArguments
<1>10. QED
  BY <1>2, <1>3, <1>4, <1>5, <1>6, <1>7, <1>8, <1>9 DEF Properties

LEMMA Invariance == Spec => [](IInv /\ Properties)
<1>1. Init => IInv /\ Unstarted
  BY InitInv DEF Init, Unstarted
<1>2. IInv /\ Unstarted => Properties
  BY IdleProperties DEF Unstarted
<1>3. IInv /\ Active => Properties
  BY RunningProperties DEF Active
<1>4. IInv /\ Next => IInv' /\ (Active' \/ Unstarted' \/ Properties')
  BY NextStep
<1>5. IInv /\ Properties /\ UNCHANGED vars => IInv' /\ Properties'
  BY InvStutter, PropertiesStutter
<1>6. IInv /\ Properties /\ [Next]_vars => IInv' /\ (Active' \/ Unstarted' \/ Properties')
  BY <1>4, <1>5
<1>7. QED
  BY <1>1, <1>2, <1>3, <1>6, PTL DEF Spec

---------------------------------------------------------------------------
(* Theorems *)

\* The state of a run has its types: a path list within the bound of the command
\* line, an exit status the operating system can pass on, rows within the result.
THEOREM TypeCorrect == Spec => []TypeOK
<1>1. IInv /\ Properties => TypeOK
  BY DEF IInv
<1>2. QED
  BY <1>1, Invariance, PTL

\* Exit status 0 of a program whose status can be relied on means that the request
\* was carried out for every source and that no failure was reported, and for iquest
\* and ilsresc that nothing was missing and no page failed.
THEOREM StatusZeroIsSuccess == Spec => []SuccessTells
<1>1. IInv /\ Properties => SuccessTells
  BY DEF Properties
<1>2. QED
  BY <1>1, Invariance, PTL

\* Exit statuses 1 and 2 (command line, environment, connection) mean that no
\* source was touched, and 7 (login) that none was carried out.
THEOREM RefusedMeansUntouched == Spec => []RefusalsDoNothing
<1>1. IInv /\ Properties => RefusalsDoNothing
  BY DEF Properties
<1>2. QED
  BY <1>1, Invariance, PTL

\* ichmod carries out the paths in the order of the command line and none after
\* the first that fails, so that a caller can go on from there.
THEOREM FirstFailureStops == Spec => []ChangedUpToFailure
<1>1. IInv /\ Properties => ChangedUpToFailure
  BY DEF Properties
<1>2. QED
  BY <1>1, Invariance, PTL

\* No program asks the server for anything before its login, but those that
\* serve the anonymous user or need none.
THEOREM LoginFirst == Spec => []OnlyWithLogin
<1>1. IInv /\ Properties => OnlyWithLogin
  BY DEF Properties
<1>2. QED
  BY <1>1, Invariance, PTL

\* irsync hands the sources of one kind on as they were written and never two
\* local sides, whatever the number of sources (the loop keeps the type of one).
THEOREM SyncPrefixes == Spec => []SyncAsWritten
<1>1. IInv /\ Properties => SyncAsWritten
  BY DEF Properties
<1>2. QED
  BY <1>1, Invariance, PTL

\* A status other than 0 after the login has a reason: a refusal, a failed call,
\* something missing, or the last page of a result that ends with a full page.
THEOREM StatusHasReason == Spec => []FailureHasCause
<1>1. IInv /\ Properties => FailureHasCause
  BY DEF Properties
<1>2. QED
  BY <1>1, Invariance, PTL

\* A listing that ends with 0, unstopped and without an error, printed every row
\* of its last query whatever the page size, and ilsresc drew every resource of
\* the zone, in whatever order and by ids or names the pages gave the parents.
THEOREM ListingsComplete == Spec => []ListsAll
<1>1. IInv /\ Properties => ListsAll
  BY DEF Properties
<1>2. QED
  BY <1>1, Invariance, PTL

\* imeta mod sends every labelled argument exactly once, name before value before
\* units, whatever the order and number typed, and the unlabelled one as old units.
THEOREM ModReordered == Spec => []ModMeansArguments
<1>1. IInv /\ Properties => ModMeansArguments
  BY DEF Properties
<1>2. QED
  BY <1>1, Invariance, PTL

=============================================================================
