------------------------------- MODULE OneCall -------------------------------
(***************************************************************************)
(* The programs that pass their command line to one call of the client     *)
(* library, or to one call for each path: iput, iget, icp, irm and others. *)
(* The library (putUtil, getUtil, ...) is not part of the repository: it   *)
(* carries the request out for some of the paths, and its result is        *)
(* negative exactly when it has met a failure or an answer was lost.       *)
(***************************************************************************)
EXTENDS ClientPhases

\* One call of the library for all paths; its exit status on failure.
Util(code) == [is |-> "util", exit |-> code]

\* The status of the call is the exit status.
UtilRaw == [is |-> "raw util"]

\* The exit status depends on the cause of the failure.
UtilByCause(codes) == [is |-> "util by cause", exits |-> codes]

\* A call after whose failure the program exits without rcDisconnect.
UtilLeft(code) == [is |-> "left util", exit |-> code]

\* One call for each path, until one fails.
EachPath(code) == [is |-> "each path", exit |-> code]

\* The sources of irsync, "i:" or local, and its destination at the end.
SyncSources == [is |-> "sync sources"]

---------------------------------------------------------------------------
(* The programs *)

Iput == <<RawEnvironment, Options(1), Sources(1, 1), Connect(2), Login(7), Util(3)>>
Iget == <<Check(1), Options(1), Sources(1, 1), Connect(2), LoginUnlessPublic(7), Util(3)>>
\* Mutant: the anonymous user is not asked to log in.
IcpPublic == <<Options(1), Sources(1, 2), Check(1), Connect(2), LoginUnlessPublic(7), Util(3)>>
Icp == <<Options(1), Sources(1, 2), Check(1), Connect(2), Login(7), Util(3)>>
Irepl == <<Options(1), Sources(1, 2), Check(1), Connect(2), Login(7), Util(3)>>
\* Mutant: a failure of rmUtil has the status of a bad command line.
IrmOne == <<Options(1), Sources(1, 2), Check(1), Connect(2), Login(7), Util(1)>>
Irm == <<Options(1), Sources(1, 2), Check(1), Connect(2), Login(7), Util(3)>>
Itrim == <<Options(1), Sources(1, 2), Check(1), Connect(2), Login(7), Util(3)>>
Ichksum == <<Options(1), Sources(1, 2), Check(1), Connect(2), Login(7), Util(3)>>
Imv == <<Options(1), Sources(1, 2), Check(1), Connect(2), Login(7), Util(3)>>
Iunreg == <<Options(1), Sources(1, 2), Check(1), Connect(2), Login(7), Util(3)>>
Imkdir == <<Options(1), Check(1), Sources(1, 1), Connect(2), Login(7), Util(3)>>
Irmdir == <<Options(1), Sources(1, 1), Connect(2), Login(7), Util(0)>>
Irmtrash == <<Options(1), Check(1), Connect(2), Login(7), Util(3)>>
Imcoll == <<Options(1), Sources(1, 1), Check(1), Check(2), Check(1), Connect(2), Login(7), Util(3)>>
Ibun == <<Options(1), Check(1), Connect(2), Login(7), Util(3)>>
Ireg == <<Options(1), Check(1), Connect(2), Login(7), Util(3)>>
Irsync == <<Options(1), SyncSources, Check(1), Connect(2), Login(7), Util(3)>>

\* checksum mismatch, no such path, disk full, other file errors, the rest
Iphymv == <<Options(1), Sources(1, 1), Connect(2), Login(3), UtilByCause({3, 4, 5, 6, 7})>>

Ichmod ==
    <<Options(1), Sources(1, 2), Check(3), Check(4), Connect(5), Login(6), LateCheck(7), EachPath(8)>>

Ifsck ==
    <<Options(1), Check(1), Sources(1, 1), Connect(2), LoginUnlessPublic(7), LateCheckLeft(4), Util(3)>>
Iscan ==
    <<Options(1), Check(1), Sources(1, 1), Connect(2), LoginUnlessPublic(7), LateCheckLeft(4), UtilRaw>>

Ils == <<Options(1), Check(1), Sources(1, 1), Connect(2), LoginUnlessPublic(7), Util(4)>>
Ips == <<Options(1), Check(1), Connect(2), LoginUnlessPublic(7), Util(3)>>
Imiscsvrinfo == <<Options(1), Check(1), Connect(2), UtilLeft(3)>>
Iclienthints == <<Check(0), Check(1), Connect(2), LoginUnlessPublic(7), UtilLeft(0)>>
Izonereport == <<Check(0), Check(1), Connect(2), LoginUnlessPublic(7), UtilLeft(0)>>

\* Any exception, of the connection or the login as well, ends in 1.
Itouch == <<Check(1), Options(1), Connect(1), Login(1), Util(1)>>

Iquery == <<Options(1), Check(1), Connect(1), Login(1), Util(1)>>

\* usage and a time that is not one, each 1; the status of the call is not kept
IsysmetaMod ==
    <<Options(1), Check(1), Connect(2), Login(3), LateCheckLeft(1), LateCheck(1), Util(0)>>

Ienv == <<Options(1), Check(1), Return(0)>>
Ierror == <<Options(1), Return(0)>>
Ihelp == <<Options(1), Return(0)>>

OneCallPhases ==
    [iput |-> Iput, iget |-> Iget, icp |-> Icp, irepl |-> Irepl, irm |-> Irm, itrim |-> Itrim,
     ichksum |-> Ichksum, imv |-> Imv, iunreg |-> Iunreg, imkdir |-> Imkdir, irmdir |-> Irmdir,
     irmtrash |-> Irmtrash, imcoll |-> Imcoll, ibun |-> Ibun, ireg |-> Ireg, irsync |-> Irsync,
     iphymv |-> Iphymv, ichmod |-> Ichmod, ifsck |-> Ifsck, iscan |-> Iscan, ils |-> Ils,
     ips |-> Ips, imiscsvrinfo |-> Imiscsvrinfo, iclienthints |-> Iclienthints,
     izonereport |-> Izonereport, itouch |-> Itouch, iquery |-> Iquery, isysmetamod |-> IsysmetaMod,
     ienv |-> Ienv, ierror |-> Ierror, ihelp |-> Ihelp]

---------------------------------------------------------------------------
(* Steps *)

\* Mutant: the second path decides, which may be the destination.
SourceTypeSecond(list) == list[2]
\* main of irsync: every "i:" is taken off, the type of all sources is that
\* of the one looked at last, which is the first.
SourceType(list) == list[1]

TakeSyncSources ==
    /\ In(OneCallPhases, "sync sources")
    /\ \/ \E n \in 2 .. MaxPaths + 1 : \E list \in [1 .. n -> {"local", "remote"}] :
            IF SourceType(list) = "local" /\ list[n] = "local"
            THEN End(1)
            ELSE /\ written' = list
                 /\ paths' = [i \in 1 .. n |-> IF i < n THEN SourceType(list) ELSE list[n]]
                 /\ at' = at + 1
                 /\ UNCHANGED <<prog, public, conn, login, exit>>
       \/ End(1)
    /\ UNCHANGED historyVars

\* What the request is about: the destination of irsync is not.
Targets == IF prog = "irsync" THEN 1 .. Len(paths) - 1 ELSE DOMAIN paths

\* The library carries out the request for some paths, and reports a failure
\* for the others and for those whose answer was lost.
Carry ==
    /\ done' \in SUBSET Targets
    /\ \E lost \in SUBSET done' : failed' = (Targets \ done') \cup lost
    /\ UNCHANGED trouble

CallUtil ==
    /\ In(OneCallPhases, "util")
    /\ Carry
    /\ Disconnect(IF failed' # {} THEN Phase(OneCallPhases).exit ELSE 0)

CallUtilRaw ==
    /\ In(OneCallPhases, "raw util")
    /\ Carry
    /\ IF failed' = {} THEN Disconnect(0) ELSE \E status \in Statuses : Disconnect(status)

CallUtilByCause ==
    /\ In(OneCallPhases, "util by cause")
    /\ Carry
    /\ IF failed' = {} THEN Disconnect(0) ELSE \E code \in Phase(OneCallPhases).exits : Disconnect(code)

CallUtilLeft ==
    /\ In(OneCallPhases, "left util")
    /\ Carry
    /\ IF failed' = {} THEN Disconnect(0) ELSE End(Phase(OneCallPhases).exit)

\* Mutant: the loop goes on after a failure, and its last status is told.
NextPathLast ==
    /\ In(OneCallPhases, "each path")
    /\ IF Cardinality(done \cup failed) < Len(paths)
       THEN LET path == Cardinality(done \cup failed) + 1 IN
            /\ \/ done' = done \cup {path} /\ UNCHANGED failed
               \/ failed' = failed \cup {path} /\ UNCHANGED done
            /\ UNCHANGED runVars
       ELSE /\ Disconnect(IF Len(paths) \in failed THEN Phase(OneCallPhases).exit ELSE 0)
            /\ UNCHANGED <<done, failed>>
    /\ UNCHANGED trouble
\* The loop over the paths of ichmod.
NextPath ==
    /\ In(OneCallPhases, "each path")
    /\ IF failed = {} /\ Cardinality(done) < Len(paths)
       THEN LET path == Cardinality(done) + 1 IN
            /\ \/ done' = done \cup {path} /\ UNCHANGED failed
               \/ failed' = {path} /\ UNCHANGED done
               \/ done' = done \cup {path} /\ failed' = {path}
            /\ UNCHANGED runVars
       ELSE /\ Disconnect(IF failed # {} THEN Phase(OneCallPhases).exit ELSE 0)
            /\ UNCHANGED <<done, failed>>
    /\ UNCHANGED trouble

OneCallSteps ==
    \/ TakeSyncSources \/ CallUtil \/ CallUtilRaw \/ CallUtilByCause \/ CallUtilLeft \/ NextPath
=============================================================================
