----------------------------- MODULE MCIstream -----------------------------
(***************************************************************************)
(* Instances of Istream for TLC.  Every byte of the replica and of an      *)
(* input is a different number, so that a byte out of place shows.         *)
(***************************************************************************)
EXTENDS Istream

CONSTANTS MaxContent, MaxStdin, ProcNumbers

MCBytes == 0 .. 99

MCContents == {Missing} \union {[i \in 1..n |-> i] : n \in 0..MaxContent}

MCStdin == [p \in ProcNumbers |-> [i \in 1..MaxStdin[p] |-> 10 * p + i]]

MCOffsets    == -1 .. 2
MCCounts     == -1 .. 4 \union {AllBytes}
MCStdinSizes == <<3>>
MCShortStdins == <<2, 2>>
MCFewOffsets == {0, 1}
MCOnlyAll    == {AllBytes}
============================================================================
