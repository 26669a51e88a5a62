------------------------------ MODULE Istream ------------------------------
(***************************************************************************)
(* istream read and istream write on one replica of one data object        *)
(* (istream.cpp).  Several istream processes may run at once; the server   *)
(* and the two ends of the pipe may fail at any call, a process may be     *)
(* killed, and bytes given to a stream may be delivered as late as when it *)
(* is closed.                                                              *)
(***************************************************************************)
EXTENDS Integers, Sequences

CONSTANTS
    Procs,        \* istream processes, each runs once
    Bytes,        \* what a byte may be
    Stdin,        \* what each process finds on its standard input
    Contents,     \* what the replica may hold at the start
    Missing,      \* there is no such data object
    Hole,         \* the byte between the end and a write beyond it
    BufferSize,   \* buffer_size: 4 MiB in the code
    AllBytes,     \* all_bytes: the largest 64-bit integer in the code
    Offsets,      \* values of --offset
    Counts        \* values of --count, with its default AllBytes

ASSUME IstreamAssumption ==
    /\ BufferSize \in Nat \ {0}
    /\ AllBytes \in Nat
    /\ Offsets \subseteq Int
    /\ Counts \subseteq Int
    /\ Missing \notin Seq(Bytes)
    /\ Contents \subseteq Seq(Bytes) \union {Missing}
    /\ Stdin \in [Procs -> Seq(Bytes)]
    /\ Hole \in Bytes

\* Sizes and counts are signed 64-bit integers, of which AllBytes is the
\* largest: an input with more bytes could be counted by nobody.
ASSUME InputAssumption == \A p \in Procs : Len(Stdin[p]) <= AllBytes

VARIABLES
    content,   \* the bytes of the replica
    size,      \* its size in the catalog
    pc, exit,  \* where each process is; its exit status, or what it will be
    op, mode,  \* "read" or "write", and how a writer opens the replica
    offset,    \* its --offset
    asked,     \* its --count
    count,     \* the bytes stream_bytes is asked for
    reads,     \* full buffers it has still to read
    rest,      \* bytes it has to read after those
    moved,     \* the bytes it has read and handed to the other stream
    stored,    \* how many of them have been delivered
    in,        \* state of the stream it reads from
    out,       \* state of the stream it writes to
    before,    \* history: the replica's bytes when it opened it, Missing till then
    meddled,   \* history: processes that had the replica changed under them
    cut        \* history: processes whose input failed before its end

object == <<content, size>>
opts   == <<op, mode, offset, asked>>
stream == <<count, reads, rest, moved, stored, in, out>>
vars   == <<object, pc, exit, opts, stream, before, meddled, cut>>

Killed == 130

Smaller(m, n) == IF m < n THEN m ELSE n
Larger(m, n)  == IF m > n THEN m ELSE n

\* The bytes at..at+Len(bytes)-1 of old replaced, old extended if need be.
Splice(old, at, bytes) ==
    IF bytes = <<>> THEN old
    ELSE [i \in 1..Larger(Len(old), at + Len(bytes)) |->
            IF i > at /\ i <= at + Len(bytes) THEN bytes[i - at]
            ELSE IF i <= Len(old) THEN old[i] ELSE Hole]

Part(bytes, from, n) == SubSeq(bytes, from + 1, Smaller(from + n, Len(bytes)))

Reads(p)  == op[p] = "read"
Writes(p) == op[p] = "write"
Opened(p) == before[p] # Missing

\* Where the bytes of a writer go: --append is the server's O_APPEND.
At(p) == IF mode[p] = "append" THEN Len(before[p]) ELSE offset[p]

Init ==
    /\ content \in Contents
    /\ size = IF content = Missing THEN 0 ELSE Len(content)
    /\ pc = [p \in Procs |-> "start"]
    /\ exit = [p \in Procs |-> 0]
    /\ op = [p \in Procs |-> "read"]
    /\ mode = [p \in Procs |-> "none"]
    /\ offset = [p \in Procs |-> 0]
    /\ asked = [p \in Procs |-> AllBytes]
    /\ count = [p \in Procs |-> 0]
    /\ reads = [p \in Procs |-> 0]
    /\ rest = [p \in Procs |-> 0]
    /\ moved = [p \in Procs |-> <<>>]
    /\ stored = [p \in Procs |-> 0]
    /\ in = [p \in Procs |-> "good"]
    /\ out = [p \in Procs |-> "good"]
    /\ before = [p \in Procs |-> Missing]
    /\ meddled = {}
    /\ cut = {}

Goto(p, label) == pc' = [pc EXCEPT ![p] = label]
Leave(p, label, code) ==
    /\ Goto(p, label)
    /\ exit' = [exit EXCEPT ![p] = code]

\* Everybody else who has the replica open, or is done with it, notes it.
Meddle(p) == meddled' = meddled \union {q \in Procs \ {p} : Opened(q)}
---------------------------------------------------------------------------

\* main: options, environment, connection.  --append or --no-trunc is
\* refused on a read, append wins over no-trunc on a write.
Start(p) ==
    /\ pc[p] = "start"
    /\ \/ /\ \E n \in Offsets : offset' = [offset EXCEPT ![p] = n]
          /\ \E n \in Counts : asked' = [asked EXCEPT ![p] = n]
          /\ \/ UNCHANGED <<op, mode>>
             \/ /\ op' = [op EXCEPT ![p] = "write"]
                /\ \E how \in {"trunc", "keep", "append"} :
                     mode' = [mode EXCEPT ![p] = how]
          /\ Goto(p, "open")
          /\ UNCHANGED exit
       \/ Leave(p, "done", 1) /\ UNCHANGED opts
    /\ UNCHANGED <<object, stream, before, meddled, cut>>

\* Opening to write creates the object unless it is to be kept as it is, and
\* truncates it unless it is to be kept or appended to.
Open(p) ==
    /\ pc[p] = "open"
    /\ \/ /\ content = Missing => mode[p] \in {"trunc", "append"}
          /\ LET now == IF content = Missing \/ mode[p] = "trunc"
                        THEN <<>> ELSE content
             IN /\ before' = [before EXCEPT ![p] = now]
                /\ content' = now
                /\ IF now # content THEN Meddle(p) ELSE UNCHANGED meddled
          /\ Goto(p, "seek")
          /\ UNCHANGED exit
       \/ /\ Leave(p, "done", 1)
          /\ UNCHANGED <<content, before, meddled>>
    /\ UNCHANGED <<size, opts, stream, cut>>

\* Mutant: a writer too asks for no more bytes than the replica has.
SeekThenSize(p) ==
    /\ pc[p] = "seek"
    /\ \/ offset[p] >= 0 /\ Goto(p, "size") /\ UNCHANGED exit
       \/ Leave(p, "close", 1)
    /\ count' = [count EXCEPT ![p] = asked[p]]
    /\ UNCHANGED <<object, opts, reads, rest, moved, stored, in, out, before, meddled, cut>>

\* seekg, seekp: a negative offset or a failure ends it, through the close.
Seek(p) ==
    /\ pc[p] = "seek"
    /\ \/ /\ offset[p] >= 0
          /\ Goto(p, IF Reads(p) THEN "size" ELSE "begin")
          /\ UNCHANGED exit
       \/ Leave(p, "close", 1)
    /\ count' = [count EXCEPT ![p] = asked[p]]
    /\ UNCHANGED <<object, opts, reads, rest, moved, stored, in, out, before, meddled, cut>>

\* A reader asks for no more bytes than the catalog says there are.
Size(p) ==
    /\ pc[p] = "size"
    /\ \/ /\ count' = [count EXCEPT ![p] = Smaller(size, @)]
          /\ Goto(p, "begin")
          /\ UNCHANGED exit
       \/ Leave(p, "close", 1) /\ UNCHANGED count
    /\ UNCHANGED <<object, opts, reads, rest, moved, stored, in, out, before, meddled, cut>>

\* Mutant: a negative count is not refused.
BeginUnchecked(p) ==
    /\ pc[p] = "begin"
    /\ Goto(p, "stream")
    /\ reads' = [reads EXCEPT ![p] = count[p] \div BufferSize]
    /\ rest' = [rest EXCEPT ![p] = count[p] % BufferSize]
    /\ UNCHANGED <<object, exit, opts, count, moved, stored, in, out, before, meddled, cut>>

\* stream_bytes, up to its loops.
Begin(p) ==
    /\ pc[p] = "begin"
    /\ IF count[p] < 0
       THEN Leave(p, "close", 1) /\ UNCHANGED <<reads, rest>>
       ELSE /\ Goto(p, "stream")
            /\ IF count[p] = AllBytes
               THEN UNCHANGED <<reads, rest>>
               ELSE /\ reads' = [reads EXCEPT ![p] = count[p] \div BufferSize]
                    /\ rest' = [rest EXCEPT ![p] = count[p] % BufferSize]
            /\ UNCHANGED exit
    /\ UNCHANGED <<object, opts, count, moved, stored, in, out, before, meddled, cut>>

NextRead(p) ==
    IF count[p] = AllBytes \/ reads[p] > 0 THEN BufferSize ELSE rest[p]

Streaming(p) == NextRead(p) > 0 /\ in[p] = "good" /\ out[p] = "good"

\* What there is to read next, n bytes at most.
Available(p, n) ==
    IF Reads(p) THEN Part(content, offset[p] + Len(moved[p]), n)
    ELSE Part(Stdin[p], Len(moved[p]), n)

\* Mutant: the position does not advance with what was delivered.
DeliverInPlace(p, bytes, upto) ==
    LET new == SubSeq(bytes, stored[p] + 1, upto)
        at  == IF mode[p] = "append" THEN Len(content) ELSE offset[p]
    IN /\ stored' = [stored EXCEPT ![p] = upto]
       /\ IF Writes(p) /\ new # <<>>
          THEN content' = Splice(content, at, new) /\ Meddle(p)
          ELSE UNCHANGED <<content, meddled>>

\* Bytes handed to the out stream arrive, in order, now or later.
Deliver(p, bytes, upto) ==
    LET new == SubSeq(bytes, stored[p] + 1, upto)
        at  == IF mode[p] = "append" THEN Len(content)
               ELSE offset[p] + stored[p]
    IN /\ stored' = [stored EXCEPT ![p] = upto]
       /\ IF Writes(p) /\ new # <<>>
          THEN content' = Splice(content, at, new) /\ Meddle(p)
          ELSE UNCHANGED <<content, meddled>>

\* The states of the in stream after a read of n bytes that got some.  The
\* standard input is at its end whenever a read comes up short, for
\* std::istream::read does not tell a failure from it; the stream of a replica
\* may also be bad.
InAfter(p, got, n) ==
    IF got = n THEN {"good"} ELSE IF Writes(p) THEN {"eof"} ELSE {"eof", "bad"}

\* One read and the write of what it got.  A read that fails gets part of
\* what there is; a write that fails may have delivered some.
Turn(p) ==
    /\ pc[p] = "stream"
    /\ Streaming(p)
    /\ LET n == NextRead(p)
           there == Available(p, n)
       IN \E got \in 0..Len(there) :
            /\ \E state \in InAfter(p, got, n) : in' = [in EXCEPT ![p] = state]
            /\ cut' = IF got < Len(there) THEN cut \union {p} ELSE cut
            /\ moved' = [moved EXCEPT ![p] = @ \o SubSeq(there, 1, got)]
            /\ \E upto \in stored[p]..Len(moved'[p]) : Deliver(p, moved'[p], upto)
    /\ reads' = [reads EXCEPT ![p] = IF @ > 0 THEN @ - 1 ELSE 0]
    /\ rest' = [rest EXCEPT ![p] = IF reads[p] > 0 THEN @ ELSE 0]
    /\ \E state \in {"good", "bad"} : out' = [out EXCEPT ![p] = state]
    /\ UNCHANGED <<size, pc, exit, opts, count, before>>

\* Mutant: only the reading side is checked.
StatusOfInput(p) ==
    IF in[p] = "bad" THEN 1 ELSE 0

\* The checks after the loops.
Status(p) ==
    IF \/ out[p] # "good"
       \/ IF count[p] = AllBytes THEN in[p] # "eof" ELSE Len(moved[p]) # count[p]
    THEN 1 ELSE 0

\* Mutant: the loop is left at the end of the input, not at a failure of it.
StreamEndAtEof(p) ==
    /\ pc[p] = "stream"
    /\ NextRead(p) = 0 \/ in[p] = "eof" \/ out[p] # "good"
    /\ ~Streaming(p)
    /\ Leave(p, "close", Status(p))
    /\ UNCHANGED <<object, opts, stream, before, meddled, cut>>

StreamEnd(p) ==
    /\ pc[p] = "stream"
    /\ ~Streaming(p)
    /\ Leave(p, "close", Status(p))
    /\ UNCHANGED <<object, opts, stream, before, meddled, cut>>

\* The out stream is flushed and the replica closed, by the destructors or
\* with --checksum by close; neither way is a failure noticed.  Only a
\* writer's close that succeeds updates the catalog.
Close(p) ==
    /\ pc[p] = "close"
    /\ \E upto \in stored[p]..Len(moved[p]) :
         /\ Deliver(p, moved[p], upto)
         /\ \/ /\ Writes(p) /\ (out[p] = "good" => upto = Len(moved[p]))
               /\ size' = Len(content')
            \/ UNCHANGED size
    /\ Goto(p, "done")
    /\ UNCHANGED <<exit, opts, count, reads, rest, moved, in, out, before, cut>>

Kill(p) ==
    /\ pc[p] \notin {"start", "done"}
    /\ Leave(p, "done", Killed)
    /\ UNCHANGED <<object, opts, stream, before, meddled, cut>>

Step(p) ==
    \/ Open(p) \/ Seek(p) \/ Size(p) \/ Begin(p)
    \/ Turn(p) \/ StreamEnd(p) \/ Close(p)

Next == \E p \in Procs : Start(p) \/ Step(p) \/ Kill(p)

Spec == Init /\ [][Next]_vars

\* A process that runs goes on; reads and writes that block are the other
\* side's, which goes on or fails.
FairSpec == Spec /\ \A p \in Procs : WF_vars(Step(p))
---------------------------------------------------------------------------
(* Properties *)

TypeOK ==
    /\ content \in Seq(Bytes) \union {Missing}
    /\ size \in Nat
    /\ pc \in [Procs -> {"start", "open", "seek", "size", "begin", "stream",
                         "close", "done"}]
    /\ exit \in [Procs -> {0, 1, Killed}]
    /\ op \in [Procs -> {"read", "write"}]
    /\ mode \in [Procs -> {"none", "trunc", "keep", "append"}]
    /\ offset \in [Procs -> Int]
    /\ asked \in [Procs -> Int]
    /\ count \in [Procs -> Int]
    /\ reads \in [Procs -> Nat]
    /\ rest \in [Procs -> Nat]
    /\ moved \in [Procs -> Seq(Bytes)]
    /\ stored \in [Procs -> Nat]
    /\ \A p \in Procs : stored[p] <= Len(moved[p])
    /\ in \in [Procs -> {"good", "eof", "bad"}]
    /\ out \in [Procs -> {"good", "bad"}]
    /\ before \in [Procs -> Seq(Bytes) \union {Missing}]
    /\ meddled \in SUBSET Procs
    /\ cut \in SUBSET Procs

\* Whatever fails and whenever a process is killed, what was read is a piece
\* of the source without gaps or repetitions from the offset on, and the
\* replica is its old contents with the delivered part of the input in place
\* (stream_bytes across its buffers, the open modes and the seek), as long as
\* no other istream changes the replica.
Undamaged ==
    \A p \in Procs : Opened(p) /\ p \notin meddled =>
        /\ Reads(p) => moved[p] = Part(before[p], offset[p], Len(moved[p]))
        /\ Writes(p) =>
             /\ moved[p] = Part(Stdin[p], 0, Len(moved[p]))
             /\ content = Splice(before[p], At(p), SubSeq(moved[p], 1, stored[p]))

\* An istream never moves more bytes than it was asked for, and when it ends
\* with status 0 it has moved exactly those ("Failed to read requested number
\* of bytes" otherwise), even if others change the replica meanwhile.  Without
\* --count a write has then moved the whole input, unless reading it failed,
\* which stream_bytes takes for its end.
ExitTellsCount ==
    \A p \in Procs :
        /\ count[p] >= 0 /\ count[p] # AllBytes => Len(moved[p]) <= count[p]
        /\ pc[p] = "done" /\ exit[p] = 0 =>
             /\ out[p] = "good"
             /\ IF count[p] # AllBytes THEN Len(moved[p]) = count[p]
                ELSE Writes(p) /\ p \notin cut => Len(moved[p]) = Len(Stdin[p])

\* After status 0, unless the close lost bytes or somebody interfered, the
\* replica is what the options say: the requested piece of the input, in its
\* place, or without --count the whole of it if reading it did not fail.
WrittenAsAsked ==
    \A p \in Procs :
        /\ pc[p] = "done" /\ exit[p] = 0 /\ Writes(p) /\ p \notin meddled
        /\ stored[p] = Len(moved[p])
        /\ p \notin cut \/ asked[p] # AllBytes
        => content = Splice(before[p], At(p), Part(Stdin[p], 0, asked[p]))

\* A running istream comes to its end: the loops stop at the end of the
\* input and at a failure of either stream.
Terminates ==
    \A p \in Procs : pc[p] \notin {"start", "done"} ~> pc[p] = "done"

\* "-o: The number of bytes to skip within the data object before reading",
\* "-c: The number of bytes to read.  Defaults to all bytes." (usage): a read
\* without -c of an undisturbed replica, with no failure, succeeds.
ReadsToTheEnd ==
    [][\A p \in Procs :
         /\ pc[p] = "stream" /\ pc'[p] = "close"
         /\ Reads(p) /\ asked[p] = AllBytes
         /\ in[p] # "bad" /\ out[p] = "good" /\ p \notin meddled \union cut
         /\ offset[p] <= Len(before[p]) /\ size = Len(before[p])
         => exit'[p] = 0]_vars
===========================================================================
