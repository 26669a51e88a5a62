--------------------------- MODULE IstreamProofs ---------------------------
(***************************************************************************)
(* Theorems about module Istream, for every buffer size, any number of     *)
(* processes, and any contents, offsets and counts.                        *)
(***************************************************************************)
EXTENDS Istream, TLAPS

---------------------------------------------------------------------------
(* The operators *)

LEMMA EmptyTyped == <<>> \in Seq(Bytes) /\ <<>> # Missing
<1>1. <<>> \in Seq(Bytes)
  OBVIOUS
<1> QED
  BY <1>1, IstreamAssumption

LEMMA Division ==
    ASSUME NEW a \in Nat, NEW b \in Nat \ {0}
    PROVE  /\ a \div b \in Nat /\ a % b \in Nat
           /\ (a \div b) * b + (a % b) = a
OBVIOUS

LEMMA OneLess ==
    ASSUME NEW r \in Nat \ {0}, NEW b \in Nat, NEW s \in Nat, NEW l \in Nat,
           NEW c \in Int, NEW n \in Nat, n <= b, r * b + s + l <= c
    PROVE  (r - 1) * b + s + (l + n) <= c
<1>1. (r - 1) * b = r * b - b
  OBVIOUS
<1>2. r * b \in Int
  OBVIOUS
<1> QED
  BY <1>1, <1>2

LEMMA NoMore ==
    ASSUME NEW r \in Nat, NEW b \in Nat, NEW s \in Nat, NEW l \in Nat,
           NEW c \in Int, r * b + s + l <= c
    PROVE  l <= c
<1>1. r * b \in Nat
  OBVIOUS
<1> QED
  BY <1>1

LEMMA ConcatLength ==
    ASSUME NEW S, NEW s \in Seq(S), NEW t \in Seq(S)
    PROVE  Len(s \o t) = Len(s) + Len(t)
OBVIOUS

LEMMA SubSeqTyped ==
    ASSUME NEW S, NEW seq \in Seq(S), NEW m \in Nat \ {0}, NEW n \in Int,
           n <= Len(seq)
    PROVE  /\ SubSeq(seq, m, n) \in Seq(S)
           /\ Len(SubSeq(seq, m, n)) = IF m <= n THEN n - m + 1 ELSE 0
<1>1. CASE m <= n
  BY <1>1
<1>2. CASE m > n
  BY <1>2
<1> QED
  BY <1>1, <1>2

LEMMA PartTyped ==
    ASSUME NEW bytes \in Seq(Bytes), NEW from \in Nat, NEW n \in Nat
    PROVE  /\ Part(bytes, from, n) \in Seq(Bytes)
           /\ Len(Part(bytes, from, n)) <= n
<1>1. Smaller(from + n, Len(bytes)) \in Nat /\ Smaller(from + n, Len(bytes)) <= Len(bytes)
      /\ Smaller(from + n, Len(bytes)) <= from + n
  BY DEF Smaller
<1> QED
  BY <1>1, SubSeqTyped DEF Part

LEMMA SpliceTyped ==
    ASSUME NEW old \in Seq(Bytes), NEW at \in Nat, NEW bytes \in Seq(Bytes)
    PROVE  Splice(old, at, bytes) \in Seq(Bytes)
<1>1. CASE bytes = <<>>
  BY <1>1 DEF Splice
<1>2. CASE bytes # <<>>
  <2> DEFINE n == Larger(Len(old), at + Len(bytes))
             f == [i \in 1..n |->
                     IF i > at /\ i <= at + Len(bytes) THEN bytes[i - at]
                     ELSE IF i <= Len(old) THEN old[i] ELSE Hole]
  <2>1. n \in Nat
    BY DEF Larger
  <2>2. ASSUME NEW i \in 1..n PROVE f[i] \in Bytes
    <3>1. CASE i > at /\ i <= at + Len(bytes)
      <4>1. i - at \in 1..Len(bytes)
        BY <3>1, <2>1
      <4> QED
        BY <3>1, <4>1
    <3>2. CASE ~(i > at /\ i <= at + Len(bytes))
      BY <3>2, <2>1, IstreamAssumption
    <3> QED
      BY <3>1, <3>2
  <2> HIDE DEF n
  <2>3. f \in [1..n -> Bytes]
    BY <2>2
  <2>4. f \in Seq(Bytes)
    BY <2>1, <2>3, SMTT(30)
  <2> QED
    BY <1>2, <2>4 DEF Splice, n
<1> QED
  BY <1>1, <1>2

---------------------------------------------------------------------------
(* Type correctness.  What a process has read fits the type only because   *)
(* it reads after opening an existing replica at an offset that is not     *)
(* negative.                                                               *)

Ready(p) ==
    /\ pc[p] \in {"start", "open", "seek", "size", "begin"} =>
         /\ moved[p] = <<>> /\ stored[p] = 0
         /\ in[p] = "good" /\ out[p] = "good"
         /\ reads[p] = 0 /\ rest[p] = 0
    /\ pc[p] \notin {"start", "open", "done"} => content # Missing
    /\ pc[p] \in {"size", "begin", "stream"} => offset[p] >= 0
    /\ pc[p] = "close" => offset[p] >= 0 \/ moved[p] = <<>>

TypeInv == TypeOK /\ \A p \in Procs : Ready(p)

\* What a step of p leaves to the others.
Apart(p) ==
    /\ content # Missing => content' # Missing
    /\ \A q \in Procs \ {p} :
         /\ pc'[q] = pc[q] /\ exit'[q] = exit[q] /\ op'[q] = op[q] /\ mode'[q] = mode[q]
         /\ offset'[q] = offset[q] /\ asked'[q] = asked[q]
         /\ count'[q] = count[q] /\ reads'[q] = reads[q] /\ rest'[q] = rest[q]
         /\ moved'[q] = moved[q] /\ stored'[q] = stored[q]
         /\ in'[q] = in[q] /\ out'[q] = out[q]
         /\ (q \in cut') <=> (q \in cut)

LEMMA ApartReady ==
    ASSUME NEW p \in Procs, NEW q \in Procs \ {p}, Apart(p), Ready(q)
    PROVE  Ready(q)'
BY DEF Apart, Ready

LEMMA DeliverTyped ==
    ASSUME TypeOK, NEW p \in Procs, NEW bytes \in Seq(Bytes),
           NEW upto \in stored[p]..Len(bytes), Deliver(p, bytes, upto),
           bytes # <<>> => content # Missing /\ offset[p] >= 0
    PROVE  /\ content' \in Seq(Bytes) \union {Missing}
           /\ content # Missing => content' \in Seq(Bytes)
           /\ stored' = [stored EXCEPT ![p] = upto]
           /\ upto \in Nat
           /\ meddled' \in SUBSET Procs
<1> DEFINE new == SubSeq(bytes, stored[p] + 1, upto)
           at  == IF mode[p] = "append" THEN Len(content)
                  ELSE offset[p] + stored[p]
<1>1. stored[p] \in Nat /\ upto \in Nat /\ meddled \in SUBSET Procs
  BY DEF TypeOK
<1>2. stored' = [stored EXCEPT ![p] = upto] /\ meddled' \in SUBSET Procs
  BY <1>1 DEF Deliver, Meddle
<1>3. CASE UNCHANGED content
  BY <1>1, <1>2, <1>3 DEF TypeOK
<1>4. CASE content' = Splice(content, at, new) /\ new # <<>>
  <2>1. bytes # <<>>
    BY <1>1, <1>4
  <2>2. content \in Seq(Bytes) /\ offset[p] \in Nat
    BY <2>1 DEF TypeOK
  <2>3. at \in Nat
    BY <1>1, <2>2
  <2>4. new \in Seq(Bytes)
    BY <1>1, SubSeqTyped
  <2>5. content' \in Seq(Bytes)
    BY <1>4, <2>2, <2>3, <2>4, SpliceTyped
  <2> QED
    BY <1>1, <1>2, <2>5
<1> QED
  BY <1>3, <1>4 DEF Deliver

LEMMA AvailableTyped ==
    ASSUME TypeOK, NEW p \in Procs, NEW n \in Nat,
           content # Missing, offset[p] >= 0
    PROVE  /\ Available(p, n) \in Seq(Bytes)
           /\ Len(Available(p, n)) <= n
<1>1. moved[p] \in Seq(Bytes) /\ Len(moved[p]) \in Nat
  BY DEF TypeOK
<1>2. offset[p] + Len(moved[p]) \in Nat
  BY <1>1 DEF TypeOK
<1>3. CASE Reads(p)
  BY <1>2, <1>3, PartTyped DEF Available, TypeOK
<1>4. CASE ~Reads(p)
  BY <1>1, <1>4, PartTyped, IstreamAssumption DEF Available
<1> QED
  BY <1>3, <1>4

LEMMA StartTyped ==
    ASSUME TypeInv, NEW p \in Procs, Start(p)
    PROVE  TypeOK' /\ Ready(p)' /\ Apart(p)
<1> USE DEF TypeInv, object, stream, opts, Goto, Leave
<1>1. UNCHANGED <<content, size, count, reads, rest, moved, stored, in, out, before, meddled, cut>>
  BY DEF Start
<1>2. pc' \in [Procs -> {"start", "open", "seek", "size", "begin", "stream", "close", "done"}]
  <2>1. Goto(p, "open") \/ Goto(p, "done")
    BY DEF Start
  <2> QED
    BY <2>1 DEF TypeOK
<1>3. exit' \in [Procs -> {0, 1, Killed}]
  BY DEF Start, TypeOK
<1>4. op' \in [Procs -> {"read", "write"}]
  BY DEF Start, TypeOK
<1>5. mode' \in [Procs -> {"none", "trunc", "keep", "append"}]
  BY DEF Start, TypeOK
<1>6. offset' \in [Procs -> Int] /\ asked' \in [Procs -> Int]
  <2>1. \/ /\ \E n \in Offsets : offset' = [offset EXCEPT ![p] = n]
           /\ \E n \in Counts : asked' = [asked EXCEPT ![p] = n]
        \/ UNCHANGED <<offset, asked>>
    BY DEF Start
  <2>2. offset \in [Procs -> Int] /\ asked \in [Procs -> Int]
    BY DEF TypeOK
  <2>3. Offsets \subseteq Int /\ Counts \subseteq Int
    BY IstreamAssumption
  <2> HIDE DEF TypeInv
  <2> QED
    BY <2>1, <2>2, <2>3
<1>7. TypeOK'
  BY <1>1, <1>2, <1>3, <1>4, <1>5, <1>6 DEF TypeOK
<1>8. pc'[p] \in {"open", "done"} /\ pc[p] = "start"
  BY DEF Start, TypeOK
<1>9. Ready(p)'
  BY <1>1, <1>8 DEF Ready
<1>10. ASSUME NEW q \in Procs \ {p}
       PROVE  /\ pc'[q] = pc[q] /\ exit'[q] = exit[q] /\ op'[q] = op[q] /\ mode'[q] = mode[q]
              /\ offset'[q] = offset[q] /\ asked'[q] = asked[q]
  BY DEF Start, TypeOK
<1> QED
  BY <1>1, <1>7, <1>9, <1>10 DEF Apart

LEMMA OpenTyped ==
    ASSUME TypeInv, NEW p \in Procs, Open(p)
    PROVE  TypeOK' /\ Ready(p)' /\ Apart(p)
<1> USE DEF TypeInv, object, opts, stream, Goto, Leave
<1>1. UNCHANGED <<size, opts, stream, cut>>
  BY DEF Open
<1>2. content' \in Seq(Bytes) \union {Missing} /\ (content # Missing => content' # Missing)
  <2>1. \/ content' = content
        \/ content' = <<>>
    BY DEF Open
  <2> QED
    BY <2>1, EmptyTyped DEF TypeOK
<1>3. before' \in [Procs -> Seq(Bytes) \union {Missing}]
  <2>1. UNCHANGED before \/ before' = [before EXCEPT ![p] = content']
    BY DEF Open
  <2>2. before \in [Procs -> Seq(Bytes) \union {Missing}]
    BY DEF TypeOK
  <2> QED
    BY <1>2, <2>1, <2>2
<1>4. meddled' \in SUBSET Procs
  BY DEF Open, Meddle, TypeOK
<1>5. \/ Goto(p, "seek") /\ UNCHANGED exit /\ content' # Missing
      \/ Leave(p, "done", 1) /\ UNCHANGED content
  BY EmptyTyped DEF Open
<1>6. pc[p] = "open"
  BY DEF Open
<1>7. /\ pc' \in [Procs -> {"start", "open", "seek", "size", "begin", "stream", "close", "done"}]
      /\ exit' \in [Procs -> {0, 1, Killed}]
  BY <1>5 DEF TypeOK
<1>8. TypeOK'
  BY <1>1, <1>2, <1>3, <1>4, <1>7 DEF TypeOK
<1>9. Ready(p)'
  <2>1. \/ pc'[p] = "seek" /\ content' # Missing
        \/ pc'[p] = "done"
    BY <1>5 DEF TypeOK
  <2> QED
    BY <1>1, <1>6, <2>1 DEF Ready
<1>10. Apart(p)
  <2>1. ASSUME NEW q \in Procs \ {p} PROVE pc'[q] = pc[q] /\ exit'[q] = exit[q]
    BY <1>5 DEF TypeOK
  <2> QED
    BY <1>1, <1>2, <2>1 DEF Apart
<1> QED
  BY <1>8, <1>9, <1>10

LEMMA SetupTyped ==
    ASSUME TypeInv, NEW p \in Procs, Seek(p) \/ Size(p) \/ Begin(p)
    PROVE  TypeOK' /\ Ready(p)' /\ Apart(p)
<1> USE DEF TypeInv, object, opts, stream, Goto, Leave
<1>1. UNCHANGED <<object, opts, moved, stored, in, out, before, meddled, cut>>
  BY DEF Seek, Size, Begin
<1>2. \E n \in Int : count' = [count EXCEPT ![p] = n]
  <2>1. asked[p] \in Int /\ count[p] \in Int /\ size \in Nat
    BY DEF TypeOK
  <2>2. Smaller(size, count[p]) \in Int
    BY <2>1 DEF Smaller
  <2>3. count = [count EXCEPT ![p] = count[p]]
    BY DEF TypeOK
  <2> QED
    BY <2>1, <2>2, <2>3 DEF Seek, Size, Begin
<1>3. \E m, n \in Nat : /\ reads' = [reads EXCEPT ![p] = m]
                        /\ rest' = [rest EXCEPT ![p] = n]
                        /\ pc'[p] \in {"size", "begin"} => m = reads[p] /\ n = rest[p]
  <2>1. reads[p] \in Nat /\ rest[p] \in Nat
    BY DEF TypeOK
  <2>2. reads = [reads EXCEPT ![p] = reads[p]] /\ rest = [rest EXCEPT ![p] = rest[p]]
    BY DEF TypeOK
  <2>3. CASE UNCHANGED <<reads, rest>>
    BY <2>1, <2>2, <2>3
  <2>4. CASE Begin(p) /\ count[p] >= 0 /\ count[p] # AllBytes
    <3>1. count[p] \div BufferSize \in Nat /\ count[p] % BufferSize \in Nat
      <4>1. count[p] \in Nat
        BY <2>4 DEF TypeOK
      <4> QED
        BY <4>1, Division, IstreamAssumption
    <3>2. /\ reads' = [reads EXCEPT ![p] = count[p] \div BufferSize]
          /\ rest' = [rest EXCEPT ![p] = count[p] % BufferSize]
          /\ Goto(p, "stream")
      BY <2>4 DEF Begin, TypeOK
    <3>3. pc'[p] = "stream"
      BY <3>2 DEF TypeOK
    <3> QED
      BY <3>1, <3>2, <3>3
  <2>5. \/ UNCHANGED <<reads, rest>>
        \/ Begin(p) /\ count[p] >= 0 /\ count[p] # AllBytes
    <3>1. count[p] \in Int
      BY DEF TypeOK
    <3>2. CASE Begin(p)
      <4>1. count[p] < 0 => UNCHANGED <<reads, rest>>
        BY <3>2 DEF Begin
      <4>2. count[p] >= 0 /\ count[p] = AllBytes => UNCHANGED <<reads, rest>>
        BY <3>1, <3>2 DEF Begin
      <4> QED
        BY <3>1, <3>2, <4>1, <4>2
    <3>3. CASE Seek(p) \/ Size(p)
      BY <3>3 DEF Seek, Size
    <3> QED
      BY <3>2, <3>3
  <2> QED
    BY <2>3, <2>4, <2>5
<1>4. \/ UNCHANGED exit /\ \E label \in {"size", "begin", "stream"} : Goto(p, label)
      \/ Leave(p, "close", 1)
  BY DEF Seek, Size, Begin
<1>5. /\ pc' \in [Procs -> {"start", "open", "seek", "size", "begin", "stream", "close", "done"}]
      /\ exit' \in [Procs -> {0, 1, Killed}]
  <2>1. pc' \in [Procs -> {"start", "open", "seek", "size", "begin", "stream", "close", "done"}]
    BY <1>4 DEF TypeOK
  <2>2. exit' \in [Procs -> {0, 1, Killed}]
    BY <1>4 DEF TypeOK
  <2> QED
    BY <2>1, <2>2
<1>6. TypeOK'
  <2>1. count' \in [Procs -> Int] /\ reads' \in [Procs -> Nat] /\ rest' \in [Procs -> Nat]
    BY <1>2, <1>3 DEF TypeOK
  <2> QED
    BY <1>1, <1>5, <2>1 DEF TypeOK
<1>7. Ready(p)'
  <2>1. /\ pc[p] \in {"seek", "size", "begin"}
        /\ pc'[p] \in {"size", "begin", "stream", "close"}
        /\ pc'[p] # "close" => offset[p] >= 0
    <3>1. pc[p] = "seek" => offset[p] >= 0 \/ Leave(p, "close", 1)
      BY DEF Seek, Size, Begin
    <3>2. pc[p] \in {"seek", "size", "begin"}
      BY DEF Seek, Size, Begin
    <3>3. pc[p] # "seek" => offset[p] >= 0
      BY <3>2 DEF Ready
    <3> QED
      BY <1>4, <3>1, <3>2, <3>3 DEF TypeOK
  <2>2. content # Missing /\ moved[p] = <<>> /\ stored[p] = 0 /\ in[p] = "good" /\ out[p] = "good"
        /\ reads[p] = 0 /\ rest[p] = 0
    BY <2>1 DEF Ready
  <2>3. pc'[p] \in {"size", "begin"} => reads'[p] = 0 /\ rest'[p] = 0
    BY <1>3, <2>2 DEF TypeOK
  <2> QED
    BY <1>1, <2>1, <2>2, <2>3 DEF Ready
<1>8. Apart(p)
  <2>1. ASSUME NEW q \in Procs \ {p}
        PROVE /\ pc'[q] = pc[q] /\ exit'[q] = exit[q]
              /\ count'[q] = count[q] /\ reads'[q] = reads[q] /\ rest'[q] = rest[q]
    <3>1. pc'[q] = pc[q] /\ exit'[q] = exit[q]
      BY <1>4 DEF TypeOK
    <3>2. count'[q] = count[q] /\ reads'[q] = reads[q] /\ rest'[q] = rest[q]
      BY <1>2, <1>3 DEF TypeOK
    <3> QED
      BY <3>1, <3>2
  <2> QED
    BY <1>1, <2>1 DEF Apart
<1> QED
  BY <1>6, <1>7, <1>8

LEMMA EndTyped ==
    ASSUME TypeInv, NEW p \in Procs, StreamEnd(p) \/ Kill(p)
    PROVE  TypeOK' /\ Ready(p)' /\ Apart(p)
<1> USE DEF TypeInv, object, opts, stream, Goto, Leave
<1>1. UNCHANGED <<object, opts, stream, before, meddled, cut>>
  BY DEF StreamEnd, Kill
<1>2. \/ Leave(p, "done", Killed)
      \/ pc[p] = "stream" /\ \E code \in {0, 1} : Leave(p, "close", code)
  BY DEF StreamEnd, Kill, Status
<1>3. /\ pc' \in [Procs -> {"start", "open", "seek", "size", "begin", "stream", "close", "done"}]
      /\ exit' \in [Procs -> {0, 1, Killed}]
  <2>1. pc' \in [Procs -> {"start", "open", "seek", "size", "begin", "stream", "close", "done"}]
    <3>1. Goto(p, "done") \/ Goto(p, "close")
      BY <1>2
    <3> QED
      BY <3>1 DEF TypeOK
  <2>2. exit' \in [Procs -> {0, 1, Killed}]
    BY <1>2 DEF TypeOK
  <2> QED
    BY <2>1, <2>2
<1>4. TypeOK'
  BY <1>1, <1>3 DEF TypeOK
<1>5. Ready(p)'
  BY <1>1, <1>2 DEF Ready, TypeOK
<1>6. Apart(p)
  <2>1. ASSUME NEW q \in Procs \ {p} PROVE pc'[q] = pc[q] /\ exit'[q] = exit[q]
    BY <1>2 DEF TypeOK
  <2> QED
    BY <1>1, <2>1 DEF Apart
<1> QED
  BY <1>4, <1>5, <1>6

LEMMA TurnTyped ==
    ASSUME TypeInv, NEW p \in Procs, Turn(p)
    PROVE  TypeOK' /\ Ready(p)' /\ Apart(p)
<1> USE DEF TypeInv, object, opts, stream
<1> DEFINE n == NextRead(p)
           there == Available(p, n)
<1>1. UNCHANGED <<size, pc, exit, opts, count, before>>
  BY DEF Turn
<1>2. pc[p] = "stream" /\ content # Missing /\ offset[p] >= 0
  BY DEF Turn, Ready
<1>3. n \in Nat
  BY IstreamAssumption DEF NextRead, TypeOK
<1>4. there \in Seq(Bytes)
  BY <1>2, <1>3, AvailableTyped
<1> HIDE DEF n, there
<1>5. PICK got \in 0..Len(there) :
        /\ \E state \in InAfter(p, got, n) : in' = [in EXCEPT ![p] = state]
        /\ cut' = IF got < Len(there) THEN cut \union {p} ELSE cut
        /\ moved' = [moved EXCEPT ![p] = @ \o SubSeq(there, 1, got)]
        /\ \E upto \in stored[p]..Len(moved'[p]) : Deliver(p, moved'[p], upto)
  BY DEF Turn, n, there
<1>6. moved[p] \in Seq(Bytes) /\ stored[p] \in Nat /\ stored[p] <= Len(moved[p])
  BY DEF TypeOK
<1>7. moved[p] \o SubSeq(there, 1, got) \in Seq(Bytes)
  <2>1. SubSeq(there, 1, got) \in Seq(Bytes)
    BY <1>4, SubSeqTyped
  <2> QED
    BY <1>6, <2>1
<1>8. moved'[p] = moved[p] \o SubSeq(there, 1, got) /\ moved' \in [Procs -> Seq(Bytes)]
  BY <1>5, <1>7 DEF TypeOK
<1>9. PICK upto \in stored[p]..Len(moved'[p]) : Deliver(p, moved'[p], upto)
  BY <1>5
<1>10. /\ content' \in Seq(Bytes)
       /\ stored' = [stored EXCEPT ![p] = upto]
       /\ upto \in Nat
       /\ meddled' \in SUBSET Procs
  BY <1>2, <1>7, <1>8, <1>9, DeliverTyped
<1>11. stored' \in [Procs -> Nat] /\ \A q \in Procs : stored'[q] <= Len(moved'[q])
  <2>1. stored' \in [Procs -> Nat] /\ stored'[p] = upto
    BY <1>10 DEF TypeOK
  <2>2. upto <= Len(moved'[p])
    <3>1. moved'[p] \in Seq(Bytes)
      BY <1>7, <1>8
    <3>2. Len(moved'[p]) \in Nat
      BY <3>1
    <3> QED
      BY <1>6, <3>2
  <2>3. ASSUME NEW q \in Procs \ {p} PROVE stored'[q] <= Len(moved'[q])
    BY <1>5, <1>10 DEF TypeOK
  <2> QED
    BY <2>1, <2>2, <2>3
<1>12. in' \in [Procs -> {"good", "eof", "bad"}] /\ out' \in [Procs -> {"good", "bad"}]
  <2>1. \E state \in {"good", "eof", "bad"} : in' = [in EXCEPT ![p] = state]
    BY <1>5 DEF InAfter
  <2>2. \E state \in {"good", "bad"} : out' = [out EXCEPT ![p] = state]
    BY DEF Turn
  <2>3. in \in [Procs -> {"good", "eof", "bad"}] /\ out \in [Procs -> {"good", "bad"}]
    BY DEF TypeOK
  <2>4. in' \in [Procs -> {"good", "eof", "bad"}]
    BY <2>1, <2>3
  <2>5. out' \in [Procs -> {"good", "bad"}]
    BY <2>2, <2>3
  <2> QED
    BY <2>4, <2>5
<1>13. reads' \in [Procs -> Nat] /\ rest' \in [Procs -> Nat]
  <2>1. /\ reads' = [reads EXCEPT ![p] = IF @ > 0 THEN @ - 1 ELSE 0]
        /\ rest' = [rest EXCEPT ![p] = IF reads[p] > 0 THEN @ ELSE 0]
    BY DEF Turn
  <2> QED
    BY <2>1 DEF TypeOK
<1>14. TypeOK'
  <2>1. cut' \in SUBSET Procs
    BY <1>5 DEF TypeOK
  <2> QED
    BY <1>1, <1>8, <1>10, <1>11, <1>12, <1>13, <2>1 DEF TypeOK
<1>15. Ready(p)'
  <2>1. content' # Missing
    BY <1>10, IstreamAssumption
  <2> QED
    BY <1>1, <1>2, <2>1 DEF Ready
<1>16. Apart(p)
  <2>1. content' # Missing
    BY <1>10, IstreamAssumption
  <2>2. ASSUME NEW q \in Procs \ {p}
        PROVE /\ moved'[q] = moved[q] /\ stored'[q] = stored[q] /\ in'[q] = in[q]
    BY <1>5, <1>10 DEF TypeOK
  <2>3. ASSUME NEW q \in Procs \ {p} PROVE (q \in cut') <=> (q \in cut)
    BY <1>5
  <2>4. ASSUME NEW q \in Procs \ {p}
        PROVE /\ out'[q] = out[q] /\ reads'[q] = reads[q] /\ rest'[q] = rest[q]
    BY DEF Turn, TypeOK
  <2> QED
    BY <1>1, <2>1, <2>2, <2>3, <2>4 DEF Apart
<1> QED
  BY <1>14, <1>15, <1>16

LEMMA CloseTyped ==
    ASSUME TypeInv, NEW p \in Procs, Close(p)
    PROVE  TypeOK' /\ Ready(p)' /\ Apart(p)
<1> USE DEF TypeInv, object, opts, stream, Goto
<1>1. UNCHANGED <<exit, opts, count, reads, rest, moved, in, out, before, cut>>
  BY DEF Close
<1>2. content # Missing /\ (moved[p] # <<>> => offset[p] >= 0)
  BY DEF Close, Ready
<1>3. moved[p] \in Seq(Bytes) /\ stored[p] \in Nat
  BY DEF TypeOK
<1>4. PICK upto \in stored[p]..Len(moved[p]) :
        Deliver(p, moved[p], upto) /\ (size' = Len(content') \/ UNCHANGED size)
  BY DEF Close
<1>5. /\ content' \in Seq(Bytes)
      /\ stored' = [stored EXCEPT ![p] = upto]
      /\ upto \in Nat
      /\ meddled' \in SUBSET Procs
  BY <1>2, <1>3, <1>4, DeliverTyped
<1>6. stored' \in [Procs -> Nat] /\ \A q \in Procs : stored'[q] <= Len(moved'[q])
  BY <1>1, <1>3, <1>4, <1>5 DEF TypeOK
<1>7. size' \in Nat
  BY <1>4, <1>5 DEF TypeOK
<1>8. pc' = [pc EXCEPT ![p] = "done"]
  BY DEF Close
<1>9. TypeOK'
  BY <1>1, <1>5, <1>6, <1>7, <1>8 DEF TypeOK
<1>10. Ready(p)'
  <2>1. pc'[p] = "done"
    BY <1>8 DEF TypeOK
  <2> QED
    BY <2>1 DEF Ready
<1>11. Apart(p)
  <2>1. content' # Missing
    BY <1>5, IstreamAssumption
  <2>2. ASSUME NEW q \in Procs \ {p} PROVE pc'[q] = pc[q] /\ stored'[q] = stored[q]
    BY <1>5, <1>8 DEF TypeOK
  <2> QED
    BY <1>1, <2>1, <2>2 DEF Apart
<1> QED
  BY <1>9, <1>10, <1>11

LEMMA StepTyped ==
    ASSUME TypeInv, NEW p \in Procs, Start(p) \/ Step(p) \/ Kill(p)
    PROVE  TypeOK' /\ Ready(p)' /\ Apart(p)
BY StartTyped, OpenTyped, SetupTyped, TurnTyped, EndTyped, CloseTyped DEF Step

LEMMA TypeInvInit == ASSUME Init PROVE TypeInv
<1>1. TypeOK
  <2>1. content \in Seq(Bytes) \union {Missing} /\ size \in Nat
    BY IstreamAssumption DEF Init
  <2>2. <<>> \in Seq(Bytes) /\ Len(<<>>) = 0
    BY EmptyTyped
  <2>3. AllBytes \in Int
    BY IstreamAssumption
  <2> QED
    BY <2>1, <2>2, <2>3 DEF Init, TypeOK
<1>2. \A p \in Procs : Ready(p)
  BY DEF Init, Ready
<1> QED
  BY <1>1, <1>2 DEF TypeInv

LEMMA TypeInvNext == ASSUME TypeInv, [Next]_vars PROVE TypeInv'
<1>1. CASE UNCHANGED vars
  BY <1>1 DEF TypeInv, TypeOK, Ready, vars, object, opts, stream
<1>2. ASSUME NEW p \in Procs, Start(p) \/ Step(p) \/ Kill(p) PROVE TypeInv'
  <2>1. TypeOK' /\ Ready(p)' /\ Apart(p)
    BY <1>2, StepTyped
  <2>2. ASSUME NEW q \in Procs \ {p} PROVE Ready(q)'
    BY <2>1, ApartReady DEF TypeInv
  <2> QED
    BY <2>1, <2>2 DEF TypeInv
<1> QED
  BY <1>1, <1>2 DEF Next

\* Every variable keeps its type: in particular no read or write happens at
\* a negative offset or on an object that does not exist, and no counter of
\* stream_bytes runs below zero.
THEOREM TypeCorrect == Spec => []TypeOK
<1>1. Init => TypeInv
  BY TypeInvInit
<1>2. TypeInv /\ [Next]_vars => TypeInv'
  BY TypeInvNext
<1>3. TypeInv => TypeOK
  BY DEF TypeInv
<1> QED
  BY <1>1, <1>2, <1>3, PTL DEF Spec

---------------------------------------------------------------------------
(* The count.  While the loops run, what is read and what is still to be   *)
(* read never add up to more than was asked for.                           *)

Within(p) ==
    count[p] >= 0 /\ count[p] # AllBytes => Len(moved[p]) <= count[p]

Accounted(p) ==
    pc[p] = "stream" =>
        /\ count[p] >= 0
        /\ count[p] # AllBytes =>
             reads[p] * BufferSize + rest[p] + Len(moved[p]) <= count[p]

Complete(p) ==
    /\ out[p] = "good"
    /\ IF count[p] = AllBytes THEN in[p] = "eof" ELSE Len(moved[p]) = count[p]

Told(p) ==
    /\ pc[p] \in {"close", "done"} /\ exit[p] = 0 => Complete(p)
    /\ Within(p) /\ Accounted(p)

CountInv == TypeInv /\ \A p \in Procs : Told(p)

LEMMA ApartTold ==
    ASSUME NEW p \in Procs, NEW q \in Procs \ {p}, Apart(p), Told(q)
    PROVE  Told(q)'
BY DEF Apart, Told, Within, Accounted, Complete

LEMMA SetupTold ==
    ASSUME TypeInv, NEW p \in Procs, Told(p), TypeOK',
           Start(p) \/ Open(p) \/ Seek(p) \/ Size(p) \/ Begin(p)
    PROVE  Told(p)'
<1> USE DEF TypeInv, object, opts, stream
<1>1. pc[p] \in {"start", "open", "seek", "size", "begin"} /\ UNCHANGED moved
  BY DEF Start, Open, Seek, Size, Begin
<1>2. moved[p] = <<>> /\ moved'[p] = <<>> /\ Len(<<>>) = 0
  BY <1>1 DEF Ready
<1>3. count'[p] \in Int
  BY DEF TypeOK
<1>4. Within(p)'
  BY <1>2, <1>3 DEF Within
<1>5. ~(pc'[p] \in {"close", "done"} /\ exit'[p] = 0)
  <2>1. \/ \E label \in {"open", "seek", "size", "begin", "stream"} : Goto(p, label)
        \/ \E label \in {"close", "done"} : Leave(p, label, 1)
    BY DEF Start, Open, Seek, Size, Begin
  <2>2. ASSUME NEW label \in {"open", "seek", "size", "begin", "stream"}, Goto(p, label)
        PROVE  pc'[p] = label
    BY <2>2 DEF Goto, TypeOK
  <2>3. ASSUME NEW label \in {"close", "done"}, Leave(p, label, 1)
        PROVE  exit'[p] = 1
    BY <2>3 DEF Leave, TypeOK
  <2> QED
    BY <2>1, <2>2, <2>3
<1>6. Accounted(p)'
  <2> SUFFICES ASSUME pc'[p] = "stream" PROVE Accounted(p)'
    BY DEF Accounted
  <2>1. Begin(p) /\ count[p] >= 0
    <3>1. ~Start(p) /\ ~Open(p) /\ ~Seek(p) /\ ~Size(p)
      BY DEF Start, Open, Seek, Size, Goto, Leave, TypeOK
    <3>2. count[p] \in Int
      BY DEF TypeOK
    <3>3. count[p] < 0 => ~Begin(p)
      BY DEF Begin, Leave, Goto, TypeOK
    <3> QED
      BY <3>1, <3>2, <3>3
  <2>2. UNCHANGED count /\ count[p] \in Nat
    BY <2>1 DEF Begin, TypeOK
  <2>3. CASE count[p] = AllBytes
    BY <2>2, <2>3 DEF Accounted
  <2>4. CASE count[p] # AllBytes
    <3>1. /\ reads' = [reads EXCEPT ![p] = count[p] \div BufferSize]
          /\ rest' = [rest EXCEPT ![p] = count[p] % BufferSize]
      BY <2>1, <2>2, <2>4 DEF Begin
    <3>2. reads'[p] = count[p] \div BufferSize /\ rest'[p] = count[p] % BufferSize
      BY <3>1 DEF TypeOK
    <3>3. reads'[p] * BufferSize + rest'[p] = count[p]
      BY <2>2, <3>2, Division, IstreamAssumption
    <3>4. reads'[p] * BufferSize + rest'[p] + Len(moved'[p]) <= count'[p]
      BY <1>2, <2>2, <3>3
    <3> QED
      BY <2>2, <3>4 DEF Accounted
  <2> QED
    BY <2>3, <2>4
<1> QED
  BY <1>4, <1>5, <1>6 DEF Told

LEMMA TurnTold ==
    ASSUME TypeInv, NEW p \in Procs, Told(p), TypeOK', Turn(p)
    PROVE  Told(p)'
<1> USE DEF TypeInv, object, opts, stream
<1> DEFINE n == NextRead(p)
           there == Available(p, n)
<1>1. UNCHANGED <<pc, exit, count>> /\ pc[p] = "stream" /\ pc'[p] = "stream"
  BY DEF Turn
<1>2. content # Missing /\ offset[p] >= 0 /\ count[p] >= 0
  BY <1>1 DEF Ready, Told, Accounted
<1>3. n \in Nat
  BY IstreamAssumption DEF NextRead, TypeOK
<1>4. there \in Seq(Bytes) /\ Len(there) <= n
  BY <1>2, <1>3, AvailableTyped
<1>5. CASE count[p] = AllBytes
  BY <1>1, <1>2, <1>5 DEF Told, Within, Accounted
<1>6. CASE count[p] # AllBytes
  <2>1. /\ reads'[p] = IF reads[p] > 0 THEN reads[p] - 1 ELSE 0
        /\ rest'[p] = IF reads[p] > 0 THEN rest[p] ELSE 0
    BY DEF Turn, TypeOK
  <2>2. n = IF reads[p] > 0 THEN BufferSize ELSE rest[p]
    BY <1>6 DEF NextRead
  <2> HIDE DEF n, there
  <2>3. PICK got \in 0..Len(there) : moved' = [moved EXCEPT ![p] = @ \o SubSeq(there, 1, got)]
    BY DEF Turn, n, there
  <2>4. SubSeq(there, 1, got) \in Seq(Bytes) /\ Len(SubSeq(there, 1, got)) = got
    BY <1>4, SubSeqTyped
  <2>5. moved[p] \in Seq(Bytes) /\ moved'[p] = moved[p] \o SubSeq(there, 1, got)
    <3>1. moved \in [Procs -> Seq(Bytes)]
      BY DEF TypeOK
    <3> QED
      BY <2>3, <3>1
  <2>6. Len(moved'[p]) = Len(moved[p]) + got
    BY <2>4, <2>5, ConcatLength
  <2>7. got \in Nat /\ got <= n /\ Len(moved[p]) \in Nat
    <3>1. Len(there) \in Nat
      BY <1>4
    <3> QED
      BY <1>3, <1>4, <2>5, <3>1
  <2>8. reads[p] \in Nat /\ rest[p] \in Nat /\ count[p] \in Int /\ BufferSize \in Nat
    BY IstreamAssumption DEF TypeOK
  <2>9. reads[p] * BufferSize + rest[p] + Len(moved[p]) <= count[p]
    BY <1>1, <1>6 DEF Told, Accounted
  <2>10. reads'[p] * BufferSize + rest'[p] + Len(moved'[p]) <= count[p]
    <3>1. CASE reads[p] > 0
      <4>1. (reads[p] - 1) * BufferSize + rest[p] + (Len(moved[p]) + got) <= count[p]
        <5>1. got <= BufferSize /\ reads[p] \in Nat \ {0}
          BY <2>2, <2>7, <2>8, <3>1
        <5> QED
          BY <2>7, <2>8, <2>9, <5>1, OneLess
      <4> QED
        BY <2>1, <2>6, <3>1, <4>1
    <3>2. CASE reads[p] = 0
      <4>1. reads'[p] = 0 /\ rest'[p] = 0 /\ got <= rest[p]
        BY <2>1, <2>2, <2>7, <2>8, <3>2
      <4>2. rest[p] + Len(moved[p]) <= count[p]
        BY <2>7, <2>8, <2>9, <3>2
      <4>3. reads'[p] * BufferSize = 0
        BY <2>8, <4>1
      <4>4. reads'[p] * BufferSize + rest'[p] + Len(moved'[p]) = Len(moved[p]) + got
        BY <2>6, <2>7, <4>1, <4>3
      <4>5. Len(moved[p]) + got <= count[p]
        BY <2>7, <2>8, <4>1, <4>2
      <4> QED
        BY <4>4, <4>5
    <3> QED
      BY <2>8, <3>1, <3>2
  <2>11. Len(moved'[p]) <= count[p]
    <3>1. reads'[p] \in Nat /\ rest'[p] \in Nat /\ Len(moved'[p]) \in Nat
      BY <2>1, <2>6, <2>7, <2>8
    <3> QED
      BY <2>8, <2>10, <3>1, NoMore
  <2> QED
    BY <1>1, <1>2, <2>10, <2>11 DEF Told, Within, Accounted
<1> QED
  BY <1>5, <1>6

LEMMA EndTold ==
    ASSUME TypeInv, NEW p \in Procs, Told(p), TypeOK',
           StreamEnd(p) \/ Close(p) \/ Kill(p)
    PROVE  Told(p)'
<1> USE DEF TypeInv, object, opts, stream
<1>1. UNCHANGED <<count, moved, in, out>>
  BY DEF StreamEnd, Close, Kill
<1>2. Within(p)'
  BY <1>1 DEF Told, Within
<1>3. pc'[p] \in {"close", "done"}
  BY DEF StreamEnd, Close, Kill, Leave, Goto, TypeOK
<1>4. Accounted(p)'
  BY <1>3 DEF Accounted
<1>5. exit'[p] = 0 => Complete(p)
  <2>1. CASE StreamEnd(p)
    <3>1. exit'[p] = Status(p)
      BY <2>1 DEF StreamEnd, Leave, TypeOK
    <3> QED
      BY <3>1 DEF Status, Complete
  <2>2. CASE Close(p)
    <3>1. pc[p] = "close" /\ UNCHANGED exit
      BY <2>2 DEF Close
    <3> QED
      BY <3>1 DEF Told
  <2>3. CASE Kill(p)
    <3>1. exit'[p] = Killed
      BY <2>3 DEF Kill, Leave, TypeOK
    <3> QED
      BY <3>1 DEF Killed
  <2> QED
    BY <2>1, <2>2, <2>3
<1> QED
  BY <1>1, <1>2, <1>4, <1>5 DEF Told, Complete

LEMMA CountInvInit == ASSUME Init PROVE CountInv
<1>1. TypeInv
  BY TypeInvInit
<1>2. ASSUME NEW p \in Procs PROVE Told(p)
  <2>1. pc[p] = "start" /\ moved[p] = <<>> /\ count[p] = 0
    BY DEF Init
  <2> QED
    BY <2>1 DEF Told, Within, Accounted
<1> QED
  BY <1>1, <1>2 DEF CountInv

LEMMA CountInvNext == ASSUME CountInv, [Next]_vars PROVE CountInv'
<1>1. CASE UNCHANGED vars
  <2>1. TypeInv'
    BY TypeInvNext DEF CountInv
  <2> QED
    BY <1>1, <2>1 DEF CountInv, Told, Complete, Within, Accounted, vars, object, opts, stream
<1>2. ASSUME NEW p \in Procs, Start(p) \/ Step(p) \/ Kill(p) PROVE CountInv'
  <2>1. TypeInv' /\ TypeOK'
    BY <1>2, TypeInvNext DEF CountInv, Next, TypeInv
  <2>2. Apart(p)
    BY <1>2, StepTyped DEF CountInv
  <2>3. Told(p)'
    BY <1>2, <2>1, SetupTold, TurnTold, EndTold DEF CountInv, Step
  <2>4. ASSUME NEW q \in Procs \ {p} PROVE Told(q)'
    BY <2>2, ApartTold DEF CountInv
  <2> QED
    BY <2>1, <2>3, <2>4 DEF CountInv
<1> QED
  BY <1>1, <1>2 DEF Next
============================================================================
