------------------------- MODULE IstreamDataProofs -------------------------
(***************************************************************************)
(* What istream reads and writes is undamaged, for every buffer size, any  *)
(* number of processes and any contents: the bytes of the turns fit        *)
(* together, and so do the pieces in which they are delivered.             *)
(***************************************************************************)
EXTENDS IstreamProofs

---------------------------------------------------------------------------
(* Sequences *)

LEMMA SubSeqAt ==
    ASSUME NEW s \in Seq(Bytes), NEW m \in Nat \ {0}, NEW n \in Nat, n <= Len(s), m <= n + 1
    PROVE  /\ SubSeq(s, m, n) \in Seq(Bytes)
           /\ Len(SubSeq(s, m, n)) = n - m + 1
           /\ \A i \in 1 .. (n - m + 1) : SubSeq(s, m, n)[i] = s[m + i - 1]
<1>1. SubSeq(s, m, n) \in Seq(Bytes) /\ Len(SubSeq(s, m, n)) = n - m + 1
  BY SubSeqTyped
<1>2. \A i \in 1 .. (n - m + 1) : SubSeq(s, m, n)[i] = s[m + i - 1]
  OBVIOUS
<1> QED
  BY <1>1, <1>2

LEMMA SameSeq ==
    ASSUME NEW s \in Seq(Bytes), NEW t \in Seq(Bytes), Len(s) = Len(t),
           \A i \in 1 .. Len(s) : s[i] = t[i]
    PROVE  s = t
OBVIOUS

LEMMA NoBytes == ASSUME NEW s \in Seq(Bytes) PROVE s = <<>> <=> Len(s) = 0
OBVIOUS

LEMMA ConcatAt ==
    ASSUME NEW s \in Seq(Bytes), NEW t \in Seq(Bytes)
    PROVE  /\ s \o t \in Seq(Bytes)
           /\ Len(s \o t) = Len(s) + Len(t)
           /\ \A i \in 1 .. Len(s) : (s \o t)[i] = s[i]
           /\ \A i \in 1 .. Len(t) : (s \o t)[Len(s) + i] = t[i]
OBVIOUS

\* Nothing of what comes first is lost by appending to it.
LEMMA FirstOfConcat ==
    ASSUME NEW s \in Seq(Bytes), NEW t \in Seq(Bytes), NEW k \in Nat, k <= Len(s)
    PROVE  SubSeq(s \o t, 1, k) = SubSeq(s, 1, k)
<1>1. /\ s \o t \in Seq(Bytes) /\ Len(s \o t) = Len(s) + Len(t)
      /\ \A i \in 1 .. Len(s) : (s \o t)[i] = s[i]
  BY ConcatAt
<1>2. k <= Len(s \o t)
  BY <1>1
<1>3. /\ SubSeq(s \o t, 1, k) \in Seq(Bytes) /\ Len(SubSeq(s \o t, 1, k)) = k
      /\ \A i \in 1 .. k : SubSeq(s \o t, 1, k)[i] = (s \o t)[i]
  BY <1>1, <1>2, SubSeqAt
<1>4. /\ SubSeq(s, 1, k) \in Seq(Bytes) /\ Len(SubSeq(s, 1, k)) = k
      /\ \A i \in 1 .. k : SubSeq(s, 1, k)[i] = s[i]
  BY SubSeqAt
<1> QED
  BY <1>1, <1>3, <1>4, SameSeq

\* t is a piece of b from an offset on.
Piece(t, b, from) ==
    /\ t \in Seq(Bytes)
    /\ Len(t) > 0 => from + Len(t) <= Len(b)
    /\ \A i \in 1 .. Len(t) : t[i] = b[from + i]

\* A piece of n bytes from an offset on, as far as there are any.
LEMMA PartAt ==
    ASSUME NEW b \in Seq(Bytes), NEW from \in Nat, NEW n \in Nat
    PROVE  /\ Piece(Part(b, from, n), b, from)
           /\ Len(Part(b, from, n)) <= n
           /\ from + n <= Len(b) => Len(Part(b, from, n)) = n
<1> DEFINE last == Smaller(from + n, Len(b))
<1>1. last \in Nat /\ last <= Len(b) /\ last <= from + n /\ (from + n <= Len(b) => last = from + n)
  BY DEF Smaller
<1>2. Part(b, from, n) = SubSeq(b, from + 1, last)
  BY DEF Part
<1> HIDE DEF last
<1>3. CASE from + 1 <= last + 1
  <2>1. /\ Part(b, from, n) \in Seq(Bytes)
        /\ Len(Part(b, from, n)) = last - (from + 1) + 1
        /\ \A i \in 1 .. (last - (from + 1) + 1) : Part(b, from, n)[i] = b[(from + 1) + i - 1]
    BY <1>1, <1>2, <1>3, SubSeqAt
  <2>2. Len(Part(b, from, n)) = last - from
    BY <1>1, <2>1
  <2>3. ASSUME NEW i \in 1 .. Len(Part(b, from, n)) PROVE Part(b, from, n)[i] = b[from + i]
    <3>1. (from + 1) + i - 1 = from + i /\ i \in 1 .. (last - (from + 1) + 1)
      BY <1>1, <2>2
    <3> QED
      BY <2>1, <3>1
  <2> QED
    BY <1>1, <2>1, <2>2, <2>3 DEF Piece
<1>4. CASE from + 1 > last + 1
  <2>1. Part(b, from, n) \in Seq(Bytes) /\ Len(Part(b, from, n)) = 0
    BY <1>1, <1>2, <1>4, SubSeqTyped
  <2> QED
    BY <1>1, <1>4, <2>1 DEF Piece
<1> QED
  BY <1>1, <1>3, <1>4

\* The bytes after a piece continue it, however many of them are got.
Continues(b, from, n, m) ==
    \A got \in 0 .. Len(Part(b, from + Len(m), n)) :
        m \o SubSeq(Part(b, from + Len(m), n), 1, got) = Part(b, from, Len(m) + got)

LEMMA PartExtends ==
    ASSUME NEW b \in Seq(Bytes), NEW from \in Nat, NEW n \in Nat, NEW m \in Seq(Bytes),
           m = Part(b, from, Len(m))
    PROVE  Continues(b, from, n, m)
<1>a. PICK l \in Nat : Len(m) = l
  OBVIOUS
<1>b. PICK on \in Nat : on = from + l
  OBVIOUS
<1>c. PICK there : there = Part(b, on, n)
  OBVIOUS
<1>d. SUFFICES ASSUME NEW got \in Nat, got <= Len(there)
               PROVE  m \o SubSeq(there, 1, got) = Part(b, from, l + got)
  <2>1. Len(there) \in Nat
    BY <1>c, PartTyped
  <2>2. ASSUME NEW got \in 0 .. Len(there) PROVE got \in Nat /\ got <= Len(there)
    BY <2>1
  <2>3. there = Part(b, from + Len(m), n)
    BY <1>a, <1>b, <1>c
  <2> QED
    BY <1>a, <2>2, <2>3 DEF Continues
<1>e. m = Part(b, from, l)
  BY <1>a
<1> USE <1>a, <1>b, <1>c, <1>d, <1>e
<1> DEFINE new == SubSeq(there, 1, got)
           all == Part(b, from, l + got)
<1>1. /\ there \in Seq(Bytes)
      /\ Len(there) > 0 => on + Len(there) <= Len(b)
      /\ \A i \in 1 .. Len(there) : there[i] = b[on + i]
  <2>1. Piece(there, b, on)
    BY PartAt
  <2> QED
    BY <2>1 DEF Piece
<1>2. /\ l > 0 => from + l <= Len(b)
      /\ \A i \in 1 .. l : m[i] = b[from + i]
  <2>1. Piece(m, b, from)
    BY PartAt
  <2> QED
    BY <2>1 DEF Piece
<1>3. new \in Seq(Bytes) /\ Len(new) = got /\ \A i \in 1 .. got : new[i] = there[i]
  <2>1. /\ new \in Seq(Bytes) /\ Len(new) = got - 1 + 1
        /\ \A i \in 1 .. (got - 1 + 1) : new[i] = there[1 + i - 1]
    BY <1>1, SubSeqAt
  <2>2. got - 1 + 1 = got /\ \A i \in 1 .. got : 1 + i - 1 = i
    OBVIOUS
  <2> HIDE DEF new
  <2> QED
    BY <2>1, <2>2
<1>4. CASE l + got = 0
  <2>1. all \in Seq(Bytes) /\ Len(all) = 0
    <3>1. all \in Seq(Bytes) /\ Len(all) <= l + got
      <4>1. l + got \in Nat
        OBVIOUS
      <4>2. Piece(all, b, from) /\ Len(all) <= l + got
        BY <4>1, PartAt
      <4> QED
        BY <4>2 DEF Piece
    <3> HIDE DEF all
    <3> QED
      BY <1>4, <3>1
  <2>2. m \o new \in Seq(Bytes) /\ Len(m \o new) = 0
    <3> HIDE DEF new
    <3>1. m \o new \in Seq(Bytes) /\ Len(m \o new) = Len(m) + Len(new)
      BY <1>3, ConcatAt
    <3> QED
      BY <1>3, <1>4, <3>1
  <2> HIDE DEF all, new
  <2>3. m \o new = <<>> /\ all = <<>>
    BY <2>1, <2>2, NoBytes
  <2> QED
    BY <2>3 DEF all, new
<1>5. CASE l + got > 0
  <2>1. from + (l + got) <= Len(b)
    <3>1. Len(b) \in Nat /\ Len(there) \in Nat
      BY <1>1
    <3>2. CASE got > 0
      BY <1>1, <3>1, <3>2
    <3>3. CASE got = 0
      BY <1>2, <1>5, <3>1, <3>3
    <3> QED
      BY <3>2, <3>3
  <2>2. /\ all \in Seq(Bytes) /\ Len(all) = l + got
        /\ \A i \in 1 .. (l + got) : all[i] = b[from + i]
    <3>1. l + got \in Nat
      OBVIOUS
    <3>2. Piece(all, b, from) /\ Len(all) = l + got
      BY <2>1, <3>1, PartAt
    <3> HIDE DEF all
    <3> QED
      BY <3>2 DEF Piece
  <2> HIDE DEF new, all
  <2>3. /\ m \o new \in Seq(Bytes) /\ Len(m \o new) = l + got
        /\ \A i \in 1 .. l : (m \o new)[i] = m[i]
        /\ \A i \in 1 .. got : (m \o new)[l + i] = new[i]
    BY <1>3, ConcatAt
  <2>4. ASSUME NEW i \in 1 .. (l + got) PROVE (m \o new)[i] = all[i]
    <3>1. all[i] = b[from + i]
      BY <2>2
    <3>2. CASE i <= l
      <4>1. i \in 1 .. l
        BY <3>2
      <4> QED
        BY <1>2, <2>3, <3>1, <4>1
    <3>3. CASE i > l
      <4>1. PICK k \in 1 .. got : i = l + k
        <5>1. i - l \in 1 .. got /\ i = l + (i - l)
          BY <3>3
        <5> QED
          BY <5>1
      <4>2. k \in 1 .. Len(there) /\ on + k = from + i
        BY <1>1, <4>1
      <4>3. (m \o new)[i] = new[k]
        BY <2>3, <4>1
      <4>4. new[k] = there[k]
        BY <1>3, <4>1
      <4>5. there[k] = b[on + k]
        <5>1. k \in 1 .. Len(there)
          BY <4>2
        <5> HIDE DEF new, all
        <5> QED
          BY <1>1, <5>1
      <4> QED
        BY <3>1, <4>2, <4>3, <4>4, <4>5
    <3>4. i <= l \/ i > l
      OBVIOUS
    <3> HIDE DEF new, all
    <3> QED
      BY <3>2, <3>3, <3>4
  <2>5. m \o new = all
    BY <2>2, <2>3, <2>4, SameSeq
  <2> QED
    BY <2>5 DEF new, all
<1> QED
  BY <1>4, <1>5

\* z is b with l bytes of s in their place at a.
Spliced(z, b, a, s, l) ==
    /\ z \in Seq(Bytes) /\ Len(z) = Larger(Len(b), a + l)
    /\ \A i \in 1 .. Len(z) :
         /\ i > a /\ i <= a + l => z[i] = s[i - a]
         /\ i <= a \/ i > a + l =>
              /\ i <= Len(b) => z[i] = b[i]
              /\ i > Len(b) => z[i] = Hole

LEMMA SpliceAt ==
    ASSUME NEW b \in Seq(Bytes), NEW a \in Nat, NEW s \in Seq(Bytes), s # <<>>
    PROVE  Spliced(Splice(b, a, s), b, a, s, Len(s))
<1> DEFINE z == Splice(b, a, s)
           n == Larger(Len(b), a + Len(s))
<1>1. z \in Seq(Bytes)
  BY SpliceTyped
<1>2. n \in Nat /\ Len(s) \in Nat /\ Len(b) \in Nat
  BY DEF Larger
<1>3. z = [i \in 1..n |->
             IF i > a /\ i <= a + Len(s) THEN s[i - a]
             ELSE IF i <= Len(b) THEN b[i] ELSE Hole]
  BY DEF Splice
<1>4. Len(z) = n
  <2>1. DOMAIN z = 1 .. Len(z) /\ Len(z) \in Nat
    BY <1>1
  <2>2. DOMAIN z = 1 .. n
    BY <1>3
  <2> QED
    BY <1>2, <2>1, <2>2
<1>5. ASSUME NEW i \in 1 .. n
      PROVE  /\ i > a /\ i <= a + Len(s) => z[i] = s[i - a]
             /\ i <= a \/ i > a + Len(s) =>
                  /\ i <= Len(b) => z[i] = b[i]
                  /\ i > Len(b) => z[i] = Hole
  <2>1. z[i] = IF i > a /\ i <= a + Len(s) THEN s[i - a]
               ELSE IF i <= Len(b) THEN b[i] ELSE Hole
    BY <1>3
  <2>2. i \in Int
    BY <1>2
  <2>3. i <= a \/ i > a + Len(s) => ~(i > a /\ i <= a + Len(s))
    BY <1>2, <2>2
  <2>4. i > Len(b) => ~(i <= Len(b))
    BY <1>2, <2>2
  <2> QED
    BY <2>1, <2>3, <2>4
<1> HIDE DEF z
<1>6. /\ z \in Seq(Bytes) /\ Len(z) = Larger(Len(b), a + Len(s))
      /\ \A i \in 1 .. Len(z) :
           /\ i > a /\ i <= a + Len(s) => z[i] = s[i - a]
           /\ i <= a \/ i > a + Len(s) =>
                /\ i <= Len(b) => z[i] = b[i]
                /\ i > Len(b) => z[i] = Hole
  BY <1>1, <1>4, <1>5 DEF n
<1> QED
  BY <1>6 DEF Spliced, z

\* Two deliveries in a row are as good as one.
LEMMA SpliceTwice ==
    ASSUME NEW b \in Seq(Bytes), NEW a \in Nat, NEW m \in Seq(Bytes),
           NEW k \in Nat, NEW u \in Nat, k < u, u <= Len(m)
    PROVE  Splice(Splice(b, a, SubSeq(m, 1, k)), a + k, SubSeq(m, k + 1, u))
             = Splice(b, a, SubSeq(m, 1, u))
<1> DEFINE first == SubSeq(m, 1, k)
           second == SubSeq(m, k + 1, u)
           both == SubSeq(m, 1, u)
           x == Splice(b, a, first)
           y == Splice(x, a + k, second)
           z == Splice(b, a, both)
<1>1. first \in Seq(Bytes) /\ Len(first) = k /\ \A i \in 1 .. k : first[i] = m[i]
  <2>1. k <= Len(m)
    OBVIOUS
  <2> QED
    BY <2>1, SubSeqAt
<1>2. second \in Seq(Bytes) /\ Len(second) = u - k /\ \A i \in 1 .. u - k : second[i] = m[k + i]
  <2>1. /\ second \in Seq(Bytes) /\ Len(second) = u - (k + 1) + 1
        /\ \A i \in 1 .. (u - (k + 1) + 1) : second[i] = m[(k + 1) + i - 1]
    BY SubSeqAt
  <2>2. u - (k + 1) + 1 = u - k /\ \A i \in 1 .. u - k : (k + 1) + i - 1 = k + i
    OBVIOUS
  <2> HIDE DEF second
  <2> QED
    BY <2>1, <2>2
<1>3. both \in Seq(Bytes) /\ Len(both) = u /\ \A i \in 1 .. u : both[i] = m[i]
  BY SubSeqAt
<1> HIDE DEF first, second, both
<1>4. both # <<>> /\ second # <<>>
  BY <1>2, <1>3, NoBytes
<1>5. CASE k = 0
  <2>1. first = <<>> /\ x = b
    BY <1>1, <1>5, NoBytes DEF Splice
  <2>2. second = both
    <3>1. Len(second) = Len(both) /\ \A i \in 1 .. Len(second) : second[i] = both[i]
      BY <1>2, <1>3, <1>5
    <3> QED
      BY <1>2, <1>3, <3>1, SameSeq
  <2>3. a + k = a
    BY <1>5
  <2> QED
    BY <2>1, <2>2, <2>3 DEF first, second, both
<1>6. CASE k > 0
  <2>1. first # <<>>
    BY <1>1, <1>6, NoBytes
  <2>2. Spliced(x, b, a, first, k) /\ x \in Seq(Bytes)
    <3>1. Spliced(x, b, a, first, Len(first))
      BY <1>1, <2>1, SpliceAt
    <3> QED
      BY <1>1, <3>1, SpliceTyped
  <2>3. Spliced(z, b, a, both, u) /\ z \in Seq(Bytes)
    <3>1. Spliced(z, b, a, both, Len(both))
      BY <1>3, <1>4, SpliceAt
    <3> QED
      BY <1>3, <3>1, SpliceTyped
  <2> HIDE DEF x, z
  <2>4. Spliced(y, x, a + k, second, u - k)
    <3>1. Spliced(y, x, a + k, second, Len(second))
      <4>1. a + k \in Nat
        OBVIOUS
      <4> QED
        BY <1>2, <1>4, <2>2, <4>1, SpliceAt
    <3> QED
      BY <1>2, <3>1
  <2> HIDE DEF y
  <2>11. /\ Len(x) = Larger(Len(b), a + k) /\ Len(x) \in Nat
         /\ \A i \in 1 .. Len(x) :
              /\ i > a /\ i <= a + k => x[i] = first[i - a]
              /\ i <= a \/ i > a + k =>
                   /\ i <= Len(b) => x[i] = b[i]
                   /\ i > Len(b) => x[i] = Hole
    BY <2>2 DEF Spliced
  <2>12. /\ Len(z) = Larger(Len(b), a + u)
         /\ \A i \in 1 .. Len(z) :
              /\ i > a /\ i <= a + u => z[i] = both[i - a]
              /\ i <= a \/ i > a + u =>
                   /\ i <= Len(b) => z[i] = b[i]
                   /\ i > Len(b) => z[i] = Hole
    BY <2>3 DEF Spliced
  <2>13. /\ y \in Seq(Bytes) /\ Len(y) = Larger(Len(x), a + u)
         /\ \A i \in 1 .. Len(y) :
              /\ i > a + k /\ i <= a + u => y[i] = second[i - (a + k)]
              /\ i <= a + k \/ i > a + u =>
                   /\ i <= Len(x) => y[i] = x[i]
                   /\ i > Len(x) => y[i] = Hole
    <3>1. a + k + (u - k) = a + u
      OBVIOUS
    <3> QED
      BY <2>4, <3>1 DEF Spliced
  <2> HIDE DEF y
  <2>5. Len(y) = Len(z) /\ Len(y) \in Nat
    BY <2>11, <2>12, <2>13 DEF Larger
  <2>6. ASSUME NEW i \in 1 .. Len(y) PROVE y[i] = z[i]
    <3>0. i \in Nat /\ i >= 1 /\ i \in 1 .. Len(z)
      BY <2>5
    <3>1. CASE i > a + k /\ i <= a + u
      <4>1. i - (a + k) \in 1 .. u - k /\ k + (i - (a + k)) = i - a /\ i - a \in 1 .. u /\ i > a
        BY <3>0, <3>1
      <4>2. y[i] = second[i - (a + k)]
        BY <2>13, <3>1
      <4>3. second[i - (a + k)] = m[k + (i - (a + k))]
        BY <1>2, <4>1
      <4>4. z[i] = both[i - a]
        BY <2>12, <3>0, <3>1, <4>1
      <4>5. both[i - a] = m[i - a]
        BY <1>3, <4>1
      <4> QED
        BY <4>1, <4>2, <4>3, <4>4, <4>5
    <3>2. CASE i > a /\ i <= a + k
      <4>1. i \in 1 .. Len(x) /\ i - a \in 1 .. k /\ i - a \in 1 .. u /\ i <= a + u
        BY <2>11, <3>0, <3>2 DEF Larger
      <4>2. y[i] = x[i]
        BY <2>13, <3>2, <4>1
      <4>3. x[i] = first[i - a] /\ z[i] = both[i - a]
        BY <2>11, <2>12, <3>0, <3>2, <4>1
      <4>4. first[i - a] = m[i - a] /\ both[i - a] = m[i - a]
        BY <1>1, <1>3, <4>1
      <4> QED
        BY <4>2, <4>3, <4>4
    <3>3. CASE i <= a \/ i > a + u
      <4>1. i <= a + k \/ i > a + u
        BY <3>0, <3>3
      <4>2. i <= a \/ i > a + k
        BY <3>0, <3>3
      <4>3. CASE i <= Len(b)
        <5>1. i \in 1 .. Len(x)
          BY <2>11, <3>0, <4>3 DEF Larger
        <5>2. y[i] = x[i]
          BY <2>13, <4>1, <5>1
        <5>3. x[i] = b[i]
          BY <2>11, <4>2, <4>3, <5>1
        <5>4. z[i] = b[i]
          BY <2>12, <3>0, <3>3, <4>3
        <5> QED
          BY <5>2, <5>3, <5>4
      <4>4. CASE i > Len(b)
        <5>1. z[i] = Hole
          BY <2>12, <3>0, <3>3, <4>4
        <5>2. y[i] = Hole
          <6>1. CASE i <= Len(x)
            <7>1. i \in 1 .. Len(x)
              BY <3>0, <6>1
            <7>2. y[i] = x[i]
              BY <2>13, <4>1, <6>1
            <7>3. x[i] = Hole
              BY <2>11, <4>2, <4>4, <7>1
            <7> QED
              BY <7>2, <7>3
          <6>2. CASE i > Len(x)
            BY <2>13, <4>1, <6>2
          <6>3. Len(x) \in Nat
            BY <2>11
          <6> QED
            BY <3>0, <6>1, <6>2, <6>3
        <5> QED
          BY <5>1, <5>2
      <4>5. Len(b) \in Nat
        OBVIOUS
      <4> QED
        BY <3>0, <4>3, <4>4, <4>5
    <3> QED
      BY <3>0, <3>1, <3>2, <3>3
  <2>7. y = z
    BY <2>3, <2>13, <2>5, <2>6, SameSeq
  <2> QED
    BY <2>7 DEF x, y, z, first, second, both
<1> QED
  BY <1>5, <1>6

LEMMA PartNone ==
    ASSUME NEW b \in Seq(Bytes), NEW from \in Int
    PROVE  Part(b, from, 0) = <<>>
<1> DEFINE last == Smaller(from + 0, Len(b))
<1>1. last \in Int /\ last <= from
  BY DEF Smaller
<1>2. Part(b, from, 0) = SubSeq(b, from + 1, last)
  BY DEF Part
<1> HIDE DEF last
<1> QED
  BY <1>1, <1>2

---------------------------------------------------------------------------
(* The invariant.  Undamaged alone is not inductive: a reader's next bytes *)
(* come from the replica as it is now, so that it is still as it was when  *)
(* it was opened belongs to it, and nothing is known of a process that has *)
(* not come to open it.                                                    *)

Read(p) ==
    content = before[p] /\ moved[p] = Part(before[p], offset[p], Len(moved[p]))

Written(p) ==
    /\ moved[p] = Part(Stdin[p], 0, Len(moved[p]))
    /\ content = Splice(before[p], At(p), SubSeq(moved[p], 1, stored[p]))

Data(p) ==
    /\ pc[p] \in {"start", "open"} => ~Opened(p)
    /\ Opened(p) /\ p \notin meddled =>
         (Reads(p) => Read(p)) /\ (Writes(p) => Written(p))

DataInv == TypeInv /\ \A p \in Procs : Data(p)

\* Whoever has the replica open notes every change of it.
LEMMA OthersNote ==
    ASSUME TypeOK, NEW p \in Procs, Start(p) \/ Step(p) \/ Kill(p), NEW q \in Procs \ {p}
    PROVE  /\ before'[q] = before[q]
           /\ q \in meddled => q \in meddled'
           /\ content' = content \/ (Opened(q) => q \in meddled')
<1> USE DEF object, opts, stream
<1>1. CASE Start(p) \/ Seek(p) \/ Size(p) \/ Begin(p) \/ StreamEnd(p) \/ Kill(p)
  <2>1. UNCHANGED <<content, before, meddled>>
    BY <1>1 DEF Start, Seek, Size, Begin, StreamEnd, Kill
  <2> QED
    BY <2>1
<1>2. CASE Open(p)
  <2>1. before'[q] = before[q]
    BY <1>2 DEF Open, TypeOK
  <2>2. content' # content => Meddle(p)
    BY <1>2 DEF Open
  <2>3. Meddle(p) \/ UNCHANGED meddled
    BY <1>2 DEF Open
  <2> QED
    BY <2>1, <2>2, <2>3 DEF Meddle
<1>3. CASE Turn(p) \/ Close(p)
  <2>1. UNCHANGED before
    BY <1>3 DEF Turn, Close
  <2>2. \E bytes, upto : Deliver(p, bytes, upto)
    BY <1>3 DEF Turn, Close
  <2>3. Meddle(p) \/ UNCHANGED <<content, meddled>>
    BY <2>2 DEF Deliver
  <2> QED
    BY <2>1, <2>3 DEF Meddle
<1> QED
  BY <1>1, <1>2, <1>3 DEF Step

LEMMA OthersData ==
    ASSUME TypeOK, NEW p \in Procs, Start(p) \/ Step(p) \/ Kill(p), NEW q \in Procs \ {p},
           Apart(p), Data(q)
    PROVE  Data(q)'
<1>1. /\ before'[q] = before[q]
      /\ q \in meddled => q \in meddled'
      /\ content' = content \/ (Opened(q) => q \in meddled')
  BY OthersNote
<1>2. /\ pc'[q] = pc[q] /\ op'[q] = op[q] /\ mode'[q] = mode[q] /\ offset'[q] = offset[q]
      /\ moved'[q] = moved[q] /\ stored'[q] = stored[q]
  BY DEF Apart
<1>3. Opened(q)' = Opened(q) /\ Reads(q)' = Reads(q) /\ Writes(q)' = Writes(q) /\ At(q)' = At(q)
  BY <1>1, <1>2 DEF Opened, Reads, Writes, At
<1>4. content' = content => (Read(q) => Read(q)') /\ (Written(q) => Written(q)')
  BY <1>1, <1>2, <1>3 DEF Read, Written
<1> QED
  BY <1>1, <1>2, <1>3, <1>4 DEF Data

---------------------------------------------------------------------------
(* The steps *)

LEMMA StartData ==
    ASSUME TypeInv, NEW p \in Procs, Data(p), Start(p)
    PROVE  Data(p)'
<1>1. pc[p] = "start" /\ UNCHANGED before
  BY DEF Start, stream
<1>2. ~Opened(p)'
  BY <1>1 DEF Data, Opened
<1> QED
  BY <1>2 DEF Data

LEMMA OpenData ==
    ASSUME TypeInv, NEW p \in Procs, Data(p), Open(p)
    PROVE  Data(p)'
<1> USE DEF TypeInv, opts, stream, Goto, Leave
<1>1. pc[p] = "open" /\ ~Opened(p) /\ UNCHANGED <<opts, stream>>
  BY DEF Open, Data
<1>2. moved'[p] = <<>> /\ stored'[p] = 0
  BY <1>1 DEF Ready
<1>3. CASE Leave(p, "done", 1) /\ UNCHANGED before
  BY <1>1, <1>3 DEF Data, Opened
<1>4. CASE Goto(p, "seek") /\ before' = [before EXCEPT ![p] = content'] /\ content' \in Seq(Bytes)
  <2>1. pc'[p] = "seek" /\ before'[p] = content'
    BY <1>4 DEF TypeOK
  <2>2. Len(moved'[p]) = 0 /\ SubSeq(moved'[p], 1, stored'[p]) = <<>>
    BY <1>2
  <2>3. Part(before'[p], offset'[p], 0) = <<>>
    <3>1. offset'[p] \in Int
      BY <1>1 DEF TypeOK
    <3> QED
      BY <1>4, <2>1, <3>1, PartNone
  <2>4. Part(Stdin[p], 0, 0) = <<>>
    <3>1. Stdin[p] \in Seq(Bytes)
      BY IstreamAssumption
    <3> QED
      BY <3>1, PartNone
  <2>5. Read(p)'
    BY <1>2, <2>1, <2>2, <2>3 DEF Read
  <2>6. Splice(before'[p], At(p)', <<>>) = before'[p]
    BY DEF Splice
  <2>7. Written(p)'
    BY <1>2, <2>1, <2>2, <2>4, <2>6 DEF Written
  <2> QED
    BY <2>1, <2>5, <2>7 DEF Data
<1>5. \/ Leave(p, "done", 1) /\ UNCHANGED before
      \/ Goto(p, "seek") /\ before' = [before EXCEPT ![p] = content'] /\ content' \in Seq(Bytes)
  <2>1. content # Missing => content \in Seq(Bytes)
    BY DEF TypeOK
  <2> QED
    BY <2>1, EmptyTyped DEF Open
<1> QED
  BY <1>3, <1>4, <1>5

LEMMA QuietData ==
    ASSUME TypeInv, NEW p \in Procs, Data(p),
           Seek(p) \/ Size(p) \/ Begin(p) \/ StreamEnd(p) \/ Kill(p)
    PROVE  Data(p)'
<1> USE DEF object, opts, stream
<1>1. UNCHANGED <<content, opts, moved, stored, before, meddled>>
  BY DEF Seek, Size, Begin, StreamEnd, Kill
<1>2. pc'[p] \notin {"start", "open"}
  BY DEF Seek, Size, Begin, StreamEnd, Kill, Goto, Leave, TypeInv, TypeOK
<1>3. /\ Opened(p)' = Opened(p) /\ Reads(p)' = Reads(p) /\ Writes(p)' = Writes(p)
      /\ Read(p)' = Read(p) /\ Written(p)' = Written(p)
  BY <1>1 DEF Opened, Reads, Writes, Read, Written, At
<1> QED
  BY <1>1, <1>2, <1>3 DEF Data

\* A delivery puts the next bytes where those before ended: --append writes
\* to the end, which is where they ended.
LEMMA DeliverData ==
    ASSUME TypeOK, NEW p \in Procs, Writes(p), NEW bytes \in Seq(Bytes),
           NEW upto \in stored[p]..Len(bytes), Deliver(p, bytes, upto),
           before[p] \in Seq(Bytes), bytes # <<>> => offset[p] >= 0,
           content = Splice(before[p], At(p), SubSeq(bytes, 1, stored[p]))
    PROVE  content' = Splice(before[p], At(p), SubSeq(bytes, 1, upto))
<1> DEFINE new == SubSeq(bytes, stored[p] + 1, upto)
           k == stored[p]
           a == At(p)
<1>1. k \in Nat /\ upto \in Nat /\ k <= upto /\ upto <= Len(bytes)
  BY DEF TypeOK
<1>2. new \in Seq(Bytes) /\ Len(new) = upto - k
  BY <1>1, SubSeqAt
<1>3. CASE k = upto
  <2>1. new = <<>>
    BY <1>1, <1>2, <1>3, NoBytes
  <2>2. content' = content
    BY <2>1 DEF Deliver
  <2> QED
    BY <1>3, <2>2
<1>4. CASE k < upto
  <2>1. new # <<>> /\ bytes # <<>>
    <3> HIDE DEF new, k
    <3>1. Len(new) > 0 /\ Len(bytes) > 0
      BY <1>1, <1>2, <1>4
    <3> QED
      BY <3>1
  <2>2. a \in Nat
    <3>1. offset[p] \in Nat /\ Len(before[p]) \in Nat
      BY <2>1 DEF TypeOK
    <3> QED
      BY <3>1 DEF At
  <2>3. content' = Splice(content, IF mode[p] = "append" THEN Len(content) ELSE offset[p] + k, new)
    BY <2>1 DEF Deliver
  <2>4. (IF mode[p] = "append" THEN Len(content) ELSE offset[p] + k) = a + k
    <3>1. CASE mode[p] # "append"
      BY <3>1 DEF At
    <3>2. CASE mode[p] = "append"
      <4>1. a = Len(before[p])
        BY <3>2 DEF At
      <4>2. SubSeq(bytes, 1, k) \in Seq(Bytes) /\ Len(SubSeq(bytes, 1, k)) = k
        BY <1>1, SubSeqAt
      <4>3. Len(content) = Len(before[p]) + k
        <5>1. CASE k = 0
          <6>1. SubSeq(bytes, 1, k) = <<>>
            BY <4>2, <5>1, NoBytes
          <6>2. content = before[p]
            BY <6>1 DEF Splice
          <6> QED
            BY <5>1, <6>2
        <5>2. CASE k > 0
          <6>1. SubSeq(bytes, 1, k) # <<>>
            BY <4>2, <5>2, NoBytes
          <6>2. Spliced(content, before[p], a, SubSeq(bytes, 1, k), Len(SubSeq(bytes, 1, k)))
            BY <2>2, <4>2, <6>1, SpliceAt
          <6>3. Len(content) = Larger(Len(before[p]), a + k)
            BY <4>2, <6>2 DEF Spliced
          <6>4. Len(before[p]) \in Nat
            OBVIOUS
          <6> QED
            BY <1>1, <4>1, <6>3, <6>4 DEF Larger
        <5> QED
          BY <1>1, <5>1, <5>2
      <4> QED
        BY <3>2, <4>1, <4>3
    <3> QED
      BY <3>1, <3>2
  <2>5. content' = Splice(Splice(before[p], a, SubSeq(bytes, 1, k)), a + k, SubSeq(bytes, k + 1, upto))
    BY <2>3, <2>4
  <2> QED
    BY <1>1, <1>4, <2>2, <2>5, SpliceTwice
<1> QED
  BY <1>1, <1>3, <1>4

\* A reader delivers to its standard output, not to the replica.
LEMMA DeliverQuiet ==
    ASSUME NEW p, NEW bytes, NEW upto, Deliver(p, bytes, upto)
    PROVE  /\ ~Writes(p) => content' = content
           /\ p \in meddled' => p \in meddled
           /\ p \in meddled => p \in meddled'
BY DEF Deliver, Meddle

LEMMA TurnData ==
    ASSUME TypeInv, NEW p \in Procs, Data(p), Turn(p)
    PROVE  Data(p)'
<1> USE DEF TypeInv, opts
<1> DEFINE n == NextRead(p)
           there == Available(p, n)
           m == moved[p]
           l == Len(m)
<1>1. pc[p] = "stream" /\ UNCHANGED <<pc, opts, before>>
  BY DEF Turn
<1>2. content \in Seq(Bytes) /\ content # Missing /\ offset[p] \in Nat
  <2>1. Ready(p) /\ offset[p] \in Int /\ content \in Seq(Bytes) \union {Missing}
    BY DEF TypeOK
  <2> HIDE DEF TypeInv
  <2> QED
    BY <1>1, <2>1 DEF Ready
<1>3. n \in Nat
  <2>1. reads[p] \in Nat /\ rest[p] \in Nat /\ BufferSize \in Nat
    BY IstreamAssumption DEF TypeOK
  <2> HIDE DEF TypeInv
  <2> QED
    BY <2>1 DEF NextRead
<1>4. there \in Seq(Bytes)
  <2> HIDE DEF n
  <2>1. PICK most \in Nat : most = n
    BY <1>3
  <2>2. offset[p] >= 0
    BY <1>2
  <2>3. Available(p, most) \in Seq(Bytes)
    BY <1>2, <2>2, AvailableTyped
  <2> QED
    BY <2>1, <2>3
<1>5. m \in Seq(Bytes) /\ l \in Nat /\ stored[p] \in Nat /\ stored[p] <= l
  BY DEF TypeOK
<1>6. PICK got \in 0..Len(there) :
        /\ moved' = [moved EXCEPT ![p] = @ \o SubSeq(there, 1, got)]
        /\ \E upto \in stored[p]..Len(moved'[p]) : Deliver(p, moved'[p], upto)
  BY DEF Turn
<1> HIDE DEF n, there
<1>7. got \in Nat /\ got <= Len(there)
  BY <1>4
<1>8. SubSeq(there, 1, got) \in Seq(Bytes) /\ Len(SubSeq(there, 1, got)) = got
  <2>1. Len(SubSeq(there, 1, got)) = got - 1 + 1 /\ SubSeq(there, 1, got) \in Seq(Bytes)
    BY <1>4, <1>7, SubSeqAt
  <2> QED
    BY <1>7, <2>1
<1>9. moved'[p] = m \o SubSeq(there, 1, got)
  BY <1>6 DEF TypeOK
<1>10. moved'[p] \in Seq(Bytes) /\ Len(moved'[p]) = l + got
  <2> DEFINE new == SubSeq(there, 1, got)
  <2>1. new \in Seq(Bytes) /\ Len(new) = got
    BY <1>8
  <2> HIDE DEF new, TypeInv
  <2>2. m \o new \in Seq(Bytes) /\ Len(m \o new) = l + got
    <3>1. m \in Seq(Bytes) /\ Len(m) = l
      BY <1>5
    <3> HIDE DEF m, l
    <3>2. m \o new \in Seq(Bytes) /\ Len(m \o new) = Len(m) + Len(new)
      BY <2>1, <3>1, ConcatAt
    <3> QED
      BY <2>1, <3>1, <3>2
  <2> QED
    BY <1>9, <2>2 DEF new
<1>11. PICK upto \in stored[p]..Len(moved'[p]) : Deliver(p, moved'[p], upto)
  BY <1>6
<1>12. stored'[p] = upto
  BY <1>11 DEF Deliver, TypeOK
<1>13. /\ ~Writes(p) => content' = content
       /\ p \in meddled' => p \in meddled
       /\ p \in meddled => p \in meddled'
  BY <1>11, DeliverQuiet
<1>14. /\ Opened(p)' = Opened(p) /\ Reads(p)' = Reads(p) /\ Writes(p)' = Writes(p)
       /\ At(p)' = At(p) /\ before'[p] = before[p] /\ offset'[p] = offset[p]
  BY <1>1 DEF Opened, Reads, Writes, At
<1>15. ASSUME Opened(p), p \notin meddled, Reads(p) PROVE Read(p)'
  <2>1. content = before[p] /\ m = Part(before[p], offset[p], l)
    BY <1>15 DEF Data, Read
  <2>2. PICK on \in Nat : on = offset[p] + l
    BY <1>2, <1>5
  <2>3. there = Part(before[p], on, n)
    BY <1>15, <2>1, <2>2 DEF there, Available
  <2> HIDE DEF m, l
  <2>4. m \o SubSeq(there, 1, got) = Part(before[p], offset[p], l + got)
    <3>1. before[p] \in Seq(Bytes) /\ Len(m) = l
      BY <1>2, <2>1 DEF l
    <3>2. PICK from \in Nat : from = offset[p]
      BY <1>2
    <3>4. PICK most \in Nat : most = n
      BY <1>3
    <3>5. Continues(before[p], from, most, m)
      <4>1. m = Part(before[p], from, Len(m))
        BY <2>1, <3>1, <3>2
      <4> QED
        BY <1>5, <3>1, <4>1, PartExtends
    <3>6. there = Part(before[p], from + Len(m), most)
      BY <2>2, <2>3, <3>1, <3>2, <3>4
    <3>7. m \o SubSeq(there, 1, got) = Part(before[p], from, Len(m) + got)
      BY <3>5, <3>6 DEF Continues
    <3> QED
      BY <3>1, <3>2, <3>7
  <2>5. ~Writes(p)
    BY <1>15 DEF Reads, Writes
  <2> QED
    BY <1>9, <1>10, <1>13, <1>14, <2>1, <2>4, <2>5 DEF Read
<1>16. ASSUME Opened(p), p \notin meddled, Writes(p) PROVE Written(p)'
  <2>1. /\ m = Part(Stdin[p], 0, l)
        /\ content = Splice(before[p], At(p), SubSeq(m, 1, stored[p]))
    BY <1>16 DEF Data, Written
  <2>2. ~Reads(p)
    BY <1>16 DEF Reads, Writes
  <2>3. there = Part(Stdin[p], l, n)
    BY <2>2 DEF there, Available
  <2>4. SubSeq(moved'[p], 1, stored[p]) = SubSeq(m, 1, stored[p])
    <3> DEFINE new == SubSeq(there, 1, got)
    <3>1. new \in Seq(Bytes) /\ moved'[p] = m \o new
      BY <1>8, <1>9
    <3>2. PICK k \in Nat : k = stored[p] /\ k <= Len(m)
      BY <1>5
    <3> HIDE DEF new, m, TypeInv
    <3>3. SubSeq(m \o new, 1, k) = SubSeq(m, 1, k)
      BY <1>5, <3>1, <3>2, FirstOfConcat
    <3> QED
      BY <3>1, <3>2, <3>3, Zenon
  <2>5. content' = Splice(before[p], At(p), SubSeq(moved'[p], 1, upto))
    <3>1. before[p] \in Seq(Bytes)
      BY <1>16 DEF Opened, TypeOK
    <3>2. content = Splice(before[p], At(p), SubSeq(moved'[p], 1, stored[p]))
      BY <2>1, <2>4
    <3>3. PICK bytes \in Seq(Bytes) : bytes = moved'[p]
      BY <1>10
    <3>4. offset[p] >= 0
      BY <1>2
    <3>5. upto \in stored[p] .. Len(bytes) /\ Deliver(p, bytes, upto)
      BY <1>11, <3>3
    <3> HIDE DEF TypeInv
    <3>6. TypeOK /\ content = Splice(before[p], At(p), SubSeq(bytes, 1, stored[p]))
      BY <3>2, <3>3 DEF TypeInv
    <3>7. content' = Splice(before[p], At(p), SubSeq(bytes, 1, upto))
      BY <1>16, <3>1, <3>4, <3>5, <3>6, DeliverData
    <3> QED
      BY <3>3, <3>7
  <2> HIDE DEF m, l
  <2>6. m \o SubSeq(there, 1, got) = Part(Stdin[p], 0, l + got)
    <3>1. Stdin[p] \in Seq(Bytes) /\ Len(m) = l
      BY IstreamAssumption DEF l
    <3>2. PICK from \in Nat : from = 0
      OBVIOUS
    <3>4. PICK most \in Nat : most = n
      BY <1>3
    <3>5. Continues(Stdin[p], from, most, m)
      <4>1. m = Part(Stdin[p], from, Len(m))
        BY <2>1, <3>1, <3>2
      <4> QED
        BY <1>5, <3>1, <4>1, PartExtends
    <3>6. there = Part(Stdin[p], from + Len(m), most)
      <4>1. from + Len(m) = l
        BY <1>5, <3>1, <3>2
      <4> QED
        BY <2>3, <3>4, <4>1
    <3>7. m \o SubSeq(there, 1, got) = Part(Stdin[p], from, Len(m) + got)
      BY <3>5, <3>6 DEF Continues
    <3> QED
      BY <3>1, <3>2, <3>7
  <2> QED
    BY <1>9, <1>10, <1>12, <1>14, <2>5, <2>6 DEF Written
<1> QED
  BY <1>1, <1>13, <1>14, <1>15, <1>16 DEF Data

LEMMA CloseData ==
    ASSUME TypeInv, NEW p \in Procs, Data(p), Close(p)
    PROVE  Data(p)'
<1> USE DEF TypeInv, opts
<1>1. pc[p] = "close" /\ pc'[p] = "done" /\ UNCHANGED <<opts, moved, before>>
  BY DEF Close, Goto, TypeOK
<1>2. moved[p] \in Seq(Bytes) /\ (moved[p] # <<>> => offset[p] >= 0)
  BY <1>1 DEF Ready, TypeOK
<1>3. PICK upto \in stored[p]..Len(moved[p]) : Deliver(p, moved[p], upto)
  BY DEF Close
<1>4. stored'[p] = upto
  BY <1>3 DEF Deliver, TypeOK
<1>5. /\ ~Writes(p) => content' = content
      /\ p \in meddled' => p \in meddled
      /\ p \in meddled => p \in meddled'
  BY <1>3, DeliverQuiet
<1>6. /\ Opened(p)' = Opened(p) /\ Reads(p)' = Reads(p) /\ Writes(p)' = Writes(p)
      /\ At(p)' = At(p) /\ before'[p] = before[p] /\ offset'[p] = offset[p] /\ moved'[p] = moved[p]
  BY <1>1 DEF Opened, Reads, Writes, At
<1>7. ASSUME Opened(p), p \notin meddled, Reads(p) PROVE Read(p)'
  <2>1. Read(p) /\ ~Writes(p)
    BY <1>7 DEF Data, Reads, Writes
  <2> QED
    BY <1>5, <1>6, <2>1 DEF Read
<1>8. ASSUME Opened(p), p \notin meddled, Writes(p) PROVE Written(p)'
  <2>1. Written(p)
    BY <1>8 DEF Data
  <2>2. before[p] \in Seq(Bytes)
    BY <1>8 DEF Opened, TypeOK
  <2>3. content' = Splice(before[p], At(p), SubSeq(moved[p], 1, upto))
    BY <1>2, <1>3, <1>8, <2>1, <2>2, DeliverData DEF Written
  <2> QED
    BY <1>4, <1>6, <2>1, <2>3 DEF Written
<1> QED
  BY <1>1, <1>5, <1>6, <1>7, <1>8 DEF Data

---------------------------------------------------------------------------
LEMMA DataInvInit == ASSUME Init PROVE DataInv
<1>1. TypeInv
  BY TypeInvInit
<1>2. ASSUME NEW p \in Procs PROVE ~Opened(p)
  BY DEF Init, Opened
<1> QED
  BY <1>1, <1>2 DEF DataInv, Data

LEMMA DataInvNext == ASSUME DataInv, [Next]_vars PROVE DataInv'
<1>1. TypeInv /\ TypeOK /\ TypeInv' /\ TypeOK'
  BY TypeInvNext DEF DataInv, TypeInv
<1>2. CASE UNCHANGED vars
  BY <1>1, <1>2
  DEF DataInv, Data, Read, Written, Opened, Reads, Writes, At, vars, object, opts, stream
<1>3. ASSUME NEW p \in Procs, Start(p) \/ Step(p) \/ Kill(p) PROVE DataInv'
  <2>1. Apart(p)
    BY <1>1, <1>3, StepTyped
  <2>2. Data(p)'
    BY <1>1, <1>3, StartData, OpenData, QuietData, TurnData, CloseData DEF DataInv, Step
  <2>3. ASSUME NEW q \in Procs \ {p} PROVE Data(q)'
    BY <1>1, <1>3, <2>1, OthersData DEF DataInv
  <2> QED
    BY <1>1, <2>2, <2>3 DEF DataInv
<1> QED
  BY <1>2, <1>3 DEF Next

\* Whatever fails and whenever a process is killed, a reader has read a piece
\* of the replica from its offset on, and a writer's replica is the old
\* contents with the delivered part of its input in place, as long as nobody
\* else changes the replica.
THEOREM DataUndamaged == Spec => []Undamaged
<1>1. Init => DataInv
  BY DataInvInit
<1>2. DataInv /\ [Next]_vars => DataInv'
  BY DataInvNext
<1>3. DataInv => Undamaged
  BY DEF DataInv, Data, Read, Written, Undamaged
<1> QED
  BY <1>1, <1>2, <1>3, PTL DEF Spec
---------------------------------------------------------------------------
(* What was asked for.  A writer that ends with status 0 has opened the    *)
(* replica and was asked for its --count; the end of its input is where it *)
(* has read all of it.                                                     *)

LEMMA PartToEnd ==
    ASSUME NEW b \in Seq(Bytes), NEW from \in Nat, NEW n \in Nat, from <= Len(b),
           Len(Part(b, from, n)) < n
    PROVE  from + Len(Part(b, from, n)) = Len(b)
<1> DEFINE last == Smaller(from + n, Len(b))
<1>1. last \in Nat /\ last <= Len(b) /\ (from + n > Len(b) => last = Len(b)) /\ from <= last
  BY DEF Smaller
<1>2. Part(b, from, n) = SubSeq(b, from + 1, last)
  BY DEF Part
<1>3. from + n > Len(b)
  <2>1. from + n <= Len(b) => Len(Part(b, from, n)) = n
    BY PartAt
  <2>2. Len(b) \in Nat /\ from + n \in Nat
    OBVIOUS
  <2> HIDE DEF last
  <2> QED
    BY <2>1, <2>2
<1> HIDE DEF last
<1>4. Len(SubSeq(b, from + 1, last)) = last - (from + 1) + 1
  BY <1>1, SubSeqAt
<1> QED
  BY <1>1, <1>2, <1>3, <1>4

LEMMA PartWhole ==
    ASSUME NEW b \in Seq(Bytes), NEW n \in Nat, Len(b) <= n
    PROVE  Part(b, 0, n) = Part(b, 0, Len(b))
<1>1. Smaller(0 + n, Len(b)) = Len(b) /\ Smaller(0 + Len(b), Len(b)) = Len(b)
  BY DEF Smaller
<1> QED
  BY <1>1 DEF Part

Past(p) == pc[p] \in {"begin", "stream", "close"} \/ (pc[p] = "done" /\ exit[p] = 0)

Asked(p) ==
    /\ pc[p] \in {"seek", "size"} \/ Past(p) => Opened(p)
    /\ pc[p] = "size" => Reads(p)
    /\ Writes(p) =>
         /\ Past(p) => count[p] = asked[p]
         /\ Len(moved[p]) <= Len(Stdin[p])
         /\ in[p] = "eof" /\ p \notin cut => Len(moved[p]) = Len(Stdin[p])

AskedInv == TypeInv /\ \A p \in Procs : Asked(p)

LEMMA OthersAsked ==
    ASSUME TypeOK, NEW p \in Procs, Start(p) \/ Step(p) \/ Kill(p), NEW q \in Procs \ {p},
           Apart(p), Asked(q)
    PROVE  Asked(q)'
<1>1. before'[q] = before[q]
  BY OthersNote
<1> QED
  BY <1>1 DEF Apart, Asked, Past, Opened, Reads, Writes

\* Up to the loops nothing is read.
LEMMA SetupAsked ==
    ASSUME TypeInv, TypeInv', NEW p \in Procs, Asked(p), Start(p) \/ Open(p)
    PROVE  Asked(p)'
<1> USE DEF TypeInv, stream, opts, Goto, Leave
<1>1. pc[p] \in {"start", "open"} /\ UNCHANGED <<moved, in, cut>>
  BY DEF Start, Open
<1>2. moved'[p] = <<>> /\ in'[p] = "good" /\ Len(<<>>) = 0
  <2>1. Ready(p)
    OBVIOUS
  <2> QED
    BY <1>1, <2>1 DEF Ready
<1>3. Len(Stdin[p]) \in Nat
  <2>1. Stdin[p] \in Seq(Bytes)
    BY IstreamAssumption
  <2> QED
    BY <2>1
<1>4. \/ pc'[p] = "open"
      \/ pc'[p] = "done" /\ exit'[p] = 1
      \/ pc'[p] = "seek" /\ before'[p] # Missing
  <2>1. CASE Start(p)
    BY <2>1 DEF Start, TypeOK
  <2>2. CASE Open(p)
    <3>1. content # Missing => content \in Seq(Bytes)
      BY DEF TypeOK
    <3> QED
      BY <2>2, <3>1, EmptyTyped DEF Open, TypeOK
  <2> QED
    BY <2>1, <2>2
<1>5. ~Past(p)' /\ pc'[p] # "size" /\ (pc'[p] = "seek" => Opened(p)')
  BY <1>4 DEF Past, Opened
<1> HIDE DEF TypeInv
<1> QED
  BY <1>2, <1>3, <1>4, <1>5 DEF Asked

LEMMA QuietAsked ==
    ASSUME TypeInv, NEW p \in Procs, Asked(p),
           Seek(p) \/ Size(p) \/ Begin(p) \/ StreamEnd(p) \/ Close(p) \/ Kill(p)
    PROVE  Asked(p)'
<1> USE DEF TypeInv, object, opts, stream, Goto, Leave
<1>1. UNCHANGED <<op, asked, moved, in, before, cut>>
  BY DEF Seek, Size, Begin, StreamEnd, Close, Kill
<1>2. Opened(p)' = Opened(p) /\ Reads(p)' = Reads(p) /\ Writes(p)' = Writes(p)
  BY <1>1 DEF Opened, Reads, Writes
<1>3. CASE Seek(p)
  <2>1. pc[p] = "seek" /\ count'[p] = asked[p] /\ (pc'[p] = "size" => Reads(p))
    BY <1>3 DEF Seek, TypeOK
  <2> HIDE DEF TypeInv
  <2> QED
    BY <1>1, <1>2, <2>1 DEF Asked
<1>4. CASE Size(p)
  <2>1. pc[p] = "size" /\ pc'[p] # "size"
    BY <1>4 DEF Size, TypeOK
  <2>2. Reads(p) /\ ~Writes(p)
    BY <2>1 DEF Asked, Reads, Writes
  <2> HIDE DEF TypeInv
  <2> QED
    BY <1>1, <1>2, <2>1, <2>2 DEF Asked
<1>5. CASE Begin(p) \/ StreamEnd(p) \/ Close(p)
  <2>1. Past(p) /\ pc'[p] # "size" /\ UNCHANGED count
    BY <1>5 DEF Begin, StreamEnd, Close, Past, TypeOK
  <2> HIDE DEF TypeInv
  <2> QED
    BY <1>1, <1>2, <2>1 DEF Asked
<1>6. CASE Kill(p)
  <2>1. pc'[p] = "done" /\ exit'[p] = Killed
    BY <1>6 DEF Kill, TypeOK
  <2>2. ~Past(p)'
    BY <2>1 DEF Past, Killed
  <2> HIDE DEF TypeInv
  <2> QED
    BY <1>1, <1>2, <2>1, <2>2 DEF Asked
<1> QED
  BY <1>3, <1>4, <1>5, <1>6

LEMMA TurnAsked ==
    ASSUME TypeInv, NEW p \in Procs, Asked(p), Turn(p)
    PROVE  Asked(p)'
<1> USE DEF TypeInv, opts
<1>1. UNCHANGED <<pc, exit, op, asked, count, before>> /\ in[p] = "good"
  BY DEF Turn, Streaming
<1>2. Opened(p)' = Opened(p) /\ Reads(p)' = Reads(p) /\ Writes(p)' = Writes(p) /\ Past(p)' = Past(p)
  BY <1>1 DEF Opened, Reads, Writes, Past
<1>3. ASSUME Writes(p)
      PROVE  /\ Len(moved'[p]) <= Len(Stdin[p])
             /\ in'[p] = "eof" /\ p \notin cut' => Len(moved'[p]) = Len(Stdin[p])
  <2> DEFINE n == NextRead(p)
             l == Len(moved[p])
             there == Part(Stdin[p], l, n)
  <2>1. n \in Nat
    <3>1. reads[p] \in Nat /\ rest[p] \in Nat /\ BufferSize \in Nat
      BY IstreamAssumption DEF TypeOK
    <3> HIDE DEF TypeInv
    <3> QED
      BY <3>1 DEF NextRead
  <2>2. Stdin[p] \in Seq(Bytes) /\ moved[p] \in Seq(Bytes) /\ l \in Nat
    BY IstreamAssumption DEF TypeOK
  <2>3. l <= Len(Stdin[p])
    BY <1>3 DEF Asked
  <2>4. Available(p, n) = there
    BY <1>3 DEF Available, Reads, Writes
  <2>5. PICK got \in 0..Len(there) :
          /\ \E state \in InAfter(p, got, n) : in' = [in EXCEPT ![p] = state]
          /\ cut' = IF got < Len(there) THEN cut \union {p} ELSE cut
          /\ moved' = [moved EXCEPT ![p] = @ \o SubSeq(there, 1, got)]
    BY <2>4, Zenon DEF Turn
  <2> HIDE DEF n
  <2>6. there \in Seq(Bytes) /\ (Len(there) > 0 => l + Len(there) <= Len(Stdin[p]))
    BY <2>1, <2>2, PartAt DEF Piece
  <2>7. Len(there) < n => l + Len(there) = Len(Stdin[p])
    BY <2>1, <2>2, <2>3, PartToEnd
  <2>8. /\ in'[p] = "eof" /\ p \notin cut' => got = Len(there) /\ got < n
        /\ moved'[p] = moved[p] \o SubSeq(there, 1, got)
    <3>1. PICK m \in Nat : m = Len(there)
      BY <2>6
    <3>2. (in'[p] = "eof" => got # n) /\ (p \notin cut' => ~(got < m))
      BY <2>5, <3>1 DEF TypeOK, InAfter
    <3>3. moved'[p] = moved[p] \o SubSeq(there, 1, got)
      BY <2>5 DEF TypeOK
    <3>4. got \in 0 .. m /\ m <= n
      <4>1. Len(there) <= n
        BY <2>1, <2>2, PartAt
      <4> QED
        BY <3>1, <4>1
    <3> HIDE DEF there, TypeInv
    <3>5. in'[p] = "eof" /\ p \notin cut' => got = m /\ got < n
      BY <2>1, <3>2, <3>4
    <3> QED
      BY <3>1, <3>3, <3>5
  <2> HIDE DEF TypeInv, there
  <2>9. Len(SubSeq(there, 1, got)) = got /\ SubSeq(there, 1, got) \in Seq(Bytes) /\ got \in Nat
        /\ got <= Len(there) /\ Len(there) \in Nat
    <3>1. got \in Nat /\ got <= Len(there) /\ Len(there) \in Nat
      BY <2>6
    <3>2. Len(SubSeq(there, 1, got)) = got - 1 + 1 /\ SubSeq(there, 1, got) \in Seq(Bytes)
      BY <2>6, <3>1, SubSeqAt
    <3> QED
      BY <3>1, <3>2
  <2>10. Len(moved'[p]) = l + got
    BY <2>2, <2>8, <2>9, ConcatLength
  <2>11. PICK end \in Nat : end = Len(Stdin[p])
    BY <2>2
  <2>12. PICK more \in Nat : more = Len(there)
    BY <2>9
  <2>13. PICK was \in Nat : was = l
    BY <2>2
  <2> HIDE DEF l
  <2>14. was + got <= end
    BY <2>3, <2>6, <2>9, <2>11, <2>12, <2>13
  <2>15. got = more /\ more < n => was + got = end
    BY <2>7, <2>11, <2>12, <2>13
  <2> QED
    BY <2>8, <2>10, <2>11, <2>12, <2>13, <2>14, <2>15, Zenon
<1> HIDE DEF TypeInv
<1> QED
  BY <1>1, <1>2, <1>3 DEF Asked

LEMMA AskedInvInit == ASSUME Init PROVE AskedInv
<1>1. TypeInv
  BY TypeInvInit
<1>2. ASSUME NEW p \in Procs PROVE Asked(p)
  <2>1. pc[p] = "start" /\ ~Writes(p)
    BY DEF Init, Writes
  <2> QED
    BY <2>1 DEF Asked, Past
<1> QED
  BY <1>1, <1>2 DEF AskedInv

LEMMA AskedInvNext == ASSUME AskedInv, [Next]_vars PROVE AskedInv'
<1>1. TypeInv /\ TypeOK /\ TypeInv'
  BY TypeInvNext DEF AskedInv, TypeInv
<1>2. CASE UNCHANGED vars
  BY <1>1, <1>2
  DEF AskedInv, Asked, Past, Opened, Reads, Writes, vars, object, opts, stream
<1>3. ASSUME NEW p \in Procs, Start(p) \/ Step(p) \/ Kill(p) PROVE AskedInv'
  <2>1. Apart(p)
    BY <1>1, <1>3, StepTyped
  <2>2. Asked(p)'
    BY <1>1, <1>3, SetupAsked, QuietAsked, TurnAsked DEF AskedInv, Step
  <2>3. ASSUME NEW q \in Procs \ {p} PROVE Asked(q)'
    BY <1>1, <1>3, <2>1, OthersAsked DEF AskedInv
  <2> QED
    BY <1>1, <2>2, <2>3 DEF AskedInv
<1> QED
  BY <1>2, <1>3 DEF Next

LEMMA InvariantsInit == ASSUME Init PROVE DataInv /\ CountInv /\ AskedInv
BY DataInvInit, CountInvInit, AskedInvInit

LEMMA InvariantsNext ==
    ASSUME DataInv, CountInv, AskedInv, [Next]_vars
    PROVE  DataInv' /\ CountInv' /\ AskedInv'
BY DataInvNext, CountInvNext, AskedInvNext

LEMMA CountFollows == ASSUME CountInv, AskedInv PROVE ExitTellsCount
<1> SUFFICES ASSUME NEW p \in Procs
             PROVE  /\ Within(p)
                    /\ pc[p] = "done" /\ exit[p] = 0 =>
                         /\ out[p] = "good"
                         /\ IF count[p] # AllBytes THEN Len(moved[p]) = count[p]
                            ELSE Writes(p) /\ p \notin cut => Len(moved[p]) = Len(Stdin[p])
  BY DEF ExitTellsCount, Within
<1>1. Within(p) /\ (pc[p] = "done" /\ exit[p] = 0 => Complete(p))
  BY DEF CountInv, Told
<1>2. Writes(p) /\ in[p] = "eof" /\ p \notin cut => Len(moved[p]) = Len(Stdin[p])
  BY DEF AskedInv, Asked
<1> QED
  BY <1>1, <1>2 DEF Complete

\* No istream moves more bytes than it was asked for; one that ends with
\* status 0 has moved exactly those, and a writer that was asked for all has
\* moved its whole input, unless reading the input failed before its end.
THEOREM CountKept == Spec => []ExitTellsCount
<1>1. Init => DataInv /\ CountInv /\ AskedInv
  BY InvariantsInit
<1>2. DataInv /\ CountInv /\ AskedInv /\ [Next]_vars => DataInv' /\ CountInv' /\ AskedInv'
  BY InvariantsNext
<1>3. CountInv /\ AskedInv => ExitTellsCount
  BY CountFollows
<1> QED
  BY <1>1, <1>2, <1>3, PTL DEF Spec

\* The three invariants together: the bytes are in place (DataInv), as many as
\* were counted (CountInv), and those are the ones asked for (AskedInv).
LEMMA WrittenFollows == ASSUME DataInv, CountInv, AskedInv PROVE WrittenAsAsked
<1> SUFFICES ASSUME NEW p \in Procs, pc[p] = "done", exit[p] = 0, Writes(p), p \notin meddled,
                    stored[p] = Len(moved[p]), p \notin cut \/ asked[p] # AllBytes
             PROVE  content = Splice(before[p], At(p), Part(Stdin[p], 0, asked[p]))
  BY DEF WrittenAsAsked
<1> DEFINE m == moved[p]
           s == Stdin[p]
<1>1. m \in Seq(Bytes) /\ s \in Seq(Bytes)
  BY IstreamAssumption DEF DataInv, TypeInv, TypeOK
<1>2. Opened(p) /\ count[p] = asked[p] /\ (in[p] = "eof" /\ p \notin cut => Len(m) = Len(s))
  BY DEF AskedInv, Asked, Past
<1>3. m = Part(s, 0, Len(m)) /\ content = Splice(before[p], At(p), SubSeq(m, 1, Len(m)))
  BY <1>2 DEF DataInv, Data, Written
<1>4. SubSeq(m, 1, Len(m)) = m
  BY <1>1
<1>5. IF count[p] = AllBytes THEN in[p] = "eof" ELSE Len(m) = count[p]
  BY DEF CountInv, Told, Complete
<1>6. Part(s, 0, asked[p]) = m
  <2>1. CASE count[p] = AllBytes
    <3>1. Len(s) <= AllBytes /\ AllBytes \in Nat
      BY IstreamAssumption, InputAssumption
    <3>2. Part(s, 0, AllBytes) = Part(s, 0, Len(s))
      BY <1>1, <3>1, PartWhole
    <3>3. Len(m) = Len(s)
      BY <1>2, <1>5, <2>1
    <3> QED
      BY <1>2, <1>3, <2>1, <3>2, <3>3
  <2>2. CASE count[p] # AllBytes
    BY <1>2, <1>3, <1>5, <2>2
  <2> QED
    BY <2>1, <2>2
<1> QED
  BY <1>3, <1>4, <1>6

\* After status 0, unless the close lost bytes or somebody interfered, the
\* replica is its old contents with the piece of the input that --count asks
\* for, or without it the whole of an input that did not fail, in the place the
\* options say, for every buffer size.
THEOREM WrittenInPlace == Spec => []WrittenAsAsked
<1>1. Init => DataInv /\ CountInv /\ AskedInv
  BY InvariantsInit
<1>2. DataInv /\ CountInv /\ AskedInv /\ [Next]_vars => DataInv' /\ CountInv' /\ AskedInv'
  BY InvariantsNext
<1>3. DataInv /\ CountInv /\ AskedInv => WrittenAsAsked
  BY WrittenFollows
<1> QED
  BY <1>1, <1>2, <1>3, PTL DEF Spec
============================================================================
