----------------------------- MODULE InputProofs -----------------------------
(***************************************************************************)
(* What holds of every command line that getInput parses and of every rule *)
(* that irule submits: typed words with a blank between them come back, of *)
(* any other line no letter is lost (WordsAsTyped); the inputs are those   *)
(* that were written and given (InputsAsWritten, ValuesAsGiven); nothing   *)
(* is left behind (NothingLeft).  Lines, words, lists of inputs and        *)
(* arguments are of any length, and the buffer of any size.                *)
(***************************************************************************)
EXTENDS Input, SequenceTheorems, FiniteSetTheorems, NaturalsInduction, WellFoundedInduction, TLAPS

---------------------------------------------------------------------------
(* getInput: the invariant *)

\* The characters of a line with its end.
LineCharacters == Characters \cup {Newline}

\* How much of the line was read before what the buffer holds.
Before == Len(line) - Len(ttybuf) - Len(rest)

\* The buffer holds a part of the line, and what is to be read follows it.
BufferInv ==
    /\ gpc \in {"none", "read", "readOn", "scan", "parsed", "overrun", "end"}
    /\ line \in Seq(LineCharacters) /\ ttybuf \in Seq(LineCharacters)
    /\ rest \in Seq(LineCharacters)
    /\ Len(ttybuf) < BufferSize
    /\ Before >= 0
    /\ \A p \in 1 .. Len(ttybuf) : ttybuf[p] = line[Before + p]
    /\ \A p \in 1 .. Len(rest) : rest[p] = line[Before + Len(ttybuf) + p]
    /\ \A p \in 1 .. Len(line) - 1 : line[p] # Newline

\* Between words the next one begins at the character looked at; no line has
\* been scanned beyond its end.
ScanInv ==
    /\ tokenFlag \in 0 .. 3 /\ i \in 1 .. Len(ttybuf) + 1 /\ cpTokenStart \in 1 .. i
    /\ tokenFlag = 0 => cpTokenStart = i
    /\ cmdToken \in Seq(Seq(LineCharacters))
    /\ \A p \in 1 .. i - 1 : ttybuf[p] # Newline
    /\ gpc = "parsed" => i = Len(ttybuf) + 1 \/ ttybuf[i] = Newline
    /\ gpc = "overrun" => Len(cmdToken) > MaxTokens
    /\ gpc \in {"scan", "parsed"} => Len(line) > 0

\* The blanks and quotes of the line that have been looked at, in this and in
\* earlier calls.
Separators == {p \in DOMAIN line : p < Before + i /\ line[p] \in Quotes \cup {Blank}}

\* Every word but the last of a line cost one of them.
CountInv ==
    gpc \in {"scan", "parsed", "overrun"} =>
        Len(cmdToken) <= Cardinality(Separators) + (IF gpc = "scan" THEN 0 ELSE 1)

\* Where the words begin that were taken from the buffer.
Covers(from, p) == \E w \in 1 .. Len(cmdToken) : p \in from[w] .. from[w] + Len(cmdToken[w]) - 1

Pieces(from) ==
    /\ from \in Seq(Nat) /\ Len(from) = Len(cmdToken)
    /\ \A w \in 1 .. Len(cmdToken) :
         /\ from[w] >= 1 /\ from[w] + Len(cmdToken[w]) <= i
         /\ cmdToken[w] = SubSeq(ttybuf, from[w], from[w] + Len(cmdToken[w]) - 1)
         /\ gpc = "scan" => from[w] + Len(cmdToken[w]) < cpTokenStart
    /\ \A v, w \in 1 .. Len(cmdToken) : v < w => from[v] + Len(cmdToken[v]) < from[w]
    /\ \A p \in 1 .. i - 1 :
         ttybuf[p] = Letter =>
            \/ Covers(from, p)
            \/ gpc = "scan" /\ tokenFlag # 0 /\ p >= cpTokenStart
            \/ gpc = "parsed" /\ i = Len(ttybuf) + 1

PiecesInv == gpc \in {"scan", "parsed"} => \E from \in Seq(Nat) : Pieces(from)

\* The line is in the buffer and is typed as words between the places of at.
TypedLine(at) ==
    /\ at \in Seq(1 .. Len(line)) /\ ttybuf = line /\ line[Len(line)] = Newline
    /\ \A k \in 1 .. Len(at) : line[at[k]] = Blank
    /\ \A k \in 1 .. Len(at) + 1 : TypedWord(Edge(at, k - 1), Edge(at, k))

\* The first k words have been taken.
WordsTaken(at, k) == cmdToken = [j \in 1 .. k |-> WordBetween(Edge(at, j - 1), Edge(at, j))]

\* The scan is before or in a word that is typed between o and e.
InTyped(o, e) ==
    \/ i = o + 1 /\ tokenFlag = 0
    \/ tokenFlag = 1 /\ line[o + 1] \notin Quotes /\ cpTokenStart = o + 1 /\ i \in o + 2 .. e
    \/ /\ tokenFlag = Opens(line[o + 1]) /\ line[o + 1] \in Quotes
       /\ cpTokenStart = o + 2 /\ i \in o + 2 .. e - 1

ScanningWord(at, k) ==
    \/ WordsTaken(at, k - 1) /\ InTyped(Edge(at, k - 1), Edge(at, k))
    \/ WordsTaken(at, k) /\ i = Edge(at, k) /\ tokenFlag = 0

WordsInv ==
    \A at \in Seq(1 .. Len(line)) :
        TypedLine(at) =>
            /\ gpc = "scan" => \E k \in 1 .. Len(at) + 1 : ScanningWord(at, k)
            /\ gpc = "parsed" => cmdToken \in {WordsAt(at), Append(WordsAt(at), <<>>)}

---------------------------------------------------------------------------
(* getInput: sequences *)

\* A sequence in two parts.
LEMMA CutInTwo ==
    ASSUME NEW S, NEW s \in Seq(S), NEW m \in 0 .. Len(s)
    PROVE  /\ SubSeq(s, 1, m) \in Seq(S) /\ Len(SubSeq(s, 1, m)) = m
           /\ \A p \in 1 .. m : SubSeq(s, 1, m)[p] = s[p]
           /\ SubSeq(s, m + 1, Len(s)) \in Seq(S) /\ Len(SubSeq(s, m + 1, Len(s))) = Len(s) - m
           /\ \A p \in 1 .. Len(s) - m : SubSeq(s, m + 1, Len(s))[p] = s[m + p]
<1>1. \A p \in 1 .. Len(s) : s[p] \in S
  OBVIOUS
<1>2. 1 \in Int /\ m \in Int /\ m + 1 \in Int /\ Len(s) \in Int /\ \A p \in 1 .. m : s[p] \in S
  BY <1>1
<1>3. \A p \in m + 1 .. Len(s) : s[p] \in S
  BY <1>1
<1>4. /\ SubSeq(s, 1, m) \in Seq(S)
      /\ Len(SubSeq(s, 1, m)) = IF 1 <= m THEN m - 1 + 1 ELSE 0
      /\ \A p \in 1 .. m - 1 + 1 : SubSeq(s, 1, m)[p] = s[1 + p - 1]
  BY <1>2, SubSeqProperties
<1>5. /\ SubSeq(s, m + 1, Len(s)) \in Seq(S)
      /\ Len(SubSeq(s, m + 1, Len(s))) = IF m + 1 <= Len(s) THEN Len(s) - (m + 1) + 1 ELSE 0
      /\ \A p \in 1 .. Len(s) - (m + 1) + 1 : SubSeq(s, m + 1, Len(s))[p] = s[m + 1 + p - 1]
  BY <1>2, <1>3, SubSeqProperties
<1>6. \A p \in 1 .. m : 1 + p - 1 = p /\ p \in 1 .. m - 1 + 1
  OBVIOUS
<1>7. \A p \in 1 .. Len(s) - m : m + 1 + p - 1 = m + p /\ p \in 1 .. Len(s) - (m + 1) + 1
  BY <1>2
<1>8. \A p \in 1 .. m : SubSeq(s, 1, m)[p] = s[p]
  BY <1>4, <1>6, Zenon
<1>9. \A p \in 1 .. Len(s) - m : SubSeq(s, m + 1, Len(s))[p] = s[m + p]
  BY <1>5, <1>7, Zenon
<1>10. Len(SubSeq(s, 1, m)) = m
  BY <1>4
<1>11. Len(SubSeq(s, m + 1, Len(s))) = Len(s) - m
  BY <1>5, <1>2
<1>12. QED
  BY <1>4, <1>5, <1>8, <1>9, <1>10, <1>11, Zenon

\* The characters the scan tells apart are different ones.
LEMMA Distinct ==
    /\ Blank # Newline /\ SingleQuote # Newline /\ DoubleQuote # Newline
    /\ Blank # SingleQuote /\ Blank # DoubleQuote /\ SingleQuote # DoubleQuote
    /\ Letter \notin {Blank, SingleQuote, DoubleQuote, Newline}
  BY Zenon DEF Letter, Blank, Newline, SingleQuote, DoubleQuote

\* A line without or with its end.
LEMMA LineTyped ==
    ASSUME NEW n \in Nat, NEW whole \in [1 .. n -> Characters],
           NEW text \in {whole, Append(whole, Newline)}
    PROVE  /\ text \in Seq(LineCharacters)
           /\ \A p \in 1 .. Len(text) - 1 : text[p] # Newline
<1>1. whole \in Seq(Characters) /\ Len(whole) = n
  OBVIOUS
<1>2. whole \in Seq(LineCharacters)
  BY <1>1, SeqMonotonic, Zenon DEF LineCharacters
<1>3. \A p \in 1 .. n : whole[p] # Newline
  BY Distinct, Zenon DEF Characters, Quotes
<1>4. CASE text = whole
  BY <1>1, <1>2, <1>3, <1>4
<1>5. CASE text = Append(whole, Newline)
  <2>1. Newline \in LineCharacters
    BY DEF LineCharacters
  <2>2. text \in Seq(LineCharacters) /\ Len(text) = n + 1 /\ \A p \in 1 .. n : text[p] = whole[p]
    BY <1>1, <1>2, <1>5, <2>1
  <2>3. QED
    BY <1>3, <2>2
<1>6. QED
  BY <1>4, <1>5

\* The minimum of two numbers.
LEMMA SmallerOfTwo ==
    ASSUME NEW a \in Nat, NEW b \in Nat
    PROVE  Min({a, b}) = IF a <= b THEN a ELSE b
<1>1. PICK m \in {a, b} : \A y \in {a, b} : m <= y
  <2>1. CASE a <= b
    BY <2>1
  <2>2. CASE ~ (a <= b)
    BY <2>2
  <2>3. QED
    BY <2>1, <2>2
<1>2. Min({a, b}) \in {a, b} /\ \A y \in {a, b} : Min({a, b}) <= y
  BY <1>1 DEF Min
<1>3. QED
  BY <1>2

---------------------------------------------------------------------------
(* getInput: the buffer *)

\* fgets: the buffer holds the next part of the line.
LEMMA ReadKeepsBuffer ==
    ASSUME BufferInv, ReadBuffer
    PROVE  BufferInv'
<1>0. \A a \in Nat : a >= 0
  OBVIOUS
<1>1. PICK text \in Seq(LineCharacters), m \in Nat :
         /\ m <= Len(text) /\ m < BufferSize
         /\ \/ gpc = "read" /\ line' = text /\ \A p \in 1 .. Len(text) - 1 : text[p] # Newline
            \/ gpc = "readOn" /\ line' = line /\ text = rest
         /\ ttybuf' = SubSeq(text, 1, m) /\ rest' = SubSeq(text, m + 1, Len(text))
  <2>1. PICK whole \in (IF gpc = "readOn" THEN {rest}
                        ELSE UNION {[1 .. n -> Characters] : n \in 0 .. MaxLength}) :
        \E text \in IF gpc = "readOn" THEN {rest} ELSE {whole, Append(whole, Newline)} :
            LET taken == SubSeq(text, 1, Min({Len(text), BufferSize - 1})) IN
            /\ line' = IF gpc = "readOn" THEN line ELSE text
            /\ ttybuf' = taken
            /\ rest' = SubSeq(text, Len(taken) + 1, Len(text))
    BY DEF ReadBuffer
  <2>2. PICK text \in IF gpc = "readOn" THEN {rest} ELSE {whole, Append(whole, Newline)} :
            /\ line' = IF gpc = "readOn" THEN line ELSE text
            /\ ttybuf' = SubSeq(text, 1, Min({Len(text), BufferSize - 1}))
            /\ rest' = SubSeq(text, Len(SubSeq(text, 1, Min({Len(text), BufferSize - 1}))) + 1, Len(text))
    BY <2>1
  <2>3. /\ text \in Seq(LineCharacters)
        /\ \/ gpc = "read" /\ line' = text /\ \A p \in 1 .. Len(text) - 1 : text[p] # Newline
           \/ gpc = "readOn" /\ line' = line /\ text = rest
    <3>1. CASE gpc = "readOn"
      BY <3>1, <2>2 DEF BufferInv
    <3>2. CASE gpc # "readOn"
      <4>1. gpc = "read" /\ text \in {whole, Append(whole, Newline)} /\ line' = text
        BY <2>2, <3>2 DEF ReadBuffer
      <4>2. PICK n \in Nat : whole \in [1 .. n -> Characters]
        BY <2>1, <3>2, BufferAssumption
      <4>3. QED
        BY <4>1, <4>2, LineTyped
    <3>3. QED
      BY <3>1, <3>2
  <2> DEFINE m == Min({Len(text), BufferSize - 1})
  <2>4. m \in Nat /\ m <= Len(text) /\ m < BufferSize
    <3>1. Len(text) \in Nat /\ BufferSize - 1 \in Nat
      BY <2>3, BufferAssumption
    <3>2. m = IF Len(text) <= BufferSize - 1 THEN Len(text) ELSE BufferSize - 1
      BY <3>1, SmallerOfTwo
    <3>3. QED
      BY <3>1, <3>2, BufferAssumption
  <2>5. Len(SubSeq(text, 1, m)) = m
    <3>1. m \in 0 .. Len(text)
      BY <2>3, <2>4
    <3>2. QED
      BY <2>3, <3>1, CutInTwo
  <2> HIDE DEF m
  <2>6. ttybuf' = SubSeq(text, 1, m) /\ rest' = SubSeq(text, m + 1, Len(text))
    BY <2>2, <2>5 DEF m
  <2>7. QED
    BY <2>3, <2>4, <2>6
<1>2. /\ ttybuf' \in Seq(LineCharacters) /\ Len(ttybuf') = m
      /\ \A p \in 1 .. m : ttybuf'[p] = text[p]
      /\ rest' \in Seq(LineCharacters) /\ Len(rest') = Len(text) - m
      /\ \A p \in 1 .. Len(text) - m : rest'[p] = text[m + p]
  <2>1. m \in 0 .. Len(text)
    BY <1>1
  <2>2. QED
    BY <1>1, <2>1, CutInTwo
<1>3. gpc' = "scan"
  BY DEF ReadBuffer
<1>4. Len(text) \in Nat /\ m \in Nat /\ m <= Len(text)
  BY <1>1
\* It is enough to say where in the line the text begins.
<1>5. ASSUME NEW b \in Nat, line' \in Seq(LineCharacters), Len(line') = b + Len(text),
             \A p \in 1 .. Len(text) : text[p] = line'[b + p],
             \A p \in 1 .. Len(line') - 1 : line'[p] # Newline
      PROVE  BufferInv'
  <2>1. Before' = b
    BY <1>2, <1>4, <1>5 DEF Before
  <2>2. \A p \in 1 .. Len(text) - m : m + p \in 1 .. Len(text) /\ b + (m + p) = b + m + p
    BY <1>4, <1>5
  <2>3. \A p \in 1 .. m : p \in 1 .. Len(text)
    BY <1>4
  <2>4. /\ \A p \in 1 .. m : ttybuf'[p] = line'[b + p]
        /\ \A p \in 1 .. Len(text) - m : rest'[p] = line'[b + m + p]
    <3>1. \A p \in 1 .. m : ttybuf'[p] = line'[b + p]
      BY <1>2, <1>5, <2>3, Zenon
    <3>2. \A p \in 1 .. Len(text) - m : rest'[p] = line'[b + m + p]
      <4>1. TAKE p \in 1 .. Len(text) - m
      <4>2. rest'[p] = text[m + p]
        BY <1>2
      <4>3. text[m + p] = line'[b + (m + p)]
        BY <1>5, <2>2, Zenon
      <4>4. b + (m + p) = b + m + p
        BY <2>2, Zenon
      <4>5. QED
        BY <4>2, <4>3, <4>4, Zenon
    <3>3. QED
      BY <3>1, <3>2
  <2>5. m < BufferSize
    BY <1>1
  <2>6. b >= 0
    BY <1>0, Zenon
  <2>7. QED
    BY <1>2, <1>3, <1>5, <2>1, <2>4, <2>5, <2>6 DEF BufferInv
<1>6. CASE gpc = "read"
  <2>1. line' = text /\ \A p \in 1 .. Len(text) - 1 : text[p] # Newline
    BY <1>1, <1>6
  <2>2. \A p \in 1 .. Len(text) : p = 0 + p
    OBVIOUS
  <2>3. Len(text) = 0 + Len(text)
    BY <1>4
  <2>4. QED
    BY <1>5, <2>1, <2>2, <2>3
<1>7. CASE gpc = "readOn"
  <2>1. line' = line /\ text = rest
    BY <1>1, <1>7
  <2>2. line \in Seq(LineCharacters) /\ ttybuf \in Seq(LineCharacters)
    BY DEF BufferInv
  <2>3. Before + Len(ttybuf) \in Nat /\ Len(line) = Before + Len(ttybuf) + Len(text)
    BY <1>4, <2>1, <2>2 DEF BufferInv, Before
  <2>4. /\ \A p \in 1 .. Len(text) : text[p] = line[Before + Len(ttybuf) + p]
        /\ \A p \in 1 .. Len(line) - 1 : line[p] # Newline
    BY <2>1 DEF BufferInv
  <2>5. QED
    BY <1>5, <2>1, <2>2, <2>3, <2>4
<1>8. QED
  BY <1>1, <1>6, <1>7

\* Nothing else writes to the buffer.
LEMMA OthersKeepBuffer ==
    ASSUME BufferInv,
           \/ EndOfInput \/ EndOfLine \/ BetweenWords \/ InWord \/ BufferEnds \/ Overrun
           \/ NextCommand \/ StartGetInput \/ UNCHANGED inputLineVars
    PROVE  BufferInv'
<1>1. CASE /\ UNCHANGED <<line, rest, ttybuf>>
           /\ gpc' \in {"none", "read", "readOn", "scan", "parsed", "overrun", "end"}
  <2>1. Before' = Before
    BY <1>1, Zenon DEF Before
  <2>2. QED
    BY <1>1, <2>1, Zenon DEF BufferInv
<1>2. CASE rest = <<>> /\ line' = <<>> /\ ttybuf' = <<>> /\ rest' = rest /\ gpc' = "read"
  <2>1. /\ line' \in Seq(LineCharacters) /\ ttybuf' \in Seq(LineCharacters)
        /\ rest' \in Seq(LineCharacters)
        /\ Len(line') = 0 /\ Len(ttybuf') = 0 /\ Len(rest') = 0
    BY <1>2
  <2>2. 0 < BufferSize
    BY BufferAssumption
  <2>3. Before' = 0
    BY <2>1 DEF Before
  <2>4. QED
    BY <1>2, <2>1, <2>2, <2>3 DEF BufferInv
<1>3. CASE EndOfInput \/ EndOfLine \/ BetweenWords \/ InWord \/ BufferEnds \/ Overrun
           \/ StartGetInput \/ UNCHANGED inputLineVars
  <2>1. gpc \in {"none", "read", "readOn", "scan", "parsed", "overrun", "end"}
    BY DEF BufferInv
  <2>2. UNCHANGED <<line, rest, ttybuf>> /\ (gpc' = gpc \/ gpc' \in {"end", "parsed", "overrun", "read"})
    BY <1>3, Zenon DEF EndOfInput, EndOfLine, BetweenWords, InWord, BufferEnds, Overrun,
       StartGetInput, inputLineVars
  <2>3. QED
    BY <1>1, <2>1, <2>2
<1>4. CASE NextCommand
  <2>1. CASE rest # <<>>
    BY <1>1, <1>4, <2>1 DEF NextCommand
  <2>2. CASE rest = <<>>
    BY <1>2, <1>4, <2>2 DEF NextCommand
  <2>3. QED
    BY <2>1, <2>2
<1>5. QED
  BY <1>3, <1>4

---------------------------------------------------------------------------
(* getInput: the words *)

\* What the first character of a word says of its end.
LEMMA OpensDoes ==
    ASSUME NEW c
    PROVE  \/ c = Blank /\ Opens(c) = 0
           \/ c = DoubleQuote /\ Opens(c) = 2
           \/ c = SingleQuote /\ Opens(c) = 3
           \/ c \notin Quotes \cup {Blank} /\ Opens(c) = 1
<1>1. CASE c = Blank
  BY <1>1, Distinct, Zenon DEF Opens
<1>2. CASE c = DoubleQuote
  BY <1>2, Distinct, Zenon DEF Opens
<1>3. CASE c = SingleQuote
  BY <1>3, Distinct, Zenon DEF Opens
<1>4. CASE c \notin Quotes \cup {Blank}
  BY <1>4, Zenon DEF Opens, Quotes
<1>5. QED
  BY <1>1, <1>2, <1>3, <1>4, Zenon DEF Quotes

\* The characters that end a word of each kind.
LEMMA EndsDoes == Ends(1) = {Blank} /\ Ends(2) = {DoubleQuote} /\ Ends(3) = {SingleQuote}
  BY DEF Ends

\* What a step between words does.
LEMMA BetweenDoes ==
    ASSUME BufferInv, ScanInv, BetweenWords
    PROVE  /\ gpc = "scan" /\ UNCHANGED <<gpc, line, rest, ttybuf, cmdToken>>
           /\ i \in 1 .. Len(ttybuf) /\ i' = i + 1 /\ ttybuf[i] # Newline
           /\ tokenFlag = 0 /\ tokenFlag' = Opens(ttybuf[i])
           /\ \/ tokenFlag' = 0 /\ ttybuf[i] = Blank /\ cpTokenStart' = cpTokenStart + 1
              \/ tokenFlag' \in {2, 3} /\ ttybuf[i] \in Quotes /\ cpTokenStart' = cpTokenStart + 1
              \/ /\ tokenFlag' = 1 /\ ttybuf[i] \notin Quotes \cup {Blank}
                 /\ UNCHANGED cpTokenStart
<1>1. /\ gpc = "scan" /\ UNCHANGED <<gpc, line, rest, ttybuf, cmdToken>>
      /\ ~ (i > Len(ttybuf)) /\ i' = i + 1 /\ ttybuf[i] # Newline
      /\ tokenFlag = 0 /\ tokenFlag' = Opens(ttybuf[i])
      /\ cpTokenStart' = IF ttybuf[i] \in Quotes \cup {Blank} THEN cpTokenStart + 1 ELSE cpTokenStart
  BY Zenon DEF BetweenWords, Scanned, Current
<1>2. i \in 1 .. Len(ttybuf)
  BY <1>1 DEF ScanInv, BufferInv
<1>3. \/ ttybuf[i] = Blank /\ tokenFlag' = 0
      \/ ttybuf[i] \in Quotes /\ tokenFlag' \in {2, 3}
      \/ ttybuf[i] \notin Quotes \cup {Blank} /\ tokenFlag' = 1
  <2>1. SingleQuote \in Quotes /\ DoubleQuote \in Quotes
    BY Zenon DEF Quotes
  <2> QED
    BY <1>1, <2>1, OpensDoes, Zenon
<1>4. QED
  BY <1>1, <1>2, <1>3, Zenon

\* What a step in a word does.
LEMMA InWordDoes ==
    ASSUME BufferInv, ScanInv, InWord
    PROVE  /\ gpc = "scan" /\ UNCHANGED <<gpc, line, rest, ttybuf>>
           /\ i \in 1 .. Len(ttybuf) /\ i' = i + 1 /\ ttybuf[i] # Newline
           /\ tokenFlag \in 1 .. 3
           /\ \/ /\ ttybuf[i] \in Ends(tokenFlag) /\ ttybuf[i] \in Quotes \cup {Blank}
                 /\ TakeToken /\ cpTokenStart' = i + 1 /\ tokenFlag' = 0
              \/ /\ ttybuf[i] \notin Ends(tokenFlag)
                 /\ UNCHANGED <<cmdToken, cpTokenStart, tokenFlag>>
<1>1. /\ gpc = "scan" /\ UNCHANGED <<gpc, line, rest, ttybuf>>
      /\ ~ (i > Len(ttybuf)) /\ i' = i + 1 /\ ttybuf[i] # Newline
      /\ tokenFlag # 0
      /\ IF ttybuf[i] \in Ends(tokenFlag)
         THEN TakeToken /\ cpTokenStart' = i + 1 /\ tokenFlag' = 0
         ELSE UNCHANGED <<cmdToken, cpTokenStart, tokenFlag>>
  BY Zenon DEF InWord, Scanned, Current
<1>2. i \in 1 .. Len(ttybuf)
  BY <1>1 DEF ScanInv, BufferInv
<1>3. tokenFlag \in 1 .. 3
  BY <1>1 DEF ScanInv
<1>4. tokenFlag = 1 \/ tokenFlag = 2 \/ tokenFlag = 3
  BY <1>3
<1>5. \A c \in Ends(tokenFlag) : c \in Quotes \cup {Blank}
  <2>1. \A c : c \in Ends(1) \/ c \in Ends(2) \/ c \in Ends(3) => c \in Quotes \cup {Blank}
    BY EndsDoes, Zenon DEF Quotes
  <2>2. QED
    BY <1>4, <2>1
<1>6. QED
  BY <1>1, <1>2, <1>3, <1>5, Zenon

\* The word taken at i.
Token == SubSeq(ttybuf, cpTokenStart, i - 1)

\* A word that is taken is a sequence of the characters scanned.
LEMMA TokenIs ==
    ASSUME BufferInv, ScanInv
    PROVE  Token \in Seq(LineCharacters) /\ Len(Token) = i - cpTokenStart
<1>1. /\ ttybuf \in Seq(LineCharacters)
      /\ i \in 1 .. Len(ttybuf) + 1 /\ cpTokenStart \in 1 .. i
  BY DEF BufferInv, ScanInv
<1>2. /\ cpTokenStart \in Int /\ i - 1 \in Int
      /\ \A k \in cpTokenStart .. i - 1 : ttybuf[k] \in LineCharacters
  BY <1>1
<1>3. /\ Token \in Seq(LineCharacters)
      /\ Len(Token) = IF cpTokenStart <= i - 1 THEN i - 1 - cpTokenStart + 1 ELSE 0
  BY <1>2, SubSeqProperties DEF Token
<1>4. QED
  BY <1>1, <1>3

\* A step over one character: where the next word begins, and the words.
LEMMA OverCharacter ==
    ASSUME BufferInv, ScanInv, BetweenWords \/ InWord
    PROVE  /\ gpc = "scan" /\ UNCHANGED <<gpc, line, rest, ttybuf>>
           /\ i \in 1 .. Len(ttybuf) /\ i' = i + 1 /\ ttybuf[i] # Newline
           /\ tokenFlag' \in 0 .. 3 /\ cpTokenStart' \in 1 .. i'
           /\ tokenFlag' = 0 => cpTokenStart' = i'
           /\ \/ cmdToken' = cmdToken
              \/ /\ cmdToken' = Append(cmdToken, Token) /\ ttybuf[i] \in Quotes \cup {Blank}
                 /\ tokenFlag # 0 /\ tokenFlag' = 0
<1>1. i \in Nat /\ i >= 1 /\ cpTokenStart \in 1 .. i
  BY DEF ScanInv, BufferInv
<1>2. CASE BetweenWords
  <2>1. cpTokenStart = i
    BY <1>2, BetweenDoes DEF ScanInv
  <2>2. tokenFlag' \in 0 .. 3 /\ (tokenFlag' = 0 => cpTokenStart' = i')
    BY <1>2, <2>1, BetweenDoes
  <2>3. cpTokenStart' \in 1 .. i'
    BY <1>1, <1>2, <2>1, BetweenDoes
  <2>4. QED
    BY <1>2, <2>2, <2>3, BetweenDoes
<1>3. CASE InWord
  <2>1. tokenFlag \in 1 .. 3 /\ tokenFlag \in 0 .. 3 /\ tokenFlag # 0 /\ i' = i + 1
    BY <1>3, InWordDoes
  <2>2. CASE ttybuf[i] \in Ends(tokenFlag)
    <3>1. TakeToken /\ cpTokenStart' = i' /\ tokenFlag' = 0 /\ ttybuf[i] \in Quotes \cup {Blank}
      BY <1>3, <2>1, <2>2, InWordDoes
    <3>2. cmdToken' = Append(cmdToken, Token)
      BY <3>1 DEF TakeToken, Token
    <3>3. cpTokenStart' \in 1 .. i'
      BY <3>1, <2>1, <1>1
    <3>4. 0 \in 0 .. 3
      OBVIOUS
    <3>5. QED
      BY <1>3, <2>1, <3>1, <3>2, <3>3, <3>4, InWordDoes, Zenon
  <2>3. CASE ttybuf[i] \notin Ends(tokenFlag)
    <3>1. UNCHANGED <<cmdToken, cpTokenStart, tokenFlag>>
      BY <1>3, <2>3, InWordDoes
    <3>2. cpTokenStart' \in 1 .. i'
      BY <3>1, <2>1, <1>1
    <3>3. QED
      BY <1>3, <2>1, <3>1, <3>2, InWordDoes, Zenon
  <2>4. QED
    BY <2>2, <2>3
<1>4. QED
  BY <1>2, <1>3

\* Every step keeps the scan within the buffer.
LEMMA ScanStep ==
    ASSUME BufferInv, ScanInv, GetInputSteps \/ StartGetInput \/ UNCHANGED inputLineVars
    PROVE  ScanInv'
<1>1. /\ cmdToken \in Seq(Seq(LineCharacters)) /\ Token \in Seq(LineCharacters)
      /\ Append(cmdToken, Token) \in Seq(Seq(LineCharacters))
  <2>1. cmdToken \in Seq(Seq(LineCharacters)) /\ Token \in Seq(LineCharacters)
    BY TokenIs DEF ScanInv
  <2>2. QED
    BY <2>1
<1>2. CASE BetweenWords \/ InWord
  <2>1. cmdToken' \in Seq(Seq(LineCharacters))
    BY <1>1, <1>2, OverCharacter
  <2>2. gpc' = "scan" /\ ttybuf' = ttybuf /\ i' \in 1 .. Len(ttybuf') + 1
    BY <1>2, OverCharacter DEF BufferInv
  <2>3. \A p \in 1 .. i' - 1 : ttybuf'[p] # Newline
    <3>1. TAKE p \in 1 .. i' - 1
    <3>2. p \in 1 .. i - 1 \/ p = i
      BY <1>2, OverCharacter
    <3>3. \A q \in 1 .. i - 1 : ttybuf[q] # Newline
      BY DEF ScanInv
    <3>4. QED
      BY <1>2, <2>2, <3>2, <3>3, OverCharacter, Zenon
  <2>4. QED
    BY <1>2, <2>1, <2>2, <2>3, OverCharacter DEF ScanInv
<1>3. CASE EndOfLine
  <2>1. /\ gpc = "scan" /\ gpc' = "parsed" /\ UNCHANGED <<line, ttybuf, i, tokenFlag, cpTokenStart>>
        /\ ttybuf[i] = Newline /\ cmdToken' = Append(cmdToken, Token)
    BY <1>3, Zenon DEF EndOfLine, TakeToken, Token, Current
  <2>2. QED
    BY <1>1, <2>1 DEF ScanInv
<1>4. CASE BufferEnds
  <2>1. /\ gpc = "scan" /\ gpc' = "parsed" /\ i > Len(ttybuf)
        /\ UNCHANGED <<line, ttybuf, i, tokenFlag, cpTokenStart, cmdToken>>
    BY <1>4, Zenon DEF BufferEnds, Scanned
  <2>2. i = Len(ttybuf) + 1
    BY <2>1 DEF ScanInv, BufferInv
  <2>3. QED
    BY <2>1, <2>2 DEF ScanInv
<1>5. CASE Overrun
  BY <1>5 DEF ScanInv, Overrun
<1>0. gpc \in {"scan", "parsed"} => Len(line) > 0
  BY DEF ScanInv
<1>6. ASSUME (gpc \in {"scan", "parsed"} => Len(line) > 0)', i' = 1, cpTokenStart' = 1,
             tokenFlag' = 0, cmdToken' = <<>>, BufferInv', gpc' \notin {"parsed", "overrun"}
      PROVE  ScanInv'
  <2>1. Len(ttybuf') \in Nat
    BY <1>6 DEF BufferInv
  <2>2. cmdToken' \in Seq(Seq(LineCharacters))
    BY <1>6
  <2>3. QED
    BY <1>6, <2>1, <2>2 DEF ScanInv
<1>7. CASE ReadBuffer
  <2>1. BufferInv'
    BY <1>7, ReadKeepsBuffer
  <2>2. Len(line') > 0
    <3>1. CASE gpc = "read"
      <4>1. line' # <<>>
        BY <1>7, <3>1, Zenon DEF ReadBuffer
      <4>2. QED
        BY <4>1, <2>1 DEF BufferInv
    <3>2. CASE gpc = "readOn"
      <4>1. line' = line /\ rest # <<>>
        BY <1>7, <3>2, Zenon DEF ReadBuffer
      <4>2. /\ Len(rest) > 0 /\ Len(line) \in Nat /\ Len(ttybuf) \in Nat /\ Len(rest) \in Nat
            /\ Len(line) - Len(ttybuf) - Len(rest) >= 0
        BY <4>1 DEF BufferInv, Before
      <4>3. QED
        BY <4>1, <4>2
    <3>3. QED
      BY <1>7, <3>1, <3>2 DEF ReadBuffer
  <2>3. QED
    BY <1>6, <1>7, <2>1, <2>2 DEF ReadBuffer
<1>8. CASE NextCommand
  <2>1. CASE rest # <<>>
    BY <1>8, <2>1 DEF NextCommand, ScanInv
  <2>2. CASE rest = <<>>
    <3>1. gpc' = "read"
      BY <1>8, <2>2 DEF NextCommand
    <3>2. QED
      BY <1>6, <1>8, <2>2, <3>1, OthersKeepBuffer DEF NextCommand
  <2>3. QED
    BY <2>1, <2>2
<1>9. CASE EndOfInput \/ StartGetInput \/ UNCHANGED inputLineVars
  <2>1. UNCHANGED <<line, ttybuf, i, tokenFlag, cpTokenStart, cmdToken>> /\ (gpc' = gpc \/ gpc' \in {"read", "end"})
    BY <1>9 DEF EndOfInput, StartGetInput, inputLineVars
  <2>2. QED
    BY <2>1 DEF ScanInv
<1>10. QED
  BY <1>2, <1>3, <1>4, <1>5, <1>7, <1>8, <1>9 DEF GetInputSteps

---------------------------------------------------------------------------
(* getInput: how many words *)

\* The places of some characters in a line are a finite set.
LEMMA PlacesFinite ==
    ASSUME NEW s \in Seq(LineCharacters), NEW T \in SUBSET DOMAIN s
    PROVE  IsFiniteSet(T) /\ Cardinality(T) \in Nat
<1>1. Len(s) \in Nat /\ DOMAIN s = 1 .. Len(s)
  OBVIOUS
<1>2. IsFiniteSet(1 .. Len(s))
  BY <1>1, FS_Interval
<1>3. IsFiniteSet(T)
  BY <1>1, <1>2, FS_Subset, Zenon
<1>4. QED
  BY <1>3, FS_CardinalityType

\* One step over a separator makes one more of them.
LEMMA OneMore ==
    ASSUME BufferInv, ScanInv, BetweenWords \/ InWord
    PROVE  /\ Separators \subseteq Separators'
           /\ ttybuf[i] \in Quotes \cup {Blank} => Separators' = Separators \cup {Before + i}
                                                  /\ Before + i \notin Separators
<1>1. /\ gpc = "scan" /\ UNCHANGED <<gpc, line, rest, ttybuf>>
      /\ i \in 1 .. Len(ttybuf) /\ i' = i + 1
  BY OverCharacter
<1>2. Before' = Before
  BY <1>1, Zenon DEF Before
<1>3. /\ Before \in Nat /\ Len(line) \in Nat /\ Before + i \in 1 .. Len(line)
      /\ Before + i' = Before + i + 1 /\ Before + i \in Int
      /\ ttybuf[i] = line[Before + i] /\ DOMAIN line = 1 .. Len(line)
  <2>1. /\ Len(line) \in Nat /\ Len(ttybuf) \in Nat /\ Len(rest) \in Nat
        /\ DOMAIN line = 1 .. Len(line) /\ Len(line) - Len(ttybuf) - Len(rest) >= 0
        /\ \A p \in 1 .. Len(ttybuf) : ttybuf[p] = line[Before + p]
    BY DEF BufferInv, Before
  <2>2. Before \in Nat /\ Before = Len(line) - Len(ttybuf) - Len(rest)
    BY <2>1 DEF Before
  <2>3. Before + i \in 1 .. Len(line) /\ Before + i' = Before + i + 1 /\ Before + i \in Int
    BY <1>1, <2>1, <2>2
  <2>4. QED
    BY <1>1, <2>1, <2>2, <2>3, Zenon
<1>4. \A p \in 1 .. Len(line) : p < Before + i' <=> p < Before + i \/ p = Before + i
  BY <1>3
<1>5. ~ (Before + i < Before + i)
  BY <1>3
<1>6. \A p : p \in Separators <=> p \in 1 .. Len(line) /\ p < Before + i /\ line[p] \in Quotes \cup {Blank}
  BY <1>3, Zenon DEF Separators
<1>7. \A p : p \in Separators' <=> p \in 1 .. Len(line) /\ p < Before + i' /\ line[p] \in Quotes \cup {Blank}
  BY <1>1, <1>2, <1>3, Zenon DEF Separators
<1> QED
  BY <1>3, <1>4, <1>5, <1>6, <1>7, Zenon

\* Every step counts the separators it passes.
LEMMA CountStep ==
    ASSUME BufferInv, ScanInv, CountInv, GetInputSteps \/ StartGetInput \/ UNCHANGED inputLineVars
    PROVE  CountInv'
<1>1. /\ Cardinality(Separators) \in Nat /\ IsFiniteSet(Separators)
      /\ Len(cmdToken) \in Nat /\ Len(Append(cmdToken, Token)) = Len(cmdToken) + 1
  <2>1. line \in Seq(LineCharacters) /\ Separators \in SUBSET DOMAIN line
    BY Zenon DEF BufferInv, Separators
  <2>2. QED
    BY <2>1, PlacesFinite, TokenIs DEF ScanInv
<1>2. CASE BetweenWords \/ InWord
  <2>1. BufferInv'
    BY <1>2, OthersKeepBuffer
  <2>2. IsFiniteSet(Separators') /\ Cardinality(Separators') \in Nat
    <3>1. line' \in Seq(LineCharacters) /\ Separators' \in SUBSET DOMAIN line'
      BY <2>1, Zenon DEF BufferInv, Separators
    <3>2. QED
      BY <3>1, PlacesFinite
  <2>3. Cardinality(Separators) <= Cardinality(Separators')
    BY <1>2, <2>2, OneMore, FS_Subset
  <2>4. ttybuf[i] \in Quotes \cup {Blank} => Cardinality(Separators') = Cardinality(Separators) + 1
    BY <1>1, <1>2, OneMore, FS_AddElement
  <2>5. QED
    BY <1>1, <1>2, <2>2, <2>3, <2>4, OverCharacter DEF CountInv
<1>3. CASE EndOfLine \/ BufferEnds \/ Overrun
  <2>1. /\ UNCHANGED <<line, rest, ttybuf, i>> /\ gpc' \in {"parsed", "overrun"}
        /\ gpc \in {"scan", "parsed"}
        /\ cmdToken' = cmdToken \/ (gpc = "scan" /\ cmdToken' = Append(cmdToken, Token))
    BY <1>3 DEF EndOfLine, BufferEnds, Overrun, TakeToken, Token
  <2>2. Separators' = Separators
    BY <2>1, Zenon DEF Separators, Before
  <2>3. QED
    BY <1>1, <2>1, <2>2 DEF CountInv
<1>4. CASE ReadBuffer
  <2>1. cmdToken' = <<>> /\ gpc' = "scan" /\ BufferInv'
    BY <1>4, ReadKeepsBuffer DEF ReadBuffer
  <2>2. Cardinality(Separators)' \in Nat
    <3>1. line' \in Seq(LineCharacters) /\ Separators' \in SUBSET DOMAIN line'
      BY <2>1, Zenon DEF BufferInv, Separators
    <3>2. QED
      BY <3>1, PlacesFinite
  <2>3. QED
    BY <2>1, <2>2 DEF CountInv
<1>5. CASE EndOfInput \/ StartGetInput \/ NextCommand
  BY <1>5 DEF EndOfInput, StartGetInput, NextCommand, CountInv
<1>6. CASE UNCHANGED inputLineVars
  BY <1>6, Zenon DEF inputLineVars, CountInv, Separators, Before
<1>7. QED
  BY <1>2, <1>3, <1>4, <1>5, <1>6 DEF GetInputSteps

---------------------------------------------------------------------------
(* getInput: the words are pieces of the line *)

\* The word that is taken is one more piece.
LEMMA AddPiece ==
    ASSUME BufferInv, ScanInv, gpc = "scan", NEW from \in Seq(Nat), Pieces(from),
           cmdToken' = Append(cmdToken, Token), UNCHANGED ttybuf, i' \in Nat, i' >= i,
           gpc' = "scan" => cpTokenStart' = i + 1,
           \A p \in i .. i' - 1 : ttybuf[p] # Letter,
           NEW to \in Seq(Nat), to = Append(from, cpTokenStart)
    PROVE  Pieces(to)'
<1> DEFINE n == Len(cmdToken)
<1>1. /\ i \in Nat /\ cpTokenStart \in Nat /\ 1 <= cpTokenStart /\ cpTokenStart <= i
      /\ cmdToken \in Seq(Seq(LineCharacters)) /\ n \in Nat /\ tokenFlag \in 0 .. 3
  BY DEF ScanInv, BufferInv
<1>2. Token \in Seq(LineCharacters) /\ Len(Token) = i - cpTokenStart
  BY TokenIs
<1>3. Len(from) = n
  BY DEF Pieces
<1>4. /\ to \in Seq(Nat) /\ Len(to) = n + 1 /\ to[n + 1] = cpTokenStart
      /\ \A w \in 1 .. n : to[w] = from[w]
  BY <1>1, <1>3
<1>5. /\ Len(cmdToken') = n + 1 /\ cmdToken'[n + 1] = Token
      /\ \A w \in 1 .. n : cmdToken'[w] = cmdToken[w]
  BY <1>1, <1>2
<1>6. \A w \in 1 .. n : from[w] \in Nat /\ Len(cmdToken[w]) \in Nat
  BY <1>1, <1>3
<1>7. \A w \in 1 .. n :
        /\ from[w] >= 1 /\ from[w] + Len(cmdToken[w]) <= i
        /\ cmdToken[w] = SubSeq(ttybuf, from[w], from[w] + Len(cmdToken[w]) - 1)
        /\ from[w] + Len(cmdToken[w]) < cpTokenStart
  BY Zenon DEF Pieces
<1>8. \A v, w \in 1 .. n : v < w => from[v] + Len(cmdToken[v]) < from[w]
  BY Zenon DEF Pieces
<1>9. \A p \in 1 .. i - 1 : ttybuf[p] = Letter => Covers(from, p) \/ p >= cpTokenStart
  BY DEF Pieces
<1> HIDE DEF n
<1>10. \A w \in 1 .. n + 1 : w \in 1 .. n \/ w = n + 1
  BY <1>1 DEF n
<1>11. ASSUME NEW w \in 1 .. n + 1
       PROVE  /\ to[w] >= 1 /\ to[w] + Len(cmdToken'[w]) <= i'
              /\ cmdToken'[w] = SubSeq(ttybuf', to[w], to[w] + Len(cmdToken'[w]) - 1)
              /\ gpc' = "scan" => to[w] + Len(cmdToken'[w]) < cpTokenStart'
  <2>1. CASE w \in 1 .. n
    <3>1. to[w] = from[w] /\ cmdToken'[w] = cmdToken[w]
      BY <1>4, <1>5, <2>1, Zenon
    <3>2. from[w] + Len(cmdToken[w]) <= i'
      <4>1. from[w] + Len(cmdToken[w]) <= i
        BY <1>7, <2>1, Zenon
      <4>2. from[w] \in Nat /\ Len(cmdToken[w]) \in Nat
        BY <1>6, <2>1, Zenon
      <4>3. \A a \in Nat, b \in Nat, c \in Nat : a <= b /\ b <= c => a <= c
        OBVIOUS
      <4>4. \A a \in Nat, b \in Nat : a + b \in Nat
        OBVIOUS
      <4>5. from[w] + Len(cmdToken[w]) \in Nat
        BY <4>2, <4>4, Zenon
      <4>6. QED
        BY <1>1, <4>1, <4>3, <4>5, Zenon
    <3>3. gpc' = "scan" => from[w] + Len(cmdToken[w]) < cpTokenStart'
      <4>1. from[w] + Len(cmdToken[w]) <= i
        BY <1>7, <2>1, Zenon
      <4>2. from[w] \in Nat /\ Len(cmdToken[w]) \in Nat
        BY <1>6, <2>1, Zenon
      <4>3. from[w] + Len(cmdToken[w]) < i + 1
        <5>1. \A a \in Nat, b \in Nat, c \in Nat : a + b <= c => a + b < c + 1
          OBVIOUS
        <5>2. QED
          BY <1>1, <4>1, <4>2, <5>1, Zenon
      <4>4. QED
        BY <4>3, Zenon
    <3>4. QED
      BY <1>7, <2>1, <3>1, <3>2, <3>3, Zenon
  <2>2. CASE w = n + 1
    <3>1. to[w] = cpTokenStart /\ cmdToken'[w] = Token
      BY <1>4, <1>5, <2>2, Zenon
    <3>2. /\ cpTokenStart + Len(Token) = i /\ cpTokenStart + Len(Token) - 1 = i - 1
          /\ i <= i' /\ (gpc' = "scan" => i < cpTokenStart') /\ cpTokenStart >= 1
      BY <1>1, <1>2
    <3>3. QED
      BY <3>1, <3>2, Zenon DEF Token
  <2>3. QED
    BY <1>10, <2>1, <2>2
<1>12. ASSUME NEW v \in 1 .. n + 1, NEW w \in 1 .. n + 1, v < w
       PROVE  to[v] + Len(cmdToken'[v]) < to[w]
  <2>1. v \in 1 .. n
    BY <1>1, <1>12 DEF n
  <2>2. to[v] = from[v] /\ cmdToken'[v] = cmdToken[v]
    BY <1>4, <1>5, <2>1, Zenon
  <2>3. CASE w \in 1 .. n
    <3>1. to[w] = from[w]
      BY <1>4, <2>3, Zenon
    <3>2. QED
      BY <1>8, <1>12, <2>1, <2>2, <2>3, <3>1, Zenon
  <2>4. CASE w = n + 1
    BY <1>4, <1>7, <2>1, <2>2, <2>4, Zenon
  <2>5. QED
    BY <1>10, <2>3, <2>4
<1>13. ASSUME NEW p \in 1 .. i' - 1, ttybuf[p] = Letter
       PROVE  \E w \in 1 .. n + 1 : p \in to[w] .. to[w] + Len(cmdToken'[w]) - 1
  <2>1. p \in 1 .. i - 1
    <3>1. \A a \in Nat, b \in Nat : b >= a =>
            \A k \in 1 .. b - 1 : k \in 1 .. a - 1 \/ k \in a .. b - 1
      OBVIOUS
    <3>2. p \in 1 .. i - 1 \/ p \in i .. i' - 1
      BY <1>1, <1>13, <3>1, Zenon
    <3>3. QED
      BY <3>2, <1>13, Zenon
  <2>2. CASE Covers(from, p)
    <3>1. PICK w \in 1 .. n : p \in from[w] .. from[w] + Len(cmdToken[w]) - 1
      BY <2>2 DEF Covers, n
    <3>2. w \in 1 .. n + 1 /\ to[w] = from[w] /\ cmdToken'[w] = cmdToken[w]
      BY <1>1, <1>4, <1>5 DEF n
    <3>3. QED
      BY <3>1, <3>2, Zenon
  <2>3. CASE p >= cpTokenStart
    <3>1. p \in cpTokenStart .. cpTokenStart + Len(Token) - 1
      BY <1>1, <1>2, <2>1, <2>3
    <3>2. n + 1 \in 1 .. n + 1
      BY <1>1 DEF n
    <3>3. QED
      BY <1>4, <1>5, <3>1, <3>2, Zenon
  <2>4. QED
    BY <1>9, <1>13, <2>1, <2>2, <2>3
<1>14. Len(cmdToken') = n + 1 /\ Len(to) = Len(cmdToken') /\ to \in Seq(Nat)
  BY <1>4, <1>5
<1>15. \A p \in 1 .. i' - 1 : ttybuf'[p] = Letter => Covers(to, p)'
  BY <1>13, <1>14, Zenon DEF Covers
<1>16. QED
  BY <1>11, <1>12, <1>14, <1>15, Zenon DEF Pieces

\* Every step keeps the words pieces of the line.
LEMMA PiecesStep ==
    ASSUME BufferInv, ScanInv, PiecesInv, GetInputSteps \/ StartGetInput \/ UNCHANGED inputLineVars
    PROVE  PiecesInv'
<1>1. CASE gpc' \notin {"scan", "parsed"}
  BY <1>1 DEF PiecesInv
<1>2. CASE ReadBuffer
  <2>1. cmdToken' = <<>> /\ i' = 1 /\ gpc' = "scan"
    BY <1>2 DEF ReadBuffer
  <2>2. Len(cmdToken') = 0 /\ <<>> \in Seq(Nat) /\ Len(<<>>) = 0
    BY <2>1
  <2>3. Pieces(<<>>)'
    BY <2>1, <2>2 DEF Pieces
  <2>4. QED
    BY <2>2, <2>3, Zenon DEF PiecesInv
<1>3. ASSUME gpc \in {"scan", "parsed"}
      PROVE  \E from \in Seq(Nat) : Pieces(from)
  BY <1>3 DEF PiecesInv
<1>4. /\ i \in Nat /\ i >= 1 /\ cpTokenStart \in 1 .. i
      /\ cmdToken \in Seq(Seq(LineCharacters)) /\ Len(cmdToken) \in Nat
      /\ tokenFlag = 0 => cpTokenStart = i
  BY DEF ScanInv, BufferInv
<1>5. CASE BetweenWords \/ InWord
  <2>1. PICK from \in Seq(Nat) : Pieces(from)
    BY <1>3, <1>5, OverCharacter
  <2>2. CASE cmdToken' = cmdToken
    <3>1. /\ gpc' = "scan" /\ gpc = "scan" /\ ttybuf' = ttybuf /\ i' = i + 1
          /\ cpTokenStart' >= cpTokenStart /\ cpTokenStart' \in Nat
          /\ tokenFlag # 0 => tokenFlag' # 0 /\ cpTokenStart' = cpTokenStart
          /\ ttybuf[i] = Letter => tokenFlag' # 0 /\ i >= cpTokenStart'
      <4>1. CASE BetweenWords
        <5>1. /\ gpc' = "scan" /\ gpc = "scan" /\ ttybuf' = ttybuf /\ i' = i + 1
              /\ tokenFlag = 0 /\ cpTokenStart = i
              /\ cpTokenStart' = cpTokenStart \/ cpTokenStart' = cpTokenStart + 1
          BY <4>1, BetweenDoes, <1>4
        <5>2. ttybuf[i] = Letter => tokenFlag' = 1 /\ cpTokenStart' = cpTokenStart
          BY <4>1, BetweenDoes, Distinct, Zenon DEF Quotes
        <5>3. QED
          BY <1>4, <5>1, <5>2
      <4>2. CASE InWord
        <5>1. gpc' = "scan" /\ gpc = "scan" /\ ttybuf' = ttybuf /\ i' = i + 1 /\ tokenFlag # 0
          BY <4>2, InWordDoes
        <5>2. UNCHANGED <<cpTokenStart, tokenFlag>>
          <6>1. ~ (ttybuf[i] \in Ends(tokenFlag) /\ TakeToken)
            <7>1. ASSUME TakeToken PROVE FALSE
              BY <1>4, <2>2, <7>1, TokenIs DEF TakeToken, Token
            <7>2. QED
              BY <7>1
          <6>2. QED
            BY <4>2, <6>1, InWordDoes, Zenon
        <5>3. QED
          BY <1>4, <5>1, <5>2
      <4>3. QED
        BY <1>5, <4>1, <4>2
    <3>2. \A w \in 1 .. Len(cmdToken) : from[w] \in Nat /\ Len(cmdToken[w]) \in Nat
      BY <1>4, <2>1 DEF Pieces
    <3>3. ASSUME NEW p \in 1 .. i' - 1, ttybuf[p] = Letter
          PROVE  Covers(from, p)' \/ (tokenFlag' # 0 /\ p >= cpTokenStart')
      <4>1. Covers(from, p)' <=> Covers(from, p)
        BY <2>2, Zenon DEF Covers
      <4>2. p \in 1 .. i - 1 \/ p = i
        BY <1>4, <3>1
      <4>3. \A q \in 1 .. i - 1 : ttybuf[q] = Letter => Covers(from, q) \/ (tokenFlag # 0 /\ q >= cpTokenStart)
        BY <2>1, <3>1 DEF Pieces
      <4>4. QED
        BY <3>1, <3>3, <4>1, <4>2, <4>3, Zenon
    <3>4. ASSUME NEW w \in 1 .. Len(cmdToken)
          PROVE  from[w] + Len(cmdToken[w]) <= i' /\ from[w] + Len(cmdToken[w]) < cpTokenStart'
      <4>1. from[w] + Len(cmdToken[w]) <= i /\ from[w] + Len(cmdToken[w]) < cpTokenStart
        BY <2>1, <3>1, Zenon DEF Pieces
      <4>2. from[w] \in Nat /\ Len(cmdToken[w]) \in Nat
        BY <3>2, Zenon
      <4>3. \A a \in Nat, b \in Nat, c \in Nat, d \in Nat, e \in Nat :
              a + b <= c /\ a + b < d /\ e >= d => a + b <= c + 1 /\ a + b < e
        OBVIOUS
      <4>4. /\ i' = i + 1 /\ cpTokenStart' >= cpTokenStart /\ i \in Nat /\ cpTokenStart \in Nat
            /\ cpTokenStart' \in Nat
        BY <1>4, <3>1
      <4>5. QED
        BY <4>1, <4>2, <4>3, <4>4, Zenon
    <3>5. Pieces(from)'
      BY <2>1, <2>2, <3>1, <3>3, <3>4, Zenon DEF Pieces
    <3>6. QED
      BY <3>5 DEF PiecesInv
  <2>3. CASE cmdToken' # cmdToken
    <3>1. /\ gpc = "scan" /\ ttybuf' = ttybuf /\ cmdToken' = Append(cmdToken, Token)
          /\ ttybuf[i] \in Quotes \cup {Blank} /\ tokenFlag' = 0 /\ i' = i + 1
          /\ tokenFlag' = 0 => cpTokenStart' = i'
      BY <1>5, <2>3, OverCharacter
    <3>2. ttybuf[i] # Letter
      BY <3>1, Distinct, Zenon DEF Quotes
    <3>3. \A p \in i .. i' - 1 : ttybuf[p] # Letter
      BY <1>4, <3>1, <3>2
    <3>4. i' \in Nat /\ i' >= i /\ cpTokenStart' = i + 1
      BY <1>4, <3>1
    <3>5. PICK to \in Seq(Nat) : to = Append(from, cpTokenStart)
      <4>1. cpTokenStart \in Nat
        BY <1>4
      <4>2. Append(from, cpTokenStart) \in Seq(Nat)
        BY <4>1
      <4>3. QED
        BY <4>2
    <3>6. Pieces(to)'
      BY <2>1, <3>1, <3>3, <3>4, <3>5, AddPiece
    <3>7. QED
      BY <3>6, Zenon DEF PiecesInv
  <2>4. QED
    BY <2>2, <2>3
<1>6. CASE EndOfLine
  <2>1. /\ gpc = "scan" /\ gpc' = "parsed" /\ ttybuf' = ttybuf /\ cmdToken' = Append(cmdToken, Token)
        /\ i' = i
    BY <1>6, Zenon DEF EndOfLine, TakeToken, Token
  <2>2. PICK from \in Seq(Nat) : Pieces(from)
    BY <1>3, <2>1
  <2>3. i' \in Nat /\ i' >= i /\ \A p \in i .. i' - 1 : ttybuf[p] # Letter
    BY <1>4, <2>1
  <2>4. PICK to \in Seq(Nat) : to = Append(from, cpTokenStart)
    <3>1. cpTokenStart \in Nat
      BY <1>4
    <3>2. Append(from, cpTokenStart) \in Seq(Nat)
      BY <3>1
    <3>3. QED
      BY <3>2
  <2>5. Pieces(to)'
    BY <2>1, <2>2, <2>3, <2>4, AddPiece
  <2>6. QED
    BY <2>5, Zenon DEF PiecesInv
<1>7. CASE BufferEnds
  <2>1. /\ gpc = "scan" /\ gpc' = "parsed" /\ UNCHANGED <<ttybuf, cmdToken, i>> /\ i > Len(ttybuf)
    BY <1>7, Zenon DEF BufferEnds, Scanned
  <2>2. PICK from \in Seq(Nat) : Pieces(from)
    BY <1>3, <2>1
  <2>3. i = Len(ttybuf) + 1
    <3>1. i \in 1 .. Len(ttybuf) + 1 /\ Len(ttybuf) \in Nat
      BY DEF ScanInv, BufferInv
    <3>2. QED
      BY <2>1, <3>1
  <2>4. Pieces(from)'
    BY <2>1, <2>2, <2>3, Zenon DEF Pieces
  <2>5. QED
    BY <2>2, <2>4, Zenon DEF PiecesInv
<1>8. CASE UNCHANGED inputLineVars
  BY <1>8, Zenon DEF inputLineVars, PiecesInv, Pieces, Covers
<1>9. CASE EndOfInput \/ Overrun \/ NextCommand \/ StartGetInput
  BY <1>1, <1>9 DEF EndOfInput, Overrun, NextCommand, StartGetInput
<1>10. QED
  BY <1>2, <1>5, <1>6, <1>7, <1>8, <1>9 DEF GetInputSteps

---------------------------------------------------------------------------
(* getInput: the words that are typed come back *)

\* Where a piece of a line begins and ends.
LEMMA EdgesAre ==
    ASSUME BufferInv, NEW at, TypedLine(at), NEW k \in 1 .. Len(at) + 1, Len(line) > 0
    PROVE  /\ Len(at) \in Nat /\ Len(line) \in Nat
           /\ Edge(at, k - 1) \in Nat /\ Edge(at, k) \in 1 .. Len(line)
           /\ TypedWord(Edge(at, k - 1), Edge(at, k))
           /\ k = Len(at) + 1 => line[Edge(at, k)] = Newline
           /\ k # Len(at) + 1 => line[Edge(at, k)] = Blank
           /\ \A p \in Edge(at, k - 1) + 1 .. Edge(at, k) - 1 : line[p] # Newline
<1>1. /\ at \in Seq(1 .. Len(line)) /\ Len(at) \in Nat /\ line \in Seq(LineCharacters) /\ Len(line) \in Nat
      /\ \A p \in 1 .. Len(line) - 1 : line[p] # Newline
  BY DEF TypedLine, BufferInv
<1>2. ASSUME NEW n \in 1 .. Len(at) PROVE at[n] \in 1 .. Len(line)
  BY <1>1
<1>3. Edge(at, k - 1) \in Nat
  <2>1. k = 1 \/ (k - 1 \in 1 .. Len(at) /\ k - 1 # 0 /\ ~ (k - 1 > Len(at)))
    BY <1>1
  <2>2. CASE k = 1
    BY <2>2 DEF Edge
  <2>3. CASE k - 1 \in 1 .. Len(at) /\ k - 1 # 0 /\ ~ (k - 1 > Len(at))
    <3>1. at[k - 1] \in 1 .. Len(line)
      BY <1>2, <2>3
    <3>2. Edge(at, k - 1) = at[k - 1]
      BY <2>3, Zenon DEF Edge
    <3>3. QED
      BY <1>1, <3>1, <3>2
  <2>4. QED
    BY <2>1, <2>2, <2>3
<1>4. /\ Edge(at, k) \in 1 .. Len(line)
      /\ k = Len(at) + 1 => line[Edge(at, k)] = Newline
      /\ k # Len(at) + 1 => line[Edge(at, k)] = Blank
  <2>1. CASE k = Len(at) + 1
    <3>1. k # 0 /\ k > Len(at)
      BY <1>1, <2>1
    <3>2. Edge(at, k) = Len(line)
      BY <3>1, Zenon DEF Edge
    <3>3. Len(line) \in 1 .. Len(line)
      BY <1>1
    <3>4. QED
      BY <2>1, <3>2, <3>3 DEF TypedLine
  <2>2. CASE k # Len(at) + 1
    <3>1. k # 0 /\ ~ (k > Len(at)) /\ k \in 1 .. Len(at)
      BY <1>1, <2>2
    <3>2. Edge(at, k) = at[k]
      BY <3>1, Zenon DEF Edge
    <3>3. QED
      BY <1>2, <2>2, <3>1, <3>2 DEF TypedLine
  <2>3. QED
    BY <2>1, <2>2
<1>5. TypedWord(Edge(at, k - 1), Edge(at, k))
  BY DEF TypedLine
<1>6. ASSUME NEW p \in Edge(at, k - 1) + 1 .. Edge(at, k) - 1 PROVE line[p] # Newline
  <2>1. p \in 1 .. Len(line) - 1
    BY <1>1, <1>3, <1>4
  <2>2. QED
    BY <1>1, <2>1
<1>7. QED
  BY <1>1, <1>3, <1>4, <1>5, <1>6

\* The next word is added to those that were taken.
LEMMA TakesNext ==
    ASSUME NEW at, NEW k \in Nat \ {0}, WordsTaken(at, k - 1)
    PROVE  Append(cmdToken, WordBetween(Edge(at, k - 1), Edge(at, k)))
             = [j \in 1 .. k |-> WordBetween(Edge(at, j - 1), Edge(at, j))]
<1> DEFINE f(j) == WordBetween(Edge(at, j - 1), Edge(at, j))
<1>1. cmdToken = [j \in 1 .. k - 1 |-> f(j)]
  BY DEF WordsTaken
<1> HIDE DEF f
<1>2. Append([j \in 1 .. k - 1 |-> f(j)], f(k)) = [j \in 1 .. k |-> f(j)]
  OBVIOUS
<1>3. QED
  BY <1>1, <1>2 DEF f

\* One step within a typed word, or over the character that ends it.
LEMMA WordStep ==
    ASSUME BufferInv, ScanInv, BetweenWords \/ InWord, ttybuf = line,
           NEW o \in Nat, NEW e \in 1 .. Len(line), TypedWord(o, e), InTyped(o, e),
           line[e] \in {Blank, Newline}
    PROVE  \/ cmdToken' = cmdToken /\ InTyped(o, e)'
           \/ /\ cmdToken' = Append(cmdToken, WordBetween(o, e))
              /\ i' = e /\ tokenFlag' = 0
           \/ /\ line[e] = Blank /\ cmdToken' = Append(cmdToken, WordBetween(o, e))
              /\ i' = e + 1 /\ tokenFlag' = 0
<1>1. /\ line' = line /\ i \in 1 .. Len(line) /\ i' = i + 1 /\ line[i] # Newline
      /\ line \in Seq(LineCharacters)
  BY OverCharacter DEF BufferInv
<1>2. i \in Nat /\ e \in Nat /\ o + 1 < e /\ o + 1 \in o + 1 .. e - 1
  BY <1>1 DEF TypedWord
<1>3. CASE i = o + 1 /\ tokenFlag = 0
  <2>1. BetweenWords /\ cmdToken' = cmdToken /\ cpTokenStart = o + 1 /\ tokenFlag' = Opens(line[o + 1])
    BY <1>3, InWordDoes, BetweenDoes DEF ScanInv
  <2>2. CASE line[o + 1] \in Quotes
    <3>1. line[o + 1] # Blank
      BY <2>2, Distinct, Zenon DEF Quotes
    <3>2. cpTokenStart' = o + 2 /\ i' = o + 2 /\ o + 2 < e
      <4>1. o + 2 < e
        BY <2>2 DEF TypedWord
      <4>2. cpTokenStart' = cpTokenStart + 1
        BY <1>3, <2>1, <2>2, <3>1, BetweenDoes
      <4>3. QED
        BY <1>1, <1>3, <2>1, <4>1, <4>2
    <3>3. i' \in o + 2 .. e - 1
      BY <1>2, <3>2
    <3>4. QED
      BY <1>1, <2>1, <2>2, <3>2, <3>3 DEF InTyped
  <2>3. CASE line[o + 1] \notin Quotes
    <3>1. line[o + 1] # Blank
      BY <1>2, <2>3 DEF TypedWord
    <3>2. tokenFlag' = 1 /\ cpTokenStart' = o + 1
      <4>1. tokenFlag' = 1
        BY <2>1, <2>3, <3>1, OpensDoes, Zenon DEF Quotes
      <4>2. UNCHANGED cpTokenStart
        BY <2>1, <4>1, BetweenDoes
      <4>3. QED
        BY <2>1, <4>1, <4>2
    <3>3. i' \in o + 2 .. e
      BY <1>1, <1>2, <1>3
    <3>4. QED
      BY <1>1, <2>1, <2>3, <3>2, <3>3 DEF InTyped
  <2>4. QED
    BY <2>2, <2>3
<1>4. CASE tokenFlag = 1 /\ line[o + 1] \notin Quotes /\ cpTokenStart = o + 1 /\ i \in o + 2 .. e
  <2>1. InWord /\ Ends(tokenFlag) = {Blank}
    BY <1>4, BetweenDoes, EndsDoes
  <2>2. CASE line[i] = Blank
    <3>1. i = e
      <4>1. i \notin o + 1 .. e - 1
        BY <1>4, <2>2 DEF TypedWord
      <4>2. QED
        BY <1>2, <1>4, <4>1
    <3>2. TakeToken /\ tokenFlag' = 0
      BY <2>1, <2>2, InWordDoes
    <3>3. cmdToken' = Append(cmdToken, WordBetween(o, e))
      BY <1>4, <3>1, <3>2 DEF TakeToken, WordBetween
    <3>4. QED
      BY <1>1, <2>2, <3>1, <3>2, <3>3
  <2>3. CASE line[i] # Blank
    <3>1. UNCHANGED <<cmdToken, cpTokenStart, tokenFlag>>
      BY <2>1, <2>3, InWordDoes
    <3>2. i # e
      BY <1>1, <2>3
    <3>3. i' \in o + 2 .. e
      BY <1>1, <1>2, <1>4, <3>2
    <3>4. QED
      BY <1>1, <1>4, <3>1, <3>3 DEF InTyped
  <2>4. QED
    BY <2>2, <2>3
<1>5. CASE /\ tokenFlag = Opens(line[o + 1]) /\ line[o + 1] \in Quotes
           /\ cpTokenStart = o + 2 /\ i \in o + 2 .. e - 1
  <2>1. InWord /\ Ends(tokenFlag) = {line[o + 1]}
    <3>1. line[o + 1] = SingleQuote \/ line[o + 1] = DoubleQuote
      BY <1>5, Zenon DEF Quotes
    <3>2. Opens(SingleQuote) = 3 /\ Opens(DoubleQuote) = 2
      BY OpensDoes, Distinct, Zenon DEF Quotes
    <3>3. QED
      BY <1>5, <3>1, <3>2, EndsDoes, BetweenDoes
  <2>2. CASE line[i] = line[o + 1]
    <3>1. i = e - 1
      <4>1. i \notin o + 2 .. e - 2
        BY <1>5, <2>2 DEF TypedWord
      <4>2. QED
        BY <1>2, <1>5, <4>1
    <3>2. TakeToken /\ tokenFlag' = 0
      BY <2>1, <2>2, InWordDoes
    <3>3. i - 1 = e - 2 /\ i' = e
      BY <1>1, <1>2, <3>1
    <3>4. cmdToken' = Append(cmdToken, WordBetween(o, e))
      BY <1>5, <3>2, <3>3 DEF TakeToken, WordBetween
    <3>5. QED
      BY <3>2, <3>3, <3>4
  <2>3. CASE line[i] # line[o + 1]
    <3>1. UNCHANGED <<cmdToken, cpTokenStart, tokenFlag>>
      BY <2>1, <2>3, InWordDoes
    <3>2. i # e - 1
      BY <1>5, <2>3 DEF TypedWord
    <3>3. i' \in o + 2 .. e - 1
      BY <1>1, <1>2, <1>5, <3>2
    <3>4. QED
      BY <1>1, <1>5, <3>1, <3>3 DEF InTyped
  <2>4. QED
    BY <2>2, <2>3
<1>6. QED
  BY <1>3, <1>4, <1>5 DEF InTyped

\* Every step over a typed line takes its words.
LEMMA WordsStep ==
    ASSUME BufferInv, ScanInv, WordsInv, GetInputSteps \/ StartGetInput \/ UNCHANGED inputLineVars
    PROVE  WordsInv'
<1> SUFFICES ASSUME NEW at \in Seq(1 .. Len(line')), TypedLine(at)'
             PROVE  /\ gpc' = "scan" => \E k \in 1 .. Len(at) + 1 : ScanningWord(at, k)'
                    /\ gpc' = "parsed" => cmdToken' \in {WordsAt(at)', Append(WordsAt(at)', <<>>)}
  BY Zenon DEF WordsInv
<1>1. ASSUME UNCHANGED <<line, ttybuf>>
      PROVE  /\ TypedLine(at) /\ WordsAt(at)' = WordsAt(at)
             /\ \A k : Edge(at, k)' = Edge(at, k)
             /\ gpc = "scan" => \E k \in 1 .. Len(at) + 1 : ScanningWord(at, k)
             /\ gpc = "parsed" => cmdToken \in {WordsAt(at), Append(WordsAt(at), <<>>)}
  <2>1. TypedLine(at)
    BY <1>1 DEF TypedLine, TypedWord, Edge
  <2>2. WordsAt(at)' = WordsAt(at) /\ \A k : Edge(at, k)' = Edge(at, k)
    BY <1>1 DEF WordsAt, WordBetween, Edge
  <2>3. at \in Seq(1 .. Len(line))
    BY <1>1
  <2>4. QED
    BY <2>1, <2>2, <2>3, Zenon DEF WordsInv
<1>2. Len(at) \in Nat
  OBVIOUS
<1>3. i \in Nat /\ i >= 1 /\ i <= Len(ttybuf) + 1 /\ (tokenFlag = 0 => cpTokenStart = i)
  BY DEF ScanInv, BufferInv
<1>4. ASSUME gpc = "scan", UNCHANGED <<line, ttybuf>>
      PROVE  \E k \in 1 .. Len(at) + 1 :
                \E o \in Nat : \E e \in 1 .. Len(line) :
                   /\ o = Edge(at, k - 1) /\ e = Edge(at, k)
                   /\ TypedWord(o, e) /\ o + 1 < e
                   /\ k = Len(at) + 1 => line[e] = Newline
                   /\ k # Len(at) + 1 => line[e] = Blank
                   /\ \A p \in o + 1 .. e - 1 : line[p] # Newline
                   /\ \/ WordsTaken(at, k - 1) /\ InTyped(o, e)
                      \/ WordsTaken(at, k) /\ i = e /\ tokenFlag = 0
  <2>1. PICK k \in 1 .. Len(at) + 1 : ScanningWord(at, k)
    BY <1>1, <1>4
  <2>2. TypedLine(at) /\ Len(line) > 0
    BY <1>1, <1>4 DEF ScanInv
  <2>3. /\ Edge(at, k - 1) \in Nat /\ Edge(at, k) \in 1 .. Len(line)
        /\ TypedWord(Edge(at, k - 1), Edge(at, k))
        /\ k = Len(at) + 1 => line[Edge(at, k)] = Newline
        /\ k # Len(at) + 1 => line[Edge(at, k)] = Blank
        /\ \A p \in Edge(at, k - 1) + 1 .. Edge(at, k) - 1 : line[p] # Newline
    BY <2>2, EdgesAre
  <2>4. Edge(at, k - 1) + 1 < Edge(at, k)
    BY <2>3 DEF TypedWord
  <2>5. QED
    BY <2>1, <2>3, <2>4, Zenon DEF ScanningWord
<1>5. CASE BetweenWords \/ InWord
  <2>1. /\ gpc = "scan" /\ gpc' = "scan" /\ UNCHANGED <<line, ttybuf>>
        /\ i' = i + 1 /\ line[i] # Newline /\ ttybuf = line
    <3>1. gpc = "scan" /\ UNCHANGED <<gpc, line, ttybuf>> /\ i' = i + 1 /\ ttybuf[i] # Newline
      BY <1>5, OverCharacter
    <3>2. ttybuf = line
      BY <1>1, <3>1 DEF TypedLine
    <3>3. QED
      BY <3>1, <3>2
  <2>2. PICK k \in 1 .. Len(at) + 1 :
           \E o \in Nat : \E e \in 1 .. Len(line) :
                   /\ o = Edge(at, k - 1) /\ e = Edge(at, k)
                   /\ TypedWord(o, e) /\ o + 1 < e
                   /\ k = Len(at) + 1 => line[e] = Newline
                   /\ k # Len(at) + 1 => line[e] = Blank
                   /\ \A p \in o + 1 .. e - 1 : line[p] # Newline
                   /\ \/ WordsTaken(at, k - 1) /\ InTyped(o, e)
                      \/ WordsTaken(at, k) /\ i = e /\ tokenFlag = 0
    BY <1>4, <2>1, Zenon
  <2>3. PICK o \in Nat, e \in 1 .. Len(line) :
                   /\ o = Edge(at, k - 1) /\ e = Edge(at, k)
                   /\ TypedWord(o, e) /\ o + 1 < e
                   /\ k = Len(at) + 1 => line[e] = Newline
                   /\ k # Len(at) + 1 => line[e] = Blank
                   /\ \/ WordsTaken(at, k - 1) /\ InTyped(o, e)
                      \/ WordsTaken(at, k) /\ i = e /\ tokenFlag = 0
    BY <2>2, Zenon
  <2>4. \A j : WordsTaken(at, j)' <=> cmdToken' = [m \in 1 .. j |-> WordBetween(Edge(at, m - 1), Edge(at, m))]
    BY <2>1 DEF WordsTaken, WordBetween, Edge
  <2>5. ASSUME k # Len(at) + 1, cmdToken' = [m \in 1 .. k |-> WordBetween(Edge(at, m - 1), Edge(at, m))],
               i' = e + 1, tokenFlag' = 0
        PROVE  \E j \in 1 .. Len(at) + 1 : ScanningWord(at, j)'
    <3>1. k + 1 \in 1 .. Len(at) + 1 /\ (k + 1) - 1 = k
      BY <1>2, <2>5
    <3>2. InTyped(e, Edge(at, k + 1))'
      BY <2>1, <2>5 DEF InTyped
    <3>3. WordsTaken(at, k)' /\ Edge(at, k)' = e
      BY <1>1, <2>1, <2>3, <2>4, <2>5
    <3>4. ScanningWord(at, k + 1)'
      BY <3>1, <3>2, <3>3 DEF ScanningWord
    <3>5. QED
      BY <3>1, <3>4
  <2>6. CASE WordsTaken(at, k - 1) /\ InTyped(o, e)
    <3>1. Append(cmdToken, WordBetween(o, e)) = [m \in 1 .. k |-> WordBetween(Edge(at, m - 1), Edge(at, m))]
      <4>1. k \in Nat \ {0}
        BY <1>2
      <4>2. QED
        BY <2>3, <2>6, <4>1, TakesNext
    <3>2. \/ cmdToken' = cmdToken /\ InTyped(o, e)'
          \/ /\ cmdToken' = Append(cmdToken, WordBetween(o, e))
             /\ i' = e /\ tokenFlag' = 0
          \/ /\ line[e] = Blank /\ cmdToken' = Append(cmdToken, WordBetween(o, e))
             /\ i' = e + 1 /\ tokenFlag' = 0
      <4>1. line[e] \in {Blank, Newline}
        BY <2>3
      <4>2. QED
        BY <1>5, <2>1, <2>3, <2>6, <4>1, WordStep
    <3>3. CASE cmdToken' = cmdToken /\ InTyped(o, e)'
      <4>1. WordsTaken(at, k - 1)' /\ Edge(at, k - 1)' = o /\ Edge(at, k)' = e
        BY <1>1, <2>1, <2>3, <2>4, <2>6, <3>3 DEF WordsTaken
      <4>2. InTyped(Edge(at, k - 1), Edge(at, k))'
        BY <3>3, <4>1 DEF InTyped
      <4>3. QED
        BY <2>1, <4>1, <4>2, Zenon DEF ScanningWord
    <3>4. CASE cmdToken' = Append(cmdToken, WordBetween(o, e)) /\ i' = e /\ tokenFlag' = 0
      <4>1. WordsTaken(at, k)' /\ i' = Edge(at, k)'
        BY <1>1, <2>1, <2>3, <2>4, <3>1, <3>4
      <4>2. QED
        BY <2>1, <3>4, <4>1, Zenon DEF ScanningWord
    <3>5. CASE /\ line[e] = Blank /\ cmdToken' = Append(cmdToken, WordBetween(o, e))
               /\ i' = e + 1 /\ tokenFlag' = 0
      <4>1. k # Len(at) + 1
        BY <2>3, <3>5, Distinct
      <4>2. QED
        BY <2>1, <2>5, <3>1, <3>5, <4>1
    <3>6. QED
      BY <3>2, <3>3, <3>4, <3>5
  <2>7. CASE WordsTaken(at, k) /\ i = e /\ tokenFlag = 0
    <3>1. k # Len(at) + 1 /\ line[i] = Blank
      BY <2>1, <2>3, <2>7
    <3>2. BetweenWords
      BY <1>5, <2>7, InWordDoes
    <3>3. cmdToken' = cmdToken /\ tokenFlag' = 0
      <4>1. Blank \notin Quotes
        BY Distinct, Zenon DEF Quotes
      <4>2. QED
        BY <2>1, <3>1, <3>2, <4>1, BetweenDoes
    <3>4. cmdToken' = [m \in 1 .. k |-> WordBetween(Edge(at, m - 1), Edge(at, m))] /\ i' = e + 1
      BY <2>1, <2>7, <3>3 DEF WordsTaken
    <3>5. QED
      BY <2>1, <2>5, <3>1, <3>3, <3>4
  <2>8. QED
    BY <2>3, <2>6, <2>7
<1>6. CASE EndOfLine
  <2>1. /\ gpc = "scan" /\ gpc' = "parsed" /\ UNCHANGED <<line, ttybuf>>
        /\ ttybuf[i] = Newline /\ cmdToken' = Append(cmdToken, Token)
    BY <1>6, Zenon DEF EndOfLine, TakeToken, Token, Current
  <2>2. ttybuf = line
    BY <1>1, <2>1 DEF TypedLine
  <2>3. PICK k \in 1 .. Len(at) + 1, o \in Nat, e \in 1 .. Len(line) :
                   /\ o = Edge(at, k - 1) /\ e = Edge(at, k)
                   /\ TypedWord(o, e) /\ o + 1 < e
                   /\ k # Len(at) + 1 => line[e] = Blank
                   /\ \A p \in o + 1 .. e - 1 : line[p] # Newline
                   /\ \/ WordsTaken(at, k - 1) /\ InTyped(o, e)
                      \/ WordsTaken(at, k) /\ i = e /\ tokenFlag = 0
    BY <1>4, <2>1, Zenon
  <2>4. i \notin o + 1 .. e - 1
    BY <2>1, <2>2, <2>3
  <2>5. i = e => k = Len(at) + 1
    BY <2>1, <2>2, <2>3, Distinct
  <2>6. CASE WordsTaken(at, k - 1) /\ InTyped(o, e)
    <3>1. tokenFlag = 1 /\ line[o + 1] \notin Quotes /\ cpTokenStart = o + 1 /\ i = e
      BY <1>3, <2>3, <2>4, <2>6 DEF InTyped
    <3>2. Token = WordBetween(o, e)
      BY <2>2, <3>1 DEF Token, WordBetween
    <3>3. k \in Nat \ {0} /\ k = Len(at) + 1
      BY <1>2, <2>5, <3>1
    <3>4. cmdToken' = [m \in 1 .. k |-> WordBetween(Edge(at, m - 1), Edge(at, m))]
      BY <2>1, <2>3, <2>6, <3>2, <3>3, TakesNext
    <3>5. cmdToken' = WordsAt(at)
      BY <3>3, <3>4 DEF WordsAt
    <3>6. QED
      BY <1>1, <2>1, <3>5
  <2>7. CASE WordsTaken(at, k) /\ i = e /\ tokenFlag = 0
    <3>1. Token = <<>>
      BY <1>3, <2>7, TokenIs, EmptySeq
    <3>2. cmdToken = WordsAt(at)
      BY <2>5, <2>7 DEF WordsTaken, WordsAt
    <3>3. QED
      BY <1>1, <2>1, <3>1, <3>2
  <2>8. QED
    BY <2>3, <2>6, <2>7
<1>7. CASE BufferEnds
  <2>1. gpc = "scan" /\ UNCHANGED <<line, ttybuf>> /\ i > Len(ttybuf)
    BY <1>7, Zenon DEF BufferEnds, Scanned
  <2>2. ttybuf = line
    BY <1>1, <2>1 DEF TypedLine
  <2>3. PICK k \in 1 .. Len(at) + 1, o \in Nat, e \in 1 .. Len(line) :
             o + 1 < e /\ (InTyped(o, e) \/ i = e)
    BY <1>4, <2>1, Zenon
  <2>4. i <= e
    BY <1>3, <2>3 DEF InTyped
  <2>5. FALSE
    <3>1. Len(line) \in Nat
      BY DEF BufferInv
    <3>2. QED
      BY <1>3, <2>1, <2>2, <2>3, <2>4, <3>1
  <2>6. QED
    BY <2>5
<1>8. CASE ReadBuffer
  <2>1. gpc' = "scan" /\ i' = 1 /\ tokenFlag' = 0 /\ cmdToken' = <<>>
    BY <1>8 DEF ReadBuffer
  <2>2. InTyped(0, Edge(at, 1))'
    BY <2>1 DEF InTyped
  <2>3. Edge(at, 0)' = 0 /\ 1 - 1 = 0
    BY DEF Edge
  <2>4. WordsTaken(at, 0)'
    BY <2>1 DEF WordsTaken
  <2>5. ScanningWord(at, 1)'
    BY <2>2, <2>3, <2>4 DEF ScanningWord
  <2>6. 1 \in 1 .. Len(at) + 1
    BY <1>2
  <2>7. QED
    BY <2>1, <2>5, <2>6
<1>9. CASE UNCHANGED inputLineVars
  <2>1. UNCHANGED <<line, ttybuf, gpc, cmdToken, i, tokenFlag, cpTokenStart>>
    BY <1>9, Zenon DEF inputLineVars
  <2>2. \A k : ScanningWord(at, k)' <=> ScanningWord(at, k)
    BY <2>1 DEF ScanningWord, WordsTaken, InTyped, WordBetween, Edge
  <2>3. QED
    BY <1>1, <2>1, <2>2
<1>10. CASE EndOfInput \/ Overrun \/ NextCommand \/ StartGetInput
  <2>1. gpc' \notin {"scan", "parsed"}
    BY <1>10 DEF EndOfInput, Overrun, NextCommand, StartGetInput
  <2>2. QED
    BY <2>1
<1>11. QED
  BY <1>5, <1>6, <1>7, <1>8, <1>9, <1>10 DEF GetInputSteps

---------------------------------------------------------------------------
(* getInput: the properties *)

LineInv == BufferInv /\ ScanInv /\ CountInv /\ PiecesInv /\ WordsInv

\* Before a command is read.
LEMMA LineInit == GetInputIdle => LineInv
<1> SUFFICES ASSUME GetInputIdle PROVE LineInv
  OBVIOUS
<1>1. /\ gpc = "none" /\ Len(line) = 0 /\ Len(rest) = 0 /\ Len(ttybuf) = 0 /\ cmdToken = <<>>
      /\ i = 1 /\ tokenFlag = 0 /\ cpTokenStart = 1
      /\ line \in Seq(LineCharacters) /\ rest \in Seq(LineCharacters) /\ ttybuf \in Seq(LineCharacters)
      /\ cmdToken \in Seq(Seq(LineCharacters))
  BY DEF GetInputIdle
<1>2. 0 < BufferSize
  BY BufferAssumption
<1>3. BufferInv
  BY <1>1, <1>2 DEF BufferInv, Before
<1>4. ScanInv
  BY <1>1 DEF ScanInv
<1>5. CountInv /\ PiecesInv /\ WordsInv
  BY <1>1 DEF CountInv, PiecesInv, WordsInv
<1>6. QED
  BY <1>3, <1>4, <1>5 DEF LineInv

\* Every step of getInput keeps the invariant.
LEMMA LineStep ==
    ASSUME LineInv, GetInputSteps \/ StartGetInput \/ UNCHANGED inputLineVars
    PROVE  LineInv'
<1>1. BufferInv /\ ScanInv /\ CountInv /\ PiecesInv /\ WordsInv
  BY DEF LineInv
<1>2. BufferInv'
  <2>1. CASE ReadBuffer
    BY <1>1, <2>1, ReadKeepsBuffer
  <2>2. CASE ~ ReadBuffer
    BY <1>1, <2>2, OthersKeepBuffer DEF GetInputSteps
  <2>3. QED
    BY <2>1, <2>2
<1>3. ScanInv' /\ CountInv' /\ PiecesInv' /\ WordsInv'
  BY <1>1, ScanStep, CountStep, PiecesStep, WordsStep
<1>4. QED
  BY <1>2, <1>3 DEF LineInv

\* A line that has been parsed: its letters are kept.
LEMMA LettersFollow == LineInv => LettersKept
<1> SUFFICES ASSUME LineInv, LineParsed
             PROVE  \E from \in [DOMAIN cmdToken -> DOMAIN line] :
                      /\ \A w \in DOMAIN cmdToken :
                           cmdToken[w] = SubSeq(line, from[w], from[w] + Len(cmdToken[w]) - 1)
                      /\ \A v, w \in DOMAIN cmdToken : v < w => from[v] + Len(cmdToken[v]) < from[w]
                      /\ \A p \in DOMAIN line :
                           line[p] = Letter =>
                              \E w \in DOMAIN cmdToken : p \in from[w] .. from[w] + Len(cmdToken[w]) - 1
  BY Zenon DEF LettersKept
<1>1. gpc = "parsed" /\ ttybuf = line /\ line[Len(line)] = Newline
  BY Zenon DEF LineParsed, Last
<1>2. /\ line \in Seq(LineCharacters) /\ Len(line) \in Nat /\ DOMAIN line = 1 .. Len(line)
      /\ \A p \in 1 .. Len(line) - 1 : line[p] # Newline
  BY DEF LineInv, BufferInv
<1>3. /\ i \in 1 .. Len(line) + 1 /\ Len(line) > 0
      /\ cmdToken \in Seq(Seq(LineCharacters)) /\ DOMAIN cmdToken = 1 .. Len(cmdToken)
      /\ \A p \in 1 .. i - 1 : line[p] # Newline
      /\ i = Len(line) + 1 \/ line[i] = Newline
  BY <1>1 DEF LineInv, ScanInv
<1>4. i = Len(line)
  <2>1. i # Len(line) + 1
    BY <1>1, <1>2, <1>3
  <2>2. i \notin 1 .. Len(line) - 1
    BY <1>2, <1>3, <2>1, Zenon
  <2>3. \A n \in Nat : \A a \in 1 .. n + 1 : a # n + 1 /\ a \notin 1 .. n - 1 => a = n
    OBVIOUS
  <2>4. QED
    BY <1>2, <1>3, <2>1, <2>2, <2>3, Zenon
<1>5. PICK from \in Seq(Nat) : Pieces(from)
  BY <1>1 DEF LineInv, PiecesInv
<1>6. /\ Len(from) = Len(cmdToken)
      /\ \A w \in 1 .. Len(cmdToken) :
           /\ from[w] >= 1 /\ from[w] + Len(cmdToken[w]) <= i
           /\ cmdToken[w] = SubSeq(line, from[w], from[w] + Len(cmdToken[w]) - 1)
      /\ \A v, w \in 1 .. Len(cmdToken) : v < w => from[v] + Len(cmdToken[v]) < from[w]
  BY <1>1, <1>5, Zenon DEF Pieces
<1>7. \A w \in 1 .. Len(cmdToken) : from[w] \in 1 .. Len(line)
  <2>1. \A w \in 1 .. Len(cmdToken) : from[w] \in Nat /\ Len(cmdToken[w]) \in Nat
    <3>1. Len(from) = Len(cmdToken)
      BY <1>6
    <3>2. cmdToken \in Seq(Seq(LineCharacters))
      BY <1>3
    <3>3. QED
      BY <3>1, <3>2
  <2>2. QED
    BY <1>2, <1>4, <1>6, <2>1
<1>8. from \in [DOMAIN cmdToken -> DOMAIN line]
  <2>1. from \in [1 .. Len(from) -> Nat]
    OBVIOUS
  <2>2. QED
    BY <1>2, <1>3, <1>6, <1>7, <2>1
<1>9. ASSUME NEW p \in 1 .. Len(line), line[p] = Letter
      PROVE  \E w \in 1 .. Len(cmdToken) : p \in from[w] .. from[w] + Len(cmdToken[w]) - 1
  <2>1. p # Len(line)
    BY <1>1, <1>9, Distinct, Zenon
  <2>0. \A n \in Nat : n # n + 1 /\ \A a \in 1 .. n : a # n => a \in 1 .. n - 1
    OBVIOUS
  <2>2. p \in 1 .. i - 1
    BY <1>2, <1>4, <2>0, <2>1, Zenon
  <2>3. i # Len(ttybuf) + 1
    BY <1>1, <1>2, <1>4, <2>0, Zenon
  <2>4. Covers(from, p)
    BY <1>1, <1>5, <1>9, <2>2, <2>3 DEF Pieces
  <2>5. QED
    BY <2>4, Zenon DEF Covers
<1>10. QED
  BY <1>2, <1>3, <1>6, <1>8, <1>9, Zenon

\* A line that ran over had enough separators.
LEMMA FewFollow == LineInv => FewWordsFit
<1> SUFFICES ASSUME LineInv, gpc = "overrun"
             PROVE  Cardinality({p \in DOMAIN line : line[p] \in Quotes \cup {Blank}}) >= MaxTokens
  BY Zenon DEF FewWordsFit
<1> DEFINE T == {p \in DOMAIN line : line[p] \in Quotes \cup {Blank}}
<1>1. line \in Seq(LineCharacters) /\ cmdToken \in Seq(Seq(LineCharacters))
  BY DEF LineInv, BufferInv, ScanInv
<1>2. T \in SUBSET DOMAIN line /\ Separators \in SUBSET T /\ Separators \in SUBSET DOMAIN line
  BY Zenon DEF Separators
<1> HIDE DEF T
<1>3. /\ IsFiniteSet(T) /\ Cardinality(T) \in Nat
      /\ Cardinality(Separators) \in Nat /\ Cardinality(Separators) <= Cardinality(T)
  BY <1>1, <1>2, PlacesFinite, FS_Subset
<1>4. Len(cmdToken) > MaxTokens /\ Len(cmdToken) <= Cardinality(Separators) + 1 /\ Len(cmdToken) \in Nat
  BY <1>1 DEF LineInv, ScanInv, CountInv
<1>5. Cardinality(T) >= MaxTokens
  BY <1>3, <1>4, BufferAssumption
<1>6. QED
  BY <1>5 DEF T

\* A line that has been parsed: its words have come back.
LEMMA WordsFollow == LineInv => WordsComeBack
<1> DEFINE blanks == {p \in DOMAIN line : line[p] = Blank}
<1> SUFFICES ASSUME LineInv, LineParsed,
                    NEW n \in 0 .. Cardinality(blanks), NEW at \in [1 .. n -> blanks],
                    \A k \in 1 .. n + 1 : TypedWord(Edge(at, k - 1), Edge(at, k))
             PROVE  cmdToken \in {WordsAt(at), Append(WordsAt(at), <<>>)}
  BY Zenon DEF WordsComeBack
<1>1. line \in Seq(LineCharacters) /\ gpc = "parsed" /\ ttybuf = line /\ line[Len(line)] = Newline
  BY Zenon DEF LineInv, BufferInv, LineParsed, Last
<1>2. IsFiniteSet(blanks) /\ n \in Nat
  <2>1. blanks \in SUBSET DOMAIN line
    OBVIOUS
  <2> HIDE DEF blanks
  <2>2. IsFiniteSet(blanks)
    BY <1>1, <2>1, PlacesFinite
  <2>3. Cardinality(blanks) \in Nat
    BY <2>2, FS_CardinalityType
  <2>4. QED
    BY <2>2, <2>3
<1>3. blanks \subseteq 1 .. Len(line)
  BY <1>1
<1>4. at \in Seq(1 .. Len(line)) /\ Len(at) = n
  <2> HIDE DEF blanks
  <2>1. at \in [1 .. n -> 1 .. Len(line)]
    BY <1>3
  <2>2. QED
    BY <1>2, <2>1
<1>5. \A k \in 1 .. Len(at) : line[at[k]] = Blank
  BY <1>4
<1>6. TypedLine(at)
  BY <1>1, <1>4, <1>5 DEF TypedLine
<1>7. QED
  BY <1>1, <1>4, <1>6, Zenon DEF LineInv, WordsInv

---------------------------------------------------------------------------
(* irule: what the arguments make of the inputs of a line *)

\* A set of numbers has a least one.
LEMMA LeastNat == ASSUME NEW T \in SUBSET Nat, T # {} PROVE \E m \in T : \A k \in T : m <= k
<1> DEFINE R == OpToRel(<, Nat)
<1>1. R = {ss \in Nat \X Nat : ss[1] < ss[2]}
  BY Zenon DEF OpToRel
<1>2. IsWellFoundedOn(R, Nat)
  BY NatLessThanWellFounded, Zenon
<1> HIDE DEF R
<1>3. PICK x \in T : \A y \in T : ~ (<<y, x>> \in R)
  BY <1>2, WFMin
<1>4. \A y \in Nat : <<y, x>> \in R <=> y < x
  BY <1>1
<1>5. \A k \in T : ~ (k < x)
  BY <1>3, <1>4
<1>6. \A k \in T : x <= k
  BY <1>5
<1>7. QED
  BY <1>6

Start(list) == [way |-> "positions", list |-> list]

\* The arguments are taken one after the other.
TakesAll(f, list, n) == f = [k \in 0 .. n |-> IF k = 0 THEN Start(list) ELSE TakeArgument(f[k - 1], k)]

\* The arguments can be taken: the function exists for every number of them.
LEMMA TakesSome == ASSUME NEW list, NEW n \in Nat PROVE \E f : TakesAll(f, list, n)
<1> DEFINE T == {m \in Nat : ~ \E f : TakesAll(f, list, m)}
<1>1. SUFFICES T = {}
  BY <1>1
<1>2. SUFFICES ASSUME T # {} PROVE FALSE
  OBVIOUS
<1>3. T \in SUBSET Nat
  OBVIOUS
<1> HIDE DEF T
<1>4. PICK m \in T : \A k \in T : m <= k
  BY <1>2, <1>3, LeastNat, Zenon
<1>5. m \in Nat /\ ~ \E f : TakesAll(f, list, m)
  BY <1>4 DEF T
<1>6. m # 0
  <2> DEFINE g == [k \in 0 .. 0 |-> Start(list)]
  <2>1. \A k \in 0 .. 0 : k = 0
    OBVIOUS
  <2>2. TakesAll(g, list, 0)
    BY <2>1, Zenon DEF TakesAll
  <2>3. QED
    BY <1>5, <2>2, Zenon
<1>7. m - 1 \in Nat /\ ~ (m <= m - 1)
  BY <1>5, <1>6
<1>8. PICK f : TakesAll(f, list, m - 1)
  BY <1>4, <1>7, Zenon DEF T
<1> DEFINE g == [k \in 0 .. m |-> IF k = 0 THEN Start(list) ELSE TakeArgument(f[k - 1], k)]
<1>9. \A k \in 0 .. m - 1 : g[k] = f[k]
  <2>1. f = [k \in 0 .. m - 1 |-> IF k = 0 THEN Start(list) ELSE TakeArgument(f[k - 1], k)]
    BY <1>8, Zenon DEF TakesAll
  <2>2. \A k \in 0 .. m - 1 : k \in 0 .. m
    BY <1>5
  <2>3. QED
    BY <2>1, <2>2, Zenon
<1>10. \A k \in 0 .. m : k # 0 => k - 1 \in 0 .. m - 1
  BY <1>5
<1>11. g = [k \in 0 .. m |-> IF k = 0 THEN Start(list) ELSE TakeArgument(g[k - 1], k)]
  <2>1. \A k \in 0 .. m : k # 0 => TakeArgument(f[k - 1], k) = TakeArgument(g[k - 1], k)
    BY <1>9, <1>10, Zenon
  <2> HIDE DEF g
  <2>2. \A k \in 0 .. m : (IF k = 0 THEN Start(list) ELSE TakeArgument(f[k - 1], k))
                          = (IF k = 0 THEN Start(list) ELSE TakeArgument(g[k - 1], k))
    BY <2>1, Zenon
  <2>3. QED
    BY <2>2, Zenon DEF g
<1>12. QED
  BY <1>5, <1>11, Zenon DEF TakesAll

\* Taken is that function.
LEMMA TakenIs ==
    ASSUME NEW list, Len(arguments) \in Nat
    PROVE  /\ Taken(list)[0] = Start(list)
           /\ \A k \in 1 .. Len(arguments) : Taken(list)[k] = TakeArgument(Taken(list)[k - 1], k)
<1> DEFINE n == Len(arguments)
<1>1. Taken(list) = CHOOSE f : TakesAll(f, list, n)
  BY Zenon DEF Taken, TakesAll, Start
<1>2. TakesAll(Taken(list), list, n)
  BY <1>1, TakesSome, Zenon
<1>3. 0 \in 0 .. n /\ \A k \in 1 .. n : k \in 0 .. n /\ k # 0
  OBVIOUS
<1>4. QED
  BY <1>2, <1>3, Zenon DEF TakesAll

\* Where a value may begin, and what a value and an input of a line are.
Begins == {"plain", "$", "quote"}
Values == [begins : Begins, quoted : 0 .. 1, origin : Int, answer : {"none", "kept"}]
Items == [label : Labels, form : Forms, value : Values]
Ways == {"positions", "labels", "prompt", "wrong"}
Kinds == {"prompt", "default", "positional", "labelled"}

\* What an argument may be.
LEMMA ArgumentIs ==
    ASSUME NEW a \in Arguments
    PROVE  /\ a.is \in Kinds
           /\ a.is = "labelled" => a.label \in Labels /\ a.begins \in Begins /\ a.form \in Forms
           /\ a.is = "positional" => a.begins \in Begins
BY DEF Arguments, Kinds, Begins

\* What an input of a line may be.
LEMMA InputIs == RuleInputs \subseteq Items
<1>1. \A b \in {"plain", "$"} : Value(b, Line) \in Values
  BY DEF Value, Values, Begins, Line
<1>2. Inputs \subseteq Items
  BY <1>1 DEF Inputs, Items
<1>3. QED
  BY <1>2, RuleAssumption

\* A value that has not been quoted.
LEMMA ValueIs ==
    ASSUME NEW b \in Begins, NEW n \in Int
    PROVE  /\ Value(b, n) \in Values /\ Value(b, n).origin = n /\ Value(b, n).quoted = 0
BY DEF Value, Values

\* quoteString: once quoted, a value stays the same.
LEMMA QuoteIs ==
    ASSUME NEW value \in Values, NEW wanted
    PROVE  /\ QuoteString(value, wanted) \in Values
           /\ QuoteString(value, wanted).origin = value.origin
           /\ QuoteString(value, wanted).answer = value.answer
           /\ wanted => QuoteString(value, wanted).quoted = 1
<1> DEFINE quoted == [begins |-> "quote", quoted |-> 1, origin |-> value.origin, answer |-> value.answer]
<1>1. /\ quoted \in Values /\ quoted.origin = value.origin /\ quoted.answer = value.answer
      /\ quoted.quoted = 1
  <2>1. value.origin \in Int /\ value.answer \in {"none", "kept"}
    BY DEF Values
  <2>2. 1 \in 0 .. 1
    OBVIOUS
  <2>3. QED
    BY <2>1, <2>2 DEF Values, Begins
<1>2. value.quoted \in 0 .. 1
  BY DEF Values
<1>3. value.quoted # 0 => value.quoted = 1
  BY <1>2
<1> HIDE DEF quoted
<1>4. QuoteString(value, wanted) = IF wanted /\ value.quoted = 0 THEN quoted ELSE value
  BY Zenon DEF QuoteString, quoted
<1>5. CASE wanted /\ value.quoted = 0
  BY <1>1, <1>4, <1>5, Zenon
<1>6. CASE ~ (wanted /\ value.quoted = 0)
  BY <1>3, <1>4, <1>6, Zenon
<1>7. QED
  BY <1>5, <1>6, Zenon

\* The first input that a label may be for.
LEMMA FoundIs ==
    ASSUME NEW list \in Seq(Items), NEW label, Find(list, label) # {}
    PROVE  Min(Find(list, label)) \in 1 .. Len(list) /\ Min(Find(list, label)) \in Find(list, label)
<1> DEFINE T == Find(list, label)
<1>1. T \in SUBSET (1 .. Len(list)) /\ T \in SUBSET Nat
  BY DEF Find
<1> HIDE DEF T
<1>2. T # {}
  BY DEF T
<1>3. \E x \in T : \A y \in T : x <= y
  BY <1>1, <1>2, LeastNat, Zenon
<1>4. Min(T) \in T
  BY <1>3, Zenon DEF Min
<1>5. QED
  BY <1>1, <1>4, Zenon DEF T

\* A label begins with itself.
LEMMA WholeLabel == ASSUME NEW label \in Labels PROVE label \in Seq(STRING) /\ IsPrefix(label, label)
<1>1. label \in Seq(STRING)
  BY RuleAssumption
<1>2. Len(label) \in Nat
  BY <1>1
<1>3. Len(label) <= Len(label)
  BY <1>2
<1>4. QED
  BY <1>1, <1>3, Zenon DEF IsPrefix

---------------------------------------------------------------------------

AmbiguousIn(list) ==
    \E k \in DOMAIN arguments, j \in DOMAIN list :
        Labelled(k) /\ IsStrictPrefix(arguments[k].label, list[j].label)

\* What has been taken after k arguments: the way they are given ...
WayKnown(s, k) ==
    /\ s.way = "positions" => \A m \in 1 .. k : arguments[m].is \notin {"labelled", "prompt"}
    /\ s.way = "labels" => \A m \in 1 .. k : arguments[m].is \notin {"positional", "prompt"}
    /\ s.way = "prompt" => Prompted(k)

\* ... the names of the inputs ...
NamesKept(s, list) == \A j \in 1 .. Len(list) : s.list[j].label = list[j].label

\* ... what the labelled arguments have been taken for ...
LastOfLabel(m, k) ==
    /\ arguments[m].is = "labelled" /\ ~ Prompted(m)
    /\ \A later \in m + 1 .. k : arguments[later].is = "labelled" => arguments[later].label # arguments[m].label

LabelsHeld(s, list, k) ==
    \A m \in 1 .. k :
        LastOfLabel(m, k) /\ (\E j \in 1 .. Len(list) : list[j].label = arguments[m].label) =>
            \E j \in 1 .. Len(list) : s.list[j].label = arguments[m].label /\ s.list[j].value.origin = m

\* ... and the positional ones.
PositionsHeld(s, k) ==
    \A m \in 1 .. k :
        /\ arguments[m].is = "positional" /\ ~ Prompted(m)
        /\ m \in 1 .. Len(s.list) /\ s.list[m].form = "pair"
        => s.list[m].value.origin = m

TakenStates == [way : Ways, list : Seq(Items)]

TakenInv(s, list, k) ==
    /\ s \in TakenStates /\ Len(s.list) = Len(list)
    /\ WayKnown(s, k)
    /\ s.way # "wrong" => PositionsHeld(s, k)
    /\ s.way # "wrong" /\ ~ AmbiguousIn(list) => NamesKept(s, list) /\ LabelsHeld(s, list, k)

\* Once the user is to be asked, he is.
LEMMA PromptedOn == ASSUME NEW k \in Nat \ {0}, Prompted(k - 1) \/ arguments[k].is = "prompt" PROVE Prompted(k)
<1>1. k \in 1 .. k /\ \A p \in 1 .. k - 1 : p \in 1 .. k
  OBVIOUS
<1>2. QED
  BY <1>1, Zenon DEF Prompted

\* The last argument for a label, before one more is taken.
LEMMA LastOn ==
    ASSUME NEW k \in Nat \ {0}, NEW m \in 1 .. k, LastOfLabel(m, k), m # k
    PROVE  m \in 1 .. k - 1 /\ LastOfLabel(m, k - 1) /\ k \in m + 1 .. k
<1>1. m \in 1 .. k - 1 /\ k \in m + 1 .. k /\ \A later \in m + 1 .. k - 1 : later \in m + 1 .. k
  OBVIOUS
<1>2. QED
  BY <1>1, Zenon DEF LastOfLabel

\* A step that leaves the inputs alone.
LEMMA SameList ==
    ASSUME NEW list, Len(list) \in Nat, NEW k \in Nat \ {0}, NEW s, TakenInv(s, list, k - 1),
           NEW to, to.list = s.list, to \in TakenStates, WayKnown(to, k),
           to.way # "wrong" => s.way # "wrong",
           to.way # "wrong" /\ arguments[k].is = "positional" /\ ~ Prompted(k)
              /\ k \in 1 .. Len(s.list) => s.list[k].form # "pair",
           to.way # "wrong" /\ arguments[k].is = "labelled" /\ ~ Prompted(k) /\ NamesKept(s, list)
              => \A j \in 1 .. Len(list) : list[j].label # arguments[k].label
    PROVE  TakenInv(to, list, k)
<1>1. Len(to.list) = Len(list)
  BY DEF TakenInv
<1>2. ASSUME to.way # "wrong" PROVE PositionsHeld(to, k)
  <2>1. SUFFICES ASSUME NEW m \in 1 .. k, arguments[m].is = "positional", ~ Prompted(m),
                        m \in 1 .. Len(s.list), s.list[m].form = "pair"
                 PROVE  s.list[m].value.origin = m
    BY Zenon DEF PositionsHeld
  <2>2. m # k
    BY <1>2, <2>1, Zenon
  <2>3. m \in 1 .. k - 1
    BY <2>2
  <2>4. PositionsHeld(s, k - 1)
    BY <1>2, Zenon DEF TakenInv
  <2>5. QED
    BY <2>1, <2>3, <2>4, Zenon DEF PositionsHeld
<1>3. ASSUME to.way # "wrong", ~ AmbiguousIn(list) PROVE NamesKept(to, list) /\ LabelsHeld(to, list, k)
  <2>1. NamesKept(s, list) /\ LabelsHeld(s, list, k - 1)
    BY <1>3, Zenon DEF TakenInv
  <2>2. NamesKept(to, list)
    BY <2>1, Zenon DEF NamesKept
  <2>3. SUFFICES ASSUME NEW m \in 1 .. k, LastOfLabel(m, k),
                        \E j \in 1 .. Len(list) : list[j].label = arguments[m].label
                 PROVE  \E j \in 1 .. Len(list) : to.list[j].label = arguments[m].label
                                                   /\ to.list[j].value.origin = m
    BY <2>2, Zenon DEF LabelsHeld
  <2>4. m # k
    BY <1>3, <2>1, <2>3, Zenon DEF LastOfLabel
  <2>5. m \in 1 .. k - 1 /\ LastOfLabel(m, k - 1)
    BY <2>3, <2>4, LastOn
  <2>6. PICK j \in 1 .. Len(list) : s.list[j].label = arguments[m].label /\ s.list[j].value.origin = m
    BY <2>1, <2>3, <2>5, Zenon DEF LabelsHeld
  <2>7. to.list[j] = s.list[j]
    BY Zenon
  <2>8. QED
    BY <2>6, <2>7, Zenon
<1>4. QED
  BY <1>1, <1>2, <1>3, Zenon DEF TakenInv

\* The first input of a label has been replaced.
LEMMA LabelStep ==
    ASSUME NEW list, Len(list) \in Nat, NEW k \in Nat \ {0}, NEW s, TakenInv(s, list, k - 1),
           arguments \in Seq(Arguments), k \in 1 .. Len(arguments),
           s.way \notin {"prompt", "wrong"}, arguments[k].is = "labelled"
    PROVE  TakenInv(TakeLabel(s, k), list, k)
<1> DEFINE arg == arguments[k]
           found == Find(s.list, arg.label)
           value == QuoteString(Value(arg.begins, k), string)
           input == [label |-> arg.label, form |-> "pair", value |-> value]
           to == TakeLabel(s, k)
<1>1. arg \in Arguments
  BY Zenon, ElementOfSeq
<1>2. arg.label \in Labels /\ arg.begins \in Begins
  BY <1>1, ArgumentIs
<1>3. value \in Values /\ value.origin = k
  <2>1. k \in Int
    OBVIOUS
  <2>2. Value(arg.begins, k) \in Values /\ Value(arg.begins, k).origin = k
    BY <1>2, <2>1, ValueIs
  <2>3. QED
    BY <2>2, QuoteIs
<1> HIDE DEF value, found
<1>4. input \in Items /\ input.label = arg.label /\ input.value = value /\ input.form = "pair"
  BY <1>2, <1>3 DEF Items, Forms
<1> HIDE DEF input
<1>5. s \in TakenStates /\ s.list \in Seq(Items) /\ Len(s.list) = Len(list) /\ WayKnown(s, k - 1)
  BY DEF TakenInv, TakenStates
<1>6. CASE (k > 1 /\ s.way # "labels") \/ arg.form = "word"
  <2>1. to = [s EXCEPT !.way = "wrong"]
    BY <1>6, Zenon DEF TakeLabel
  <2>2. to \in TakenStates /\ to.list = s.list /\ to.way = "wrong"
    BY <1>5, <2>1 DEF TakenStates, Ways
  <2>3. QED
    BY <1>5, <2>2, Zenon DEF TakenInv, WayKnown
<1>7. ASSUME ~ ((k > 1 /\ s.way # "labels") \/ arg.form = "word"),
             NEW q, q.way = "labels"
      PROVE  WayKnown(q, k)
  <2>1. \A m \in 1 .. k : m # k => m \in 1 .. k - 1 /\ k > 1
    OBVIOUS
  <2>2. \A m \in 1 .. k : m # k => arguments[m].is \notin {"positional", "prompt"}
    BY <1>5, <1>7, <2>1, Zenon DEF WayKnown
  <2>3. QED
    BY <1>7, <2>2, Zenon DEF WayKnown
<1>8. CASE ~ ((k > 1 /\ s.way # "labels") \/ arg.form = "word") /\ found = {}
  <2>1. to = [s EXCEPT !.way = "labels"]
    BY <1>8, Zenon DEF TakeLabel, found
  <2>2. to \in TakenStates /\ to.list = s.list /\ to.way = "labels"
    BY <1>5, <2>1 DEF TakenStates, Ways
  <2>3. ASSUME NamesKept(s, list), NEW j \in 1 .. Len(list) PROVE list[j].label # arg.label
    <3>1. s.list[j].label = list[j].label /\ j \in DOMAIN s.list
      BY <1>5, <2>3 DEF NamesKept
    <3>2. ~ IsPrefix(arg.label, s.list[j].label)
      BY <1>8, <3>1, Zenon DEF found, Find
    <3>3. QED
      BY <1>2, <3>1, <3>2, WholeLabel, Zenon
  <2>4. WayKnown(to, k)
    BY <1>7, <1>8, <2>2, Zenon
  <2>5. QED
    BY <2>2, <2>3, <2>4, SameList, Zenon
<1>9. CASE ~ ((k > 1 /\ s.way # "labels") \/ arg.form = "word") /\ found # {}
  <2> DEFINE n == Min(found)
  <2>1. to = [way |-> "labels", list |-> [s.list EXCEPT ![n] = input]]
    BY <1>9, Zenon DEF TakeLabel, found, input, value
  <2>2. n \in 1 .. Len(list) /\ n \in found
    BY <1>5, <1>9, FoundIs, Zenon DEF found
  <2> HIDE DEF n
  <2>3. /\ to.way = "labels" /\ to.list \in Seq(Items) /\ Len(to.list) = Len(list)
        /\ to.list[n] = input /\ \A j \in 1 .. Len(list) : j # n => to.list[j] = s.list[j]
    BY <1>4, <1>5, <2>1, <2>2
  <2>4. to \in TakenStates
    BY <2>1, <2>3 DEF TakenStates, Ways
  <2>5. WayKnown(to, k)
    BY <1>7, <1>9, <2>3, Zenon
  <2>6. PositionsHeld(to, k)
    BY <2>3, <2>5, Zenon DEF WayKnown, PositionsHeld
  <2>7. ASSUME ~ AmbiguousIn(list) PROVE NamesKept(to, list) /\ LabelsHeld(to, list, k)
    <3>1. NamesKept(s, list) /\ LabelsHeld(s, list, k - 1)
      BY <2>7, Zenon DEF TakenInv
    <3>2. list[n].label = arg.label
      <4>1. s.list[n].label = list[n].label
        BY <2>2, <3>1, Zenon DEF NamesKept
      <4>2. IsPrefix(arg.label, s.list[n].label)
        BY <2>2, Zenon DEF found, Find
      <4>3. n \in DOMAIN list /\ Labelled(k)
        BY <2>2 DEF Labelled
      <4>4. IsPrefix(arg.label, list[n].label) /\ k \in DOMAIN arguments
        BY <4>1, <4>2, <4>3, Zenon DEF Labelled
      <4>5. QED
        BY <2>7, <4>3, <4>4, Zenon DEF AmbiguousIn, IsStrictPrefix
    <3>3. NamesKept(to, list)
      BY <1>4, <2>3, <3>1, <3>2, Zenon DEF NamesKept
    <3>4. SUFFICES ASSUME NEW m \in 1 .. k, LastOfLabel(m, k),
                          \E j \in 1 .. Len(list) : list[j].label = arguments[m].label
                   PROVE  \E j \in 1 .. Len(list) : to.list[j].label = arguments[m].label
                                                     /\ to.list[j].value.origin = m
      BY <3>3, Zenon DEF LabelsHeld
    <3>5. CASE m = k
      BY <1>3, <1>4, <2>2, <2>3, <3>5, Zenon
    <3>6. CASE m # k
      <4>1. m \in 1 .. k - 1 /\ LastOfLabel(m, k - 1) /\ arguments[m].label # arg.label
        <5>1. m \in 1 .. k - 1 /\ LastOfLabel(m, k - 1) /\ k \in m + 1 .. k
          BY <3>4, <3>6, LastOn
        <5>2. QED
          BY <3>4, <5>1, Zenon DEF LastOfLabel
      <4>2. PICK j \in 1 .. Len(list) : s.list[j].label = arguments[m].label /\ s.list[j].value.origin = m
        BY <3>1, <3>4, <4>1, Zenon DEF LabelsHeld
      <4>3. s.list[j].label = list[j].label
        BY <3>1, Zenon DEF NamesKept
      <4>4. j # n
        BY <3>2, <4>1, <4>2, <4>3, Zenon
      <4>5. QED
        BY <2>3, <4>2, <4>4, Zenon
    <3>7. QED
      BY <3>5, <3>6
  <2>8. QED
    BY <2>3, <2>4, <2>5, <2>6, <2>7, Zenon DEF TakenInv
<1>10. QED
  BY <1>6, <1>8, <1>9, Zenon

\* A value has been replaced by its position.
LEMMA PositionStep ==
    ASSUME NEW list, Len(list) \in Nat, NEW k \in Nat \ {0}, NEW s, TakenInv(s, list, k - 1),
           arguments \in Seq(Arguments), k \in 1 .. Len(arguments),
           s.way \notin {"prompt", "wrong"}, arguments[k].is = "positional"
    PROVE  TakenInv(TakePosition(s, k), list, k)
<1> DEFINE arg == arguments[k]
           value == QuoteString(Value(arg.begins, k), string)
           to == TakePosition(s, k)
<1>1. arg \in Arguments
  BY Zenon, ElementOfSeq
<1>2. arg.begins \in Begins
  BY <1>1, ArgumentIs
<1>3. value \in Values /\ value.origin = k
  <2>1. k \in Int
    OBVIOUS
  <2>2. Value(arg.begins, k) \in Values /\ Value(arg.begins, k).origin = k
    BY <1>2, <2>1, ValueIs
  <2>3. QED
    BY <2>2, QuoteIs
<1> HIDE DEF value
<1>4. s \in TakenStates /\ s.list \in Seq(Items) /\ Len(s.list) = Len(list) /\ WayKnown(s, k - 1)
      /\ DOMAIN s.list = 1 .. Len(list)
  BY DEF TakenInv, TakenStates
<1>5. CASE s.way = "labels"
  <2>1. to = [s EXCEPT !.way = "wrong"]
    BY <1>5, Zenon DEF TakePosition
  <2>2. to \in TakenStates /\ to.list = s.list /\ to.way = "wrong"
    BY <1>4, <2>1 DEF TakenStates, Ways
  <2>3. QED
    BY <1>4, <2>2, Zenon DEF TakenInv, WayKnown
<1>6. ASSUME s.way # "labels", NEW q, q.way = s.way
      PROVE  WayKnown(q, k) /\ s.way = "positions"
  <2>1. s.way = "positions"
    BY <1>4, <1>6 DEF TakenStates, Ways
  <2>2. \A m \in 1 .. k : m # k => m \in 1 .. k - 1
    OBVIOUS
  <2>3. \A m \in 1 .. k : m # k => arguments[m].is \notin {"labelled", "prompt"}
    BY <1>4, <2>1, <2>2, Zenon DEF WayKnown
  <2>4. QED
    BY <1>6, <2>1, <2>3, Zenon DEF WayKnown
<1>7. CASE s.way # "labels" /\ ~ (k \in DOMAIN s.list /\ s.list[k].form = "pair")
  <2>1. to = s
    BY <1>7, Zenon DEF TakePosition
  <2>2. WayKnown(to, k)
    BY <1>6, <1>7, <2>1, Zenon
  <2>3. k \in 1 .. Len(s.list) => s.list[k].form # "pair"
    BY <1>4, <1>7, Zenon
  <2>4. QED
    BY <1>4, <2>1, <2>2, <2>3, SameList, Zenon
<1>8. CASE s.way # "labels" /\ k \in DOMAIN s.list /\ s.list[k].form = "pair"
  <2> DEFINE input == [s.list[k] EXCEPT !.value = value]
  <2>1. to = [s EXCEPT !.list[k].value = value]
    BY <1>8, Zenon DEF TakePosition, value
  <2>2. k \in 1 .. Len(list) /\ s.list[k] \in Items
    BY <1>4, <1>8, Zenon, ElementOfSeq
  <2>3. /\ input \in Items /\ input.label = s.list[k].label /\ input.value = value
        /\ input.form = s.list[k].form
    BY <1>3, <2>2 DEF Items
  <2>4. to = [s EXCEPT !.list = [s.list EXCEPT ![k] = input]]
    BY <2>1, Zenon
  <2> HIDE DEF input
  <2>5. /\ to.way = s.way /\ to.list \in Seq(Items) /\ Len(to.list) = Len(list)
        /\ to.list[k] = input /\ \A j \in 1 .. Len(list) : j # k => to.list[j] = s.list[j]
    BY <1>4, <2>2, <2>3, <2>4 DEF TakenStates
  <2>6. to \in TakenStates
    BY <1>4, <2>4, <2>5 DEF TakenStates
  <2>7. WayKnown(to, k) /\ to.way = "positions"
    BY <1>6, <1>8, <2>5, Zenon
  <2>8. PositionsHeld(to, k)
    <3>1. SUFFICES ASSUME NEW m \in 1 .. k, arguments[m].is = "positional", ~ Prompted(m),
                          m \in 1 .. Len(list), to.list[m].form = "pair"
                   PROVE  to.list[m].value.origin = m
      BY <2>5, Zenon DEF PositionsHeld
    <3>2. CASE m = k
      BY <1>3, <2>3, <2>5, <3>2, Zenon
    <3>3. CASE m # k
      <4>1. m \in 1 .. k - 1
        BY <3>3
      <4>2. PositionsHeld(s, k - 1)
        BY Zenon DEF TakenInv
      <4>3. to.list[m] = s.list[m] /\ m \in 1 .. Len(s.list)
        BY <1>4, <2>5, <3>1, <3>3, Zenon
      <4>4. QED
        BY <3>1, <4>1, <4>2, <4>3, Zenon DEF PositionsHeld
    <3>4. QED
      BY <3>2, <3>3
  <2>9. ASSUME ~ AmbiguousIn(list) PROVE NamesKept(to, list) /\ LabelsHeld(to, list, k)
    <3>1. NamesKept(s, list)
      BY <2>9, Zenon DEF TakenInv
    <3>2. NamesKept(to, list)
      BY <2>3, <2>5, <3>1, Zenon DEF NamesKept
    <3>3. LabelsHeld(to, list, k)
      BY <2>7, Zenon DEF LabelsHeld, LastOfLabel, WayKnown
    <3>4. QED
      BY <3>2, <3>3
  <2>10. QED
    BY <2>5, <2>6, <2>7, <2>8, <2>9, Zenon DEF TakenInv
<1>9. QED
  BY <1>5, <1>7, <1>8, Zenon

\* Every argument keeps what is known of those before it.
LEMMA TakeStep ==
    ASSUME NEW list, Len(list) \in Nat, NEW k \in Nat \ {0}, NEW s, TakenInv(s, list, k - 1),
           arguments \in Seq(Arguments), k \in 1 .. Len(arguments)
    PROVE  TakenInv(TakeArgument(s, k), list, k)
<1> DEFINE to == TakeArgument(s, k)
<1>1. s \in TakenStates /\ WayKnown(s, k - 1)
  BY Zenon DEF TakenInv
<1>2. arguments[k].is \in Kinds
  <2>1. arguments[k] \in Arguments
    BY Zenon, ElementOfSeq
  <2>2. QED
    BY <2>1, ArgumentIs
<1>3. \A m \in 1 .. k : m # k => m \in 1 .. k - 1
  OBVIOUS
<1>4. CASE s.way \in {"prompt", "wrong"}
  <2>1. to = s
    BY <1>4, Zenon DEF TakeArgument
  <2>2. s.way = "prompt" => Prompted(k)
    BY <1>1, PromptedOn DEF WayKnown
  <2>3. WayKnown(to, k)
    BY <1>4, <2>1, <2>2 DEF WayKnown
  <2>4. to.way # "wrong" => Prompted(k)
    BY <1>4, <2>1, <2>2
  <2>5. QED
    BY <1>1, <2>1, <2>3, <2>4, SameList, Zenon
<1>5. CASE s.way \notin {"prompt", "wrong"} /\ arguments[k].is = "default"
  <2>1. to = s
    BY <1>5, Zenon DEF TakeArgument
  <2>2. WayKnown(to, k)
    BY <1>1, <1>3, <1>5, <2>1, Zenon DEF WayKnown
  <2>3. arguments[k].is # "positional" /\ arguments[k].is # "labelled"
    BY <1>5
  <2>4. QED
    BY <1>1, <2>1, <2>2, <2>3, SameList, Zenon
<1>6. CASE s.way \notin {"prompt", "wrong"} /\ arguments[k].is = "prompt"
  <2>1. to = [s EXCEPT !.way = "prompt"]
    BY <1>6 DEF TakeArgument
  <2>2. to \in TakenStates /\ to.list = s.list /\ to.way = "prompt"
    BY <1>1, <2>1 DEF TakenStates, Ways
  <2>3. Prompted(k)
    BY <1>6, PromptedOn
  <2>4. WayKnown(to, k)
    BY <2>2, <2>3 DEF WayKnown
  <2>5. s.way # "wrong"
    BY <1>6
  <2>6. QED
    BY <1>1, <2>2, <2>3, <2>4, <2>5, SameList, Zenon
<1>7. CASE s.way \notin {"prompt", "wrong"} /\ arguments[k].is = "labelled"
  <2>1. to = TakeLabel(s, k)
    BY <1>7 DEF TakeArgument
  <2>2. QED
    BY <1>7, <2>1, LabelStep
<1>8. CASE s.way \notin {"prompt", "wrong"} /\ arguments[k].is = "positional"
  <2>1. to = TakePosition(s, k)
    BY <1>8 DEF TakeArgument
  <2>2. QED
    BY <1>8, <2>1, PositionStep
<1>9. QED
  BY <1>2, <1>4, <1>5, <1>6, <1>7, <1>8 DEF Kinds

\* What is known after every argument.
LEMMA TakenHolds ==
    ASSUME NEW list \in Seq(Items), arguments \in Seq(Arguments), NEW k \in 0 .. Len(arguments)
    PROVE  TakenInv(Taken(list)[k], list, k)
<1>1. Len(arguments) \in Nat /\ Len(list) \in Nat
  OBVIOUS
<1> DEFINE T == {m \in 0 .. Len(arguments) : ~ TakenInv(Taken(list)[m], list, m)}
<1>2. SUFFICES T = {}
  BY <1>2
<1>3. SUFFICES ASSUME T # {} PROVE FALSE
  OBVIOUS
<1>4. T \in SUBSET Nat
  BY <1>1
<1> HIDE DEF T
<1>5. PICK m \in T : \A j \in T : m <= j
  BY <1>3, <1>4, LeastNat, Zenon
<1>6. m \in 0 .. Len(arguments) /\ ~ TakenInv(Taken(list)[m], list, m)
  BY <1>5 DEF T
<1>7. m # 0
  <2>1. Start(list) \in TakenStates /\ Start(list).list = list /\ Start(list).way = "positions"
    BY DEF Start, TakenStates, Ways
  <2>2. \A j \in 1 .. 0 : FALSE
    OBVIOUS
  <2>3. WayKnown(Start(list), 0) /\ PositionsHeld(Start(list), 0)
    BY <2>1, <2>2 DEF WayKnown, PositionsHeld
  <2>4. NamesKept(Start(list), list) /\ LabelsHeld(Start(list), list, 0)
    BY <2>1, <2>2, Zenon DEF NamesKept, LabelsHeld
  <2>5. TakenInv(Start(list), list, 0)
    BY <2>1, <2>3, <2>4, Zenon DEF TakenInv
  <2>6. QED
    BY <1>1, <1>6, <2>5, TakenIs, Zenon
<1>8. m - 1 \in 0 .. Len(arguments) /\ ~ (m <= m - 1) /\ m \in 1 .. Len(arguments) /\ m \in Nat \ {0}
  BY <1>1, <1>6, <1>7
<1>9. TakenInv(Taken(list)[m - 1], list, m - 1)
  BY <1>5, <1>8, Zenon DEF T
<1>10. QED
  BY <1>1, <1>6, <1>8, <1>9, TakeStep, TakenIs, Zenon

---------------------------------------------------------------------------
(* irule: the invariant *)

Sent == [label : Labels, value : Values]
Troubles == {"argument", "null", "split", "noPair", "endOfInput", "secondLine"}

\* The memory of the program.
MemoryInv ==
    /\ mode \in {"new", "old", "line"} /\ string \in BOOLEAN /\ promptF \in BOOLEAN
    /\ arguments \in Seq(Arguments) /\ (mode = "line" => arguments = <<>>)
    /\ inputs \in Seq(Sent) \/ inputs = NoInputs
    /\ todo \in Seq(Items) /\ Len(todo) <= MaxInputs
    /\ asWritten \in Seq(Items) /\ Len(asWritten) <= MaxInputs
    /\ trouble \subseteq Troubles

\* A line is parsed to its end before the program does anything else, and
\* there is nothing to parse before the first one.
StepInv ==
    /\ rpc \in {"none", "start", "fetch", "open", "lines", "endOfFile", "commandLine",
                "parsed", "connect", "execute", "end"}
    /\ gotRule \in 0 .. 2 /\ linesRead \in 0 .. MaxLines
    /\ rpc \notin {"lines", "parsed"} => todo = <<>>
    /\ rpc \in {"none", "start", "fetch", "open", "commandLine"} =>
         inputs = <<>> /\ asWritten = <<>> /\ trouble = {}

\* Nothing is wrong with the inputs so far, nor with those to come.
Fresh == trouble \subseteq {"secondLine"} /\ \A j \in DOMAIN todo : todo[j].form = "pair"

\* The inputs added and those to come.
Pending == inputs \o todo

PendingNames == \A p \in 1 .. Len(asWritten) : Pending[p].label = asWritten[p].label

PendingLabels ==
    \A k \in 1 .. Len(arguments) :
        LastOfLabel(k, Len(arguments)) /\ (\E j \in DOMAIN asWritten : asWritten[j].label = arguments[k].label) =>
            \E p \in 1 .. Len(asWritten) : /\ Pending[p].label = arguments[k].label
                                           /\ Pending[p].value.origin \in {k, Typed}

PendingPositions ==
    \A k \in 1 .. Len(asWritten) :
        k \in DOMAIN arguments /\ arguments[k].is = "positional" /\ ~ Prompted(k) =>
            Pending[k].value.origin \in {k, Typed}

PendingInv ==
    Fresh =>
        /\ inputs \in Seq(Sent)
        /\ Len(inputs) + Len(todo) = Len(asWritten)
        /\ ~ Ambiguous => PendingNames /\ PendingLabels
        /\ ~ Ambiguous /\ trouble = {} => PendingPositions

QuotedInv ==
    inputs \in Seq(Sent) /\ string /\ mode # "old" =>
        \A j \in 1 .. Len(inputs) : inputs[j].value.answer = "kept" \/ inputs[j].value.quoted = 1

\* The connection and the copy of the file, by the step the program is at.
ConnectionInv ==
    /\ connected \in {"no", "yes", "left"} /\ logins \in 0 .. 1
    /\ saveFile \in BOOLEAN /\ submitted \in BOOLEAN
    /\ exitRule \in {Running, 0, 1, 2, 3, 4, 7, 10, Crashed}
    /\ rpc # "end" => /\ exitRule = Running /\ submitted = FALSE /\ connected # "left"
                      /\ connected = "yes" <=> logins = 1
    /\ rpc \in {"none", "start", "fetch", "commandLine", "parsed"} => saveFile = FALSE /\ logins = 0
    /\ rpc \in {"connect", "execute"} => saveFile = FALSE
    /\ rpc = "execute" => logins = 1
    /\ rpc = "end" /\ exitRule \in {0, 4} /\ (submitted \/ exitRule = 4) =>
         saveFile = FALSE /\ connected = "no" /\ logins = 1

RuleInv == MemoryInv /\ StepInv /\ PendingInv /\ QuotedInv /\ ConnectionInv

\* The lists and what they were made from.
listVars == <<inputs, todo, asWritten, trouble, arguments, mode, string>>

\* Steps that leave the lists alone.
LEMMA ListsKept ==
    ASSUME PendingInv, QuotedInv, UNCHANGED listVars
    PROVE  PendingInv' /\ QuotedInv'
<1>1. /\ inputs' = inputs /\ todo' = todo /\ asWritten' = asWritten /\ trouble' = trouble
      /\ arguments' = arguments /\ mode' = mode /\ (string' <=> string)
  BY Zenon DEF listVars
<1>2. PendingInv'
  <2>1. PendingNames => PendingNames'
    BY <1>1, Zenon DEF PendingNames, Pending
  <2>2. PendingLabels => PendingLabels'
    BY <1>1, Zenon DEF PendingLabels, Pending, LastOfLabel, Prompted
  <2>3. PendingPositions => PendingPositions'
    BY <1>1, Zenon DEF PendingPositions, Pending, Prompted
  <2>4. Ambiguous' <=> Ambiguous
    BY <1>1, Zenon DEF Ambiguous, Labelled
  <2>5. Fresh' <=> Fresh
    BY <1>1, Zenon DEF Fresh
  <2>6. QED
    BY <1>1, <2>1, <2>2, <2>3, <2>4, <2>5, Zenon DEF PendingInv
<1>3. QuotedInv'
  BY <1>1, Zenon DEF QuotedInv
<1>4. QED
  BY <1>2, <1>3

\* Steps that leave the memory alone.
LEMMA MemoryKept ==
    ASSUME MemoryInv, PendingInv, QuotedInv, UNCHANGED memoryVars
    PROVE  MemoryInv' /\ PendingInv' /\ QuotedInv'
<1>1. UNCHANGED listVars
  BY Zenon DEF memoryVars, listVars
<1>2. MemoryInv'
  BY Zenon DEF MemoryInv, memoryVars
<1>3. QED
  BY <1>1, <1>2, ListsKept

\* Nothing in the lists.
LEMMA EmptyLists ==
    ASSUME inputs' = <<>>, todo' = <<>>, asWritten' = <<>>
    PROVE  PendingInv' /\ QuotedInv'
<1>1. <<>> \in Seq(Sent) /\ Len(<<>>) = 0 /\ DOMAIN <<>> = {} /\ 1 .. 0 = {}
  OBVIOUS
<1>2. Len(inputs') = 0 /\ Len(todo') = 0 /\ Len(asWritten') = 0 /\ inputs' \in Seq(Sent)
      /\ DOMAIN asWritten' = {} /\ 1 .. Len(inputs') = {} /\ 1 .. Len(asWritten') = {} /\ 0 + 0 = 0
  BY <1>1
<1>3. Len(inputs') + Len(todo') = Len(asWritten')
  BY <1>2
<1>4. PendingNames' /\ PendingLabels' /\ PendingPositions'
  BY <1>2, Zenon DEF PendingNames, PendingLabels, PendingPositions
<1>5. PendingInv'
  BY <1>2, <1>3, <1>4, Zenon DEF PendingInv
<1>6. QuotedInv'
  BY <1>2, Zenon DEF QuotedInv
<1>7. QED
  BY <1>5, <1>6

\* At its end the program has no memory.
LEMMA AtEnd ==
    ASSUME NEW status, EndRule(status)
    PROVE  MemoryInv' /\ StepInv' /\ PendingInv' /\ QuotedInv'
<1>1. /\ rpc' = "end" /\ mode' = "line" /\ string' = FALSE /\ arguments' = <<>> /\ gotRule' = 0
      /\ linesRead' = 0 /\ inputs' = <<>> /\ todo' = <<>> /\ promptF' = FALSE /\ asWritten' = <<>>
      /\ trouble' = {}
  BY Zenon DEF EndRule
<1>2. {MaxInputs, MaxLines, MaxArguments} \subseteq Nat
  BY RuleAssumption
<1>3. 0 \in 0 .. 2 /\ 0 \in 0 .. MaxLines /\ 0 <= MaxInputs /\ Len(<<>>) = 0
      /\ <<>> \in Seq(Arguments) /\ <<>> \in Seq(Sent) /\ <<>> \in Seq(Items)
  BY <1>2
<1>4. Len(todo') <= MaxInputs /\ Len(asWritten') <= MaxInputs
  BY <1>1, <1>3
<1>5. MemoryInv'
  BY <1>1, <1>3, <1>4, Zenon DEF MemoryInv
<1>6. StepInv'
  BY <1>1, <1>3, Zenon DEF StepInv
<1>7. QED
  BY <1>1, <1>5, <1>6, EmptyLists

---------------------------------------------------------------------------
(* parseParameters *)

\* One input is taken from the inputs to come and added to the others.
LEMMA Shift ==
    ASSUME NEW S, NEW a \in Seq(S), NEW b \in Seq(S), b # <<>>, NEW e \in S
    PROVE  /\ Len(Append(a, e)) = Len(a) + 1 /\ Len(Tail(b)) = Len(b) - 1 /\ Len(b) >= 1
           /\ (Append(a, e) \o Tail(b))[Len(a) + 1] = e
           /\ (a \o b)[Len(a) + 1] = Head(b)
           /\ \A p \in 1 .. Len(a) + Len(b) :
                p # Len(a) + 1 => (Append(a, e) \o Tail(b))[p] = (a \o b)[p]
<1>1. Len(b) \in Nat /\ Len(a) \in Nat /\ Len(b) >= 1
  BY EmptySeq
<1>2. /\ Append(a, e) \in Seq(S) /\ Len(Append(a, e)) = Len(a) + 1
      /\ Tail(b) \in Seq(S) /\ Len(Tail(b)) = Len(b) - 1
      /\ \A p \in 1 .. Len(Tail(b)) : Tail(b)[p] = b[p + 1]
  BY <1>1
<1>3. Append(a, e)[Len(a) + 1] = e /\ \A p \in 1 .. Len(a) : Append(a, e)[p] = a[p]
  BY <1>1
<1>4. Head(b) = b[1]
  BY <1>1
<1> DEFINE c == Append(a, e)
           d == Tail(b)
<1> HIDE DEF c, d
<1>5. /\ c \in Seq(S) /\ d \in Seq(S) /\ Len(c) = Len(a) + 1 /\ Len(d) = Len(b) - 1
      /\ c[Len(a) + 1] = e /\ \A p \in 1 .. Len(a) : c[p] = a[p]
      /\ \A p \in 1 .. Len(d) : d[p] = b[p + 1]
  BY <1>2, <1>3, Zenon DEF c, d
<1>6. (c \o d)[Len(a) + 1] = e
  BY <1>1, <1>5
<1>7. (a \o b)[Len(a) + 1] = b[1]
  BY <1>1
<1>8. ASSUME NEW p \in 1 .. Len(a) + Len(b), p # Len(a) + 1 PROVE (c \o d)[p] = (a \o b)[p]
  <2>1. CASE p <= Len(a)
    <3>1. p \in 1 .. Len(a)
      BY <1>1, <2>1
    <3>2. (c \o d)[p] = c[p] /\ (a \o b)[p] = a[p]
      BY <1>1, <1>5, <3>1
    <3>3. QED
      BY <1>5, <3>1, <3>2
  <2>2. CASE p > Len(a)
    <3>1. p - Len(a) - 1 \in 1 .. Len(d) /\ p - Len(a) - 1 + 1 = p - Len(a)
      BY <1>1, <1>5, <1>8, <2>2
    <3>2. (c \o d)[p] = d[p - Len(c)] /\ p - Len(c) = p - Len(a) - 1
      BY <1>1, <1>5, <1>8, <2>2
    <3>3. (a \o b)[p] = b[p - Len(a)]
      BY <1>1, <2>2
    <3>4. QED
      BY <1>5, <3>1, <3>2, <3>3
  <2>3. p <= Len(a) \/ p > Len(a)
    BY <1>1
  <2>4. QED
    BY <2>1, <2>2, <2>3, Zenon
<1>9. QED
  BY <1>1, <1>2, <1>4, <1>6, <1>7, <1>8, Zenon DEF c, d

\* A line of inputs is one of the sequences that are told apart.
LEMMA ListIs ==
    ASSUME NEW n, NEW list \in Lists(n)
    PROVE  list \in Seq(Items) /\ Len(list) <= n /\ Len(list) \in Nat
<1>1. PICK k \in 0 .. n : list \in [1 .. k -> RuleInputs]
  BY Zenon DEF Lists
<1>2. list \in [1 .. k -> Items] /\ k \in Nat
  BY <1>1, InputIs
<1>3. QED
  BY <1>1, <1>2

\* A line of inputs begins.
LEMMA StartStep ==
    ASSUME MemoryInv, PendingInv, QuotedInv, todo = <<>>,
           NEW list \in Lists(MaxInputs - Len(asWritten)), StartParameters(list), UNCHANGED optionVars
    PROVE  MemoryInv' /\ PendingInv' /\ QuotedInv'
<1> DEFINE n == Len(arguments)
           after == Taken(list)[n]
           new == IF after.way = "wrong" THEN <<>> ELSE after.list
           both == asWritten \o list
<1>1. /\ arguments \in Seq(Arguments) /\ (mode = "line" => arguments = <<>>) /\ n \in Nat
      /\ asWritten \in Seq(Items) /\ trouble \subseteq Troubles /\ mode \in {"new", "old", "line"}
      /\ string \in BOOLEAN /\ (inputs \in Seq(Sent) \/ inputs = NoInputs)
      /\ Len(asWritten) \in Nat
  BY DEF MemoryInv
<1>2. MaxInputs \in Nat
  BY RuleAssumption
<1>3. list \in Seq(Items) /\ Len(list) \in Nat /\ Len(list) <= MaxInputs - Len(asWritten)
  BY ListIs, Zenon
<1>4. both \in Seq(Items) /\ Len(both) = Len(asWritten) + Len(list)
      /\ (\A p \in 1 .. Len(asWritten) : both[p] = asWritten[p])
      /\ \A p \in 1 .. Len(list) : both[Len(asWritten) + p] = list[p]
  BY <1>1, <1>3
<1>5. Len(both) <= MaxInputs /\ Len(list) <= MaxInputs
  BY <1>1, <1>2, <1>3, <1>4
<1>6. Override(list) = after
  <2>1. mode = "line" => n = 0
    BY <1>1
  <2>2. QED
    BY <2>1, Zenon DEF Override
<1>7. TakenInv(after, list, n)
  <2>1. n \in 0 .. Len(arguments)
    BY <1>1
  <2>2. QED
    BY <1>1, <1>3, <2>1, TakenHolds
<1>8. after \in TakenStates /\ after.list \in Seq(Items) /\ Len(after.list) = Len(list)
  BY <1>7 DEF TakenInv, TakenStates
<1> HIDE DEF after, new, both
<1>9. /\ asWritten' = both /\ todo' = new /\ (promptF' <=> after.way = "prompt") /\ promptF' \in BOOLEAN
      /\ trouble' = trouble \cup (IF after.way = "wrong" THEN {"argument"} ELSE {})
                            \cup (IF asWritten = <<>> THEN {} ELSE {"secondLine"})
      /\ inputs' = inputs /\ mode' = mode /\ (string' <=> string) /\ string' = string
      /\ arguments' = arguments
  BY <1>6, Zenon DEF StartParameters, optionVars, both, new
<1>10. new \in Seq(Items) /\ Len(new) <= MaxInputs
  BY <1>2, <1>5, <1>8 DEF new
<1>11. trouble' \subseteq Troubles
  BY <1>1, <1>9 DEF Troubles
<1>12. MemoryInv'
  BY <1>1, <1>4, <1>5, <1>9, <1>10, <1>11, Zenon DEF MemoryInv
<1>13. QuotedInv'
  BY <1>9, Zenon DEF QuotedInv
<1>14. ASSUME Fresh'
       PROVE  /\ inputs \in Seq(Sent) /\ Len(inputs) = Len(asWritten) /\ after.way # "wrong"
              /\ new = after.list /\ Fresh /\ (trouble' = {} => asWritten = <<>>)
              /\ \A j \in 1 .. Len(list) : after.list[j].form = "pair"
  <2>1. trouble' \subseteq {"secondLine"}
    BY <1>14, Zenon DEF Fresh
  <2>2. after.way # "wrong" /\ trouble \subseteq {"secondLine"} /\ (trouble' = {} => asWritten = <<>>)
    BY <1>9, <2>1
  <2>3. new = after.list
    BY <2>2, Zenon DEF new
  <2>4. Fresh
    <3>1. \A j \in DOMAIN todo : FALSE
      OBVIOUS
    <3>2. QED
      BY <2>2, <3>1, Zenon DEF Fresh
  <2>5. inputs \in Seq(Sent) /\ Len(inputs) + Len(todo) = Len(asWritten) /\ Len(todo) = 0
    BY <2>4 DEF PendingInv
  <2>6. Len(inputs) = Len(asWritten)
    BY <2>5
  <2>7. \A j \in DOMAIN new : new[j].form = "pair"
    BY <1>9, <1>14, Zenon DEF Fresh
  <2>8. DOMAIN new = 1 .. Len(list)
    BY <1>8, <2>3
  <2>9. QED
    BY <2>2, <2>3, <2>4, <2>5, <2>6, <2>7, <2>8, Zenon
<1>15. ASSUME inputs \in Seq(Sent), Len(inputs) = Len(asWritten), new = after.list
       PROVE  /\ Len(inputs) + Len(new) = Len(both)
              /\ \A p \in 1 .. Len(asWritten) : Pending[p] = inputs[p] /\ (inputs \o new)[p] = inputs[p]
              /\ \A p \in 1 .. Len(list) : (inputs \o new)[Len(asWritten) + p] = after.list[p]
  <2>1. \A p \in 1 .. Len(asWritten) : Pending[p] = inputs[p]
    BY <1>15 DEF Pending
  <2>2. /\ new \in Seq(Items) /\ Len(new) = Len(list) /\ inputs \in Seq(Sent)
        /\ Len(inputs) = Len(asWritten)
    BY <1>8, <1>15, Zenon
  <2>3. Len(inputs) + Len(new) = Len(both)
    BY <1>4, <2>2
  <2>4. \A p \in 1 .. Len(inputs) : (inputs \o new)[p] = inputs[p]
    BY <2>2
  <2>5. \A p \in 1 .. Len(new) : (inputs \o new)[Len(inputs) + p] = new[p]
    BY <2>2
  <2>6. QED
    BY <1>15, <2>1, <2>2, <2>3, <2>4, <2>5, Zenon
<1>16. \A p \in 1 .. Len(both) : p \in 1 .. Len(asWritten)
                                 \/ \E q \in 1 .. Len(list) : p = Len(asWritten) + q
  <2>1. ASSUME NEW p \in 1 .. Len(both), p \notin 1 .. Len(asWritten)
        PROVE  \E q \in 1 .. Len(list) : p = Len(asWritten) + q
    <3>1. p - Len(asWritten) \in 1 .. Len(list) /\ p = Len(asWritten) + (p - Len(asWritten))
      BY <1>1, <1>3, <1>4, <2>1
    <3>2. QED
      BY <3>1, Zenon
  <2>2. QED
    BY <2>1, Zenon
<1>17. (\A p \in 1 .. Len(asWritten) : p \in 1 .. Len(both))
       /\ (\A q \in 1 .. Len(list) : Len(asWritten) + q \in 1 .. Len(both))
       /\ DOMAIN both = 1 .. Len(both) /\ DOMAIN asWritten = 1 .. Len(asWritten)
       /\ DOMAIN list = 1 .. Len(list)
  BY <1>1, <1>3, <1>4
<1>18. ASSUME Fresh', ~ Ambiguous' PROVE ~ Ambiguous /\ ~ AmbiguousIn(list)
  <2>1. \A k \in DOMAIN arguments, j \in DOMAIN both :
            ~ (Labelled(k) /\ IsStrictPrefix(arguments[k].label, both[j].label))
    BY <1>9, <1>18, Zenon DEF Ambiguous, Labelled
  <2>2. ~ Ambiguous
    BY <1>4, <1>17, <2>1, Zenon DEF Ambiguous
  <2>3. ~ AmbiguousIn(list)
    BY <1>4, <1>17, <2>1, Zenon DEF AmbiguousIn
  <2>4. QED
    BY <2>2, <2>3
<1>19. ASSUME Fresh', ~ Ambiguous' PROVE PendingNames' /\ PendingLabels'
  <2>1. PendingNames /\ PendingLabels
    BY <1>14, <1>18, <1>19, Zenon DEF PendingInv
  <2>2. NamesKept(after, list) /\ LabelsHeld(after, list, n)
    BY <1>7, <1>14, <1>18, <1>19, Zenon DEF TakenInv
  <2>3. /\ \A p \in 1 .. Len(asWritten) : Pending[p] = (inputs \o new)[p]
        /\ \A p \in 1 .. Len(list) : (inputs \o new)[Len(asWritten) + p] = after.list[p]
    BY <1>14, <1>15, <1>19, Zenon
  <2>4. \A p \in 1 .. Len(both) : (inputs \o new)[p].label = both[p].label
    <3>1. \A p \in 1 .. Len(asWritten) : (inputs \o new)[p].label = both[p].label
      BY <1>4, <2>1, <2>3, Zenon DEF PendingNames
    <3>2. \A q \in 1 .. Len(list) : (inputs \o new)[Len(asWritten) + q].label = both[Len(asWritten) + q].label
      BY <1>4, <2>2, <2>3, Zenon DEF NamesKept
    <3>3. QED
      BY <1>16, <3>1, <3>2, Zenon
  <2>5. PendingNames'
    BY <1>9, <2>4, Zenon DEF PendingNames, Pending
  <2>6. ASSUME NEW k \in 1 .. n, LastOfLabel(k, n), NEW j \in DOMAIN both, both[j].label = arguments[k].label
        PROVE  \E p \in 1 .. Len(both) : /\ (inputs \o new)[p].label = arguments[k].label
                                         /\ (inputs \o new)[p].value.origin \in {k, Typed}
    <3>1. CASE j \in 1 .. Len(asWritten)
      <4>1. asWritten[j].label = arguments[k].label /\ j \in DOMAIN asWritten
        BY <1>4, <1>17, <2>6, <3>1, Zenon
      <4>2. PICK p \in 1 .. Len(asWritten) : /\ Pending[p].label = arguments[k].label
                                             /\ Pending[p].value.origin \in {k, Typed}
        BY <2>1, <2>6, <4>1, Zenon DEF PendingLabels
      <4>3. Pending[p] = (inputs \o new)[p] /\ p \in 1 .. Len(both)
        BY <1>17, <2>3, Zenon
      <4>4. (inputs \o new)[p].label = arguments[k].label /\ (inputs \o new)[p].value.origin \in {k, Typed}
        BY <4>2, <4>3, Zenon
      <4>5. QED
        BY <4>3, <4>4, Zenon
    <3>2. CASE \E q \in 1 .. Len(list) : j = Len(asWritten) + q
      <4>1. PICK q \in 1 .. Len(list) : j = Len(asWritten) + q
        BY <3>2
      <4>2. list[q].label = arguments[k].label
        BY <1>4, <2>6, <4>1, Zenon
      <4>3. PICK p \in 1 .. Len(list) : /\ after.list[p].label = arguments[k].label
                                        /\ after.list[p].value.origin = k
        BY <2>2, <2>6, <4>2, Zenon DEF LabelsHeld
      <4>4. /\ (inputs \o new)[Len(asWritten) + p] = after.list[p]
            /\ Len(asWritten) + p \in 1 .. Len(both)
        BY <1>17, <2>3, Zenon
      <4>5. QED
        BY <4>3, <4>4, Zenon
    <3>3. QED
      BY <1>16, <1>17, <2>6, <3>1, <3>2, Zenon
  <2>7. PendingLabels'
    BY <1>9, <2>6, Zenon DEF PendingLabels, Pending, LastOfLabel, Prompted
  <2>8. QED
    BY <2>5, <2>7
<1>20. ASSUME Fresh', ~ Ambiguous', trouble' = {} PROVE PendingPositions'
  <2>1. asWritten = <<>> /\ Len(asWritten) = 0
    BY <1>14, <1>20, EmptySeq
  <2>2. PositionsHeld(after, n)
    BY <1>7, <1>14, <1>20, Zenon DEF TakenInv
  <2>3. \A p \in 1 .. Len(list) : 0 + p = p
    OBVIOUS
  <2>4. \A p \in 1 .. Len(list) : (inputs \o new)[p] = after.list[p]
    BY <1>14, <1>15, <1>20, <2>1, <2>3, Zenon
  <2>5. Len(both) = Len(list) /\ DOMAIN arguments = 1 .. n
    BY <1>1, <1>3, <1>4, <2>1
  <2>6. ASSUME NEW k \in 1 .. Len(both), k \in DOMAIN arguments, arguments[k].is = "positional", ~ Prompted(k)
        PROVE  (inputs \o new)[k].value.origin \in {k, Typed}
    <3>1. after.list[k].form = "pair" /\ k \in 1 .. Len(after.list)
      BY <1>8, <1>14, <1>20, <2>5, <2>6, Zenon
    <3>2. after.list[k].value.origin = k
      BY <2>2, <2>5, <2>6, <3>1, Zenon DEF PositionsHeld
    <3>3. QED
      BY <2>4, <2>5, <3>2, Zenon
  <2>7. QED
    BY <1>9, <2>6, Zenon DEF PendingPositions, Pending, Prompted
<1>21. PendingInv'
  <2>1. Fresh' => inputs' \in Seq(Sent) /\ Len(inputs') + Len(todo') = Len(asWritten')
    BY <1>9, <1>14, <1>15, Zenon
  <2>2. QED
    BY <1>19, <1>20, <2>1, Zenon DEF PendingInv
<1>22. QED
  BY <1>12, <1>13, <1>21

\* The array of inputs is taken away.
LEMMA NoneStep ==
    ASSUME MemoryInv, NoParameters, UNCHANGED optionVars
    PROVE  MemoryInv' /\ PendingInv' /\ QuotedInv'
<1>1. /\ inputs' = NoInputs /\ todo' = todo /\ promptF' = promptF /\ asWritten' = asWritten
      /\ mode' = mode /\ string' = string /\ arguments' = arguments
      /\ trouble' = trouble \cup {"null"} \/ trouble' = trouble \cup {"split"}
  BY Zenon DEF NoParameters, optionVars
<1>2. trouble' \subseteq Troubles /\ ~ (trouble' \subseteq {"secondLine"})
  <2>1. trouble \subseteq Troubles
    BY DEF MemoryInv
  <2>2. "null" \in trouble' \/ "split" \in trouble'
    BY <1>1, Zenon
  <2>3. ~ (trouble' \subseteq {"secondLine"})
    BY <2>2
  <2>4. trouble' \subseteq Troubles
    BY <1>1, <2>1 DEF Troubles
  <2>5. QED
    BY <2>3, <2>4
<1>3. MemoryInv'
  BY <1>1, <1>2, Zenon DEF MemoryInv
<1>4. PendingInv'
  BY <1>2, Zenon DEF PendingInv, Fresh
<1>5. NoInputs \notin Seq(Sent)
  <2>1. NoInputs[1] = [label |-> <<>>, value |-> <<>>] /\ Len(NoInputs) = 1
    BY DEF NoInputs
  <2>2. NoInputs[1] \notin Sent
    BY <2>1, RuleAssumption DEF Sent
  <2>3. QED
    BY <2>1, <2>2, ElementOfSeq
<1>6. QuotedInv'
  BY <1>1, <1>5, Zenon DEF QuotedInv
<1>7. QED
  BY <1>3, <1>4, <1>6

\* A line without inputs.
LEMMA OtherLine ==
    ASSUME MemoryInv, PendingInv, QuotedInv, NoNewInputs, UNCHANGED optionVars
    PROVE  MemoryInv' /\ PendingInv' /\ QuotedInv'
<1>1. UNCHANGED listVars
  BY Zenon DEF NoNewInputs, inputVars, optionVars, listVars
<1>2. MemoryInv'
  BY Zenon DEF MemoryInv, NoNewInputs, inputVars, optionVars
<1>3. QED
  BY <1>1, <1>2, ListsKept

\* A value that is added without asking.
LEMMA GivenIs ==
    ASSUME NEW value \in Values
    PROVE  /\ Given(value) \in Values /\ Given(value).origin = value.origin
           /\ string /\ mode # "old" => Given(value).quoted = 1
<1>1. CASE mode = "old"
  <2> DEFINE v == [value EXCEPT !.quoted = 0]
  <2>1. v \in Values /\ v.origin = value.origin
    BY DEF Values
  <2>2. Given(value) = v
    BY <1>1, Zenon DEF Given
  <2>3. QED
    BY <1>1, <2>1, <2>2, Zenon
<1>2. CASE mode # "old"
  <2>1. Given(value) = QuoteString(value, string)
    BY <1>2, Zenon DEF Given
  <2>2. QED
    BY <2>1, QuoteIs, Zenon
<1>3. QED
  BY <1>1, <1>2

\* A value the user was asked for.
LEMMA AnswersAre ==
    ASSUME NEW value \in Values, NEW v \in Answers(value)
    PROVE  /\ v \in Values /\ v.origin \in {value.origin, Typed}
           /\ string /\ mode # "old" => v.answer = "kept" \/ v.quoted = 1
<1>1. CASE v = QuoteString(Value("plain", Typed), string /\ mode # "old")
  <2>1. "plain" \in Begins /\ Typed \in Int
    BY DEF Begins, Typed
  <2>2. Value("plain", Typed) \in Values /\ Value("plain", Typed).origin = Typed
    BY <2>1, ValueIs, Zenon
  <2>3. QED
    BY <1>1, <2>2, QuoteIs, Zenon
<1>2. CASE v = [value EXCEPT !.answer = "kept"]
  <2>1. v \in Values /\ v.origin = value.origin /\ v.answer = "kept"
    BY <1>2 DEF Values
  <2>2. QED
    BY <2>1, Zenon
<1>3. QED
  BY <1>1, <1>2, Zenon DEF Answers

\* The values of labels are kept if labels and origins are.
LEMMA LabelsOn ==
    ASSUME PendingLabels, NEW c, Pending' = c, arguments' = arguments, asWritten' = asWritten,
           \A p \in 1 .. Len(asWritten) : /\ c[p].label = Pending[p].label
                                          /\ c[p].value.origin \in {Pending[p].value.origin, Typed}
    PROVE  PendingLabels'
<1>0. \A k : LastOfLabel(k, Len(arguments))' <=> LastOfLabel(k, Len(arguments))
  BY Zenon DEF LastOfLabel, Prompted
<1>1. SUFFICES ASSUME NEW k \in 1 .. Len(arguments), LastOfLabel(k, Len(arguments)),
                      NEW j \in DOMAIN asWritten, asWritten[j].label = arguments[k].label
               PROVE  \E p \in 1 .. Len(asWritten) : /\ c[p].label = arguments[k].label
                                                     /\ c[p].value.origin \in {k, Typed}
  BY <1>0, Zenon DEF PendingLabels
<1>2. PICK p \in 1 .. Len(asWritten) : /\ Pending[p].label = arguments[k].label
                                       /\ Pending[p].value.origin \in {k, Typed}
  BY <1>1, Zenon DEF PendingLabels
<1>3. c[p].label = arguments[k].label /\ c[p].value.origin \in {k, Typed}
  BY <1>2, Zenon
<1>4. QED
  BY <1>3, Zenon

\* The next of the inputs to come is added.
LEMMA AddStep ==
    ASSUME MemoryInv, PendingInv, QuotedInv, UNCHANGED optionVars,
           todo # <<>>, Head(todo).form = "pair", inputs \in Seq(Sent),
           NEW value \in Values, value.origin \in {Head(todo).value.origin, Typed},
           string /\ mode # "old" => value.answer = "kept" \/ value.quoted = 1,
           inputs' = Append(inputs, [label |-> Head(todo).label, value |-> value]),
           todo' = Tail(todo),
           promptF' = promptF, asWritten' = asWritten, trouble' = trouble
    PROVE  MemoryInv' /\ PendingInv' /\ QuotedInv'
<1> DEFINE e == [label |-> Head(todo).label, value |-> value]
           more == Append(inputs, e)
           left == Tail(todo)
           S == Sent \cup Items
<1>1. /\ mode' = mode /\ string' = string /\ arguments' = arguments
      /\ todo \in Seq(Items) /\ asWritten \in Seq(Items) /\ Len(todo) \in Nat /\ Len(todo) <= MaxInputs
      /\ Len(inputs) \in Nat
  BY DEF MemoryInv, optionVars
<1>2. Head(todo) \in Items /\ e \in Sent /\ e.label = Head(todo).label /\ e.value = value
  <2>1. Head(todo) \in Items
    BY <1>1, HeadTailProperties
  <2>2. QED
    BY <2>1 DEF Items, Sent
<1> HIDE DEF e
<1>3. /\ Len(more) = Len(inputs) + 1 /\ Len(left) = Len(todo) - 1 /\ Len(todo) >= 1
      /\ (more \o left)[Len(inputs) + 1] = e
      /\ (inputs \o todo)[Len(inputs) + 1] = Head(todo)
      /\ \A p \in 1 .. Len(inputs) + Len(todo) :
           p # Len(inputs) + 1 => (more \o left)[p] = (inputs \o todo)[p]
  <2>1. inputs \in Seq(S) /\ todo \in Seq(S) /\ e \in S
    BY <1>1, <1>2
  <2> HIDE DEF S
  <2>2. QED
    BY <2>1, Shift
<1>4. more \in Seq(Sent) /\ left \in Seq(Items) /\ Len(left) <= MaxInputs
  <2>1. MaxInputs \in Nat
    BY RuleAssumption
  <2>2. left \in Seq(Items)
    BY <1>1, HeadTailProperties
  <2>3. more \in Seq(Sent)
    BY <1>2
  <2>4. QED
    BY <1>1, <1>3, <2>1, <2>2, <2>3
<1>5. inputs' = more /\ todo' = left
  BY Zenon DEF e
<1>6. Len(more) + Len(left) = Len(inputs) + Len(todo)
  BY <1>1, <1>3
<1>7. \A p \in 1 .. Len(inputs) : more[p] = inputs[p]
  BY <1>1
<1>8. more[Len(inputs) + 1] = e
  BY <1>1
<1>9. \A p \in 1 .. Len(more) : p # Len(inputs) + 1 => p \in 1 .. Len(inputs)
  BY <1>1, <1>3
<1>10. \A p \in 1 .. Len(inputs) + Len(todo) :
         /\ (more \o left)[p].label = (inputs \o todo)[p].label
         /\ (more \o left)[p].value.origin \in {(inputs \o todo)[p].value.origin, Typed}
  <2>1. ASSUME NEW p \in 1 .. Len(inputs) + Len(todo)
        PROVE  /\ (more \o left)[p].label = (inputs \o todo)[p].label
               /\ (more \o left)[p].value.origin \in {(inputs \o todo)[p].value.origin, Typed}
    <3>1. CASE p = Len(inputs) + 1
      <4>1. (more \o left)[p] = e /\ (inputs \o todo)[p] = Head(todo)
        BY <1>3, <3>1, Zenon
      <4>2. QED
        BY <1>2, <4>1, Zenon
    <3>2. CASE p # Len(inputs) + 1
      <4>1. (more \o left)[p] = (inputs \o todo)[p]
        BY <1>3, <3>2, Zenon
      <4>2. QED
        BY <4>1, Zenon
    <3>3. QED
      BY <3>1, <3>2
  <2>2. QED
    BY <2>1, Zenon
<1> HIDE DEF more, left
<1>11. MemoryInv'
  BY <1>1, <1>4, <1>5, Zenon DEF MemoryInv
<1>12. QuotedInv'
  <2>1. SUFFICES ASSUME string, mode # "old", NEW j \in 1 .. Len(more)
                 PROVE  more[j].value.answer = "kept" \/ more[j].value.quoted = 1
    BY <1>1, <1>5, Zenon DEF QuotedInv
  <2>2. CASE j = Len(inputs) + 1
    BY <1>2, <1>8, <2>1, <2>2, Zenon
  <2>3. CASE j # Len(inputs) + 1
    <3>1. j \in 1 .. Len(inputs) /\ more[j] = inputs[j]
      BY <1>7, <1>9, <2>3, Zenon
    <3>2. inputs[j].value.answer = "kept" \/ inputs[j].value.quoted = 1
      BY <2>1, <3>1, Zenon DEF QuotedInv
    <3>3. QED
      BY <3>1, <3>2, Zenon
  <2>4. QED
    BY <2>2, <2>3
<1>13. ASSUME Fresh'
       PROVE  Fresh /\ Len(inputs) + Len(todo) = Len(asWritten)
  <2>0. DOMAIN left = 1 .. Len(left)
    BY <1>4
  <2>1. \A j \in 1 .. Len(left) : left[j].form = "pair"
    BY <1>5, <1>13, <2>0, Zenon DEF Fresh
  <2>2. \A j \in 1 .. Len(todo) : j # 1 => j - 1 \in 1 .. Len(left) /\ todo[j] = left[j - 1]
    <3>1. \A p \in 1 .. Len(left) : left[p] = todo[p + 1]
      BY <1>1, <1>3 DEF left
    <3>2. \A j \in 1 .. Len(todo) : j # 1 => j - 1 \in 1 .. Len(left) /\ j - 1 + 1 = j
      BY <1>1, <1>3
    <3>3. ASSUME NEW j \in 1 .. Len(todo), j # 1 PROVE j - 1 \in 1 .. Len(left) /\ todo[j] = left[j - 1]
      <4>1. j - 1 \in 1 .. Len(left) /\ j - 1 + 1 = j
        BY <3>2, <3>3, Zenon
      <4>2. left[j - 1] = todo[j - 1 + 1]
        BY <3>1, <4>1, Zenon
      <4>3. QED
        BY <4>1, <4>2, Zenon
    <3>4. QED
      BY <3>3, Zenon
  <2>3. todo[1].form = "pair"
    BY <1>1 DEF left
  <2>4. \A j \in DOMAIN todo : j \in 1 .. Len(todo)
    BY <1>1
  <2>5. \A j \in DOMAIN todo : todo[j].form = "pair"
    BY <2>1, <2>2, <2>3, <2>4, Zenon
  <2>6. Fresh
    BY <1>13, <2>5, Zenon DEF Fresh
  <2>7. QED
    BY <2>6, Zenon DEF PendingInv
<1>14. ASSUME Fresh', ~ Ambiguous' PROVE PendingNames' /\ PendingLabels'
  <2>1. PendingNames /\ PendingLabels
    BY <1>1, <1>13, <1>14, Zenon DEF PendingInv, Ambiguous, Labelled
  <2>2. \A p \in 1 .. Len(asWritten) :
         /\ (more \o left)[p].label = (inputs \o todo)[p].label
         /\ (more \o left)[p].value.origin \in {(inputs \o todo)[p].value.origin, Typed}
    BY <1>10, <1>13, <1>14, Zenon
  <2>3. PendingNames'
    BY <1>5, <2>1, <2>2, Zenon DEF PendingNames, Pending
  <2>4. Pending' = more \o left /\ arguments' = arguments /\ asWritten' = asWritten
    BY <1>1, <1>5, Zenon DEF Pending
  <2>5. PendingLabels'
    BY <2>1, <2>2, <2>4, LabelsOn, Zenon DEF Pending
  <2>6. QED
    BY <2>3, <2>5
<1>15. ASSUME Fresh', ~ Ambiguous', trouble' = {} PROVE PendingPositions'
  <2>1. PendingPositions
    BY <1>1, <1>13, <1>15, Zenon DEF PendingInv, Ambiguous, Labelled
  <2>2. \A p \in 1 .. Len(asWritten) :
         (more \o left)[p].value.origin \in {(inputs \o todo)[p].value.origin, Typed}
    BY <1>10, <1>13, <1>15, Zenon
  <2>3. ASSUME NEW k \in 1 .. Len(asWritten), k \in DOMAIN arguments, arguments[k].is = "positional",
               ~ Prompted(k)
        PROVE  (more \o left)[k].value.origin \in {k, Typed}
    <3>1. (inputs \o todo)[k].value.origin \in {k, Typed}
      BY <2>1, <2>3, Zenon DEF PendingPositions, Pending
    <3>2. QED
      BY <2>2, <3>1, Zenon
  <2>4. QED
    BY <1>1, <1>5, <2>3, Zenon DEF PendingPositions, Pending, Prompted
<1>16. PendingInv'
  <2>1. Fresh' => inputs' \in Seq(Sent) /\ Len(inputs') + Len(todo') = Len(asWritten')
    BY <1>4, <1>5, <1>6, <1>13, Zenon
  <2>2. QED
    BY <1>14, <1>15, <2>1, Zenon DEF PendingInv
<1>17. QED
  BY <1>11, <1>12, <1>16

\* Something is wrong with the inputs of a line.
LEMMA WrongStep ==
    ASSUME MemoryInv, QuotedInv, UNCHANGED optionVars, inputs' = inputs, promptF' = promptF,
           asWritten' = asWritten, todo' \in Seq(Items), Len(todo') <= MaxInputs,
           NEW x \in {"noPair", "endOfInput"}, trouble' = trouble \cup {x}
    PROVE  MemoryInv' /\ PendingInv' /\ QuotedInv'
<1>1. mode' = mode /\ string' = string /\ arguments' = arguments
  BY DEF optionVars
<1>2. x \in trouble' /\ trouble' \subseteq Troubles
  BY DEF MemoryInv, Troubles
<1>3. ~ (trouble' \subseteq {"secondLine"})
  BY <1>2
<1>4. MemoryInv'
  BY <1>1, <1>2, Zenon DEF MemoryInv
<1>5. PendingInv'
  BY <1>3, Zenon DEF PendingInv, Fresh
<1>6. QuotedInv'
  BY <1>1, Zenon DEF QuotedInv
<1>7. QED
  BY <1>4, <1>5, <1>6

\* Every way to deal with the next input keeps the lists.
LEMMA InputStep ==
    ASSUME MemoryInv, PendingInv, QuotedInv, NextInput
    PROVE  MemoryInv' /\ PendingInv' /\ QuotedInv'
<1>1. /\ todo # <<>> /\ promptF' = promptF /\ asWritten' = asWritten /\ UNCHANGED optionVars
  BY Zenon DEF NextInput
<1> DEFINE value == Head(todo).value
<1>2. \/ /\ todo' = Tail(todo) /\ trouble' = trouble \cup {"noPair"} /\ inputs' = inputs
      \/ /\ Head(todo).form = "pair" /\ inputs # NoInputs
         /\ \E v : /\ v = Given(value) \/ v \in Answers(value)
                   /\ inputs' = Append(inputs, [label |-> Head(todo).label, value |-> v])
         /\ todo' = Tail(todo) /\ trouble' = trouble
      \/ /\ todo' = <<>> /\ trouble' = trouble \cup {"endOfInput"} /\ inputs' = inputs
  BY Zenon DEF NextInput
<1>3. /\ todo \in Seq(Items) /\ Len(todo) <= MaxInputs /\ (inputs \in Seq(Sent) \/ inputs = NoInputs)
      /\ MaxInputs \in Nat /\ Len(todo) \in Nat /\ Len(todo) # 0
  BY <1>1, RuleAssumption, EmptySeq DEF MemoryInv
<1>4. Tail(todo) \in Seq(Items) /\ Len(Tail(todo)) <= MaxInputs /\ Head(todo) \in Items
  <2>1. Tail(todo) \in Seq(Items) /\ Len(Tail(todo)) = Len(todo) - 1 /\ Head(todo) \in Items
    BY <1>1, <1>3, HeadTailProperties
  <2>2. QED
    BY <1>3, <2>1
<1>5. <<>> \in Seq(Items) /\ Len(<<>>) <= MaxInputs
  BY <1>3
<1>6. value \in Values
  BY <1>4 DEF Items
<1>7. CASE todo' = Tail(todo) /\ trouble' = trouble \cup {"noPair"} /\ inputs' = inputs
  <2>1. todo' \in Seq(Items) /\ Len(todo') <= MaxInputs /\ "noPair" \in {"noPair", "endOfInput"}
    BY <1>4, <1>7, Zenon
  <2>2. QED
    BY <1>1, <1>7, <2>1, WrongStep, Zenon
<1>8. CASE /\ Head(todo).form = "pair" /\ inputs # NoInputs
           /\ \E v : /\ v = Given(value) \/ v \in Answers(value)
                     /\ inputs' = Append(inputs, [label |-> Head(todo).label, value |-> v])
           /\ todo' = Tail(todo) /\ trouble' = trouble
  <2>1. PICK v : /\ v = Given(value) \/ v \in Answers(value)
                 /\ inputs' = Append(inputs, [label |-> Head(todo).label, value |-> v])
    BY <1>8, Zenon
  <2>2. /\ v \in Values /\ v.origin \in {value.origin, Typed}
        /\ string /\ mode # "old" => v.answer = "kept" \/ v.quoted = 1
    BY <1>6, <2>1, GivenIs, AnswersAre, Zenon
  <2>3. inputs \in Seq(Sent)
    BY <1>3, <1>8, Zenon
  <2>4. QED
    BY <1>1, <1>8, <2>1, <2>2, <2>3, AddStep, Zenon
<1>9. CASE todo' = <<>> /\ trouble' = trouble \cup {"endOfInput"} /\ inputs' = inputs
  <2>1. todo' \in Seq(Items) /\ Len(todo') <= MaxInputs /\ "endOfInput" \in {"noPair", "endOfInput"}
    BY <1>5, <1>9, Zenon
  <2>2. QED
    BY <1>1, <1>9, <2>1, WrongStep, Zenon
<1>10. QED
  BY <1>2, <1>7, <1>8, <1>9, Zenon

---------------------------------------------------------------------------
(* main *)

Steps == {"none", "start", "fetch", "open", "lines", "endOfFile", "commandLine",
          "parsed", "connect", "execute", "end"}

\* Steps that only go on to the next one.
LEMMA GoStep ==
    ASSUME MemoryInv, StepInv, PendingInv, QuotedInv, NEW step \in Steps, GoOn(step), todo = <<>>,
           step \in {"none", "start", "fetch", "open", "commandLine"} =>
              inputs = <<>> /\ asWritten = <<>> /\ trouble = {}
    PROVE  MemoryInv' /\ StepInv' /\ PendingInv' /\ QuotedInv' /\ rpc' = step /\ exitRule' = exitRule
<1>1. rpc' = step /\ exitRule' = exitRule /\ UNCHANGED memoryVars
  BY Zenon DEF GoOn, MoveTo
<1>2. StepInv'
  BY <1>1, Zenon DEF StepInv, memoryVars, Steps
<1>3. QED
  BY <1>1, <1>2, MemoryKept

\* The exit statuses that tell of an error before the execution.
LEMMA Statuses ==
    /\ \A status \in {1, 2, 3, 7, 10, Crashed} :
         /\ status \in {Running, 0, 1, 2, 3, 4, 7, 10, Crashed}
         /\ status \notin {0, 4}
    /\ 4 # 0 /\ 1 # 0 /\ 1 \in 0 .. 1 /\ 0 \in 0 .. 1
    /\ {0, 4} \subseteq {Running, 0, 1, 2, 3, 4, 7, 10, Crashed}
BY DEF Crashed, Running

\* The program ends with an error before it has executed the rule.
LEMMA EndsBadly ==
    ASSUME NEW status \in {1, 2, 3, 7, 10, Crashed}, EndRule(status),
           connected' \in {"no", "yes", "left"}, logins' \in 0 .. 1,
           saveFile' \in BOOLEAN, submitted' \in BOOLEAN
    PROVE  MemoryInv' /\ StepInv' /\ PendingInv' /\ QuotedInv' /\ ConnectionInv'
<1>1. rpc' = "end" /\ exitRule' = status
  BY Zenon DEF EndRule
<1>2. ConnectionInv'
  BY <1>1, Statuses, Zenon DEF ConnectionInv
<1>3. QED
  BY <1>2, AtEnd

\* The program ends, with or without rcDisconnect.
LEMMA LeaveIs ==
    ASSUME ConnectionInv, Leave, UNCHANGED <<saveFile, submitted>>
    PROVE  /\ connected' \in {"no", "yes", "left"} /\ logins' \in 0 .. 1
           /\ saveFile' \in BOOLEAN /\ submitted' \in BOOLEAN
<1>1. connected' = "left" \/ connected' = connected
  BY Zenon DEF Leave
<1>2. logins' = logins /\ saveFile' = saveFile /\ submitted' = submitted
  BY Zenon DEF Leave
<1>3. QED
  BY <1>1, <1>2, Zenon DEF ConnectionInv

\* Steps that leave the connection alone.
LEMMA ConnectionKept ==
    ASSUME ConnectionInv, rpc # "end", rpc' \in Steps, rpc' # "end", exitRule' = exitRule,
           UNCHANGED <<saveFile, submitted>>, UNCHANGED connectionVars,
           rpc' \in {"none", "start", "fetch", "commandLine", "parsed"} => saveFile = FALSE /\ logins = 0,
           rpc' \in {"connect", "execute"} => saveFile = FALSE,
           rpc' = "execute" => logins = 1
    PROVE  ConnectionInv'
<1>1. saveFile' = saveFile /\ submitted' = submitted /\ connected' = connected /\ logins' = logins
  BY Zenon DEF connectionVars
<1>2. QED
  BY <1>1, Zenon DEF ConnectionInv

\* The options.
LEMMA ParseOptionsStep == ASSUME RuleInv, ParseProgramOptions PROVE RuleInv'
<1>1. MemoryInv /\ StepInv /\ PendingInv /\ QuotedInv /\ ConnectionInv
  BY DEF RuleInv
<1>2. rpc = "start" /\ UNCHANGED <<saveFile, submitted>> /\ UNCHANGED connectionVars
  BY Zenon DEF ParseProgramOptions
<1>3. /\ todo = <<>> /\ inputs = <<>> /\ asWritten = <<>> /\ trouble = {}
  BY <1>1, <1>2, Zenon DEF StepInv
<1>4. /\ saveFile = FALSE /\ logins = 0 /\ submitted = FALSE /\ connected = connected'
      /\ saveFile' = FALSE /\ logins' = 0 /\ submitted' = FALSE
      /\ connected' \in {"no", "yes", "left"}
  BY <1>1, <1>2, Zenon DEF ConnectionInv, connectionVars
<1>5. \/ EndRule(0) \/ EndRule(1) \/ EndRule(10) \/ EndRule(3)
      \/ \E step \in {"fetch", "open", "commandLine", "connect"} : GoOn(step)
  BY Zenon DEF ParseProgramOptions
<1>6. CASE EndRule(0)
  <2>1. rpc' = "end" /\ exitRule' = 0
    BY <1>6, Zenon DEF EndRule
  <2>2. ConnectionInv'
    BY <1>4, <2>1, Statuses, Zenon DEF ConnectionInv
  <2>3. QED
    BY <1>6, <2>2, AtEnd, Zenon DEF RuleInv
<1>7. CASE EndRule(1) \/ EndRule(10) \/ EndRule(3)
  BY <1>4, <1>7, EndsBadly, Statuses, Zenon DEF RuleInv
<1>8. CASE \E step \in {"fetch", "open", "commandLine", "connect"} : GoOn(step)
  <2>1. PICK step \in {"fetch", "open", "commandLine", "connect"} : GoOn(step)
    BY <1>8
  <2>2. step \in Steps
    BY DEF Steps
  <2>3. MemoryInv' /\ StepInv' /\ PendingInv' /\ QuotedInv' /\ rpc' = step /\ exitRule' = exitRule
    BY <1>1, <1>3, <2>1, <2>2, GoStep, Zenon
  <2>4. rpc' # "end" /\ rpc' # "execute" /\ rpc # "end" /\ rpc' \in Steps
    BY <1>2, <2>2, <2>3
  <2>5. ConnectionInv'
    BY <1>1, <1>2, <1>4, <2>3, <2>4, ConnectionKept, Zenon
  <2>6. QED
    BY <2>3, <2>5 DEF RuleInv
<1>9. QED
  BY <1>5, <1>6, <1>7, <1>8

\* getUtil, for a file on the server.
LEMMA FetchStep == ASSUME RuleInv, FetchFile PROVE RuleInv'
<1>1. MemoryInv /\ StepInv /\ PendingInv /\ QuotedInv /\ ConnectionInv
  BY DEF RuleInv
<1>2. rpc = "fetch" /\ submitted' = submitted
  BY Zenon DEF FetchFile
<1>3. /\ todo = <<>> /\ inputs = <<>> /\ asWritten = <<>> /\ trouble = {}
  BY <1>1, <1>2, Zenon DEF StepInv
<1>4. /\ saveFile = FALSE /\ logins = 0 /\ submitted = FALSE /\ submitted' = FALSE
      /\ connected \in {"no", "yes", "left"} /\ exitRule = Running
  BY <1>1, <1>2, Zenon DEF ConnectionInv
<1>5. \/ EndRule(1) /\ UNCHANGED connectionVars /\ UNCHANGED saveFile
      \/ EndRule(2) /\ UNCHANGED connectionVars /\ UNCHANGED saveFile
      \/ EndRule(7) /\ UNCHANGED connectionVars /\ UNCHANGED saveFile
      \/ EndRule(10) /\ connected' = "left" /\ logins' = 1 /\ UNCHANGED saveFile
      \/ EndRule(3) /\ connected' = "no" /\ logins' = 1 /\ saveFile' \in BOOLEAN
      \/ GoOn("open") /\ connected' = "yes" /\ logins' = 1 /\ saveFile' = TRUE
  BY Zenon DEF FetchFile
<1>6. CASE \/ EndRule(1) /\ UNCHANGED connectionVars /\ UNCHANGED saveFile
           \/ EndRule(2) /\ UNCHANGED connectionVars /\ UNCHANGED saveFile
           \/ EndRule(7) /\ UNCHANGED connectionVars /\ UNCHANGED saveFile
  <2>1. /\ connected' \in {"no", "yes", "left"} /\ logins' \in 0 .. 1
        /\ saveFile' \in BOOLEAN /\ submitted' \in BOOLEAN
    BY <1>4, <1>6, Statuses, Zenon DEF connectionVars
  <2>2. QED
    BY <1>6, <2>1, EndsBadly, Statuses, Zenon DEF RuleInv
<1>7. CASE \/ EndRule(10) /\ connected' = "left" /\ logins' = 1 /\ UNCHANGED saveFile
           \/ EndRule(3) /\ connected' = "no" /\ logins' = 1 /\ saveFile' \in BOOLEAN
  <2>1. /\ connected' \in {"no", "yes", "left"} /\ logins' \in 0 .. 1
        /\ saveFile' \in BOOLEAN /\ submitted' \in BOOLEAN
    BY <1>4, <1>7, Statuses, Zenon
  <2>2. QED
    BY <1>7, <2>1, EndsBadly, Statuses, Zenon DEF RuleInv
<1>8. CASE GoOn("open") /\ connected' = "yes" /\ logins' = 1 /\ saveFile' = TRUE
  <2>1. "open" \in Steps
    BY DEF Steps
  <2>2. MemoryInv' /\ StepInv' /\ PendingInv' /\ QuotedInv' /\ rpc' = "open" /\ exitRule' = exitRule
    BY <1>1, <1>3, <1>8, <2>1, GoStep, Zenon
  <2>3. exitRule' \in {Running, 0, 1, 2, 3, 4, 7, 10, Crashed} /\ exitRule' = Running
    BY <1>4, <2>2, Zenon
  <2>4. ConnectionInv'
    BY <1>4, <1>8, <2>2, <2>3, Statuses, Zenon DEF ConnectionInv
  <2>5. QED
    BY <2>2, <2>4 DEF RuleInv
<1>9. QED
  BY <1>5, <1>6, <1>7, <1>8

\* fopen of the rule file.
LEMMA OpenStep == ASSUME RuleInv, OpenFile PROVE RuleInv'
<1>1. MemoryInv /\ StepInv /\ PendingInv /\ QuotedInv /\ ConnectionInv
  BY DEF RuleInv
<1>2. rpc = "open" /\ UNCHANGED <<saveFile, submitted>>
  BY Zenon DEF OpenFile
<1>3. CASE (EndRule(1) \/ EndRule(10)) /\ Leave
  BY <1>1, <1>2, <1>3, LeaveIs, EndsBadly, Statuses, Zenon DEF RuleInv
<1>4. CASE GoOn("lines") /\ UNCHANGED connectionVars
  <2>1. "lines" \in Steps /\ todo = <<>>
    BY <1>1, <1>2 DEF Steps, StepInv
  <2>2. MemoryInv' /\ StepInv' /\ PendingInv' /\ QuotedInv' /\ rpc' = "lines" /\ exitRule' = exitRule
    BY <1>1, <1>4, <2>1, GoStep, Zenon
  <2>3. ConnectionInv'
    BY <1>1, <1>2, <1>4, <2>1, <2>2, ConnectionKept, Zenon
  <2>4. QED
    BY <2>2, <2>3 DEF RuleInv
<1>5. QED
  BY <1>3, <1>4, Zenon DEF OpenFile

\* A line of the rule file.
LEMMA ReadStep == ASSUME RuleInv, ReadLine PROVE RuleInv'
<1>1. MemoryInv /\ StepInv /\ PendingInv /\ QuotedInv /\ ConnectionInv
  BY DEF RuleInv
<1>2. /\ rpc = "lines" /\ todo = <<>> /\ linesRead < MaxLines /\ linesRead' = linesRead + 1
      /\ UNCHANGED <<saveFile, submitted>> /\ UNCHANGED optionVars /\ UNCHANGED connectionVars
      /\ ReadLineNew \/ ReadLineOld
  BY Zenon DEF ReadLine
<1>3. linesRead' \in 0 .. MaxLines
  <2>1. linesRead \in 0 .. MaxLines /\ MaxLines \in Nat
    BY <1>1, RuleAssumption DEF StepInv
  <2>2. QED
    BY <1>2, <2>1
<1>4. gotRule \in 0 .. 2 /\ {0, 1, 2} \subseteq 0 .. 2
  BY <1>1 DEF StepInv
<1>5. \/ MoveTo("lines") /\ TakeParameters /\ gotRule' \in 0 .. 2
      \/ /\ MoveTo("lines") \/ MoveTo("endOfFile")
         /\ NoNewInputs /\ gotRule' \in 0 .. 2
  BY <1>2, <1>4, Zenon DEF ReadLineNew, ReadLineOld
<1>6. rpc' \in {"lines", "endOfFile"} /\ exitRule' = exitRule
  BY <1>5, Zenon DEF MoveTo
<1>7. ConnectionInv'
  <2>1. rpc' \in Steps /\ rpc' # "end" /\ rpc # "end" /\ rpc' # "execute"
        /\ rpc' \notin {"none", "start", "fetch", "commandLine", "parsed"}
        /\ rpc' \notin {"connect", "execute"}
    BY <1>2, <1>6 DEF Steps
  <2>2. QED
    BY <1>1, <1>2, <1>6, <2>1, ConnectionKept, Zenon
<1>8. CASE MoveTo("lines") /\ TakeParameters /\ gotRule' \in 0 .. 2
  <2>1. MemoryInv' /\ PendingInv' /\ QuotedInv'
    BY <1>1, <1>2, <1>8, StartStep, NoneStep, Zenon DEF TakeParameters
  <2>2. rpc' = "lines"
    BY <1>8, Zenon DEF MoveTo
  <2>3. StepInv'
    BY <1>3, <1>8, <2>2, Zenon DEF StepInv
  <2>4. QED
    BY <1>7, <2>1, <2>3 DEF RuleInv
<1>9. CASE /\ MoveTo("lines") \/ MoveTo("endOfFile")
           /\ NoNewInputs /\ gotRule' \in 0 .. 2
  <2>1. MemoryInv' /\ PendingInv' /\ QuotedInv'
    BY <1>1, <1>2, <1>9, OtherLine, Zenon
  <2>2. todo' = <<>>
    BY <1>2, <1>9, Zenon DEF NoNewInputs, inputVars
  <2>3. StepInv'
    BY <1>3, <1>6, <1>9, <2>2, Zenon DEF StepInv
  <2>4. QED
    BY <1>7, <2>1, <2>3 DEF RuleInv
<1>10. QED
  BY <1>5, <1>8, <1>9

\* A line without its list, and the end of the lines.
LEMMA EndLinesStep == ASSUME RuleInv, BadList \/ NoMoreLines PROVE RuleInv'
<1>1. MemoryInv /\ StepInv /\ PendingInv /\ QuotedInv /\ ConnectionInv
  BY DEF RuleInv
<1>2. CASE BadList
  <2>1. EndRule(10) /\ Leave /\ UNCHANGED <<saveFile, submitted>>
    BY <1>2, Zenon DEF BadList
  <2>2. QED
    BY <1>1, <2>1, LeaveIs, EndsBadly, Statuses, Zenon DEF RuleInv
<1>3. CASE NoMoreLines
  <2>1. /\ rpc = "lines" /\ todo = <<>> /\ GoOn("endOfFile")
        /\ UNCHANGED <<saveFile, submitted>> /\ UNCHANGED connectionVars
    BY <1>3, Zenon DEF NoMoreLines
  <2>2. "endOfFile" \in Steps
    BY DEF Steps
  <2>3. MemoryInv' /\ StepInv' /\ PendingInv' /\ QuotedInv' /\ rpc' = "endOfFile" /\ exitRule' = exitRule
    BY <1>1, <2>1, <2>2, GoStep, Zenon
  <2>4. ConnectionInv'
    BY <1>1, <2>1, <2>2, <2>3, ConnectionKept, Zenon
  <2>5. QED
    BY <2>3, <2>4 DEF RuleInv
<1>4. QED
  BY <1>2, <1>3

\* The file is closed, and removed if it is a copy.
LEMMA EndOfFileStep == ASSUME RuleInv, EndOfFile PROVE RuleInv'
<1>1. MemoryInv /\ StepInv /\ PendingInv /\ QuotedInv /\ ConnectionInv
  BY DEF RuleInv
<1>2. rpc = "endOfFile" /\ submitted' = submitted /\ todo = <<>>
  BY <1>1, Zenon DEF EndOfFile, StepInv
<1>3. CASE EndRule(2) /\ Leave /\ UNCHANGED saveFile
  BY <1>1, <1>2, <1>3, LeaveIs, EndsBadly, Statuses, Zenon DEF RuleInv
<1>4. CASE GoOn("connect") /\ saveFile' = FALSE /\ UNCHANGED connectionVars
  <2>1. "connect" \in Steps
    BY DEF Steps
  <2>2. MemoryInv' /\ StepInv' /\ PendingInv' /\ QuotedInv' /\ rpc' = "connect" /\ exitRule' = exitRule
    BY <1>1, <1>2, <1>4, <2>1, GoStep, Zenon
  <2>3. connected' = connected /\ logins' = logins
    BY <1>4 DEF connectionVars
  <2>4. ConnectionInv'
    BY <1>1, <1>2, <1>4, <2>2, <2>3, Zenon DEF ConnectionInv
  <2>5. QED
    BY <2>2, <2>4 DEF RuleInv
<1>5. QED
  BY <1>3, <1>4, Zenon DEF EndOfFile

\* A rule on the command line.
LEMMA CommandLineStep == ASSUME RuleInv, CommandLine PROVE RuleInv'
<1>1. MemoryInv /\ StepInv /\ PendingInv /\ QuotedInv /\ ConnectionInv
  BY DEF RuleInv
<1>2. /\ rpc = "commandLine" /\ rpc' = "parsed" /\ exitRule' = exitRule
      /\ UNCHANGED optionVars /\ UNCHANGED connectionVars
      /\ gotRule' = gotRule /\ linesRead' = linesRead /\ UNCHANGED <<saveFile, submitted>>
      /\ (\E list \in Lists(MaxInputs) : StartParameters(list)) \/ NoParameters
  BY Zenon DEF CommandLine, MoveTo
<1>3. todo = <<>> /\ asWritten = <<>>
  BY <1>1, <1>2, Zenon DEF StepInv
<1>4. MaxInputs - Len(asWritten) = MaxInputs
  BY <1>3, RuleAssumption
<1>5. MemoryInv' /\ PendingInv' /\ QuotedInv'
  BY <1>1, <1>2, <1>3, <1>4, StartStep, NoneStep, Zenon
<1>6. StepInv'
  BY <1>1, <1>2, Zenon DEF StepInv
<1>7. ConnectionInv'
  <2>1. rpc' \in Steps /\ rpc' # "end" /\ rpc # "end" /\ rpc' \notin {"connect", "execute"}
    BY <1>2 DEF Steps
  <2>2. saveFile = FALSE /\ logins = 0
    BY <1>1, <1>2, Zenon DEF ConnectionInv
  <2>3. QED
    BY <1>1, <1>2, <2>1, <2>2, ConnectionKept, Zenon
<1>8. QED
  BY <1>5, <1>6, <1>7 DEF RuleInv

\* parseParameters, one input.
LEMMA NextInputStep == ASSUME RuleInv, NextInput PROVE RuleInv'
<1>1. MemoryInv /\ StepInv /\ PendingInv /\ QuotedInv /\ ConnectionInv
  BY DEF RuleInv
<1>2. /\ todo # <<>> /\ rpc' = rpc /\ exitRule' = exitRule /\ gotRule' = gotRule
      /\ linesRead' = linesRead /\ saveFile' = saveFile /\ submitted' = submitted
      /\ connected' = connected /\ logins' = logins
  BY Zenon DEF NextInput, connectionVars
<1>3. rpc \in {"lines", "parsed"}
  BY <1>1, <1>2, Zenon DEF StepInv
<1>4. MemoryInv' /\ PendingInv' /\ QuotedInv'
  BY <1>1, InputStep
<1>5. StepInv'
  BY <1>1, <1>2, <1>3, Zenon DEF StepInv
<1>6. ConnectionInv'
  BY <1>1, <1>2, Zenon DEF ConnectionInv
<1>7. QED
  BY <1>4, <1>5, <1>6 DEF RuleInv

\* An input for an array that was taken away.
LEMMA NoListStep == ASSUME RuleInv, NoInputList PROVE RuleInv'
<1>1. EndRule(Crashed) /\ UNCHANGED <<saveFile, submitted>> /\ UNCHANGED connectionVars
  BY Zenon DEF NoInputList
<1>2. /\ connected' \in {"no", "yes", "left"} /\ logins' \in 0 .. 1
      /\ saveFile' \in BOOLEAN /\ submitted' \in BOOLEAN
  BY <1>1, Zenon DEF RuleInv, ConnectionInv, connectionVars
<1>3. QED
  BY <1>1, <1>2, EndsBadly, Statuses, Zenon DEF RuleInv

\* What came of the command line.
LEMMA ParsedStep == ASSUME RuleInv, Parsed PROVE RuleInv'
<1>1. MemoryInv /\ StepInv /\ PendingInv /\ QuotedInv /\ ConnectionInv
  BY DEF RuleInv
<1>2. /\ rpc = "parsed" /\ todo = <<>>
      /\ GoOn("connect") \/ EndRule(10)
      /\ UNCHANGED <<saveFile, submitted>> /\ UNCHANGED connectionVars
  BY Zenon DEF Parsed
<1>3. CASE EndRule(10)
  <2>1. /\ connected' \in {"no", "yes", "left"} /\ logins' \in 0 .. 1
        /\ saveFile' \in BOOLEAN /\ submitted' \in BOOLEAN
    BY <1>1, <1>2, Zenon DEF ConnectionInv, connectionVars
  <2>2. QED
    BY <1>3, <2>1, EndsBadly, Statuses, Zenon DEF RuleInv
<1>4. CASE GoOn("connect")
  <2>1. "connect" \in Steps
    BY DEF Steps
  <2>2. MemoryInv' /\ StepInv' /\ PendingInv' /\ QuotedInv' /\ rpc' = "connect" /\ exitRule' = exitRule
    BY <1>1, <1>2, <1>4, <2>1, GoStep, Zenon
  <2>3. saveFile = FALSE
    BY <1>1, <1>2, Zenon DEF ConnectionInv
  <2>4. rpc # "end"
    BY <1>2
  <2>5. ConnectionInv'
    BY <1>1, <1>2, <2>1, <2>2, <2>3, <2>4, ConnectionKept, Zenon
  <2>6. QED
    BY <2>2, <2>5 DEF RuleInv
<1>5. QED
  BY <1>2, <1>3, <1>4

\* rcConnect and clientLogin, if there is no connection yet.
LEMMA ConnectRuleStep == ASSUME RuleInv, ConnectRule PROVE RuleInv'
<1>1. MemoryInv /\ StepInv /\ PendingInv /\ QuotedInv /\ ConnectionInv
  BY DEF RuleInv
<1>2. rpc = "connect" /\ saveFile' = saveFile /\ submitted' = submitted /\ todo = <<>>
  BY <1>1, Zenon DEF ConnectRule, StepInv
<1>3. /\ saveFile = FALSE /\ submitted = FALSE /\ connected \in {"no", "yes", "left"}
      /\ logins \in 0 .. 1 /\ (connected = "yes" <=> logins = 1) /\ exitRule = Running
  BY <1>1, <1>2, Zenon DEF ConnectionInv
<1>4. \/ connected = "yes" /\ GoOn("execute") /\ UNCHANGED connectionVars
      \/ (EndRule(1) \/ EndRule(2) \/ EndRule(7)) /\ UNCHANGED connectionVars
      \/ connected # "yes" /\ GoOn("execute") /\ connected' = "yes" /\ logins' = logins + 1
  BY Zenon DEF ConnectRule
<1>5. CASE (EndRule(1) \/ EndRule(2) \/ EndRule(7)) /\ UNCHANGED connectionVars
  <2>1. /\ connected' \in {"no", "yes", "left"} /\ logins' \in 0 .. 1
        /\ saveFile' \in BOOLEAN /\ submitted' \in BOOLEAN
    BY <1>2, <1>3, <1>5, Zenon DEF connectionVars
  <2>2. QED
    BY <1>5, <2>1, EndsBadly, Statuses, Zenon DEF RuleInv
<1>6. ASSUME GoOn("execute"), connected' = "yes", logins' = 1 PROVE RuleInv'
  <2>1. "execute" \in Steps
    BY DEF Steps
  <2>2. MemoryInv' /\ StepInv' /\ PendingInv' /\ QuotedInv' /\ rpc' = "execute" /\ exitRule' = exitRule
    BY <1>1, <1>2, <1>6, <2>1, GoStep, Zenon
  <2>3. exitRule' \in {Running, 0, 1, 2, 3, 4, 7, 10, Crashed} /\ exitRule' = Running
    BY <1>3, <2>2, Zenon
  <2>4. ConnectionInv'
    BY <1>2, <1>3, <1>6, <2>2, <2>3, Statuses, Zenon DEF ConnectionInv
  <2>5. QED
    BY <2>2, <2>4 DEF RuleInv
<1>7. CASE connected = "yes" /\ GoOn("execute") /\ UNCHANGED connectionVars
  <2>1. connected' = "yes" /\ logins' = 1
    BY <1>3, <1>7, Zenon DEF connectionVars
  <2>2. QED
    BY <1>6, <1>7, <2>1
<1>8. CASE connected # "yes" /\ GoOn("execute") /\ connected' = "yes" /\ logins' = logins + 1
  <2>1. logins = 0
    BY <1>3, <1>8
  <2>2. logins' = 1
    BY <1>8, <2>1
  <2>3. QED
    BY <1>6, <1>8, <2>2
<1>9. QED
  BY <1>4, <1>5, <1>7, <1>8

\* rcExecMyRule and rcDisconnect.
LEMMA ExecStep == ASSUME RuleInv, ExecMyRule PROVE RuleInv'
<1>1. /\ rpc = "execute" /\ connected' = "no" /\ saveFile' = saveFile /\ logins' = logins
      /\ submitted' \in BOOLEAN
      /\ EndRule(0) \/ EndRule(4)
  BY Zenon DEF ExecMyRule
<1>2. saveFile = FALSE /\ logins = 1
  BY <1>1, Zenon DEF RuleInv, ConnectionInv
<1>3. PICK status \in {0, 4} : EndRule(status)
  BY <1>1
<1>4. rpc' = "end" /\ exitRule' = status
  BY <1>3, Zenon DEF EndRule
<1>5. exitRule' \in {Running, 0, 1, 2, 3, 4, 7, 10, Crashed}
  BY <1>4, Statuses, Zenon
<1>6. ConnectionInv'
  BY <1>1, <1>2, <1>4, <1>5, Statuses, Zenon DEF ConnectionInv
<1>7. QED
  BY <1>3, <1>6, AtEnd, Zenon DEF RuleInv

\* The program starts.
LEMMA StartRuleStep == ASSUME RuleInv, StartIrule PROVE RuleInv'
<1>1. MemoryInv /\ StepInv /\ PendingInv /\ QuotedInv /\ ConnectionInv
  BY DEF RuleInv
<1>2. /\ rpc = "none" /\ rpc' = "start" /\ exitRule' = exitRule
      /\ mode' \in {"new", "old", "line"} /\ string' \in BOOLEAN
      /\ \E n \in 0 .. MaxArguments : arguments' \in [1 .. n -> IF mode' = "line" THEN {} ELSE Arguments]
      /\ gotRule' = gotRule /\ linesRead' = linesRead /\ trouble' = trouble
      /\ UNCHANGED <<saveFile, submitted>>
      /\ UNCHANGED connectionVars /\ inputs' = inputs /\ todo' = todo /\ promptF' = promptF
      /\ asWritten' = asWritten
  BY Zenon DEF StartIrule, MoveTo, inputVars
<1>3. inputs = <<>> /\ asWritten = <<>> /\ todo = <<>>
  BY <1>1, <1>2, Zenon DEF StepInv
<1>4. arguments' \in Seq(Arguments) /\ (mode' = "line" => arguments' = <<>>)
  <2>1. PICK n \in 0 .. MaxArguments : arguments' \in [1 .. n -> IF mode' = "line" THEN {} ELSE Arguments]
    BY <1>2
  <2>2. n \in Nat
    OBVIOUS
  <2>3. CASE mode' = "line"
    <3>1. arguments' \in [1 .. n -> {}]
      BY <2>1, <2>3
    <3>2. n = 0
      BY <2>2, <3>1
    <3>3. arguments' \in Seq(Arguments) /\ Len(arguments') = 0
      BY <3>1, <3>2
    <3>4. QED
      BY <3>3, EmptySeq
  <2>4. CASE mode' # "line"
    <3>1. arguments' \in [1 .. n -> Arguments]
      BY <2>1, <2>4
    <3>2. QED
      BY <2>2, <2>4, <3>1
  <2>5. QED
    BY <2>3, <2>4
<1>5. MemoryInv'
  BY <1>1, <1>2, <1>4, Zenon DEF MemoryInv
<1>6. PendingInv' /\ QuotedInv'
  BY <1>2, <1>3, EmptyLists, Zenon
<1>7. StepInv'
  BY <1>1, <1>2, Zenon DEF StepInv
<1>8. ConnectionInv'
  <2>1. rpc' \in Steps /\ rpc' # "end" /\ rpc # "end" /\ rpc' \notin {"connect", "execute"}
    BY <1>2 DEF Steps
  <2>2. saveFile = FALSE /\ logins = 0
    BY <1>1, <1>2, Zenon DEF ConnectionInv
  <2>3. QED
    BY <1>1, <1>2, <2>1, <2>2, ConnectionKept, Zenon
<1>9. QED
  BY <1>5, <1>6, <1>7, <1>8 DEF RuleInv

\* Before the program runs.
LEMMA RuleInit == IruleIdle => RuleInv
<1> SUFFICES ASSUME IruleIdle PROVE RuleInv
  OBVIOUS
<1>1. /\ rpc = "none" /\ exitRule = Running /\ mode = "line" /\ string = FALSE /\ arguments = <<>>
      /\ gotRule = 0 /\ linesRead = 0 /\ inputs = <<>> /\ todo = <<>> /\ promptF = FALSE
      /\ asWritten = <<>> /\ trouble = {} /\ saveFile = FALSE /\ connected = "no" /\ logins = 0
      /\ submitted = FALSE
  BY Zenon DEF IruleIdle, NoMemory
<1>2. /\ 0 \in 0 .. 2 /\ 0 \in 0 .. MaxLines /\ 0 <= MaxInputs /\ Len(<<>>) = 0 /\ DOMAIN <<>> = {}
      /\ <<>> \in Seq(Arguments) /\ <<>> \in Seq(Sent) /\ <<>> \in Seq(Items) /\ 1 .. 0 = {}
      /\ 0 + 0 = 0 /\ 0 # 1
  BY RuleAssumption
<1>3. MemoryInv
  BY <1>1, <1>2, Zenon DEF MemoryInv
<1>4. StepInv
  BY <1>1, <1>2, Zenon DEF StepInv
<1>5. PendingNames /\ PendingLabels /\ PendingPositions
  BY <1>1, <1>2, Zenon DEF PendingNames, PendingLabels, PendingPositions
<1>6. Len(inputs) + Len(todo) = Len(asWritten) /\ inputs \in Seq(Sent)
  BY <1>1, <1>2
<1>7. PendingInv
  BY <1>5, <1>6, Zenon DEF PendingInv
<1>8. QuotedInv
  BY <1>1, <1>2, Zenon DEF QuotedInv
<1>9. ConnectionInv
  BY <1>1, <1>2, Statuses, Zenon DEF ConnectionInv
<1>10. QED
  BY <1>3, <1>4, <1>7, <1>8, <1>9 DEF RuleInv

\* While it does not.
LEMMA RuleKept == ASSUME RuleInv, UNCHANGED ruleVars PROVE RuleInv'
<1>1. MemoryInv /\ StepInv /\ PendingInv /\ QuotedInv /\ ConnectionInv
  BY DEF RuleInv
<1>2. UNCHANGED memoryVars /\ UNCHANGED listVars
  BY Zenon DEF ruleVars, memoryVars, listVars
<1>3. MemoryInv' /\ PendingInv' /\ QuotedInv'
  BY <1>1, <1>2, MemoryKept
<1>4. StepInv' /\ ConnectionInv'
  BY <1>1, Zenon DEF StepInv, ConnectionInv, ruleVars
<1>5. QED
  BY <1>3, <1>4 DEF RuleInv

\* Every step of irule keeps the invariant.
LEMMA RuleStep ==
    ASSUME RuleInv, IruleSteps \/ StartIrule \/ UNCHANGED ruleVars
    PROVE  RuleInv'
<1>1. CASE IruleSteps
  BY <1>1, ParseOptionsStep, FetchStep, OpenStep, ReadStep, EndLinesStep, EndOfFileStep, CommandLineStep,
     NextInputStep, NoListStep, ParsedStep, ConnectRuleStep, ExecStep, Zenon DEF IruleSteps
<1>2. CASE StartIrule
  BY <1>2, StartRuleStep
<1>3. CASE UNCHANGED ruleVars
  BY <1>3, RuleKept
<1>4. QED
  BY <1>1, <1>2, <1>3

\* At the end of the parsing all inputs are there.
LEMMA ReadyIs ==
    ASSUME RuleInv, Ready
    PROVE  /\ inputs \in Seq(Sent) /\ Len(inputs) = Len(asWritten) /\ asWritten \in Seq(Items)
           /\ DOMAIN inputs = 1 .. Len(asWritten) /\ DOMAIN asWritten = 1 .. Len(asWritten)
           /\ DOMAIN arguments = 1 .. Len(arguments)
           /\ \A p \in 1 .. Len(asWritten) : Pending[p] = inputs[p]
           /\ ~ Ambiguous => PendingNames /\ PendingLabels
           /\ ~ Ambiguous /\ trouble = {} => PendingPositions
<1>1. MemoryInv /\ StepInv /\ PendingInv
  BY DEF RuleInv
<1>2. rpc = "execute" /\ trouble \subseteq {"secondLine"}
  BY DEF Ready
<1>3. todo = <<>>
  BY <1>1, <1>2, Zenon DEF StepInv
<1>4. \A j \in DOMAIN todo : FALSE
  BY <1>3
<1>5. Fresh
  BY <1>2, <1>4, Zenon DEF Fresh
<1>6. inputs \in Seq(Sent) /\ Len(inputs) + Len(todo) = Len(asWritten)
  BY <1>1, <1>5, Zenon DEF PendingInv
<1>7. asWritten \in Seq(Items) /\ arguments \in Seq(Arguments) /\ Len(todo) = 0
  BY <1>1, <1>3 DEF MemoryInv
<1>8. Len(inputs) = Len(asWritten)
  BY <1>6, <1>7
<1>9. \A p \in 1 .. Len(asWritten) : Pending[p] = inputs[p]
  BY <1>3, <1>6, <1>8 DEF Pending
<1>10. DOMAIN inputs = 1 .. Len(asWritten) /\ DOMAIN asWritten = 1 .. Len(asWritten)
       /\ DOMAIN arguments = 1 .. Len(arguments)
  BY <1>6, <1>7, <1>8
<1>11. /\ ~ Ambiguous => PendingNames /\ PendingLabels
       /\ ~ Ambiguous /\ trouble = {} => PendingPositions
  BY <1>1, <1>5, Zenon DEF PendingInv
<1>12. QED
  BY <1>6, <1>7, <1>8, <1>9, <1>10, <1>11

\* What is ready to be sent has the names that were written.
LEMMA WrittenFollows == RuleInv => InputsAsWritten
<1> SUFFICES ASSUME RuleInv, Ready, ~ Ambiguous
             PROVE  /\ Len(inputs) = Len(asWritten)
                    /\ \A j \in DOMAIN inputs : inputs[j].label = asWritten[j].label
  BY Zenon DEF InputsAsWritten
<1>1. QED
  BY ReadyIs, Zenon DEF PendingNames

\* What is ready to be sent has the values of the labels.
LEMMA LabelsFollow == RuleInv => LabelsTaken
<1> SUFFICES ASSUME RuleInv, Ready, ~ Ambiguous, NEW k \in DOMAIN arguments,
                    Labelled(k), ~ Prompted(k),
                    NEW j \in DOMAIN asWritten, asWritten[j].label = arguments[k].label,
                    \A later \in k + 1 .. Len(arguments) :
                        Labelled(later) => arguments[later].label # arguments[k].label
             PROVE  \E p \in DOMAIN inputs : /\ inputs[p].label = arguments[k].label
                                             /\ inputs[p].value.origin \in {k, Typed}
  BY Zenon DEF LabelsTaken
<1>1. k \in 1 .. Len(arguments) /\ Len(arguments) \in Nat
  BY ReadyIs DEF RuleInv, MemoryInv
<1>2. \A later \in k + 1 .. Len(arguments) : later \in 1 .. Len(arguments)
  BY <1>1
<1>3. LastOfLabel(k, Len(arguments))
  BY <1>2, ReadyIs, Zenon DEF LastOfLabel, Labelled
<1>4. PICK p \in 1 .. Len(asWritten) : /\ Pending[p].label = arguments[k].label
                                       /\ Pending[p].value.origin \in {k, Typed}
  BY <1>1, <1>3, ReadyIs, Zenon DEF PendingLabels
<1>5. Pending[p] = inputs[p] /\ p \in DOMAIN inputs
  BY ReadyIs, Zenon
<1>6. inputs[p].label = arguments[k].label /\ inputs[p].value.origin \in {k, Typed}
  BY <1>4, <1>5, Zenon
<1>7. QED
  BY <1>5, <1>6, Zenon

\* What is ready to be sent has the values of the positions.
LEMMA PositionsFollow == RuleInv => PositionsTaken
<1> SUFFICES ASSUME RuleInv, Ready, trouble = {}, ~ Ambiguous,
                    NEW k \in DOMAIN arguments \cap DOMAIN inputs,
                    arguments[k].is = "positional", ~ Prompted(k)
             PROVE  inputs[k].value.origin \in {k, Typed}
  BY Zenon DEF PositionsTaken
<1>1. k \in 1 .. Len(asWritten) /\ Pending[k] = inputs[k]
  BY ReadyIs, Zenon
<1>2. Pending[k].value.origin \in {k, Typed}
  BY <1>1, ReadyIs, Zenon DEF PendingPositions
<1>3. QED
  BY <1>1, <1>2, Zenon

\* What is ready to be sent has the values that were given.
LEMMA ValuesFollow == RuleInv => ValuesAsGiven
<1> SUFFICES ASSUME RuleInv PROVE ValuesAsGiven
  OBVIOUS
<1>1. QuotedOnce
  <2>1. SUFFICES ASSUME Ready, string, mode # "old", NEW j \in DOMAIN inputs
                 PROVE  \/ mode = "new" /\ inputs[j].value.origin = Line
                        \/ inputs[j].value.answer = "kept"
                        \/ inputs[j].value.quoted = 1
    BY Zenon DEF QuotedOnce
  <2>2. inputs \in Seq(Sent) /\ j \in 1 .. Len(inputs)
    BY <2>1, ReadyIs, Zenon
  <2>3. QED
    BY <2>1, <2>2, Zenon DEF RuleInv, QuotedInv
<1>2. QED
  BY <1>1, LabelsFollow, PositionsFollow, Zenon DEF ValuesAsGiven

\* A rule that was executed leaves nothing behind.
LEMMA NothingFollows == RuleInv => NothingLeft
<1> SUFFICES ASSUME RuleInv, exitRule \in {0, 4}, submitted \/ exitRule = 4
             PROVE  ~ saveFile /\ connected = "no" /\ logins = 1
  BY Zenon DEF NothingLeft
<1>1. ConnectionInv
  BY DEF RuleInv
<1>2. exitRule # Running
  BY DEF Running
<1>3. rpc = "end"
  BY <1>1, <1>2, Zenon DEF ConnectionInv
<1>4. QED
  BY <1>1, <1>3, Zenon DEF ConnectionInv

---------------------------------------------------------------------------
(* The theorems *)

InputInv == RuleInv /\ LineInv

\* The invariants of the two programs hold at first,
LEMMA InputInit == Init => InputInv
BY RuleInit, LineInit DEF Init, InputInv

\* every step keeps them,
LEMMA InputNext == InputInv /\ [Next]_vars => InputInv'
<1> SUFFICES ASSUME InputInv, [Next]_vars PROVE InputInv'
  OBVIOUS
<1>1. RuleInv /\ LineInv
  BY DEF InputInv
<1>2. IruleSteps \/ StartIrule \/ UNCHANGED ruleVars
  BY Zenon DEF Next, RunIrule, RunGetInput, vars
<1>3. GetInputSteps \/ StartGetInput \/ UNCHANGED inputLineVars
  BY Zenon DEF Next, RunIrule, RunGetInput, vars
<1>4. RuleInv' /\ LineInv'
  BY <1>1, <1>2, <1>3, RuleStep, LineStep
<1>5. QED
  BY <1>4 DEF InputInv

\* and they hold of every run.
LEMMA InputAlways == Spec => []InputInv
BY InputInit, InputNext, PTL DEF Spec

\* The invariants say what the variables are.
LEMMA TypesFollow == InputInv => TypeOK
<1> SUFFICES ASSUME InputInv PROVE TypeOK
  OBVIOUS
<1>1. MemoryInv /\ StepInv /\ ConnectionInv /\ BufferInv /\ ScanInv
  BY DEF InputInv, RuleInv, LineInv
<1>2. inputs # NoInputs => \A j \in DOMAIN inputs : inputs[j].label \in Labels
  <2>1. ASSUME inputs \in Seq(Sent), NEW j \in DOMAIN inputs PROVE inputs[j].label \in Labels
    <3>1. inputs[j] \in Sent
      BY <2>1
    <3>2. QED
      BY <3>1 DEF Sent
  <2>2. QED
    BY <1>1, <2>1, Zenon DEF MemoryInv
<1>3. i \in 1 .. BufferSize
  <2>1. i \in 1 .. Len(ttybuf) + 1 /\ Len(ttybuf) < BufferSize /\ Len(ttybuf) \in Nat
    BY <1>1 DEF BufferInv, ScanInv
  <2>2. QED
    BY <2>1, BufferAssumption
<1>4. trouble \subseteq {"argument", "null", "split", "noPair", "endOfInput", "secondLine"}
  BY <1>1 DEF MemoryInv, Troubles
<1>5. QED
  BY <1>1, <1>2, <1>3, <1>4, Zenon DEF TypeOK, MemoryInv, StepInv, ConnectionInv, BufferInv, ScanInv

\* In every run of irule and getInput the variables have their types: the scan
\* stays within the buffer, whatever its size, and a rule has at most one login.
THEOREM InputTypes == Spec => []TypeOK
BY InputAlways, TypesFollow, PTL

\* irule: every input of a rule is sent under its name and in its place, for all
\* labels, lines and arguments, unless an argument is ambiguous.
THEOREM RuleInputsAsWritten == Spec => []InputsAsWritten
<1>1. InputInv => InputsAsWritten
  BY WrittenFollows DEF InputInv
<1>2. QED
  BY <1>1, InputAlways, PTL

\* irule: the arguments decide the values by their labels or positions, and -s
\* quotes those that are no defaults, of a file or of a question, exactly once,
\* however many lines and arguments there are.
THEOREM RuleValuesAsGiven == Spec => []ValuesAsGiven
<1>1. InputInv => ValuesAsGiven
  BY ValuesFollow DEF InputInv
<1>2. QED
  BY <1>1, InputAlways, PTL

\* irule: a rule that was executed leaves no copy of its file and no connection,
\* and the program has logged in once.
THEOREM RuleNothingLeft == Spec => []NothingLeft
<1>1. InputInv => NothingLeft
  BY NothingFollows DEF InputInv
<1>2. QED
  BY <1>1, InputAlways, PTL

\* getInput, for every limit on words and every line that fits the buffer, whatever
\* its size: any number of typed words of any length, a blank between one and the
\* next, come back as these words; of any other line the words are pieces, in
\* their order, that hold all its letters; and a line with fewer blanks and quotes
\* than there may be words does not run over.
THEOREM CommandWords == Spec => []WordsAsTyped
<1>1. InputInv => WordsAsTyped
  BY LettersFollow, FewFollow, WordsFollow DEF InputInv, WordsAsTyped
<1>2. QED
  BY <1>1, InputAlways, PTL
=============================================================================
