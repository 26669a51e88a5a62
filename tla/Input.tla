-------------------------------- MODULE Input --------------------------------
(***************************************************************************)
(* The programs that make something of what they are given in a file, on   *)
(* the command line or on the standard input: the words of a command       *)
(* (getInput) and the inputs of a rule (irule).                            *)
(***************************************************************************)
EXTENDS Irule, GetInput

vars == <<ruleVars, inputLineVars>>

Init == IruleIdle /\ GetInputIdle

RunIrule == (StartIrule \/ IruleSteps) /\ gpc = "none" /\ UNCHANGED inputLineVars
RunGetInput == (StartGetInput \/ GetInputSteps) /\ rpc = "none" /\ UNCHANGED ruleVars

Next == RunIrule \/ RunGetInput

Spec == Init /\ [][Next]_vars

---------------------------------------------------------------------------
(* Properties of irule *)

TypeOK ==
    /\ rpc \in {"none", "start", "fetch", "open", "lines", "endOfFile", "commandLine",
                "parsed", "connect", "execute", "end"}
    /\ mode \in {"new", "old", "line"} /\ string \in BOOLEAN /\ promptF \in BOOLEAN
    /\ gotRule \in 0 .. 2 /\ linesRead \in 0 .. MaxLines
    /\ inputs # NoInputs => \A j \in DOMAIN inputs : inputs[j].label \in Labels
    /\ Len(todo) <= MaxInputs /\ Len(asWritten) <= MaxInputs
    /\ saveFile \in BOOLEAN /\ submitted \in BOOLEAN
    /\ connected \in {"no", "yes", "left"} /\ logins \in 0 .. 1
    /\ exitRule \in {Running, 0, 1, 2, 3, 4, 7, 10, Crashed}
    /\ trouble \subseteq {"argument", "null", "split", "noPair", "endOfInput", "secondLine"}
    /\ gpc \in {"none", "read", "readOn", "scan", "parsed", "overrun", "end"}
    /\ i \in 1 .. BufferSize /\ cpTokenStart \in 1 .. i
    /\ tokenFlag \in 0 .. 3

\* The inputs are ready to be sent, and nothing was wrong with them.
Ready == rpc = "execute" /\ inputs # NoInputs /\ trouble \subseteq {"secondLine"}

Labelled(k) == k \in DOMAIN arguments /\ arguments[k].is = "labelled"
Prompted(k) == \E p \in 1 .. k : arguments[p].is = "prompt"

\* An argument *a=... would replace an input *ab as well as *a.
Ambiguous ==
    \E k \in DOMAIN arguments, j \in DOMAIN asWritten :
        Labelled(k) /\ IsStrictPrefix(arguments[k].label, asWritten[j].label)

\* Every input of the rule is sent, under its name and in its place.
InputsAsWritten ==
    Ready /\ ~Ambiguous =>
        /\ Len(inputs) = Len(asWritten)
        /\ \A j \in DOMAIN inputs : inputs[j].label = asWritten[j].label

\* A labelled argument for an input of the rule decides its value, unless a
\* later one does or the user is asked.
LabelsTaken ==
    Ready /\ ~Ambiguous =>
        \A k \in DOMAIN arguments :
            /\ Labelled(k) /\ ~Prompted(k)
            /\ \E j \in DOMAIN asWritten : asWritten[j].label = arguments[k].label
            /\ \A later \in k + 1 .. Len(arguments) :
                 Labelled(later) => arguments[later].label # arguments[k].label
            => \E j \in DOMAIN inputs :
                 /\ inputs[j].label = arguments[k].label
                 /\ inputs[j].value.origin \in {k, Typed}

\* Positional arguments decide the values in their order, if the inputs are on
\* one line.
PositionsTaken ==
    Ready /\ trouble = {} /\ ~Ambiguous =>
        \A k \in DOMAIN arguments \cap DOMAIN inputs :
            arguments[k].is = "positional" /\ ~Prompted(k) => inputs[k].value.origin \in {k, Typed}

\* With -s the server gets what stands on the command line or is answered
\* quoted, and quoted once, but for the defaults a user who was asked has kept.
\* (What a rule file gives is quoted too, though the usage says that "string mode
\* does not affect input parameter values in rule files".)
QuotedOnce ==
    Ready /\ string /\ mode # "old" =>
        \A j \in DOMAIN inputs :
            \/ mode = "new" /\ inputs[j].value.origin = Line
            \/ inputs[j].value.answer = "kept"
            \/ inputs[j].value.quoted = 1

\* What is sent is what the arguments and the user gave.
ValuesAsGiven == LabelsTaken /\ PositionsTaken /\ QuotedOnce

\* A rule that was sent leaves no copy of its file and no open connection, and
\* the program has logged in once.
NothingLeft ==
    exitRule \in {0, 4} /\ (submitted \/ exitRule = 4) => ~saveFile /\ connected = "no" /\ logins = 1

---------------------------------------------------------------------------
(* Properties of getInput *)

\* A whole line has been parsed.
LineParsed == gpc = "parsed" /\ ttybuf = line /\ Last(line) = Newline

\* How a word is typed between the places o and e of the line: between two
\* quotes it does not hold, or without any if it holds no blank.
TypedWord(o, e) ==
    /\ o + 1 < e
    /\ IF line[o + 1] \in Quotes
       THEN /\ o + 2 < e /\ line[e - 1] = line[o + 1]
            /\ \A p \in o + 2 .. e - 2 : line[p] # line[o + 1]
       ELSE \A p \in o + 1 .. e - 1 : line[p] # Blank

WordBetween(o, e) ==
    IF line[o + 1] \in Quotes THEN SubSeq(line, o + 2, e - 2) ELSE SubSeq(line, o + 1, e - 1)

\* The end of the k-th piece of a line that is divided at some places.
Edge(at, k) == IF k = 0 THEN 0 ELSE IF k > Len(at) THEN Len(line) ELSE at[k]

WordsAt(at) == [k \in 1 .. Len(at) + 1 |-> WordBetween(Edge(at, k - 1), Edge(at, k))]

\* A line of any number of words of any length, with a blank between one and the
\* next, comes back as these words, perhaps with an empty one after them.
WordsComeBack ==
    LineParsed =>
        LET blanks == {p \in DOMAIN line : line[p] = Blank} IN
        \A n \in 0 .. Cardinality(blanks) : \A at \in [1 .. n -> blanks] :
            (\A k \in 1 .. n + 1 : TypedWord(Edge(at, k - 1), Edge(at, k)))
            => cmdToken \in {WordsAt(at), Append(WordsAt(at), <<>>)}

\* No letter of a line gets lost or changes its place, whatever the quotes: the
\* words are pieces of the line, one behind the other, and hold all its letters.
LettersKept ==
    LineParsed =>
        \E from \in [DOMAIN cmdToken -> DOMAIN line] :
            /\ \A w \in DOMAIN cmdToken :
                 cmdToken[w] = SubSeq(line, from[w], from[w] + Len(cmdToken[w]) - 1)
            /\ \A v, w \in DOMAIN cmdToken : v < w => from[v] + Len(cmdToken[v]) < from[w]
            /\ \A p \in DOMAIN line :
                 line[p] = Letter =>
                    \E w \in DOMAIN cmdToken : p \in from[w] .. from[w] + Len(cmdToken[w]) - 1

\* Only a line with as many blanks and quotes as there may be words runs over.
FewWordsFit ==
    gpc = "overrun" =>
        Cardinality({p \in DOMAIN line : line[p] \in Quotes \cup {Blank}}) >= MaxTokens

\* The words of a command are those that were typed.
WordsAsTyped == WordsComeBack /\ LettersKept /\ FewWordsFit
=============================================================================
