-------------------------------- MODULE Irule --------------------------------
(***************************************************************************)
(* irule: a rule with its inputs and outputs, from a file (-F) or from the *)
(* command line, is sent to the server.  A file of the new syntax (.r) has *)
(* sections that begin with INPUT and OUTPUT, one of the old syntax (.ir)  *)
(* three lines.  With -F the arguments on the command line replace inputs, *)
(* by their position or by their label.                                    *)
(***************************************************************************)
EXTENDS Integers, Sequences, FiniteSets, SequencesExt

CONSTANTS
    Labels,         \* names of inputs, sequences of letters
    RuleInputs,     \* what may stand in a list of inputs
    MaxInputs,      \* bound: inputs of a rule
    MaxLines,       \* bound: lines of a rule file
    MaxArguments    \* bound: arguments after the name of the file

VARIABLES
    rpc,        \* the step irule is at
    mode,       \* "new", "old" or "line": where the rule comes from
    string,     \* -s: the values are quoted
    arguments,  \* the further arguments on the command line
    gotRule,    \* the section of the file the next line belongs to
    linesRead,
    todo,       \* the inputs of the line being parsed that are left
    promptF,    \* the user is asked for every value
    inputs,     \* the inputs to send; NoInputs if the array is taken away
    saveFile,   \* the copy of a file that came from the server exists
    connected,  \* "no", "yes" or "left": the program ended without rcDisconnect
    logins,
    submitted,  \* the rule was executed
    exitRule,
    asWritten,  \* history: the inputs as they stand in the lines
    trouble     \* history: what was wrong with them

connectionVars == <<connected, logins>>
optionVars == <<mode, string, arguments>>
inputVars == <<inputs, todo, promptF, asWritten>>
memoryVars == <<mode, string, arguments, gotRule, linesRead, inputs, todo, promptF, asWritten, trouble>>
ruleVars == <<rpc, mode, string, arguments, gotRule, linesRead, todo, promptF, inputs, saveFile,
              connected, logins, submitted, exitRule, asWritten, trouble>>

Running == -1
Crashed == 139
NoInputs == <<[label |-> <<>>, value |-> <<>>]>>

\* A value: what it begins with, how often it has been quoted, where it comes
\* from (the line, the argument of this number, an answer of the user) and
\* whether a user who was asked has kept it.
Line == 0
Typed == -1
Value(begins, origin) == [begins |-> begins, quoted |-> 0, origin |-> origin, answer |-> "none"]

\* The inputs of a line: label=value, or a word that is not a pair.
Forms == {"pair", "word"}
Inputs == [label : Labels, form : Forms, value : {Value(b, Line) : b \in {"plain", "$"}}]

ASSUME RuleAssumption ==
    /\ \A l \in Labels : l \in Seq(STRING) /\ l # <<>>
    /\ RuleInputs \subseteq Inputs
    /\ {MaxInputs, MaxLines, MaxArguments} \subseteq Nat

Lists(n) == UNION {[1 .. k -> RuleInputs] : k \in 0 .. n}

\* An argument: *label=value, something else, or "prompt" or "default".
Arguments ==
    [is : {"prompt", "default"}] \cup [is : {"positional"}, begins : {"plain", "$"}]
    \cup [is : {"labelled"}, label : Labels, form : Forms, begins : {"plain"}]

---------------------------------------------------------------------------
(* parseParameters *)

\* quoteString leaves alone what is quoted.
QuoteString(value, wanted) ==
    IF wanted /\ value.quoted = 0
    THEN [begins |-> "quote", quoted |-> 1, origin |-> value.origin, answer |-> value.answer]
    ELSE value

\* Mutant: the other way round, an input whose name begins the label.
FindShorter(list, label) == {j \in DOMAIN list : IsPrefix(list[j].label, label)}

\* The inputs a labelled argument may replace: their text begins with its label.
Find(list, label) == {j \in DOMAIN list : IsPrefix(label, list[j].label)}

\* The inputs of a line as far as the arguments have been applied to them, and the
\* way the arguments are given: a label after another argument is wrong, as is a
\* position after a label.
TakeLabel(s, k) ==
    LET arg == arguments[k]
        found == Find(s.list, arg.label)
        input == [label |-> arg.label, form |-> "pair", value |-> QuoteString(Value(arg.begins, k), string)]
    IN IF (k > 1 /\ s.way # "labels") \/ arg.form = "word" THEN [s EXCEPT !.way = "wrong"]
       ELSE IF found = {} THEN [s EXCEPT !.way = "labels"]
       ELSE [way |-> "labels", list |-> [s.list EXCEPT ![Min(found)] = input]]

\* What is beyond the inputs is empty memory, and no pair.
TakePosition(s, k) ==
    IF s.way = "labels" THEN [s EXCEPT !.way = "wrong"]
    ELSE IF k \in DOMAIN s.list /\ s.list[k].form = "pair"
    THEN [s EXCEPT !.list[k].value = QuoteString(Value(arguments[k].begins, k), string)]
    ELSE s

TakeArgument(s, k) ==
    IF s.way \in {"prompt", "wrong"} THEN s
    ELSE CASE arguments[k].is = "default" -> s
           [] arguments[k].is = "prompt" -> [s EXCEPT !.way = "prompt"]
           [] arguments[k].is = "labelled" -> TakeLabel(s, k)
           [] arguments[k].is = "positional" -> TakePosition(s, k)

\* The arguments applied in their order.
Taken(list) ==
    LET After[k \in 0 .. Len(arguments)] ==
            IF k = 0 THEN [way |-> "positions", list |-> list] ELSE TakeArgument(After[k - 1], k)
    IN After

Override(list) == Taken(list)[IF mode = "line" THEN 0 ELSE Len(arguments)]

\* Mutant: what the arguments make of the line is not what is parsed.
StartParametersAsWritten(list) ==
    /\ asWritten' = asWritten \o list
    /\ todo' = list
    /\ promptF' = (Override(list).way = "prompt")
    /\ trouble' = trouble \cup (IF asWritten = <<>> THEN {} ELSE {"secondLine"})
    /\ UNCHANGED inputs

\* The arguments meet every line of inputs anew.
StartParameters(list) ==
    LET after == Override(list) IN
    /\ asWritten' = asWritten \o list
    /\ todo' = IF after.way = "wrong" THEN <<>> ELSE after.list
    /\ promptF' = (after.way = "prompt")
    /\ trouble' = trouble \cup (IF after.way = "wrong" THEN {"argument"} ELSE {})
                        \cup (IF asWritten = <<>> THEN {} ELSE {"secondLine"})
    /\ UNCHANGED inputs

\* "null", or a list that cannot be split: the array is taken away.
NoParameters ==
    /\ inputs' = NoInputs
    /\ trouble' \in {trouble \cup {"null"}, trouble \cup {"split"}}
    /\ UNCHANGED <<todo, promptF, asWritten>>

\* With -s in the new syntax the value is quoted, in the old one its quotes go.
Given(value) ==
    IF mode = "old" THEN [value EXCEPT !.quoted = 0]
    ELSE QuoteString(value, string)

\* What a prompt is answered with: a new value, or the default, which is not
\* quoted any more.
Answers(value) ==
    {QuoteString(Value("plain", Typed), string /\ mode # "old"), [value EXCEPT !.answer = "kept"]}

NoMemory ==
    /\ mode = "line" /\ string = FALSE /\ arguments = <<>> /\ gotRule = 0 /\ linesRead = 0
    /\ inputs = <<>> /\ todo = <<>> /\ promptF = FALSE /\ asWritten = <<>> /\ trouble = {}

\* The program ends, and its memory goes.
EndRule(status) ==
    /\ rpc' = "end" /\ exitRule' = status
    /\ mode' = "line" /\ string' = FALSE /\ arguments' = <<>> /\ gotRule' = 0 /\ linesRead' = 0
    /\ inputs' = <<>> /\ todo' = <<>> /\ promptF' = FALSE /\ asWritten' = <<>> /\ trouble' = {}

MoveTo(step) == rpc' = step /\ UNCHANGED exitRule
GoOn(step) == MoveTo(step) /\ UNCHANGED memoryVars

NextInput ==
    /\ todo # <<>>
    /\ LET input == Head(todo)
           asked == promptF \/ input.value.begins = "$"
           Add(value) == inputs' = Append(inputs, [label |-> input.label, value |-> value])
       IN \/ /\ input.form = "word"
             /\ todo' = Tail(todo)
             /\ trouble' = trouble \cup {"noPair"}
             /\ UNCHANGED inputs
          \/ /\ input.form = "pair" /\ inputs # NoInputs /\ ~asked
             /\ Add(Given(input.value))
             /\ todo' = Tail(todo)
             /\ UNCHANGED trouble
          \/ /\ input.form = "pair" /\ inputs # NoInputs /\ asked
             /\ \E value \in Answers(input.value) : Add(value)
             /\ todo' = Tail(todo)
             /\ UNCHANGED trouble
          \/ /\ input.form = "pair" /\ inputs # NoInputs /\ asked   \* end of the standard input
             /\ todo' = <<>>
             /\ trouble' = trouble \cup {"endOfInput"}
             /\ UNCHANGED inputs
    /\ UNCHANGED <<rpc, exitRule, gotRule, linesRead, promptF, asWritten, saveFile, submitted>>
    /\ UNCHANGED optionVars /\ UNCHANGED connectionVars

\* addMsParam takes the address of an array that is not there any more.
NoInputList ==
    /\ todo # <<>> /\ Head(todo).form = "pair" /\ inputs = NoInputs
    /\ EndRule(Crashed)
    /\ UNCHANGED <<saveFile, submitted>> /\ UNCHANGED connectionVars

---------------------------------------------------------------------------
(* main *)

\* Options, -h; the kind of the rule.
ParseProgramOptions ==
    /\ rpc = "start"
    /\ \/ EndRule(0) \/ EndRule(1) \/ EndRule(10)
       \/ mode # "line" /\ (GoOn("fetch") \/ GoOn("open"))
       \/ mode = "line" /\ (EndRule(3) \/ GoOn("commandLine") \/ GoOn("connect"))
    /\ UNCHANGED <<saveFile, submitted>> /\ UNCHANGED connectionVars

\* A file "i:..." is fetched from the server with getUtil.
FetchFile ==
    /\ rpc = "fetch"
    /\ \/ /\ EndRule(1) \/ EndRule(2) \/ EndRule(7)
          /\ UNCHANGED connectionVars /\ UNCHANGED saveFile
       \/ EndRule(10) /\ connected' = "left" /\ logins' = 1 /\ UNCHANGED saveFile
       \/ EndRule(3) /\ connected' = "no" /\ logins' = 1 /\ saveFile' \in BOOLEAN
       \/ GoOn("open") /\ connected' = "yes" /\ logins' = 1 /\ saveFile' = TRUE
    /\ UNCHANGED submitted

Leave == connected' = (IF connected = "yes" THEN "left" ELSE connected) /\ UNCHANGED logins

\* The file is opened; its name must end in .r, .ir or .irb.
OpenFile ==
    /\ rpc = "open"
    /\ \/ (EndRule(1) \/ EndRule(10)) /\ Leave
       \/ GoOn("lines") /\ UNCHANGED connectionVars
    /\ UNCHANGED <<saveFile, submitted>>

\* The result of parseParameters is not looked at.
TakeParameters ==
    \/ \E list \in Lists(MaxInputs - Len(asWritten)) : StartParameters(list)
    \/ NoParameters

NoNewInputs == UNCHANGED inputVars /\ UNCHANGED trouble

\* A line of a .r file: of the rule, INPUT and more inputs, OUTPUT.
ReadLineNew ==
    /\ mode = "new"
    /\ \/ gotRule = 0 /\ MoveTo("lines") /\ UNCHANGED gotRule /\ NoNewInputs
       \/ gotRule' = 1 /\ MoveTo("lines") /\ TakeParameters
       \/ gotRule' = 2 /\ MoveTo("endOfFile") /\ NoNewInputs

\* A line of a .ir file: a comment, the rule, its inputs, its outputs.
ReadLineOld ==
    /\ mode = "old"
    /\ \/ MoveTo("lines") /\ UNCHANGED gotRule /\ NoNewInputs
       \/ gotRule = 0 /\ gotRule' = 1 /\ MoveTo("lines") /\ NoNewInputs
       \/ gotRule = 1 /\ gotRule' = 2 /\ MoveTo("lines") /\ TakeParameters
       \/ gotRule = 2 /\ MoveTo("endOfFile") /\ UNCHANGED gotRule /\ NoNewInputs

ReadLine ==
    /\ rpc = "lines" /\ todo = <<>> /\ linesRead < MaxLines
    /\ linesRead' = linesRead + 1
    /\ ReadLineNew \/ ReadLineOld
    /\ UNCHANGED <<saveFile, submitted>> /\ UNCHANGED optionVars /\ UNCHANGED connectionVars

\* INPUT or OUTPUT without a list.
BadList ==
    /\ rpc = "lines" /\ todo = <<>> /\ mode = "new"
    /\ EndRule(10) /\ Leave
    /\ UNCHANGED <<saveFile, submitted>>

NoMoreLines ==
    /\ rpc = "lines" /\ todo = <<>>
    /\ GoOn("endOfFile")
    /\ UNCHANGED <<saveFile, submitted>> /\ UNCHANGED connectionVars

\* Mutant: the copy of the file stays.
EndOfFileKeeps ==
    /\ rpc = "endOfFile"
    /\ IF gotRule # 2 THEN EndRule(2) /\ Leave ELSE GoOn("connect") /\ UNCHANGED connectionVars
    /\ UNCHANGED <<saveFile, submitted>>

\* Only a file that was read to its end is removed again.
EndOfFile ==
    /\ rpc = "endOfFile"
    /\ IF gotRule # 2 THEN EndRule(2) /\ Leave /\ UNCHANGED saveFile
       ELSE GoOn("connect") /\ saveFile' = FALSE /\ UNCHANGED connectionVars
    /\ UNCHANGED submitted

CommandLine ==
    /\ rpc = "commandLine"
    /\ MoveTo("parsed")
    /\ \/ \E list \in Lists(MaxInputs) : StartParameters(list)
       \/ NoParameters
    /\ UNCHANGED <<gotRule, linesRead, saveFile, submitted>>
    /\ UNCHANGED optionVars /\ UNCHANGED connectionVars

Parsed ==
    /\ rpc = "parsed" /\ todo = <<>>
    /\ IF trouble \subseteq {"null"} THEN GoOn("connect") ELSE EndRule(10)
    /\ UNCHANGED <<saveFile, submitted>> /\ UNCHANGED connectionVars

\* Mutant: also if the file came from the server.
ConnectRuleAgain ==
    /\ rpc = "connect"
    /\ \/ (EndRule(1) \/ EndRule(2) \/ EndRule(7)) /\ UNCHANGED connectionVars
       \/ GoOn("execute") /\ connected' = "yes" /\ logins' = logins + 1
    /\ UNCHANGED <<saveFile, submitted>>

\* Not again if the file came from the server.
ConnectRule ==
    /\ rpc = "connect"
    /\ \/ connected = "yes" /\ GoOn("execute") /\ UNCHANGED connectionVars
       \/ /\ connected # "yes"
          /\ EndRule(1) \/ EndRule(2) \/ EndRule(7)
          /\ UNCHANGED connectionVars
       \/ /\ connected # "yes"
          /\ GoOn("execute") /\ connected' = "yes" /\ logins' = logins + 1
    /\ UNCHANGED <<saveFile, submitted>>

\* rcExecMyRule, its outputs and rcDisconnect.
ExecMyRule ==
    /\ rpc = "execute"
    /\ \/ submitted' = TRUE /\ EndRule(0)
       \/ submitted' \in BOOLEAN /\ EndRule(4)
    /\ connected' = "no"
    /\ UNCHANGED <<saveFile, logins>>

IruleIdle ==
    /\ rpc = "none" /\ exitRule = Running /\ NoMemory
    /\ saveFile = FALSE /\ connected = "no" /\ logins = 0 /\ submitted = FALSE

StartIrule ==
    /\ rpc = "none"
    /\ MoveTo("start")
    /\ mode' \in {"new", "old", "line"}
    /\ string' \in BOOLEAN
    /\ \E n \in 0 .. MaxArguments : arguments' \in [1 .. n -> IF mode' = "line" THEN {} ELSE Arguments]
    /\ UNCHANGED <<gotRule, linesRead, saveFile, submitted, trouble>>
    /\ UNCHANGED connectionVars /\ UNCHANGED inputVars

IruleSteps ==
    \/ ParseProgramOptions \/ FetchFile \/ OpenFile \/ ReadLine \/ BadList \/ NoMoreLines
    \/ EndOfFile \/ CommandLine \/ NextInput \/ NoInputList \/ Parsed \/ ConnectRule \/ ExecMyRule
=============================================================================
