------------------------------ MODULE GetInput ------------------------------
(***************************************************************************)
(* getInput of iadmin, iticket and igroupadmin: a line of the standard     *)
(* input becomes the words of a command.  The buffer and the array of the  *)
(* words have fixed sizes.                                                 *)
(***************************************************************************)
EXTENDS Integers, Sequences, FiniteSets, SequencesExt

CONSTANTS
    BufferSize,     \* of ttybuf: 3000 and 500
    MaxTokens,      \* of cmdToken: 20
    MaxLength       \* bound: characters of a line

ASSUME BufferAssumption == BufferSize \in Nat \ {0, 1} /\ MaxTokens \in Nat \ {0} /\ MaxLength \in Nat

VARIABLES
    gpc,            \* the step getInput is at
    line,           \* history: the line of which the buffer holds a part
    rest,           \* what of the line is still to be read
    ttybuf,
    i,              \* the character looked at
    tokenFlag,      \* 0 between words, 1 in a word, 2 in " ", 3 in ' '
    cpTokenStart,
    cmdToken        \* the words so far

inputLineVars == <<gpc, line, rest, ttybuf, i, tokenFlag, cpTokenStart, cmdToken>>

Newline == "\n"
Blank == " "
SingleQuote == "'"
DoubleQuote == "\""
Quotes == {SingleQuote, DoubleQuote}
Letter == "x"
Characters == {Letter, Blank} \cup Quotes

\* fgets: as much of the line as fits.  The last line may lack its end.
ReadBuffer ==
    /\ gpc \in {"read", "readOn"}
    /\ \E whole \in IF gpc = "readOn" THEN {rest}
                    ELSE UNION {[1 .. n -> Characters] : n \in 0 .. MaxLength} :
         \E text \in IF gpc = "readOn" THEN {rest} ELSE {whole, Append(whole, Newline)} :
            LET taken == SubSeq(text, 1, Min({Len(text), BufferSize - 1})) IN
            /\ text # <<>>
            /\ line' = IF gpc = "readOn" THEN line ELSE text
            /\ ttybuf' = taken
            /\ rest' = SubSeq(text, Len(taken) + 1, Len(text))
    /\ i' = 1 /\ cpTokenStart' = 1 /\ tokenFlag' = 0 /\ cmdToken' = <<>>
    /\ gpc' = "scan"

\* iadmin goes on as if "q" was entered, the others exit.
EndOfInput ==
    /\ gpc = "read"
    /\ gpc' = "end"
    /\ UNCHANGED <<line, rest, ttybuf, i, tokenFlag, cpTokenStart, cmdToken>>

\* cmdToken[nTokens++] = cpTokenStart; the word ends before i.
TakeToken == cmdToken' = Append(cmdToken, SubSeq(ttybuf, cpTokenStart, i - 1))

\* At the end of what was read, without a newline, the last word is not taken.
Scanned == i > Len(ttybuf)

Current == ttybuf[i]

EndOfLine ==
    /\ gpc = "scan" /\ ~Scanned /\ Current = Newline
    /\ TakeToken
    /\ gpc' = "parsed"
    /\ UNCHANGED <<line, rest, ttybuf, i, tokenFlag, cpTokenStart>>

\* What a character between words begins.
Opens(c) == CASE c = SingleQuote -> 3 [] c = DoubleQuote -> 2 [] c = Blank -> 0 [] OTHER -> 1

BetweenWords ==
    /\ gpc = "scan" /\ ~Scanned /\ Current # Newline /\ tokenFlag = 0
    /\ tokenFlag' = Opens(Current)
    /\ cpTokenStart' = IF Current \in Quotes \cup {Blank} THEN cpTokenStart + 1 ELSE cpTokenStart
    /\ i' = i + 1
    /\ UNCHANGED <<gpc, line, rest, ttybuf, cmdToken>>

\* Mutant: any quote ends a quoted word.
EndsAny(flag) == IF flag = 1 THEN {Blank} ELSE Quotes
\* The character that ends a word.
Ends(flag) == CASE flag = 1 -> {Blank} [] flag = 2 -> {DoubleQuote} [] flag = 3 -> {SingleQuote}

InWord ==
    /\ gpc = "scan" /\ ~Scanned /\ Current # Newline /\ tokenFlag # 0
    /\ IF Current \in Ends(tokenFlag)
       THEN TakeToken /\ cpTokenStart' = i + 1 /\ tokenFlag' = 0
       ELSE UNCHANGED <<cmdToken, cpTokenStart, tokenFlag>>
    /\ i' = i + 1
    /\ UNCHANGED <<gpc, line, rest, ttybuf>>

BufferEnds ==
    /\ gpc = "scan" /\ Scanned
    /\ gpc' = "parsed"
    /\ UNCHANGED <<line, rest, ttybuf, i, tokenFlag, cpTokenStart, cmdToken>>

\* A word too many is written behind the array: anything may follow, here the end.
Overrun ==
    /\ gpc \in {"scan", "parsed"} /\ Len(cmdToken) > MaxTokens
    /\ gpc' = "overrun"
    /\ UNCHANGED <<line, rest, ttybuf, i, tokenFlag, cpTokenStart, cmdToken>>

\* The command is carried out; the loop asks for the next.
NextCommand ==
    /\ gpc = "parsed"
    /\ IF rest # <<>>
       THEN gpc' = "readOn" /\ UNCHANGED <<line, ttybuf, i, tokenFlag, cpTokenStart, cmdToken>>
       ELSE /\ gpc' = "read" /\ line' = <<>> /\ ttybuf' = <<>> /\ cmdToken' = <<>>
            /\ i' = 1 /\ tokenFlag' = 0 /\ cpTokenStart' = 1
    /\ UNCHANGED rest

GetInputIdle ==
    /\ gpc = "none" /\ line = <<>> /\ rest = <<>> /\ ttybuf = <<>> /\ cmdToken = <<>>
    /\ i = 1 /\ tokenFlag = 0 /\ cpTokenStart = 1

StartGetInput ==
    /\ gpc = "none" /\ gpc' = "read"
    /\ UNCHANGED <<line, rest, ttybuf, i, tokenFlag, cpTokenStart, cmdToken>>

GetInputSteps ==
    \/ ReadBuffer \/ EndOfInput \/ EndOfLine \/ BetweenWords \/ InWord \/ BufferEnds
    \/ Overrun \/ NextCommand
=============================================================================
