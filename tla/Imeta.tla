-------------------------------- MODULE Imeta --------------------------------
(***************************************************************************)
(* imeta: one command that changes metadata.  add, set, rm, rmi and cp     *)
(* pass their arguments on; mod sorts up to four further arguments, the    *)
(* old units and the new name, value and units with their labels.          *)
(***************************************************************************)
EXTENDS ClientPhases, FiniteSetsExt

CONSTANT
    Words       \* what an argument may say

VARIABLES
    given,      \* the further arguments of mod, as typed
    sent        \* the call of mod that was made, or NoCall

avuVars == <<given, sent>>

NoCall == [units |-> <<>>, new |-> <<>>]

\* An argument with its label: n:, v:, u: or none.
Argument == [label : {"n", "v", "u", "none"}, word : Words]

\* The status of help with too many words (SYS_INVALID_INPUT_PARAM) is not mapped.
Imeta ==
    <<Options(1), Check(1), Check(0), Check(-130000), Check(1), Connect(2), Login(3), [is |-> "command"]>>

ImetaPhases == [imeta |-> Imeta]

Refuse == Disconnect(4) /\ trouble' = trouble \cup {"refused"} /\ UNCHANGED <<done, failed, sent>>

\* modAVUMetadata and modCopyAVUMetadata: the call, and the status of the command.
ModAVUMetadata ==
    /\ \/ done' = {1} /\ failed' = {} /\ Disconnect(0)
       \/ done' \in {{}, {1}} /\ failed' = {1} /\ Disconnect(4)
    /\ UNCHANGED trouble

\* The words a command may have: type, name, attribute, value and units; type,
\* name and metadata id; two types and two names.
Add == 4 .. 5
Rm == 4 .. 5
Rmi == {3}
Set == 4 .. 5
Cp == {4}
Mod == 5 .. 8

\* The commands that pass their words on.  A type or a path may not be one;
\* quit, an empty and an unknown command are refused as well.
DoCommand ==
    /\ In(ImetaPhases, "command")
    /\ \E words \in 0 .. 9 :
         \/ words \in Add \cup Rm \cup Rmi \cup Set \cup Cp /\ ModAVUMetadata /\ UNCHANGED sent
         \/ Refuse
    /\ UNCHANGED given

\* The last argument with this label, as a sequence.
Last1(args, label) ==
    LET those == {i \in DOMAIN args : args[i].label = label}
    IN IF those = {} THEN <<>> ELSE <<args[Max(those)]>>

Repeated(args) == \E i, j \in DOMAIN args : i < j /\ args[i].label = args[j].label /\ args[i].label # "none"

\* Mutant: the value first.
ReorderArgumentsSwapped(attribute, value, unit) == value \o attribute \o unit
\* reorder_arguments: those that are not empty, then as many empty ones as needed.
ReorderArguments(attribute, value, unit) == attribute \o value \o unit

DoMod ==
    /\ In(ImetaPhases, "command")
    /\ \E words \in Mod : given' \in [1 .. words - 4 -> Argument]
    /\ \/ Refuse
       \/ /\ ~Repeated(given')
          /\ sent' = [units |-> Last1(given', "none"),
                      new |-> ReorderArguments(Last1(given', "n"), Last1(given', "v"), Last1(given', "u"))]
          /\ ModAVUMetadata

ImetaSteps == DoCommand \/ DoMod
=============================================================================
