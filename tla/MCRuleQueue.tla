---------------------------- MODULE MCRuleQueue ----------------------------
(***************************************************************************)
(* An instance of RuleQueue: two shells and their command lines.  The      *)
(* rules are alike until they are named, so the named ones are r1 and r2.  *)
(***************************************************************************)
EXTENDS RuleQueue

CONSTANTS a, b, r1, r2, r3, u1, u2

CommandLine(program, everyone, users, names) ==
    [prog |-> program, all |-> everyone, user |-> users, ids |-> names]

Deletes ==
    {CommandLine("iqdel", TRUE, {}, <<>>),
     CommandLine("iqdel", FALSE, {u1}, <<>>),
     CommandLine("iqdel", TRUE, {u1}, <<>>),
     CommandLine("iqdel", FALSE, {}, <<r1, r2>>),
     CommandLine("iqdel", FALSE, {}, <<r1, r1>>)}

Others ==
    {CommandLine("iqdel", FALSE, {u1}, <<>>),
     CommandLine("iqmod", FALSE, {}, <<r1>>),
     CommandLine("iqstat", TRUE, {}, <<>>),
     CommandLine("iqstat", FALSE, {u1}, <<r1>>)}

MCLines == [p \in Shells |-> IF p = a THEN Deletes ELSE Others]
============================================================================
