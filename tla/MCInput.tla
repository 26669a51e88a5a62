------------------------------ MODULE MCInput ------------------------------
(***************************************************************************)
(* Rules with inputs *a and *ab; lines of up to six characters, a buffer  *)
(* that is too small for the longest and room for two words.               *)
(***************************************************************************)
EXTENDS Input

MCLabels == {<<"a">>, <<"a", "b">>}

MCRuleInputs ==
    {input \in Inputs : input.form = "pair"}
    \cup {[label |-> <<"a">>, form |-> "word", value |-> Value("plain", Line)]}
=============================================================================
