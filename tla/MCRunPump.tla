----------------------------- MODULE MCRunPump -----------------------------
(* One group of two Tasks for model checking RunPump.                 *)
EXTENDS RunPump

CONSTANTS a, b, r

OneTask  == {a}
TwoTasks == {a, b}
OneGroup == {r}
Flat     == [n \in Leaves |-> r]
FlatPath == [n \in Leaves \union {r} |-> {n, r}]
AllAll   == [g \in OneGroup |-> "all"]
CapTwo   == [g \in OneGroup |-> 2]
NoLeaf   == {}

\* a workflow of the kind that the theorems speak of
ASSUME PlainTree == NestedPlain
=============================================================================
