----------------------------- MODULE MCRunStore -----------------------------
(* Small frozen workflows for model checking RunStore.                       *)
EXTENDS RunStore, TLC

CONSTANTS a, b, c, r, s

\* one quorum group r of three leaves, where a and b are Signals in MCRunStoreOwners
FlatLeaves == {a, b, c}
FlatGroups == {r}
FlatParent == [n \in Leaves |-> r]
FlatPath   == [n \in Leaves \union {r} |-> {n, r}]
AllQuorum  == [g \in FlatGroups |-> "quorum"]
FlatSymmetry == Permutations({a, b})

\* a root group r of leaf a and a nested group s of leaf b and Signal c
NestedGroups == {r, s}
NestedParent == [n \in {a, b, c, s} |-> IF n \in {a, s} THEN r ELSE s]
NestedPath   == [n \in {a, b, c, s, r} |-> IF n \in {b, c} THEN {n, s, r} ELSE {n, r}]
AllOfRace    == [g \in NestedGroups |-> IF g = r THEN "all" ELSE "race"]

CapTwo == [g \in Groups |-> 2]
CapOne == [g \in Groups |-> 1]

NoLeaf   == {}
OneLeaf  == {a}
TwoLeaves == {a, b}
LastLeaf  == {c}

\* the workflows of both instances are of the kind that the theorems speak of
ASSUME PlainTree == NestedPlain
=============================================================================
