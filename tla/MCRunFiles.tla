------------------------------ MODULE MCRunFiles ------------------------------
(* Small instances of RunFiles: Runs of one workflow. *)
EXTENDS RunFiles, TLC

CONSTANTS p, q, r, s, t, w

OneSource == [x \in Run |-> w]
FilesSymmetry == Permutations(Proc) \union Permutations(Run)
=============================================================================
