---------------------------- MODULE MCWorkspace ----------------------------
(* Instances of Workspace. *)
EXTENDS Workspace
LongAndShort == <<3, 2>>
ForkPoisoned == {<<2, 2>>}
=============================================================================
