-------------------------- MODULE MCSessionSupervisor --------------------------
(* The model of SessionSupervisor that its configurations check.            *)
EXTENDS SessionSupervisor
=============================================================================
