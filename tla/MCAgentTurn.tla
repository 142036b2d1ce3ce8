------------------------------ MODULE MCAgentTurn ------------------------------
(* The model of AgentTurn that MCAgentTurn.cfg checks.                      *)
EXTENDS AgentTurn
=============================================================================
