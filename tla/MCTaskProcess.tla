--------------------------- MODULE MCTaskProcess ---------------------------
(* The model of TaskProcess that MCTaskProcess.cfg checks.                *)
EXTENDS TaskProcess
=============================================================================
