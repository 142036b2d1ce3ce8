---------------------------- MODULE MCRuntimeLock ----------------------------
(* Small instances of RuntimeLock: three processes. *)
EXTENDS RuntimeLock

CONSTANTS p, q, r
=============================================================================
