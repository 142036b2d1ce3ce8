--------------------------- MODULE MCStoreLifecycle ---------------------------
(* Two processes, a store of layout 1 with an archive or a generation before.   *)
EXTENDS StoreLifecycle

CONSTANTS p, q, r, a, g1, g2, g3, g4
=============================================================================
