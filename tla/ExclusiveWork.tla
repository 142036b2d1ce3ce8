---------------------------- MODULE ExclusiveWork ----------------------------
(***************************************************************************)
(* What the runtime promises about the executor work of one Run (ownership *)
(* in docs and in scheduler-store.ts): there is at most one owner at a      *)
(* time, a piece of work is held by at most one attempt, only the owner     *)
(* that handed it out finishes it, a later owner must take it back before   *)
(* it hands it out again, and finished work is never handed out again.      *)
(***************************************************************************)
EXTENDS Naturals

CONSTANT Work   \* the executor nodes of the Run

VARIABLES
  owner,   \* the number of owners so far; the last one is the current owner
  live,    \* whether the current owner's lease is active
  holder,  \* holder[w]: the owner whose attempt has w, 0 if nobody has it
  done     \* the work whose result was accepted

vars == <<owner, live, holder, done>>

Init ==
  /\ owner = 0 /\ live = FALSE
  /\ holder = [w \in Work |-> 0]
  /\ done = {}

Elect ==
  /\ ~live
  /\ owner' = owner + 1 /\ live' = TRUE
  /\ UNCHANGED <<holder, done>>

Lapse ==
  /\ live
  /\ live' = FALSE
  /\ UNCHANGED <<owner, holder, done>>

Take(w) ==
  /\ live /\ holder[w] = 0 /\ w \notin done
  /\ holder' = [holder EXCEPT ![w] = owner]
  /\ UNCHANGED <<owner, live, done>>

Finish(w) ==
  /\ live /\ holder[w] = owner
  /\ holder' = [holder EXCEPT ![w] = 0]
  /\ done' = done \union {w}
  /\ UNCHANGED <<owner, live>>

\* failure, timeout, pause, cancellation, or recovery from an expired owner
TakeBack(S) ==
  /\ live
  /\ holder' = [w \in Work |-> IF w \in S THEN 0 ELSE holder[w]]
  /\ UNCHANGED <<owner, live, done>>

Next ==
  \/ Elect \/ Lapse
  \/ \E w \in Work : Take(w) \/ Finish(w)
  \/ \E S \in SUBSET Work : TakeBack(S)

Spec == Init /\ [][Next]_vars
=============================================================================
