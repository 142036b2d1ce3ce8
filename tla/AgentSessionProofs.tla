--------------------------- MODULE AgentSessionProofs ---------------------------
(***************************************************************************)
(* What holds of AgentSession for any number of attempts, turns, directives, *)
(* sessions of the process and controls.                                    *)
(***************************************************************************)
EXTENDS AgentSession, FiniteSetTheorems, TLAPS

-----------------------------------------------------------------------------
(* The inductive invariant                                                  *)

\* attempts are numbered without gaps, so the next number is unused
Numbered == \E m \in 0 .. MaxAttempts : Made = 1 .. m

\* one fiber at a time, and none before the directives are reconciled
OneFiber ==
  /\ \A j, k \in Attempts : at[j] # "idle" /\ at[k] # "idle" => j = k
  /\ pump \in {"off", "claimed", "reconciling"} => \A k \in Attempts : at[k] = "idle"

\* a started attempt is the only one, and its leaf runs with no directive
StartedAlone ==
  \A k \in Attempts : att[k] = "started" =>
    /\ inst = "running" /\ pend = NoSteer
    /\ \A j \in Attempts : att[j] = "started" => j = k

\* the directive that a leaf waits for or starts with, and how far that one is
PendingIsKnown ==
  /\ pend.id # 0 => \/ inst = "running" /\ steer[pend.id].phase = "draining"
                    \/ inst = "ready" /\ steer[pend.id].phase = "queued"
  /\ inst = "ready" \/ pend.id = 0 => pend.seq = pend.id
TagIsQueued ==
  \A k \in Attempts :
    /\ tag[k].seq = tag[k].id
    /\ tag[k].id # 0 => steer[tag[k].id].phase = "queued"
FencesAttempt == \A s \in Steers : steer[s].phase # "none" => steer[s].at \in Attempts

\* a leaf that runs has an attempt, or the directive that ended its last one
RunningIsServed == inst = "running" => Started # {} \/ pend.id # 0

\* a directive goes on with a live session
SteeredIsLive ==
  /\ pend.id # 0 => live
  /\ \A k \in Attempts : att[k] = "started" /\ tag[k].id # 0 => live

\* a generation is made by an attempt of its own, and is unused before
Generations ==
  /\ gen # 0 => att[gen] # "none"
  /\ live => gen # 0
  /\ \A k \in Attempts : bound[k] <= gen /\ (at[k] = "starting" => gen < k)
  /\ \A g \in Attempts : g > gen => cp[g] = NoCheck

\* what the checkpoint of the session says while the fiber of attempt k uses it
Holds(k) ==
  /\ at[k] \in {"opening", "leased", "turn", "repair", "closing"} =>
       gen # 0 /\ live /\ bound[k] = gen
  /\ at[k] \in {"opening", "leased"} => cp[gen].at = k /\ cp[gen].c = "not_dispatched"
  /\ at[k] = "turn" => cp[gen].at = k /\ cp[gen].c \in InFlight
  /\ at[k] = "repair" => cp[gen].at = k /\ cp[gen].c = "terminal_observed"
  /\ at[k] \in {"closing", "over"} /\ res[k] = "completed" =>
       gen # 0 /\ cp[gen].at = k /\ cp[gen].c = "terminal_observed"
FiberHolds == \A k \in Attempts : Holds(k)

\* a turn is dispatched only while one is left
Left(k) ==
  /\ att[k] = "none" => at[k] = "idle"
  /\ att[k] = "none" \/ at[k] \in {"starting", "opening"} => turns[k] = 0
  /\ at[k] \in {"leased", "repair"} => turns[k] < MaxTurns
TurnsLeft == \A k \in Attempts : Left(k)

LeafInv  == Numbered /\ StartedAlone /\ PendingIsKnown /\ TagIsQueued
            /\ FencesAttempt /\ RunningIsServed
FiberInv == OneFiber /\ FiberHolds /\ TurnsLeft
AgentInv == AgentTypeOK /\ LeafInv /\ SteeredIsLive /\ Generations /\ FiberInv

\* what is written of a directive or a checkpoint is one again
LEMMA RecordFacts ==
  /\ NoSteer \in Tags /\ NoCheck \in Checkpoints
  /\ \A s \in Steers : [id |-> s, seq |-> s] \in Tags /\ [id |-> s, seq |-> 0] \in Tags
  /\ \A d \in Directives, p \in {"queued", "blocked"} : [d EXCEPT !.phase = p] \in Directives
  /\ \A k \in Attempts : [at |-> k, phase |-> "draining"] \in Directives
  /\ [at |-> 0, phase |-> "none"] \in Directives
  /\ \A c \in Checkpoints, x \in {"terminal_observed"} \union InFlight \union Unknown :
       [c EXCEPT !.c = x] \in Checkpoints
  /\ \A k \in Attempts, o \in {"authored", "steering", "repair"} :
       Check("not_dispatched", k, o) \in Checkpoints
BY BoundsAssumption
   DEF NoSteer, NoCheck, Tags, Checkpoints, Directives, Steers, Attempts, Check

LEMMA CheckpointSet ==
  ASSUME cp \in [Attempts -> Checkpoints], NEW g \in Attempts,
         NEW next \in {"terminal_observed"} \union InFlight \union Unknown,
         cp' = [cp EXCEPT ![g].c = next]
  PROVE  /\ cp' \in [Attempts -> Checkpoints] /\ cp'[g].at = cp[g].at /\ cp'[g].c = next
         /\ \A x \in Attempts \ {g} : cp'[x] = cp[x]
<1>1. [cp[g] EXCEPT !.c = next] \in Checkpoints
  BY RecordFacts
<1>2. [cp[g] EXCEPT !.c = next].at = cp[g].at /\ [cp[g] EXCEPT !.c = next].c = next
  BY DEF Checkpoints
<1> QED BY <1>1, <1>2

LEMMA AgentInitInv == Init => AgentInv
<1> SUFFICES ASSUME Init PROVE AgentInv
  OBVIOUS
<1>1. AgentTypeOK
  <2>1. /\ 0 \in 0 .. MaxAttempts /\ 0 \in 0 .. MaxTurns
        /\ 0 \in 0 .. MaxDrives /\ 0 \in 0 .. MaxControls
    BY BoundsAssumption
  <2> QED BY <2>1, RecordFacts DEF Init, AgentTypeOK
<1>2. Numbered
  <2>1. Made = 1 .. 0 /\ 0 \in 0 .. MaxAttempts
    BY BoundsAssumption DEF Init, Made, Attempts
  <2> QED BY <2>1 DEF Numbered
<1>3. /\ StartedAlone /\ PendingIsKnown /\ TagIsQueued /\ FencesAttempt /\ RunningIsServed
      /\ SteeredIsLive
  BY DEF Init, NoSteer, StartedAlone, PendingIsKnown, TagIsQueued, FencesAttempt, RunningIsServed,
         SteeredIsLive
<1>4. Generations /\ OneFiber
  BY DEF Init, Generations, OneFiber
<1>5. FiberHolds /\ TurnsLeft
  BY DEF Init, FiberHolds, Holds, TurnsLeft, Left
<1> QED BY <1>1, <1>2, <1>3, <1>4, <1>5 DEF AgentInv, LeafInv, FiberInv

-----------------------------------------------------------------------------
(* What steps do to the leaf                                                *)

LEMMA SameMade ==
  ASSUME Numbered, \A k \in Attempts : att'[k] = "none" <=> att[k] = "none"
  PROVE  Numbered'
<1>1. Made' = Made
  BY DEF Made
<1> QED BY <1>1 DEF Numbered

LEMMA NextIsUnused ==
  ASSUME Numbered
  PROVE  /\ Cardinality(Made) \in 0 .. MaxAttempts
         /\ Made = 1 .. Cardinality(Made)
<1>1. PICK m \in 0 .. MaxAttempts : Made = 1 .. m
  BY DEF Numbered
<1>2. Cardinality(1 .. m) = m
  BY <1>1, FS_Interval, BoundsAssumption
<1> QED BY <1>1, <1>2

\* the attempt that was started is over: its leaf is too, or is ready again for
\* the directive that the attempt began with
LEMMA NoneStarted ==
  ASSUME LeafInv, UNCHANGED <<tag, steer>>,
         \A k \in Attempts : att'[k] # "started" /\ (att'[k] = "none" <=> att[k] = "none"),
         \/ inst' # "running" /\ pend' = NoSteer
         \/ inst' = "ready" /\ \E k \in Started : pend' = tag[k]
  PROVE  LeafInv'
<1>1. Numbered'
  BY SameMade DEF LeafInv
<1>2. TagIsQueued' /\ FencesAttempt' /\ RunningIsServed' /\ StartedAlone'
  BY DEF LeafInv, TagIsQueued, FencesAttempt, RunningIsServed, StartedAlone
<1>3. PendingIsKnown'
  BY DEF LeafInv, TagIsQueued, PendingIsKnown, NoSteer, Started
<1> QED BY <1>1, <1>2, <1>3 DEF LeafInv

\* a pause or a recovery takes the started attempt back
LEMMA Requeued ==
  ASSUME AgentTypeOK, LeafInv, SteeredIsLive, UNCHANGED <<tag, steer, live>>,
         NEW a \in {"superseded", "cancelled"},
         \/ Started = {} /\ UNCHANGED <<att, inst, pend>>
         \/ \E k \in Started : Requeue(k, a)
  PROVE  /\ LeafInv' /\ SteeredIsLive'
         /\ inst' \in {"ready", inst} /\ pend' \in Tags
         /\ att' \in [Attempts -> {"none", "started", "completed", "failed", "cancelled", "superseded"}]
         /\ \A k \in Attempts : att'[k] = "none" <=> att[k] = "none"
<1>1. CASE Started = {} /\ UNCHANGED <<att, inst, pend>>
  <2>1. Made' = Made /\ Started' = Started
    BY <1>1 DEF Made, Started
  <2> QED BY <1>1, <2>1 DEF LeafInv, Numbered, StartedAlone, PendingIsKnown, TagIsQueued,
          FencesAttempt, RunningIsServed, SteeredIsLive, AgentTypeOK
<1>2. ASSUME NEW k \in Started, Requeue(k, a)
      PROVE  /\ LeafInv' /\ SteeredIsLive'
             /\ inst' \in {"ready", inst} /\ pend' \in Tags
             /\ att' \in [Attempts -> {"none", "started", "completed", "failed", "cancelled", "superseded"}]
             /\ \A j \in Attempts : att'[j] = "none" <=> att[j] = "none"
  <2>1. k \in Attempts /\ att[k] = "started"
    BY DEF Started
  <2>2. att' = [att EXCEPT ![k] = a] /\ inst' = "ready" /\ pend' = tag[k]
    BY <1>2 DEF Requeue
  <2>3. \A j \in Attempts : att'[j] # "started" /\ (att'[j] = "none" <=> att[j] = "none")
    BY <2>1, <2>2 DEF AgentTypeOK, LeafInv, StartedAlone
  <2>4. LeafInv'
    BY <2>2, <2>3, NoneStarted
  <2>5. SteeredIsLive'
    BY <2>1, <2>2, <2>3 DEF SteeredIsLive
  <2> QED BY <2>1, <2>2, <2>3, <2>4, <2>5 DEF AgentTypeOK
<1> QED BY <1>1, <1>2

\* tryReconcileAgentSteers always finds the first directive
LEMMA LeastDirective ==
  ASSUME Draining # {}
  PROVE  (CHOOSE x \in Draining : \A y \in Draining : x <= y) \in Draining
<1>1. Draining \subseteq Nat
  BY DEF Draining, Steers
<1>2. \E x \in Draining : \A y \in Draining : x <= y
  <2>1. IsWellFoundedOn(OpToRel(<, Nat), Nat)
    BY NatLessThanWellFounded
  <2>2. PICK x \in Draining : \A y \in Draining : <<y, x>> \notin OpToRel(<, Nat)
    BY <1>1, <2>1, WFMin
  <2>3. \A y \in Draining : ~(y < x)
    BY <1>1, <2>2 DEF OpToRel
  <2> QED BY <1>1, <2>3
<1> QED BY <1>2

\* the directive of a leaf is settled by the end of the turn that it fenced
LEMMA DirectiveSettled ==
  ASSUME AgentTypeOK, LeafInv, SteeredIsLive, UNCHANGED <<att, tag, live>>,
         NEW s \in Draining, NEW next, Settleable(s), SettleDirective(s, next)
  PROVE  /\ LeafInv' /\ SteeredIsLive'
         /\ steer' \in [Steers -> Directives] /\ pend' \in Tags /\ failures' \in Nat
         /\ inst' \in {"ready", "failed", inst}
<1> USE DEF LeafInv
<1>1. /\ s \in Steers /\ s # 0 /\ steer[s].phase = "draining" /\ steer[s] \in Directives
      /\ inst = "running" /\ pend.id = s
  BY BoundsAssumption DEF Draining, Settleable, Steers, AgentTypeOK
<1>2. live /\ \A k \in Attempts : att[k] # "started"
  BY <1>1 DEF SteeredIsLive, StartedAlone, NoSteer
<1>3. Numbered' /\ StartedAlone'
  BY <1>2, SameMade DEF StartedAlone
<1>4. SteeredIsLive'
  BY <1>2 DEF SteeredIsLive
<1>5. CASE next = "terminal_observed"
  <2>1. /\ steer' = [steer EXCEPT ![s].phase = "queued"]
        /\ inst' = "ready" /\ pend' = [id |-> s, seq |-> s] /\ failures' = failures
    BY <1>5 DEF SettleDirective
  <2>2. /\ steer' \in [Steers -> Directives] /\ steer'[s].phase = "queued"
        /\ \A x \in Steers \ {s} : steer'[x] = steer[x]
    BY <1>1, <2>1, RecordFacts DEF AgentTypeOK, Directives
  <2>3. TagIsQueued' /\ FencesAttempt'
    BY <1>1, <2>1, <2>2 DEF TagIsQueued, FencesAttempt, AgentTypeOK, Tags, Steers, Directives
  <2>4. PendingIsKnown' /\ RunningIsServed'
    BY <2>1, <2>2 DEF PendingIsKnown, RunningIsServed
  <2> QED BY <1>1, <1>3, <1>4, <2>1, <2>2, <2>3, <2>4, RecordFacts DEF AgentTypeOK
<1>6. CASE next \in Unknown /\ next # "terminal_observed"
  <2>1. /\ steer' = [steer EXCEPT ![s].phase = "blocked"]
        /\ inst' = "failed" /\ pend' = NoSteer /\ failures' = failures + 1
    BY <1>6 DEF SettleDirective
  <2>2. steer' \in [Steers -> Directives] /\ \A x \in Steers \ {s} : steer'[x] = steer[x]
    BY <1>1, <2>1, RecordFacts DEF AgentTypeOK, Directives
  <2>3. TagIsQueued' /\ FencesAttempt'
    BY <1>1, <2>1, <2>2 DEF TagIsQueued, FencesAttempt, AgentTypeOK, Tags, Steers, Directives
  <2>4. PendingIsKnown' /\ RunningIsServed'
    BY <2>1 DEF PendingIsKnown, RunningIsServed, NoSteer
  <2> QED BY <1>3, <1>4, <2>1, <2>2, <2>3, <2>4, RecordFacts DEF AgentTypeOK
<1>7. CASE next \notin Unknown /\ next # "terminal_observed"
  <2>1. UNCHANGED <<steer, inst, pend, failures>>
    BY <1>7 DEF SettleDirective
  <2>2. Started' = Started
    BY DEF Started
  <2> QED BY <1>3, <1>4, <2>1, <2>2 DEF AgentTypeOK, TagIsQueued, FencesAttempt, PendingIsKnown,
          RunningIsServed
<1> QED BY <1>5, <1>6, <1>7

LEMMA LeafSame ==
  ASSUME LeafInv, UNCHANGED <<att, inst, pend, tag, steer>>
  PROVE  LeafInv'
<1>1. Made' = Made /\ Started' = Started
  BY DEF Made, Started
<1> QED BY <1>1 DEF LeafInv, Numbered, StartedAlone, PendingIsKnown, TagIsQueued,
          FencesAttempt, RunningIsServed

-----------------------------------------------------------------------------
(* What steps do to the fibers                                              *)

Places  == {"idle", "starting", "opening", "leased", "turn", "repair", "closing", "over"}
Results == {"none", "completed", "failed", "cancelled", "interrupt", "die"}

\* while a fiber is at work the others are idle, so it answers for itself only
LEMMA FiberGoes ==
  ASSUME AgentTypeOK, FiberInv, NEW k \in Attempts, at[k] # "idle",
         NEW x \in Places, at' = [at EXCEPT ![k] = x],
         UNCHANGED <<pump, att>>, \A j \in Attempts \ {k} : turns'[j] = turns[j],
         Holds(k)', Left(k)'
  PROVE  FiberInv'
<1>1. \A j \in Attempts \ {k} : at[j] = "idle" /\ at'[j] = "idle"
  BY DEF FiberInv, OneFiber, AgentTypeOK
<1>2. OneFiber'
  BY <1>1 DEF FiberInv, OneFiber
<1>3. FiberHolds'
  BY <1>1 DEF FiberHolds, Holds
<1>4. TurnsLeft'
  BY <1>1 DEF FiberInv, TurnsLeft, Left
<1> QED BY <1>2, <1>3, <1>4 DEF FiberInv

LEMMA FiberEnds ==
  ASSUME AgentTypeOK, FiberInv, NEW k \in Attempts, at[k] # "idle",
         NEW r \in Results, Ends(k, r), UNCHANGED <<pump, att, turns, gen, live, bound>>,
         r = "completed" => gen # 0 /\ cp'[gen].at = k /\ cp'[gen].c = "terminal_observed"
  PROVE  /\ FiberInv'
         /\ at' \in [Attempts -> Places] /\ res' \in [Attempts -> Results]
         /\ \A j \in Attempts : at'[j] # "starting" \/ at[j] = "starting"
<1> DEFINE x == IF k \in Leased THEN "closing" ELSE "over"
<1>1. at' = [at EXCEPT ![k] = x] /\ res' = [res EXCEPT ![k] = r] /\ x \in Places
  BY DEF Ends, Places
<1>2. k \in Leased => gen # 0 /\ live /\ bound[k] = gen
  BY DEF FiberInv, FiberHolds, Holds, Leased
<1>3. Holds(k)'
  BY <1>1, <1>2 DEF Holds, AgentTypeOK
<1>4. Left(k)'
  BY <1>1 DEF FiberInv, TurnsLeft, Left, AgentTypeOK
<1>5. FiberInv'
  <2> HIDE DEF x
  <2> QED BY <1>1, <1>3, <1>4, FiberGoes
<1> QED BY <1>1, <1>5 DEF AgentTypeOK, Places, Results

LEMMA FibersGone ==
  ASSUME FiberInv, \A k \in Attempts : at'[k] = "idle" /\ turns'[k] = turns[k],
         \A k \in Attempts : att'[k] = "none" => att[k] = "none"
  PROVE  FiberInv'
BY DEF FiberInv, OneFiber, FiberHolds, Holds, TurnsLeft, Left

\* the turn of a fiber is the session's, and what is written of it stays there
LEMMA TurnAdvances ==
  ASSUME AgentInv, NEW k \in Attempts, at[k] = "turn",
         NEW next \in {"terminal_observed"} \union InFlight \union Unknown,
         Writable(k), Advance(k, next), UNCHANGED <<att, tag, gen, live, bound>>,
         \A j \in Attempts : at'[j] # "starting" \/ at[j] = "starting"
  PROVE  /\ LeafInv' /\ SteeredIsLive' /\ Generations'
         /\ steer' \in [Steers -> Directives] /\ pend' \in Tags /\ failures' \in Nat
         /\ inst' \in {"ready", "failed", inst}
         /\ cp' \in [Attempts -> Checkpoints]
         /\ gen \in Attempts /\ live /\ bound[k] = gen /\ cp'[gen].at = k /\ cp'[gen].c = next
<1> USE DEF AgentInv
<1>1. gen \in Attempts /\ live /\ bound[k] = gen /\ cp[gen].at = k
  BY BoundsAssumption DEF FiberInv, FiberHolds, Holds, AgentTypeOK, Attempts
<1>2. cp' = [cp EXCEPT ![gen].c = next]
  BY <1>1 DEF Advance
<1>3. /\ cp' \in [Attempts -> Checkpoints] /\ cp'[gen].at = k /\ cp'[gen].c = next
      /\ \A g \in Attempts \ {gen} : cp'[g] = cp[g]
  BY <1>1, <1>2, CheckpointSet DEF AgentTypeOK
<1>4. Generations'
  BY <1>1, <1>3, BoundsAssumption DEF Generations, AgentTypeOK, Attempts
<1>5. CASE ~Current(k) /\ \E s \in Draining : steer[s].at = k
  <2>1. PICK s \in Draining : steer[s].at = k /\ SettleDirective(s, next)
    BY <1>5 DEF Advance
  <2>2. Settleable(s)
    BY <1>5, <2>1 DEF Writable
  <2> QED BY <1>1, <1>3, <1>4, <2>1, <2>2, DirectiveSettled
<1>6. CASE ~(~Current(k) /\ \E s \in Draining : steer[s].at = k)
  <2>1. UNCHANGED <<steer, inst, pend, failures>>
    BY <1>6 DEF Advance
  <2>2. LeafInv'
    BY <2>1, LeafSame
  <2>3. SteeredIsLive'
    BY <2>1 DEF SteeredIsLive
  <2> QED BY <1>1, <1>3, <1>4, <2>1, <2>2, <2>3 DEF AgentTypeOK
<1> QED BY <1>5, <1>6

-----------------------------------------------------------------------------
(* Every step keeps the invariant                                           *)

LEMMA PumpKeepsInv ==
  ASSUME AgentInv, PumpStep
  PROVE  AgentInv'
<1> USE DEF AgentInv, durable, fiber, process
<1>1. CASE Start
  <2>1. UNCHANGED <<durable, fiber, incident, controls>> /\ pump = "off" /\ pump' = "claimed"
    BY <1>1 DEF Start
  <2>2. AgentTypeOK'
    BY <1>1, BoundsAssumption DEF Start, AgentTypeOK
  <2>3. LeafInv'
    BY <2>1, LeafSame
  <2>4. SteeredIsLive' /\ Generations'
    BY <2>1 DEF SteeredIsLive, Generations
  <2>5. FiberInv'
    BY <2>1 DEF FiberInv, OneFiber, FiberHolds, Holds, TurnsLeft, Left
  <2> QED BY <2>2, <2>3, <2>4, <2>5
<1>2. CASE Recover
  <2>1. /\ UNCHANGED <<run, tag, steer, failures, gen, live, cp, bound, fiber,
                       held, incident, drives, controls>>
        /\ pump = "claimed" /\ pump' = "reconciling"
        /\ \/ Started = {} /\ UNCHANGED <<att, inst, pend>>
           \/ \E k \in Started : Requeue(k, "superseded")
    BY <1>2 DEF Recover
  <2>2. /\ LeafInv' /\ SteeredIsLive'
        /\ inst' \in {"ready", inst} /\ pend' \in Tags
        /\ att' \in [Attempts -> {"none", "started", "completed", "failed", "cancelled", "superseded"}]
        /\ \A k \in Attempts : att'[k] = "none" <=> att[k] = "none"
    BY <2>1, Requeued
  <2>3. AgentTypeOK'
    BY <2>1, <2>2 DEF AgentTypeOK
  <2>4. Generations'
    BY <2>1, <2>2, BoundsAssumption DEF Generations, AgentTypeOK, Attempts
  <2>5. FiberInv'
    BY <2>1, <2>2 DEF FiberInv, OneFiber, FiberHolds, Holds, TurnsLeft, Left
  <2> QED BY <2>2, <2>3, <2>4, <2>5
<1>3. CASE Reconcile
  <2>1. /\ UNCHANGED <<run, att, tag, gen, live, bound, at, turns, res, held, incident,
                       drives, controls>>
        /\ pump = "reconciling" /\ \A k \in Attempts : at[k] = "idle"
    BY <1>3 DEF Reconcile, FiberInv, OneFiber
  <2>2. FiberInv'
    BY <2>1, FibersGone
  <2>3. CASE /\ pump' \in {"on", "failing"} /\ UNCHANGED <<steer, inst, pend, failures, cp>>
             /\ asked' \in {asked, AskAll}
    <3>1. asked' \in [Attempts -> BOOLEAN]
      BY <2>3 DEF AskAll, AgentTypeOK
    <3>2. AgentTypeOK'
      BY <2>1, <2>3, <3>1 DEF AgentTypeOK
    <3>3. LeafInv'
      BY <2>1, <2>3, LeafSame
    <3>4. SteeredIsLive' /\ Generations'
      BY <2>1, <2>3 DEF SteeredIsLive, Generations
    <3> QED BY <2>2, <3>2, <3>3, <3>4
  <2>4. ASSUME NEW s \in Draining, Settleable(s), Reconciled(s), UNCHANGED <<pump, asked>>
        PROVE  AgentInv'
    <3> DEFINE g == bound[steer[s].at]
               next == IF cp[g].c = "terminal_observed" THEN cp[g].c ELSE Lost(cp[g].c)
    <3>1. cp' = [cp EXCEPT ![g].c = next] /\ SettleDirective(s, next)
      BY <2>4 DEF Reconciled
    <3>2. next \in {"terminal_observed"} \union InFlight \union Unknown
      BY DEF Lost, Unknown
    <3> HIDE DEF next, g
    <3>3. /\ LeafInv' /\ SteeredIsLive'
          /\ steer' \in [Steers -> Directives] /\ pend' \in Tags /\ failures' \in Nat
          /\ inst' \in {"ready", "failed", inst}
      BY <2>1, <2>4, <3>1, DirectiveSettled
    <3>4. cp' \in [Attempts -> Checkpoints]
      BY <3>1, <3>2, RecordFacts DEF AgentTypeOK
    <3>5. AgentTypeOK'
      BY <2>1, <2>4, <3>3, <3>4 DEF AgentTypeOK
    <3>6. g <= gen
      BY DEF LeafInv, FencesAttempt, Generations, Draining, g
    <3>7. \A x \in Attempts : x > gen => cp'[x] = cp[x]
      BY <3>1, <3>6 DEF AgentTypeOK, Attempts
    <3>8. Generations'
      BY <2>1, <3>7 DEF Generations, AgentTypeOK
    <3> QED BY <2>2, <3>3, <3>5, <3>8
  <2>5. CASE Draining = {}
    BY <1>3, <2>3, <2>5 DEF Reconcile
  <2>6. CASE Draining # {}
    <3> DEFINE s == CHOOSE x \in Draining : \A y \in Draining : x <= y
    <3>1. IF Settleable(s) THEN Reconciled(s) /\ UNCHANGED <<pump, asked>>
          ELSE pump' = "failing" /\ asked' = AskAll /\ UNCHANGED <<steer, inst, pend, failures, cp>>
      BY <1>3, <2>6 DEF Reconcile
    <3>2. s \in Draining
      BY <2>6, LeastDirective
    <3> HIDE DEF s
    <3> QED BY <2>3, <2>4, <3>1, <3>2
  <2> QED BY <2>5, <2>6
<1>4. CASE Admit
  <2> DEFINE k == Cardinality(Made) + 1
  <2>1. /\ UNCHANGED <<run, steer, failures, gen, live, cp, bound, asked, turns, res, process, controls>>
        /\ pump = "on" /\ inst = "ready" /\ \A j \in Attempts : at[j] = "idle"
        /\ k <= MaxAttempts /\ inst' = "running" /\ pend' = NoSteer
        /\ att' = [att EXCEPT ![k] = "started"] /\ tag' = [tag EXCEPT ![k] = pend]
        /\ at' = [at EXCEPT ![k] = "starting"]
    BY <1>4 DEF Admit, Active
  <2>2. /\ Cardinality(Made) \in 0 .. MaxAttempts /\ Made = 1 .. Cardinality(Made)
    BY NextIsUnused DEF LeafInv
  <2>3. k \in Attempts /\ Made = 1 .. (k - 1)
    BY <2>1, <2>2, BoundsAssumption DEF Attempts
  <2> HIDE DEF k
  <2>4. att[k] = "none" /\ \A j \in Attempts : att[j] # "none" => j < k
    BY <2>3, BoundsAssumption DEF Made, Attempts
  <2>5. \A j \in Attempts : att[j] # "started"
    BY <2>1 DEF LeafInv, StartedAlone
  <2>6. AgentTypeOK'
    BY <2>1, <2>3, RecordFacts DEF AgentTypeOK
  <2>7. Numbered'
    <3>1. Made' = Made \union {k}
      BY <2>1, <2>3 DEF Made, AgentTypeOK
    <3>2. Made' = 1 .. k /\ k \in 0 .. MaxAttempts
      BY <2>3, <3>1, BoundsAssumption DEF Attempts
    <3> QED BY <3>2 DEF Numbered
  <2>8. StartedAlone' /\ PendingIsKnown'
    BY <2>1, <2>3, <2>5 DEF StartedAlone, PendingIsKnown, NoSteer, AgentTypeOK
  <2>9. TagIsQueued' /\ FencesAttempt'
    BY <2>1, <2>3 DEF LeafInv, TagIsQueued, FencesAttempt, PendingIsKnown, AgentTypeOK
  <2>10. RunningIsServed' /\ SteeredIsLive'
    BY <2>1, <2>3, <2>5 DEF RunningIsServed, Started, SteeredIsLive, NoSteer, AgentTypeOK
  <2>11. Generations'
    <3>1. gen # 0 => gen < k
      BY <2>4, BoundsAssumption DEF Generations, AgentTypeOK, Attempts
    <3>2. gen < k
      BY <2>3, <3>1, BoundsAssumption DEF Attempts, AgentTypeOK
    <3> QED BY <2>1, <2>3, <3>2 DEF Generations, AgentTypeOK
  <2>12. FiberInv'
    <3>1. OneFiber'
      BY <2>1, <2>3 DEF OneFiber, AgentTypeOK
    <3>2. FiberHolds'
      BY <2>1, <2>3 DEF FiberHolds, Holds, AgentTypeOK
    <3>3. TurnsLeft'
      BY <2>1, <2>3, <2>4 DEF FiberInv, TurnsLeft, Left, AgentTypeOK
    <3> QED BY <3>1, <3>2, <3>3 DEF FiberInv
  <2> QED BY <2>6, <2>7, <2>8, <2>9, <2>10, <2>11, <2>12 DEF LeafInv
<1>5. ASSUME UNCHANGED <<durable, at, turns, res, held, incident, drives, controls>>,
             pump' = pump \/ pump' = "leaving", asked' \in [Attempts -> BOOLEAN]
      PROVE  AgentInv'
  <2>1. AgentTypeOK'
    BY <1>5 DEF AgentTypeOK
  <2>2. LeafInv'
    BY <1>5, LeafSame
  <2>3. SteeredIsLive' /\ Generations'
    BY <1>5 DEF SteeredIsLive, Generations
  <2>4. FiberInv'
    BY <1>5 DEF FiberInv, OneFiber, FiberHolds, Holds, TurnsLeft, Left
  <2> QED BY <2>1, <2>2, <2>3, <2>4
<1>6. AskAll \in [Attempts -> BOOLEAN]
  BY DEF AskAll, AgentTypeOK
<1>7. CASE AbortFenced
  <2>1. asked' \in [Attempts -> BOOLEAN]
    BY <1>7 DEF AbortFenced, AgentTypeOK, Active
  <2> QED BY <1>5, <1>7, <2>1 DEF AbortFenced
<1>8. CASE Collect
  <2>1. PICK k \in Active :
          /\ at[k] = "over" /\ at' = [at EXCEPT ![k] = "idle"]
          /\ \/ /\ res[k] = "interrupt" /\ att[k] # "started"
                /\ UNCHANGED <<pump, asked, att, inst, failures, pend>>
             \/ /\ res[k] = "die" \/ (res[k] = "interrupt" /\ att[k] = "started")
                /\ pump' = "failing" /\ asked' = AskAll
                /\ UNCHANGED <<att, inst, failures, pend>>
             \/ /\ res[k] \in {"completed", "failed", "cancelled"} /\ held
                /\ Commit(k)
                /\ UNCHANGED <<pump, asked>>
             \/ /\ res[k] \in {"completed", "failed", "cancelled"} /\ ~held
                /\ pump' = "leaving" /\ asked' = AskAll
                /\ UNCHANGED <<att, inst, failures, pend>>
    BY <1>8 DEF Collect
  <2>2. /\ UNCHANGED <<run, tag, steer, gen, live, cp, bound, turns, res, held, incident,
                       drives, controls>>
        /\ k \in Attempts /\ pump = "on"
    BY <1>8 DEF Collect, Active
  <2>3. /\ at' \in [Attempts -> Places] /\ \A j \in Attempts : at'[j] = "idle"
    BY <2>1, <2>2 DEF FiberInv, OneFiber, AgentTypeOK, Places
  <2>4. /\ pump' \in {"on", "failing", "leaving"} /\ asked' \in [Attempts -> BOOLEAN]
    BY <1>6, <2>1, <2>2 DEF AgentTypeOK
  <2>5. CASE UNCHANGED <<att, inst, failures, pend>>
    <3>1. AgentTypeOK'
      BY <2>2, <2>3, <2>4, <2>5 DEF AgentTypeOK, Places
    <3>2. LeafInv'
      BY <2>2, <2>5, LeafSame
    <3>3. SteeredIsLive' /\ Generations'
      BY <2>2, <2>3, <2>5 DEF SteeredIsLive, Generations
    <3>4. FiberInv'
      BY <2>2, <2>3, <2>5, FibersGone
    <3> QED BY <3>1, <3>2, <3>3, <3>4
  <2>6. CASE /\ res[k] \in {"completed", "failed", "cancelled"} /\ att[k] = "started"
             /\ RecordResult(k)
    <3>1. /\ att' = [att EXCEPT ![k] = res[k]] /\ inst' = res[k] /\ pend' = NoSteer
          /\ failures' \in Nat
      BY <2>6 DEF RecordResult, AgentTypeOK
    <3>2. \A j \in Attempts : att'[j] # "started" /\ (att'[j] = "none" <=> att[j] = "none")
      BY <2>2, <2>6, <3>1 DEF LeafInv, StartedAlone, AgentTypeOK
    <3>3. AgentTypeOK'
      BY <2>2, <2>3, <2>4, <2>6, <3>1, RecordFacts DEF AgentTypeOK, Places
    <3>4. LeafInv'
      BY <2>2, <2>6, <3>1, <3>2, NoneStarted
    <3>5. SteeredIsLive'
      BY <2>2, <3>1, <3>2 DEF SteeredIsLive, NoSteer
    <3>6. Generations'
      BY <2>2, <2>3, <3>2, BoundsAssumption DEF Generations, AgentTypeOK, Attempts
    <3>7. FiberInv'
      BY <2>2, <2>3, <3>2, FibersGone
    <3> QED BY <3>3, <3>4, <3>5, <3>6, <3>7
  <2> QED BY <2>1, <2>5, <2>6 DEF Commit
<1>9. CASE Leave
  BY <1>5, <1>6, <1>9 DEF Leave
<1>10. CASE Off
  <2>1. /\ UNCHANGED <<durable, turns, asked, res, drives, controls>>
        /\ at' \in [Attempts -> {"idle"}] /\ pump' = "off" /\ held' = FALSE /\ incident' \in BOOLEAN
    BY <1>10 DEF Off
  <2>2. AgentTypeOK'
    BY <2>1 DEF AgentTypeOK
  <2>3. LeafInv'
    BY <2>1, LeafSame
  <2>4. SteeredIsLive' /\ Generations'
    BY <2>1 DEF SteeredIsLive, Generations
  <2>5. FiberInv'
    BY <2>1, FibersGone
  <2> QED BY <2>2, <2>3, <2>4, <2>5
<1> QED BY <1>1, <1>2, <1>3, <1>4, <1>7, <1>8, <1>9, <1>10 DEF PumpStep

LEMMA FiberKeepsInv ==
  ASSUME AgentInv, NEW k \in Attempts, FiberStep(k) \/ Observe(k)
  PROVE  AgentInv'
<1> USE DEF AgentInv, durable, fiber, process
<1>1. ASSUME UNCHANGED <<durable, asked, turns, process, controls>>, at[k] # "idle",
             NEW r \in Results \ {"completed"}, Ends(k, r)
      PROVE  AgentInv'
  <2>1. /\ FiberInv' /\ at' \in [Attempts -> Places] /\ res' \in [Attempts -> Results]
        /\ \A j \in Attempts : at'[j] # "starting" \/ at[j] = "starting"
    BY <1>1, FiberEnds
  <2>2. AgentTypeOK'
    BY <1>1, <2>1 DEF AgentTypeOK, Places, Results
  <2>3. LeafInv'
    BY <1>1, LeafSame
  <2>4. SteeredIsLive' /\ Generations'
    BY <1>1, <2>1 DEF SteeredIsLive, Generations
  <2> QED BY <2>1, <2>2, <2>3, <2>4
<1>2. ASSUME UNCHANGED <<run, inst, pend, att, tag, steer, failures, asked, turns, res, process, controls>>,
             at[k] = "starting", Current(k),
             NEW g \in Attempts, gen' = g, live' = TRUE, g >= gen, g <= k, Bound(k, g)
      PROVE  AgentInv'
  <2>1. PICK o \in {"authored", "steering", "repair"} :
          /\ bound' = [bound EXCEPT ![k] = g]
          /\ cp' = [cp EXCEPT ![g] = Check("not_dispatched", k, o)]
          /\ at' = [at EXCEPT ![k] = "opening"]
    BY <1>2 DEF Bound
  <2>2. Check("not_dispatched", k, o) \in Checkpoints
    BY <2>1, RecordFacts
  <2>3. AgentTypeOK'
    BY <1>2, <2>1, <2>2, BoundsAssumption DEF AgentTypeOK, Attempts
  <2>4. LeafInv'
    BY <1>2, LeafSame
  <2>5. SteeredIsLive'
    BY <1>2 DEF SteeredIsLive
  <2>6. Generations'
    <3>1. \A j \in Attempts : at'[j] # "starting"
      BY <1>2, <2>1 DEF FiberInv, OneFiber, AgentTypeOK
    <3>2. att'[g] # "none"
      <4>1. PICK m \in 0 .. MaxAttempts : Made = 1 .. m
        BY DEF LeafInv, Numbered
      <4>2. k \in Made
        BY <1>2 DEF Current, Made
      <4>3. g \in Made
        BY <1>2, <4>1, <4>2, BoundsAssumption DEF Attempts
      <4> QED BY <1>2, <4>3 DEF Made
    <3> QED BY <1>2, <2>1, <3>1, <3>2, BoundsAssumption DEF Generations, AgentTypeOK, Attempts
  <2>7. Holds(k)' /\ Left(k)'
    BY <1>2, <2>1, BoundsAssumption
    DEF Holds, FiberInv, TurnsLeft, Left, AgentTypeOK, Check, Attempts
  <2>8. FiberInv'
    BY <1>2, <2>1, <2>7, FiberGoes DEF Places
  <2> QED BY <2>3, <2>4, <2>5, <2>6, <2>8
<1>3. CASE Bind(k)
  <2>1. /\ UNCHANGED <<run, inst, pend, att, tag, steer, failures, asked, turns, process, controls>>
        /\ at[k] = "starting" /\ gen < k
    BY <1>3 DEF Bind, Generations
  <2>2. ASSUME NEW r \in {"failed", "die"}, Ends(k, r), UNCHANGED <<gen, live, cp, bound>>
        PROVE  AgentInv'
    BY <1>1, <2>1, <2>2 DEF Results
  <2>3. CASE ~Current(k) /\ Ends(k, "die") /\ UNCHANGED <<gen, live, cp, bound>>
    BY <2>2, <2>3
  <2>4. CASE BindFails(k)
    BY <2>2, <2>4 DEF BindFails
  <2>5. CASE Current(k) /\ BindStart(k)
    <3>1. gen + 1 \in Attempts /\ gen + 1 >= gen /\ gen + 1 <= k
      BY <2>1, BoundsAssumption DEF AgentTypeOK, Attempts
    <3>2. gen' = gen + 1 /\ live' = TRUE /\ Bound(k, gen + 1) /\ res' = res
      BY <2>5 DEF BindStart, Bound
    <3> QED BY <1>2, <2>1, <2>5, <3>1, <3>2
  <2>6. CASE Current(k) /\ BindActive(k)
    <3>1. gen' = gen /\ live' = live /\ Bound(k, gen) /\ res' = res
      BY <2>6 DEF BindActive, Bound
    <3>2. live
      <4>1. Operation(k) # "start"
        BY <2>6 DEF BindActive
      <4>2. tag[k].seq # 0 \/ live
        BY <4>1 DEF Operation, AgentTypeOK, Tags
      <4> QED BY <2>6, <4>2 DEF LeafInv, TagIsQueued, SteeredIsLive, Current
    <3>3. gen \in Attempts /\ gen >= gen /\ gen <= k
      BY <2>1, <3>2, BoundsAssumption DEF Generations, AgentTypeOK, Attempts
    <3> QED BY <1>2, <2>1, <2>6, <3>1, <3>2, <3>3
  <2> QED BY <1>3, <2>3, <2>4, <2>5, <2>6 DEF Bind
<1>4. CASE Open(k)
  <2>1. UNCHANGED <<durable, asked, turns, process, controls>> /\ at[k] = "opening"
    BY <1>4 DEF Open
  <2>2. CASE \E r \in {"die", "failed"} : Ends(k, r)
    BY <1>1, <2>1, <2>2 DEF Results
  <2>3. CASE Current(k) /\ at' = [at EXCEPT ![k] = "leased"] /\ UNCHANGED res
    <3>1. Holds(k)' /\ Left(k)'
      BY <2>1, <2>3, BoundsAssumption
      DEF FiberInv, FiberHolds, Holds, TurnsLeft, Left, AgentTypeOK
    <3>2. FiberInv'
      BY <2>1, <2>3, <3>1, FiberGoes DEF Places
    <3>3. AgentTypeOK'
      BY <2>1, <2>3 DEF AgentTypeOK
    <3>4. LeafInv'
      BY <2>1, LeafSame
    <3>5. SteeredIsLive' /\ Generations'
      BY <2>1, <2>3 DEF SteeredIsLive, Generations, AgentTypeOK
    <3> QED BY <3>2, <3>3, <3>4, <3>5
  <2> QED BY <1>4, <2>2, <2>3 DEF Open
<1>5. CASE Dispatch(k)
  <2>1. /\ UNCHANGED <<run, inst, pend, att, tag, steer, failures, gen, live, bound, asked,
                       process, controls>>
        /\ at[k] = "leased"
    BY <1>5 DEF Dispatch
  <2>2. CASE ~Current(k) /\ Ends(k, "die") /\ UNCHANGED <<cp, turns>>
    BY <1>1, <2>1, <2>2 DEF Results
  <2>3. CASE /\ cp' = [cp EXCEPT ![bound[k]].c = "owned_in_flight"]
             /\ at' = [at EXCEPT ![k] = "turn"] /\ turns' = [turns EXCEPT ![k] = @ + 1]
             /\ UNCHANGED res
    <3>1. gen \in Attempts /\ live /\ bound[k] = gen /\ cp[gen].at = k /\ turns[k] < MaxTurns
      BY <2>1, BoundsAssumption
      DEF FiberInv, FiberHolds, Holds, TurnsLeft, Left, AgentTypeOK, Attempts
    <3>2. /\ cp' \in [Attempts -> Checkpoints]
          /\ cp'[gen].at = k /\ cp'[gen].c = "owned_in_flight"
          /\ \A g \in Attempts \ {gen} : cp'[g] = cp[g]
      BY <2>3, <3>1, CheckpointSet DEF InFlight, AgentTypeOK
    <3>3. turns' \in [Attempts -> 0 .. MaxTurns]
      BY <2>3, <3>1, BoundsAssumption DEF AgentTypeOK
    <3>4. AgentTypeOK'
      BY <2>1, <2>3, <3>2, <3>3 DEF AgentTypeOK
    <3>5. LeafInv'
      BY <2>1, LeafSame
    <3>6. SteeredIsLive' /\ Generations'
      BY <2>1, <2>3, <3>1, <3>2 DEF SteeredIsLive, Generations, AgentTypeOK
    <3>7. Holds(k)' /\ Left(k)'
      <4>1. gen # 0 /\ at'[k] = "turn"
        BY <2>1, <2>3, <3>1 DEF AgentTypeOK, Attempts
      <4>2. Holds(k)'
        BY <2>1, <3>1, <3>2, <4>1 DEF Holds, InFlight
      <4>3. Left(k)'
        BY <2>1, <4>1 DEF FiberInv, TurnsLeft, Left
      <4> QED BY <4>2, <4>3
    <3>8. FiberInv'
      BY <2>1, <2>3, <3>7, FiberGoes DEF Places, AgentTypeOK
    <3> QED BY <3>4, <3>5, <3>6, <3>8
  <2> QED BY <1>5, <2>2, <2>3 DEF Dispatch
<1>6. CASE Settle(k)
  <2>1. /\ UNCHANGED <<run, att, tag, gen, live, bound, asked, turns, process, controls>>
        /\ at[k] = "turn"
    BY <1>6 DEF Settle
  <2>2. ASSUME ~Writable(k), NEW r \in {"interrupt", "die"}, Ends(k, r),
               UNCHANGED <<cp, steer, inst, pend, failures>>
        PROVE  AgentInv'
    BY <1>1, <2>1, <2>2 DEF Results
  <2>3. ASSUME Writable(k), NEW o \in Outcomes, Advance(k, Evidence(k, o)), AfterTurn(k, o)
        PROVE  AgentInv'
    <3> DEFINE e == Evidence(k, o)
    <3>1. e \in {"terminal_observed"} \union InFlight \union Unknown /\ (o = "reply" => e = "terminal_observed")
      BY DEF Evidence, Outcomes, Terminal, Lost, Unknown
    <3> HIDE DEF e
    <3>2. \/ \E r \in Results : Ends(k, r) /\ (r = "completed" => o = "reply")
          \/ /\ o = "reply" /\ turns[k] < MaxTurns
             /\ at' = [at EXCEPT ![k] = "repair"] /\ UNCHANGED res
      BY <2>3 DEF AfterTurn, Results
    <3>3. \A j \in Attempts : at'[j] # "starting" \/ at[j] = "starting"
      BY <3>2 DEF Ends, AgentTypeOK
    <3>4. /\ LeafInv' /\ SteeredIsLive' /\ Generations'
          /\ steer' \in [Steers -> Directives] /\ pend' \in Tags /\ failures' \in Nat
          /\ inst' \in {"ready", "failed", inst}
          /\ cp' \in [Attempts -> Checkpoints]
          /\ gen \in Attempts /\ live /\ bound[k] = gen /\ cp'[gen].at = k /\ cp'[gen].c = e
      BY <2>1, <2>3, <3>1, <3>3, TurnAdvances DEF e
    <3>5. CASE \E r \in Results : Ends(k, r) /\ (r = "completed" => o = "reply")
      <4>1. /\ FiberInv' /\ at' \in [Attempts -> Places] /\ res' \in [Attempts -> Results]
        BY <2>1, <3>1, <3>4, <3>5, FiberEnds DEF Attempts
      <4>2. AgentTypeOK'
        BY <2>1, <3>4, <4>1 DEF AgentTypeOK, Places, Results
      <4> QED BY <3>4, <4>1, <4>2
    <3>6. CASE /\ o = "reply" /\ turns[k] < MaxTurns
               /\ at' = [at EXCEPT ![k] = "repair"] /\ UNCHANGED res
      <4>1. Holds(k)' /\ Left(k)'
        BY <2>1, <3>1, <3>4, <3>6 DEF FiberInv, Holds, TurnsLeft, Left, AgentTypeOK, Attempts
      <4>2. FiberInv'
        BY <2>1, <3>6, <4>1, FiberGoes DEF Places
      <4>3. AgentTypeOK'
        BY <2>1, <3>4, <3>6 DEF AgentTypeOK
      <4> QED BY <3>4, <4>2, <4>3
    <3> QED BY <3>2, <3>5, <3>6
  <2> QED BY <1>6, <2>2, <2>3 DEF Settle
<1>7. CASE Repair(k)
  <2>1. /\ UNCHANGED <<run, inst, pend, att, tag, steer, failures, gen, live, bound, asked,
                       turns, process, controls>>
        /\ at[k] = "repair"
    BY <1>7 DEF Repair
  <2>2. CASE ~Current(k) /\ Ends(k, "die") /\ UNCHANGED cp
    BY <1>1, <2>1, <2>2 DEF Results
  <2>3. CASE /\ cp' = [cp EXCEPT ![bound[k]] = Check("not_dispatched", k, "repair")]
             /\ at' = [at EXCEPT ![k] = "leased"] /\ UNCHANGED res
    <3>1. gen \in Attempts /\ live /\ bound[k] = gen
      BY <2>1, BoundsAssumption DEF FiberInv, FiberHolds, Holds, AgentTypeOK, Attempts
    <3>2. /\ cp' \in [Attempts -> Checkpoints]
          /\ cp'[gen].at = k /\ cp'[gen].c = "not_dispatched"
          /\ \A g \in Attempts \ {gen} : cp'[g] = cp[g]
      <4>1. Check("not_dispatched", k, "repair") \in Checkpoints
        BY RecordFacts
      <4> QED BY <2>3, <3>1, <4>1 DEF AgentTypeOK, Check
    <3>3. AgentTypeOK'
      BY <2>1, <2>3, <3>2 DEF AgentTypeOK
    <3>4. LeafInv'
      BY <2>1, LeafSame
    <3>5. SteeredIsLive' /\ Generations'
      BY <2>1, <2>3, <3>1, <3>2 DEF SteeredIsLive, Generations, AgentTypeOK
    <3>6. Holds(k)' /\ Left(k)'
      <4>1. gen # 0 /\ at'[k] = "leased"
        BY <2>1, <2>3, <3>1 DEF AgentTypeOK, Attempts
      <4>2. Holds(k)'
        BY <2>1, <3>1, <3>2, <4>1 DEF Holds
      <4>3. Left(k)'
        BY <2>1, <4>1 DEF FiberInv, TurnsLeft, Left
      <4> QED BY <4>2, <4>3
    <3>7. FiberInv'
      BY <2>1, <2>3, <3>6, FiberGoes DEF Places
    <3> QED BY <3>3, <3>4, <3>5, <3>7
  <2> QED BY <1>7, <2>2, <2>3 DEF Repair
<1>8. CASE GiveUp(k)
  BY <1>1, <1>8 DEF GiveUp, Results
<1>9. CASE Release(k)
  <2>1. /\ UNCHANGED <<durable, asked, turns, process, controls>>
        /\ at[k] = "closing" /\ at' = [at EXCEPT ![k] = "over"]
        /\ res' = [res EXCEPT ![k] = IF asked[k] THEN "interrupt" ELSE @]
    BY <1>9 DEF Release
  <2>2. Holds(k)' /\ Left(k)'
    BY <2>1 DEF FiberInv, FiberHolds, Holds, TurnsLeft, Left, AgentTypeOK
  <2>3. FiberInv'
    BY <2>1, <2>2, FiberGoes DEF Places
  <2>4. AgentTypeOK'
    BY <2>1 DEF AgentTypeOK
  <2>5. LeafInv'
    BY <2>1, LeafSame
  <2>6. SteeredIsLive' /\ Generations'
    BY <2>1 DEF SteeredIsLive, Generations, AgentTypeOK
  <2> QED BY <2>3, <2>4, <2>5, <2>6
<1>10. CASE Observe(k)
  <2>1. /\ UNCHANGED <<run, att, tag, gen, live, bound, fiber, process, controls>>
        /\ at[k] = "turn" /\ Writable(k) /\ Advance(k, "provider_observed")
    BY <1>10 DEF Observe
  <2>2. /\ LeafInv' /\ SteeredIsLive' /\ Generations'
        /\ steer' \in [Steers -> Directives] /\ pend' \in Tags /\ failures' \in Nat
        /\ inst' \in {"ready", "failed", inst}
        /\ cp' \in [Attempts -> Checkpoints]
        /\ gen \in Attempts /\ live /\ bound[k] = gen /\ cp'[gen].at = k
        /\ cp'[gen].c = "provider_observed"
    BY <2>1, TurnAdvances DEF InFlight
  <2>3. AgentTypeOK'
    BY <2>1, <2>2 DEF AgentTypeOK
  <2>4. Holds(k)' /\ Left(k)'
    BY <2>1, <2>2 DEF FiberInv, Holds, TurnsLeft, Left, InFlight, Attempts
  <2>5. FiberInv'
    <3>1. at' = [at EXCEPT ![k] = "turn"]
      BY <2>1 DEF AgentTypeOK
    <3> QED BY <2>1, <2>4, <3>1, FiberGoes DEF Places
  <2> QED BY <2>2, <2>3, <2>5
<1> QED BY <1>3, <1>4, <1>5, <1>6, <1>7, <1>8, <1>9, <1>10 DEF FiberStep

LEMMA ControlKeepsInv ==
  ASSUME AgentInv,
         \/ TimeOut \/ RunEnds \/ Pause \/ Resume \/ CancelLeaf \/ Steer \/ Retry
         \/ Lapse \/ Crash \/ UNCHANGED vars
  PROVE  AgentInv'
<1> USE DEF AgentInv, durable, fiber, process
<1>1. ASSUME UNCHANGED <<gen, live, cp, bound, fiber, pump>>,
             \A k \in Attempts : att'[k] = "none" <=> att[k] = "none"
      PROVE  Generations' /\ FiberInv'
  <2>1. Generations'
    BY <1>1, BoundsAssumption DEF Generations, AgentTypeOK, Attempts
  <2>2. FiberInv'
    BY <1>1 DEF FiberInv, OneFiber, FiberHolds, Holds, TurnsLeft, Left
  <2> QED BY <2>1, <2>2
<1>2. CASE TimeOut
  <2>1. PICK k \in Started : att' = [att EXCEPT ![k] = "failed"]
    BY <1>2 DEF TimeOut
  <2>2. /\ UNCHANGED <<run, tag, steer, gen, live, cp, bound, fiber, process, controls>>
        /\ inst' = "failed" /\ pend' = NoSteer /\ failures' = failures + 1
    BY <1>2 DEF TimeOut
  <2>3. \A j \in Attempts : att'[j] # "started" /\ (att'[j] = "none" <=> att[j] = "none")
    BY <2>1 DEF Started, LeafInv, StartedAlone, AgentTypeOK
  <2>4. AgentTypeOK'
    <3>1. att' \in [Attempts -> {"none", "started", "completed", "failed", "cancelled", "superseded"}]
      BY <2>1 DEF AgentTypeOK, Started
    <3>2. failures' \in Nat /\ pend' \in Tags
      BY <2>2, RecordFacts DEF AgentTypeOK
    <3> QED BY <2>2, <3>1, <3>2 DEF AgentTypeOK
  <2>5. LeafInv'
    BY <2>2, <2>3, NoneStarted
  <2>6. SteeredIsLive'
    BY <2>2, <2>3 DEF SteeredIsLive, NoSteer
  <2> QED BY <1>1, <2>2, <2>3, <2>4, <2>5, <2>6
<1>3. CASE RunEnds \/ Resume
  <2>1. /\ UNCHANGED <<inst, pend, att, tag, steer, failures, gen, live, cp, bound, fiber, pump, held, drives>>
        /\ run' \in {"failed", "closed", "active"} /\ incident' \in BOOLEAN
        /\ controls' \in 0 .. MaxControls
    <3>1. CASE RunEnds
      BY <3>1 DEF RunEnds, AgentTypeOK
    <3>2. CASE Resume
      <4>1. controls' \in 0 .. MaxControls
        BY <3>2, BoundsAssumption DEF Resume, Control, AgentTypeOK
      <4> QED BY <3>2, <4>1 DEF Resume, Lift
    <3> QED BY <1>3, <3>1, <3>2
  <2>2. AgentTypeOK'
    BY <2>1 DEF AgentTypeOK
  <2>3. LeafInv'
    BY <2>1, LeafSame
  <2>4. SteeredIsLive'
    BY <2>1 DEF SteeredIsLive
  <2> QED BY <1>1, <2>1, <2>2, <2>3, <2>4
<1>4. CASE Pause
  <2>1. /\ UNCHANGED <<tag, steer, failures, gen, live, cp, bound, fiber, pump, held, drives>>
        /\ run' = "paused" /\ incident' = FALSE /\ controls' \in 0 .. MaxControls
        /\ \/ Started = {} /\ UNCHANGED <<att, inst, pend>>
           \/ \E k \in Started : Requeue(k, "cancelled")
    BY <1>4, BoundsAssumption DEF Pause, Control, Lift, AgentTypeOK
  <2>2. /\ LeafInv' /\ SteeredIsLive'
        /\ inst' \in {"ready", inst} /\ pend' \in Tags
        /\ att' \in [Attempts -> {"none", "started", "completed", "failed", "cancelled", "superseded"}]
        /\ \A k \in Attempts : att'[k] = "none" <=> att[k] = "none"
    BY <2>1, Requeued
  <2>3. AgentTypeOK'
    BY <2>1, <2>2 DEF AgentTypeOK
  <2> QED BY <1>1, <2>1, <2>2, <2>3
<1>5. CASE CancelLeaf
  <2>1. /\ UNCHANGED <<run, tag, steer, failures, gen, live, cp, bound, fiber, pump, held, drives>>
        /\ incident' = FALSE /\ controls' \in 0 .. MaxControls
        /\ inst' = "cancelled" /\ pend' = NoSteer
        /\ att' = [k \in Attempts |-> IF k \in Started THEN "cancelled" ELSE att[k]]
    BY <1>5, BoundsAssumption DEF CancelLeaf, Control, Lift, AgentTypeOK
  <2>2. \A j \in Attempts : att'[j] # "started" /\ (att'[j] = "none" <=> att[j] = "none")
    BY <2>1 DEF Started
  <2>3. AgentTypeOK'
    BY <2>1, RecordFacts DEF AgentTypeOK
  <2>4. LeafInv'
    BY <2>1, <2>2, NoneStarted
  <2>5. SteeredIsLive'
    BY <2>1, <2>2 DEF SteeredIsLive, NoSteer
  <2> QED BY <1>1, <2>1, <2>2, <2>3, <2>4, <2>5
<1>6. CASE Steer
  <2>1. /\ UNCHANGED <<run, inst, tag, failures, gen, live, cp, bound, fiber, process, controls>>
        /\ pump \in {"claimed", "reconciling", "on"}
    BY <1>6 DEF Steer
  <2>2. PICK s \in Steers, k \in Attempts :
     /\ steer[s].phase = "none"
     /\ Target(k) /\ Proven(k)
     /\ steer' = [steer EXCEPT ![s] = [at |-> k, phase |-> "draining"]]
     /\ pend' = [id |-> s, seq |-> 0]
     /\ att' = [att EXCEPT ![k] = "superseded"]
    BY <1>6 DEF Steer
  <2>3. att[k] = "started" /\ inst = "running" /\ at[k] = "turn"
    BY <2>2 DEF Target, Proven
  <2>4. \A j \in Attempts : att'[j] # "started" /\ (att'[j] = "none" <=> att[j] = "none")
    BY <2>2, <2>3 DEF LeafInv, StartedAlone, AgentTypeOK
  <2>5. AgentTypeOK'
    BY <2>1, <2>2, RecordFacts DEF AgentTypeOK
  <2>6. /\ steer'[s].phase = "draining" /\ steer'[s].at = k /\ s # 0
        /\ \A x \in Steers \ {s} : steer'[x] = steer[x]
    BY <2>2 DEF AgentTypeOK, Steers
  <2>7. Numbered' /\ StartedAlone'
    BY <2>4, SameMade DEF LeafInv, StartedAlone
  <2>8. TagIsQueued'
    <3>1. \A j \in Attempts : tag[j].id # 0 => tag[j].id \in Steers \ {s}
      BY <2>2 DEF LeafInv, TagIsQueued, AgentTypeOK, Tags, Steers
    <3> QED BY <2>1, <2>6, <3>1 DEF LeafInv, TagIsQueued
  <2>9. FencesAttempt' /\ PendingIsKnown' /\ RunningIsServed'
    BY <2>1, <2>2, <2>3, <2>6 DEF LeafInv, FencesAttempt, PendingIsKnown, RunningIsServed
  <2>10. SteeredIsLive'
    BY <2>1, <2>3, <2>4 DEF SteeredIsLive, FiberInv, FiberHolds, Holds
  <2> QED BY <1>1, <2>1, <2>4, <2>5, <2>7, <2>8, <2>9, <2>10 DEF LeafInv
<1>7. CASE Retry
  <2>1. /\ UNCHANGED <<att, tag, steer, failures, gen, cp, bound, at, turns, res, held, drives>>
        /\ Leased = {} /\ inst = "failed"
        /\ run' = "active" /\ inst' = "ready" /\ pend' = NoSteer /\ live' = FALSE
        /\ incident' = FALSE /\ controls' \in 0 .. MaxControls
        /\ \/ pump' = pump /\ asked' = asked
           \/ pump' = "leaving" /\ asked' = AskAll
    BY <1>7, BoundsAssumption DEF Retry, Control, Lift, AgentTypeOK
  <2>2. asked' \in [Attempts -> BOOLEAN]
    BY <2>1 DEF AskAll, AgentTypeOK
  <2>3. AgentTypeOK'
    BY <2>1, <2>2, RecordFacts DEF AgentTypeOK
  <2>4. \A j \in Attempts : att[j] # "started"
    BY <2>1 DEF LeafInv, StartedAlone
  <2>5. LeafInv'
    <3>1. Numbered'
      BY <2>1, SameMade DEF LeafInv
    <3>2. /\ StartedAlone' /\ PendingIsKnown' /\ TagIsQueued' /\ FencesAttempt' /\ RunningIsServed'
      BY <2>1, <2>4 DEF LeafInv, StartedAlone, PendingIsKnown, TagIsQueued, FencesAttempt,
                        RunningIsServed, NoSteer
    <3> QED BY <3>1, <3>2 DEF LeafInv
  <2>6. SteeredIsLive' /\ Generations'
    BY <2>1, <2>4 DEF SteeredIsLive, Generations, NoSteer
  <2>7. FiberInv'
    BY <2>1 DEF FiberInv, OneFiber, FiberHolds, Holds, TurnsLeft, Left, Leased
  <2> QED BY <2>3, <2>5, <2>6, <2>7
<1>8. CASE Lapse
  <2>1. UNCHANGED <<durable, fiber, pump, incident, drives, controls>> /\ held' = FALSE
    BY <1>8 DEF Lapse
  <2>2. AgentTypeOK'
    BY <2>1 DEF AgentTypeOK
  <2>3. LeafInv'
    BY <2>1, LeafSame
  <2>4. SteeredIsLive'
    BY <2>1 DEF SteeredIsLive
  <2> QED BY <1>1, <2>1, <2>2, <2>3, <2>4
<1>9. CASE Crash
  <2>1. /\ UNCHANGED <<run, inst, pend, att, tag, steer, failures, gen, live, bound, turns,
                       res, drives, controls>>
        /\ pump' = "off" /\ held' = FALSE /\ incident' = FALSE
        /\ at' \in [Attempts -> {"idle"}] /\ asked' \in [Attempts -> BOOLEAN]
    BY <1>9 DEF Crash
  <2>2. cp' \in [Attempts -> Checkpoints] /\ \A g \in Attempts : g > gen => cp'[g] = cp[g]
    <3>1. ASSUME NEW k \in Attempts, at[k] = "leased", cp' = [cp EXCEPT ![bound[k]].c = "dispatch_intent"]
          PROVE  cp' \in [Attempts -> Checkpoints] /\ \A g \in Attempts : g > gen => cp'[g] = cp[g]
      <4>1. gen \in Attempts /\ bound[k] = gen
        BY <3>1, BoundsAssumption DEF FiberInv, FiberHolds, Holds, AgentTypeOK, Attempts
      <4>2. /\ cp' \in [Attempts -> Checkpoints] /\ \A x \in Attempts \ {gen} : cp'[x] = cp[x]
        BY <3>1, <4>1, CheckpointSet DEF InFlight, AgentTypeOK
      <4> QED BY <4>1, <4>2, BoundsAssumption DEF Attempts
    <3> QED BY <1>9, <3>1 DEF Crash, AgentTypeOK
  <2>3. AgentTypeOK'
    BY <2>1, <2>2 DEF AgentTypeOK
  <2>4. LeafInv'
    BY <2>1, LeafSame
  <2>5. SteeredIsLive' /\ Generations'
    BY <2>1, <2>2 DEF SteeredIsLive, Generations
  <2>6. FiberInv'
    BY <2>1, FibersGone
  <2> QED BY <2>3, <2>4, <2>5, <2>6
<1>10. CASE UNCHANGED vars
  <2>1. UNCHANGED <<durable, fiber, process, controls>>
    BY <1>10 DEF vars
  <2>2. LeafInv'
    BY <2>1, LeafSame
  <2>3. AgentTypeOK' /\ SteeredIsLive'
    BY <2>1 DEF AgentTypeOK, SteeredIsLive
  <2> QED BY <1>1, <2>1, <2>2, <2>3
<1> QED BY <1>2, <1>3, <1>4, <1>5, <1>6, <1>7, <1>8, <1>9, <1>10

LEMMA AgentInvariance == AgentSpec => []AgentInv
<1>1. AgentInv /\ [Next]_vars => AgentInv'
  BY PumpKeepsInv, FiberKeepsInv, ControlKeepsInv DEF Next
<1> QED BY <1>1, AgentInitInv, PTL DEF AgentSpec

\* The database, the sessions and the fibers agree: one attempt at a time uses the
\* session, on its latest generation and as the turn the checkpoint names, and a
\* leaf that runs has an attempt or a directive that will end its last one.
THEOREM AgentAgrees == AgentSpec => []AgentConsistent
<1>1. AgentInv => AgentConsistent
  <2> SUFFICES ASSUME AgentInv PROVE AgentConsistent
    OBVIOUS
  <2> USE DEF AgentInv, LeafInv, FiberInv
  <2>1. OneUser
    <3>1. CASE Leased = {}
      <4>1. Cardinality(Leased) = 0
        BY <3>1, FS_EmptySet
      <4> QED BY <4>1 DEF OneUser
    <3>2. CASE Leased # {}
      <4>1. PICK k \in Leased : TRUE
        BY <3>2
      <4>2. Leased = {k}
        BY <4>1 DEF OneFiber, Leased
      <4>3. Cardinality(Leased) = 1
        BY <4>2, FS_Singleton
      <4> QED BY <4>3 DEF OneUser
    <3> QED BY <3>1, <3>2
  <2>2. TurnIsRecorded
    BY DEF TurnIsRecorded, FiberHolds, Holds, Here
  <2>3. LeafIsServed
    BY DEF LeafIsServed, RunningIsServed, StartedAlone, PendingIsKnown, Started, NoSteer
  <2>4. LeaseOnLatest
    BY DEF LeaseOnLatest, FiberHolds, Holds, Leased
  <2> QED BY <2>1, <2>2, <2>3, <2>4 DEF AgentConsistent
<1> QED BY <1>1, AgentInvariance, PTL

-----------------------------------------------------------------------------
(* What is sent to a provider, and on what evidence a leaf goes on           *)

\* Whatever the process, the lease and the operator do, a turn that may have reached
\* a provider is never reset: only a checkpoint that was not dispatched, or whose turn
\* is seen to have ended, is bound or repaired (planAgentAttemptAdmission).
THEOREM NeverRedispatched == AgentSpec => NoBlindRedispatch
<1> DEFINE Kept == \A g \in Attempts :
             cp[g].c \in InFlight \union Unknown => cp'[g].c # "not_dispatched"
<1>1. ASSUME AgentInv, Next PROVE Kept
  <2>0. AgentInv
    BY <1>1
  <2> USE <2>0 DEF AgentInv, durable, fiber, process, InFlight, Unknown
  <2>1. ASSUME NEW g, NEW x \in {"terminal_observed"} \union InFlight \union Unknown,
               cp' = [cp EXCEPT ![g].c = x]
        PROVE  Kept
    BY <2>1 DEF AgentTypeOK, Checkpoints
  <2>2. ASSUME NEW g, NEW c, cp' = [cp EXCEPT ![g] = c],
               g \in Attempts => cp[g].c \notin InFlight \union Unknown
        PROVE  Kept
    BY <2>2 DEF AgentTypeOK
  <2>3. CASE PumpStep
    <3>1. CASE Reconcile
      <4>1. ASSUME NEW s, Reconciled(s) PROVE Kept
        <5> DEFINE x == IF cp[bound[steer[s].at]].c = "terminal_observed"
                        THEN cp[bound[steer[s].at]].c ELSE Lost(cp[bound[steer[s].at]].c)
        <5>1. cp' = [cp EXCEPT ![bound[steer[s].at]].c = x]
          BY <4>1 DEF Reconciled
        <5>2. x \in {"terminal_observed"} \union InFlight \union Unknown
          BY DEF Lost
        <5> HIDE DEF x
        <5> QED BY <2>1, <5>1, <5>2
      <4>2. UNCHANGED cp \/ \E s : Reconciled(s)
        BY <3>1 DEF Reconcile
      <4> QED BY <4>1, <4>2
    <3>2. CASE ~Reconcile
      BY <2>3, <3>2 DEF PumpStep, Start, Recover, Admit, AbortFenced, Collect, Leave, Off
    <3> QED BY <3>1, <3>2
  <2>4. ASSUME NEW k \in Attempts, FiberStep(k) \/ Observe(k) PROVE Kept
    <3>1. ASSUME NEW x \in {"terminal_observed"} \union InFlight \union Unknown, Advance(k, x)
          PROVE  Kept
      BY <2>1, <3>1 DEF Advance
    <3>2. CASE Settle(k)
      <4>1. \A o \in Outcomes : Evidence(k, o) \in {"terminal_observed"} \union InFlight \union Unknown
        BY DEF Evidence, Outcomes, Terminal, Lost
      <4> QED BY <3>1, <3>2, <4>1 DEF Settle
    <3>3. CASE Observe(k)
      BY <3>1, <3>3 DEF Observe
    <3>4. CASE Dispatch(k)
      BY <2>1, <3>4 DEF Dispatch
    <3>5. CASE Repair(k)
      <4>1. at[k] = "repair" => bound[k] = gen /\ cp[gen].c = "terminal_observed"
        <5>1. Holds(k)
          BY DEF FiberInv, FiberHolds
        <5> QED BY <5>1 DEF Holds
      <4> QED BY <2>2, <3>5, <4>1 DEF Repair
    <3>6. CASE Bind(k)
      <4>1. CASE BindStart(k)
        <5>1. gen + 1 \in Attempts => cp[gen + 1].c = "none"
          <6>1. gen \in Nat
            BY DEF AgentTypeOK
          <6>2. gen + 1 \in Attempts => cp[gen + 1] = NoCheck
            BY <6>1 DEF Generations
          <6> QED BY <6>2 DEF NoCheck
        <5> QED BY <2>2, <4>1, <5>1 DEF BindStart, Bound
      <4>2. CASE BindActive(k)
        <5>1. cp[gen].c \in {"terminal_observed", "not_dispatched"}
          BY <4>2 DEF BindActive, Refused, Operation, Here
        <5> QED BY <2>2, <4>2, <5>1 DEF BindActive, Bound
      <4> QED BY <3>6, <4>1, <4>2 DEF Bind, BindFails
    <3>7. CASE Open(k) \/ GiveUp(k) \/ Release(k)
      BY <3>7 DEF Open, GiveUp, Release
    <3> QED BY <2>4, <3>2, <3>3, <3>4, <3>5, <3>6, <3>7 DEF FiberStep
  <2>5. CASE Crash
    BY <2>1, <2>5 DEF Crash
  <2>6. CASE TimeOut \/ RunEnds \/ Pause \/ Resume \/ CancelLeaf \/ Steer \/ Retry \/ Lapse
    BY <2>6 DEF TimeOut, RunEnds, Pause, Resume, CancelLeaf, Steer, Retry, Lapse
  <2> QED BY <1>1, <2>3, <2>4, <2>5, <2>6 DEF Next
<1>2. AgentInv /\ [Next]_vars => [Kept]_vars
  BY <1>1
<1> QED BY <1>2, AgentInvariance, PTL DEF AgentSpec, NoBlindRedispatch

\* A directive releases its leaf, and an attempt completes it, only on the recorded
\* end of a turn: of the turn that was fenced, or of the attempt's own
\* (tryReconcileAgentSteers, settleFencedAgentSessionCheckpoint, commitAttemptResult).
THEOREM EvidenceFirst == AgentSpec => GoesOnWithEvidence
<1> DEFINE Queued ==
             \A s \in Steers :
               steer[s].phase = "draining" /\ steer'[s].phase = "queued" =>
                 \/ at[steer[s].at] = "turn" /\ at'[steer[s].at] # "turn"
                 \/ cp[bound[steer[s].at]].c = "terminal_observed"
           Completed ==
             inst # "completed" /\ inst' = "completed" =>
               \E k \in Started : Here.at = k /\ Here.c = "terminal_observed"
<1>1. ASSUME AgentInv, Next PROVE Queued
  <2>0. AgentInv
    BY <1>1
  <2> USE <2>0 DEF AgentInv, durable, fiber, process
  <2>1. ASSUME NEW s \in Steers, NEW p, steer' = [steer EXCEPT ![s].phase = p],
               p = "queued" => \/ at[steer[s].at] = "turn" /\ at'[steer[s].at] # "turn"
                               \/ cp[bound[steer[s].at]].c = "terminal_observed"
        PROVE  Queued
    BY <2>1 DEF AgentTypeOK, Directives
  <2>2. ASSUME NEW s \in Draining, NEW x, SettleDirective(s, x),
               x = "terminal_observed" => \/ at[steer[s].at] = "turn" /\ at'[steer[s].at] # "turn"
                                          \/ cp[bound[steer[s].at]].c = "terminal_observed"
        PROVE  Queued
    BY <2>1, <2>2 DEF SettleDirective, Draining
  <2>3. CASE PumpStep
    <3>1. ASSUME NEW s \in Draining, Reconciled(s) PROVE Queued
      BY <2>2, <3>1 DEF Reconciled, Lost
    <3>2. CASE Reconcile
      <4>1. Draining # {} => (CHOOSE x \in Draining : \A y \in Draining : x <= y) \in Draining
        BY LeastDirective
      <4>2. UNCHANGED steer \/ \E s \in Draining : Reconciled(s)
        BY <3>2, <4>1 DEF Reconcile
      <4> QED BY <3>1, <4>2
    <3>3. CASE ~Reconcile
      BY <2>3, <3>3 DEF PumpStep, Start, Recover, Admit, AbortFenced, Collect, Leave, Off
    <3> QED BY <3>2, <3>3
  <2>4. ASSUME NEW k \in Attempts, FiberStep(k) \/ Observe(k) PROVE Queued
    <3>1. CASE Observe(k)
      BY <2>2, <3>1 DEF Observe, Advance
    <3>2. CASE Settle(k)
      <4>1. ASSUME NEW o, AfterTurn(k, o) PROVE at[k] = "turn" /\ at'[k] # "turn"
        <5>1. (\E r : Ends(k, r)) \/ at' = [at EXCEPT ![k] = "repair"]
          BY <4>1 DEF AfterTurn
        <5>2. \E x \in {"closing", "over", "repair"} : at' = [at EXCEPT ![k] = x]
          BY <5>1 DEF Ends
        <5> QED BY <3>2, <5>2 DEF Settle, AgentTypeOK
      <4>2. ASSUME NEW o \in Outcomes, Advance(k, Evidence(k, o)), AfterTurn(k, o) PROVE Queued
        BY <2>2, <4>1, <4>2 DEF Advance
      <4> QED BY <3>2, <4>2 DEF Settle
    <3>3. CASE ~Observe(k) /\ ~Settle(k)
      BY <2>4, <3>3 DEF FiberStep, Bind, Open, Dispatch, Repair, GiveUp, Release
    <3> QED BY <3>1, <3>2, <3>3
  <2>5. CASE Steer
    BY <2>5 DEF Steer, AgentTypeOK
  <2>6. CASE TimeOut \/ RunEnds \/ Pause \/ Resume \/ CancelLeaf \/ Retry \/ Lapse \/ Crash
    BY <2>6 DEF TimeOut, RunEnds, Pause, Resume, CancelLeaf, Retry, Lapse, Crash
  <2> QED BY <1>1, <2>3, <2>4, <2>5, <2>6 DEF Next
<1>2. ASSUME AgentInv, Next PROVE Completed
  <2>0. AgentInv
    BY <1>2
  <2> USE <2>0 DEF AgentInv, durable, fiber, process
  <2>1. CASE Collect
    <3>1. ASSUME NEW k \in Active, at[k] = "over", att[k] = "started", res[k] = "completed"
          PROVE  Completed
      <4>1. k \in Started /\ Holds(k)
        BY <3>1 DEF FiberInv, FiberHolds, Active, Started
      <4> QED BY <3>1, <4>1 DEF Holds, Here
    <3>2. UNCHANGED inst \/ \E k \in Active : at[k] = "over" /\ att[k] = "started" /\ inst' = res[k]
      BY <2>1 DEF Collect, Commit, RecordResult
    <3> QED BY <3>1, <3>2
  <2>2. ASSUME NEW k \in Attempts, FiberStep(k) \/ Observe(k) PROVE Completed
    <3>1. inst' \in {inst, "ready", "failed"}
      BY <2>2 DEF FiberStep, Observe, Bind, Open, Dispatch, Settle, Repair, GiveUp, Release,
                  Advance, SettleDirective
    <3> QED BY <3>1
  <2>3. CASE PumpStep /\ ~Collect
    BY <2>3 DEF PumpStep, Start, Recover, Requeue, Reconcile, Reconciled, SettleDirective, Admit,
                AbortFenced, Leave, Off
  <2>4. CASE TimeOut \/ RunEnds \/ Pause \/ Resume \/ CancelLeaf \/ Steer \/ Retry \/ Lapse \/ Crash
    BY <2>4 DEF TimeOut, RunEnds, Pause, Requeue, Resume, CancelLeaf, Steer, Retry, Lapse, Crash
  <2> QED BY <1>2, <2>1, <2>2, <2>3, <2>4 DEF Next
<1>3. AgentInv /\ [Next]_vars => [Queued /\ Completed]_vars
  BY <1>1, <1>2
<1> QED BY <1>3, AgentInvariance, PTL DEF AgentSpec, GoesOnWithEvidence
=============================================================================
