----------------------------- MODULE AgentSession -----------------------------
(***************************************************************************)
(* One Agent leaf, its logical session and the turns of it, under the pump  *)
(* of one process: what is durable of a session (generation, checkpoint,    *)
(* bindings of attempts), the directives of Steer, and the fiber of an      *)
(* attempt from execution/agent-node.ts that binds, opens, dispatches and   *)
(* settles.  A turn outlives the write authority of its attempt, so that    *)
(* controls, timeouts, lease losses, crashes and the next attempt meet it   *)
(* at every step.                                                           *)
(*                                                                         *)
(* The leaf is one of several in its Run and has a session of its own       *)
(* (node scope).  What the others do to it is that it is cancelled and that *)
(* the Run ends.  Prompts are told apart by origin only.                    *)
(***************************************************************************)
EXTENDS Integers, FiniteSets

CONSTANTS
  MaxAttempts,  \* bound on the attempts of the leaf
  MaxTurns,     \* responseRepairMax + 1
  MaxSteers,    \* bound on accepted directives
  MaxDrives,    \* bound on the sessions of this process on the Run
  MaxControls   \* bound on the other controls

ASSUME BoundsAssumption ==
  /\ MaxAttempts \in Nat \ {0} /\ MaxTurns \in Nat \ {0}
  /\ MaxSteers \in Nat /\ MaxDrives \in Nat /\ MaxControls \in Nat

Attempts == 1 .. MaxAttempts
Steers   == 1 .. MaxSteers
InFlight == {"dispatch_intent", "owned_in_flight", "provider_observed"}
Unknown  == {"acceptance_unknown", "terminal_unknown"}

VARIABLES
  run,      \* status of the Run
  inst,     \* status of the leaf
  pend,     \* pendingSteerId and pendingSteerEventSequence, 0 for absent
  att,      \* att[k]: status of attempt k
  tag,      \* tag[k]: steerId and steerEventSequence of attempt.started
  steer,    \* steer[s]: the fenced attempt, and how far the directive is
  failures, \* instance.failed events of the leaf
  gen,      \* latest generation of the session, 0 before the first
  live,     \* its lifecycle is active, not abandoned
  cp,       \* cp[g]: checkpoint of generation g
  bound,    \* bound[k]: generation that attempt k is bound to
  pump,     \* the Run's session in this process
  held,     \* its lease is active
  incident, \* the failure fence of the Run
  at,       \* at[k]: where the fiber of attempt k is, "idle" without one
  asked,    \* asked[k]: it has been interrupted
  turns,    \* turns[k]: turns that it has dispatched
  res,      \* res[k]: how it ended
  drives, controls   \* counters for the bounds

durable == <<run, inst, pend, att, tag, steer, failures, gen, live, cp, bound>>
fiber   == <<at, asked, turns, res>>
process == <<pump, held, incident, drives>>
vars    == <<durable, fiber, process, controls>>

NoSteer == [id |-> 0, seq |-> 0]
NoCheck == [c |-> "none", at |-> 0, origin |-> "none"]
Check(c, k, o) == [c |-> c, at |-> k, origin |-> o]

Tags        == [id : 0 .. MaxSteers, seq : 0 .. MaxSteers]
Directives  == [at : 0 .. MaxAttempts, phase : {"none", "draining", "queued", "blocked"}]
Checkpoints == [c : {"none", "not_dispatched", "terminal_observed"} \union InFlight \union Unknown,
                at : 0 .. MaxAttempts, origin : {"none", "authored", "steering", "repair"}]
AgentTypeOK ==
  /\ run \in {"active", "paused", "failed", "closed"}
  /\ inst \in {"ready", "running", "completed", "failed", "cancelled"}
  /\ pend \in Tags
  /\ att \in [Attempts -> {"none", "started", "completed", "failed", "cancelled", "superseded"}]
  /\ tag \in [Attempts -> Tags] /\ steer \in [Steers -> Directives]
  /\ failures \in Nat
  /\ gen \in 0 .. MaxAttempts /\ live \in BOOLEAN
  /\ cp \in [Attempts -> Checkpoints]
  /\ bound \in [Attempts -> 0 .. MaxAttempts]
  /\ pump \in {"off", "claimed", "reconciling", "on", "leaving", "failing"}
  /\ held \in BOOLEAN /\ incident \in BOOLEAN
  /\ at \in [Attempts -> {"idle", "starting", "opening", "leased", "turn", "repair",
                       "closing", "over"}]
  /\ asked \in [Attempts -> BOOLEAN]
  /\ turns \in [Attempts -> 0 .. MaxTurns]
  /\ res \in [Attempts -> {"none", "completed", "failed", "cancelled", "interrupt", "die"}]
  /\ drives \in 0 .. MaxDrives /\ controls \in 0 .. MaxControls

Init ==
  /\ run = "active" /\ inst = "ready" /\ pend = NoSteer
  /\ att = [k \in Attempts |-> "none"] /\ tag = [k \in Attempts |-> NoSteer]
  /\ steer = [s \in Steers |-> [at |-> 0, phase |-> "none"]]
  /\ failures = 0 /\ gen = 0 /\ live = FALSE
  /\ cp = [g \in Attempts |-> NoCheck] /\ bound = [k \in Attempts |-> 0]
  /\ pump = "off" /\ held = FALSE /\ incident = FALSE
  /\ at = [k \in Attempts |-> "idle"] /\ asked = [k \in Attempts |-> FALSE]
  /\ turns = [k \in Attempts |-> 0] /\ res = [k \in Attempts |-> "none"]
  /\ drives = 0 /\ controls = 0

Made     == {k \in Attempts : att[k] # "none"}
Started  == {k \in Attempts : att[k] = "started"}
Active   == {k \in Attempts : at[k] # "idle"}
Leased   == {k \in Attempts : at[k] \in {"opening", "leased", "turn", "repair", "closing"}}
Draining == {s \in Steers : steer[s].phase = "draining"}
AskAll   == [k \in Attempts |-> asked[k] \/ k \in Active]
\* an attempt that uses the session has its lease to give back
Ends(k, r) ==
  /\ at' = [at EXCEPT ![k] = IF k \in Leased THEN "closing" ELSE "over"]
  /\ res' = [res EXCEPT ![k] = r]

\* requireStartedAttempt; attempts of an earlier session have no fiber
Current(k) == att[k] = "started" /\ held

\* attempt k is closed with status a and its running leaf becomes ready; a
\* pause and a recovery pass the directive on that the attempt was started with
Requeue(k, a) ==
  /\ att' = [att EXCEPT ![k] = a]
  /\ inst' = "ready" /\ pend' = tag[k]

-----------------------------------------------------------------------------
(* The pump *)

\* the tick starts a session, which claims the lease
Start ==
  /\ pump = "off" /\ run = "active" /\ ~incident /\ drives < MaxDrives
  /\ pump' = "claimed" /\ held' = TRUE /\ drives' = drives + 1
  /\ UNCHANGED <<durable, fiber, incident, controls>>

\* recoverExpiredOwnerAttempts
Recover ==
  /\ pump = "claimed" /\ held
  /\ pump' = "reconciling"
  /\ IF Started = {} THEN UNCHANGED <<att, inst, pend>>
     ELSE \E k \in Started : Requeue(k, "superseded")
  /\ UNCHANGED <<run, tag, steer, failures, gen, live, cp, bound, fiber,
                 held, incident, drives, controls>>

\* mutant: a blocked directive does not fail its leaf
SettleBlockedOpen(s, next) ==
  /\ steer' = [steer EXCEPT ![s].phase = IF next = "terminal_observed" THEN "queued"
                                         ELSE IF next \in Unknown THEN "blocked" ELSE @]
  /\ IF next = "terminal_observed" THEN inst' = "ready" /\ pend' = [id |-> s, seq |-> s]
     ELSE UNCHANGED <<inst, pend>>
  /\ UNCHANGED failures

\* what the durable end of a fenced turn does to the directive that fenced it
SettleDirective(s, next) ==
  IF next = "terminal_observed" THEN
    /\ steer' = [steer EXCEPT ![s].phase = "queued"]
    /\ inst' = "ready" /\ pend' = [id |-> s, seq |-> s]
    /\ UNCHANGED failures
  ELSE IF next \in Unknown THEN
    /\ steer' = [steer EXCEPT ![s].phase = "blocked"]
    /\ inst' = "failed" /\ pend' = NoSteer /\ failures' = failures + 1
  ELSE UNCHANGED <<steer, inst, pend, failures>>

\* settleFencedAgentSessionCheckpoint refuses a directive that the leaf has lost
Settleable(s) == inst = "running" /\ pend.id = s

\* the checkpoint of a turn whose end nobody saw
Lost(c) == IF c \in {"provider_observed", "terminal_unknown"}
           THEN "terminal_unknown" ELSE "acceptance_unknown"

\* mutant: a directive is settled as if its turn had ended
ReconciledTerminal(s) ==
  /\ cp' = [cp EXCEPT ![bound[steer[s].at]].c = "terminal_observed"]
  /\ SettleDirective(s, "terminal_observed")

Reconciled(s) ==
  LET g == bound[steer[s].at]
      c == cp[g].c
      next == IF c = "terminal_observed" THEN c ELSE Lost(c)
  IN /\ cp' = [cp EXCEPT ![g].c = next]
     /\ SettleDirective(s, next)

\* tryReconcileAgentSteers, one directive at a time
Reconcile ==
  /\ pump = "reconciling"
  /\ IF Draining = {} THEN
       pump' = "on" /\ UNCHANGED <<steer, inst, pend, failures, cp, asked>>
     ELSE LET s == CHOOSE x \in Draining : \A y \in Draining : x <= y IN
       IF Settleable(s) THEN Reconciled(s) /\ UNCHANGED <<pump, asked>>
       ELSE pump' = "failing" /\ asked' = AskAll
            /\ UNCHANGED <<steer, inst, pend, failures, cp>>
  /\ UNCHANGED <<run, att, tag, gen, live, bound, at, turns, res, held, incident,
                 drives, controls>>

\* startAttempt, unless an unsettled execution holds the session
Admit ==
  /\ pump = "on" /\ held /\ run = "active" /\ inst = "ready" /\ Active = {}
  /\ LET k == Cardinality(Made) + 1 IN
     /\ k <= MaxAttempts
     /\ att' = [att EXCEPT ![k] = "started"] /\ tag' = [tag EXCEPT ![k] = pend]
     /\ at' = [at EXCEPT ![k] = "starting"]
  /\ inst' = "running" /\ pend' = NoSteer
  /\ UNCHANGED <<run, steer, failures, gen, live, cp, bound, asked, turns, res,
                 process, controls>>

\* abortDurablyInterruptedExecutions, and the abort at the end of a steer
AbortFenced ==
  /\ pump = "on"
  /\ \E k \in Active : att[k] # "started" /\ ~asked[k] /\ asked' = [asked EXCEPT ![k] = TRUE]
  /\ UNCHANGED <<durable, at, turns, res, process, controls>>

\* the result of an attempt becomes the result of its leaf
RecordResult(k) ==
  /\ att' = [att EXCEPT ![k] = res[k]] /\ inst' = res[k]
  /\ failures' = IF res[k] = "failed" THEN failures + 1 ELSE failures
  /\ pend' = NoSteer

\* commitAttemptResult: late results of closed attempts are dropped
Commit(k) ==
  IF att[k] = "started" THEN RecordResult(k)
  ELSE UNCHANGED <<att, inst, failures, pend>>

Collect ==
  /\ pump = "on"
  /\ \E k \in Active :
     /\ at[k] = "over"
     /\ at' = [at EXCEPT ![k] = "idle"]
     /\ \/ /\ res[k] = "interrupt" /\ att[k] # "started"
           /\ UNCHANGED <<pump, asked, att, inst, failures, pend>>
        \/ /\ res[k] = "die" \/ (res[k] = "interrupt" /\ att[k] = "started")
           /\ pump' = "failing" /\ asked' = AskAll
           /\ UNCHANGED <<att, inst, failures, pend>>
        \/ /\ res[k] \in {"completed", "failed", "cancelled"} /\ held
           /\ Commit(k)
           /\ UNCHANGED <<pump, asked>>
        \/ /\ res[k] \in {"completed", "failed", "cancelled"} /\ ~held
           /\ pump' = "leaving" /\ asked' = AskAll
           /\ UNCHANGED <<att, inst, failures, pend>>
  /\ UNCHANGED <<run, tag, steer, gen, live, cp, bound, turns, res, held, incident,
                 drives, controls>>

\* attemptTimeoutEvents: the deadline of a started attempt fails its leaf
TimeOut ==
  /\ pump = "on" /\ held /\ run = "active"
  /\ \E k \in Started : att' = [att EXCEPT ![k] = "failed"]
  /\ inst' = "failed" /\ pend' = NoSteer /\ failures' = failures + 1
  /\ UNCHANGED <<run, tag, steer, gen, live, cp, bound, fiber, process, controls>>

\* the pump stops: a lost lease, a pause, an ended Run; a claim that is lost
\* before the recovery ends the session too
Leave ==
  /\ \/ pump \in {"claimed", "on"} /\ ~held
     \/ pump = "on" /\ run # "active"
  /\ pump' = "leaving" /\ asked' = AskAll
  /\ UNCHANGED <<durable, at, turns, res, held, incident, drives, controls>>

\* a session is over only when its fibers are; a failure is fenced
Off ==
  /\ pump \in {"leaving", "failing"} /\ \A k \in Active : at[k] = "over"
  /\ pump' = "off" /\ held' = FALSE /\ incident' = (pump = "failing")
  /\ at' = [k \in Attempts |-> "idle"]
  /\ UNCHANGED <<durable, asked, turns, res, drives, controls>>

PumpStep == \/ Start \/ Recover \/ Reconcile \/ Admit \/ AbortFenced \/ Collect
            \/ Leave \/ Off

-----------------------------------------------------------------------------
(* The fiber of an attempt *)

Here == cp[gen]

\* planAgentAttemptAdmission: the operation, and what it refuses
Operation(k) ==
  CASE tag[k].seq # 0                                       -> "continue"
    [] tag[k].seq = 0 /\ ~live                              -> "start"
    [] tag[k].seq = 0 /\ live /\ Here.c = "not_dispatched"  -> "safe_retry"
    [] OTHER                                                -> "continue"
Refused(k) ==
  \/ Operation(k) = "continue" /\ Here.c # "terminal_observed"
  \/ Operation(k) = "safe_retry" /\ Here.origin # "authored"

\* bindExistingAgentSession: a Continue takes over from its predecessor
Predecessor(k) == IF tag[k].seq # 0 THEN steer[tag[k].seq].at ELSE Here.at
BindConflict(k) == Operation(k) = "continue" /\ Here.at # Predecessor(k)

Bound(k, g) ==
  /\ bound' = [bound EXCEPT ![k] = g]
  /\ cp' = [cp EXCEPT ![g] = Check("not_dispatched", k,
                                   IF tag[k].seq # 0 THEN "steering" ELSE "authored")]
  /\ at' = [at EXCEPT ![k] = "opening"]
  /\ UNCHANGED res

BindStart(k) ==
  /\ Operation(k) = "start"
  /\ gen' = gen + 1 /\ live' = TRUE /\ Bound(k, gen + 1)

\* mutant: the checkpoint of the predecessor is not looked at
BindActiveBlind(k) ==
  /\ Operation(k) # "start"
  /\ Bound(k, gen) /\ UNCHANGED <<gen, live>>

BindActive(k) ==
  /\ Operation(k) # "start" /\ ~Refused(k) /\ ~BindConflict(k)
  /\ Bound(k, gen) /\ UNCHANGED <<gen, live>>

\* a refused plan fails the attempt; everything else that is wrong is a defect
BindFails(k) ==
  /\ Operation(k) # "start" /\ (Refused(k) \/ BindConflict(k))
  /\ Ends(k, IF Refused(k) THEN "failed" ELSE "die")
  /\ UNCHANGED <<gen, live, cp, bound>>

Bind(k) ==
  /\ at[k] = "starting" /\ ~asked[k]
  /\ \/ Current(k) /\ (BindStart(k) \/ BindActive(k) \/ BindFails(k))
     \/ ~Current(k) /\ Ends(k, "die") /\ UNCHANGED <<gen, live, cp, bound>>
  /\ UNCHANGED <<run, inst, pend, att, tag, steer, failures, asked, turns, process, controls>>

\* withSessionLease, and recordAgentSessionReady when the capsule is open
Open(k) ==
  /\ at[k] = "opening" /\ ~asked[k]
  /\ \/ Current(k) /\ at' = [at EXCEPT ![k] = "leased"] /\ UNCHANGED res
     \/ ~Current(k) /\ Ends(k, "die")
     \/ Ends(k, "failed")
  /\ UNCHANGED <<durable, asked, turns, process, controls>>

\* the turn is captured, committed as an intent and owned, with no other fiber
\* in between; a fenced attempt is not dispatched: its capture or commit throws
Dispatch(k) ==
  /\ at[k] = "leased" /\ ~asked[k]
  /\ \/ /\ Current(k)
        /\ cp' = [cp EXCEPT ![bound[k]].c = "owned_in_flight"]
        /\ at' = [at EXCEPT ![k] = "turn"] /\ turns' = [turns EXCEPT ![k] = @ + 1]
        /\ UNCHANGED res
     \/ ~Current(k) /\ Ends(k, "die") /\ UNCHANGED <<cp, turns>>
  /\ UNCHANGED <<run, inst, pend, att, tag, steer, failures, gen, live, bound, asked,
                 process, controls>>

\* advanceAgentCheckpoint while the attempt is fenced: the directive that fenced
\* it must still be its leaf's
Writable(k) == Current(k) \/ \A s \in Draining : steer[s].at = k => Settleable(s)

\* mutant: the end of a fenced turn does not settle its directive
AdvanceOnly(k, next) ==
  /\ cp' = [cp EXCEPT ![bound[k]].c = next]
  /\ UNCHANGED <<steer, inst, pend, failures>>

Advance(k, next) ==
  /\ cp' = [cp EXCEPT ![bound[k]].c = next]
  /\ IF ~Current(k) /\ \E s \in Draining : steer[s].at = k
     THEN \E s \in Draining : steer[s].at = k /\ SettleDirective(s, next)
     ELSE UNCHANGED <<steer, inst, pend, failures>>

\* the first event of the provider
Observe(k) ==
  /\ at[k] = "turn" /\ cp[bound[k]].c = "owned_in_flight" /\ Writable(k)
  /\ Advance(k, "provider_observed")
  /\ UNCHANGED <<run, att, tag, gen, live, bound, fiber, process, controls>>

Terminal == {"reply", "rejected", "provider_cancelled"}
Outcomes == Terminal \union {"local_failure", "lost"}

Evidence(k, o) ==
  CASE o \in Terminal        -> "terminal_observed"
    [] o = "local_failure"   -> "terminal_unknown"
    [] o = "lost"            -> Lost(cp[bound[k]].c)

\* what the attempt makes of a turn that ended with o
AfterTurn(k, o) ==
  IF asked[k] THEN Ends(k, "interrupt")
  ELSE IF ~Current(k) \/ o = "provider_cancelled" THEN Ends(k, "cancelled")
  ELSE \/ o = "reply" /\ Ends(k, "completed")
       \/ o = "reply" /\ turns[k] < MaxTurns
          /\ at' = [at EXCEPT ![k] = "repair"] /\ UNCHANGED res
       \/ o = "reply" /\ turns[k] = MaxTurns /\ Ends(k, "failed")
       \/ o # "reply" /\ Ends(k, "failed")

\* the turn ends: its checkpoint becomes terminal or unknown
Settle(k) ==
  /\ at[k] = "turn"
  /\ \E o \in Outcomes :
       IF Writable(k) THEN Advance(k, Evidence(k, o)) /\ AfterTurn(k, o)
       ELSE /\ Ends(k, IF asked[k] THEN "interrupt" ELSE "die")
            /\ UNCHANGED <<cp, steer, inst, pend, failures>>
  /\ UNCHANGED <<run, att, tag, gen, live, bound, asked, turns, process, controls>>

\* the response does not conform: another turn repairs it
Repair(k) ==
  /\ at[k] = "repair" /\ ~asked[k]
  /\ \/ /\ Current(k)
        /\ cp' = [cp EXCEPT ![bound[k]] = Check("not_dispatched", k, "repair")]
        /\ at' = [at EXCEPT ![k] = "leased"] /\ UNCHANGED res
     \/ ~Current(k) /\ Ends(k, "die") /\ UNCHANGED cp
  /\ UNCHANGED <<run, inst, pend, att, tag, steer, failures, gen, live, bound, asked,
                 turns, process, controls>>

\* an interrupted fiber outside a turn comes to its end
GiveUp(k) ==
  /\ at[k] \in {"starting", "opening", "leased", "repair"} /\ asked[k]
  /\ Ends(k, "interrupt")
  /\ UNCHANGED <<durable, asked, turns, process, controls>>

\* the lease is settled; an interruption meanwhile is how the attempt ends
Release(k) ==
  /\ at[k] = "closing"
  /\ at' = [at EXCEPT ![k] = "over"]
  /\ res' = [res EXCEPT ![k] = IF asked[k] THEN "interrupt" ELSE @]
  /\ UNCHANGED <<durable, asked, turns, process, controls>>

FiberStep(k) == \/ Bind(k) \/ Open(k) \/ Dispatch(k) \/ Settle(k) \/ Repair(k)
                \/ GiveUp(k) \/ Release(k)

-----------------------------------------------------------------------------
(* Controls, one at a time; a pause holds the queue until its session ends *)

Controllable == pump = "off" \/ (held /\ run = "active")
Control == Controllable /\ controls < MaxControls /\ controls' = controls + 1

\* the event version changes, which lifts the failure fence
Lift == incident' = FALSE

Pause ==
  /\ Control /\ run = "active" /\ run' = "paused" /\ Lift
  /\ IF Started = {} THEN UNCHANGED <<att, inst, pend>>
     ELSE \E k \in Started : Requeue(k, "cancelled")
  /\ UNCHANGED <<tag, steer, failures, gen, live, cp, bound, fiber, pump, held, drives>>

Resume ==
  /\ Control /\ run = "paused" /\ run' = "active" /\ Lift
  /\ UNCHANGED <<inst, pend, att, tag, steer, failures, gen, live, cp, bound, fiber,
                 pump, held, drives>>

\* by an operator, or by the group or frame the leaf is in
CancelLeaf ==
  /\ Control /\ inst \in {"ready", "running"} /\ Lift
  /\ inst' = "cancelled" /\ pend' = NoSteer
  /\ att' = [k \in Attempts |-> IF k \in Started THEN "cancelled" ELSE att[k]]
  /\ UNCHANGED <<run, tag, steer, failures, gen, live, cp, bound, fiber, pump, held, drives>>

\* the root frame closes after the leaf
RunEnds ==
  /\ pump = "on" /\ held /\ run = "active" /\ inst \notin {"ready", "running"}
  /\ run' = IF inst = "failed" THEN "failed" ELSE "closed"
  /\ UNCHANGED <<inst, pend, att, tag, steer, failures, gen, live, cp, bound, fiber,
                 process, controls>>

\* a started attempt of an active instance
Target(k) == att[k] = "started" /\ inst = "running"
\* the registry holds a turn of attempt k, which is the session's turn
Proven(k) == at[k] = "turn" /\ Here.at = k

\* steerAgent: only a turn that the registry and the checkpoint prove is in flight
Steer ==
  /\ pump \in {"claimed", "reconciling", "on"} /\ held /\ run = "active"
  /\ \E s \in Steers, k \in Attempts :
     /\ steer[s].phase = "none" /\ \A x \in Steers : x < s => steer[x].phase # "none"
     /\ Target(k) /\ Proven(k) /\ Here.c \in {"owned_in_flight", "provider_observed"}
     /\ steer' = [steer EXCEPT ![s] = [at |-> k, phase |-> "draining"]]
     /\ pend' = [id |-> s, seq |-> 0]
     /\ att' = [att EXCEPT ![k] = "superseded"]
  /\ UNCHANGED <<run, inst, tag, failures, gen, live, cp, bound, fiber, process, controls>>

\* applyRetry: the session's lease is drained, the generation abandoned and a
\* live session of the Run restarted
Retry ==
  /\ Leased = {}
  /\ Control /\ run \in {"active", "failed"} /\ inst = "failed" /\ Lift
  /\ drives < MaxDrives
  /\ run' = "active" /\ inst' = "ready" /\ pend' = NoSteer /\ live' = FALSE
  /\ IF pump = "off" THEN UNCHANGED <<pump, asked>>
     ELSE pump' = "leaving" /\ asked' = AskAll
  /\ UNCHANGED <<att, tag, steer, failures, gen, cp, bound, at, turns, res, held, drives>>

-----------------------------------------------------------------------------
(* Failures *)

\* the lease lapses or another process takes it
Lapse ==
  /\ pump # "off" /\ held /\ drives < MaxDrives
  /\ held' = FALSE
  /\ UNCHANGED <<durable, fiber, pump, incident, drives, controls>>

\* the process ends, perhaps between the intent and the call of a turn
Crash ==
  /\ pump # "off" /\ drives < MaxDrives
  /\ pump' = "off" /\ held' = FALSE /\ incident' = FALSE
  /\ at' = [k \in Attempts |-> "idle"] /\ asked' = [k \in Attempts |-> FALSE]
  /\ \/ UNCHANGED cp
     \/ \E k \in Attempts : at[k] = "leased" /\ ~asked[k] /\ Current(k)
                            /\ cp' = [cp EXCEPT ![bound[k]].c = "dispatch_intent"]
  /\ UNCHANGED <<run, inst, pend, att, tag, steer, failures, gen, live, bound, turns,
                 res, drives, controls>>

Next ==
  \/ PumpStep \/ TimeOut \/ RunEnds
  \/ \E k \in Attempts : FiberStep(k) \/ Observe(k)
  \/ Pause \/ Resume \/ CancelLeaf \/ Steer \/ Retry
  \/ Lapse \/ Crash

AgentSpec == Init /\ [][Next]_vars

\* the fibers of a live process run, and a turn that is asked to end does
FairAgentSpec ==
  /\ AgentSpec
  /\ WF_vars(PumpStep)
  /\ \A k \in Attempts : WF_vars(FiberStep(k) /\ (at[k] = "turn" => asked[k]))

-----------------------------------------------------------------------------
(* Properties *)

\* One attempt at a time opens or uses the session, so that its supervisor is
\* never asked for a lease it has given away (session_busy).
OneUser == Cardinality(Leased) <= 1

\* A turn that may be running is in flight in the database, as the turn of the
\* attempt that runs it and on the generation that is current: nobody settles,
\* rebinds or replaces it behind its back.
TurnIsRecorded ==
  \A k \in Attempts : at[k] = "turn" =>
    bound[k] = gen /\ Here.c \in InFlight /\ Here.at = k

\* A leaf is running exactly when an attempt of it is started or a directive
\* drains the turn of its last one; no leaf is left running with nobody to
\* finish it.
LeafIsServed ==
  inst = "running" <=> Started # {} \/ (pend.id # 0 /\ steer[pend.id].phase = "draining")

\* A session is used on its latest generation only, and not after a retry has
\* abandoned it.
LeaseOnLatest == \A k \in Leased : bound[k] = gen /\ live

\* The database, the sessions and the fibers of a leaf agree at every step.
AgentConsistent == AgentTypeOK /\ OneUser /\ TurnIsRecorded /\ LeafIsServed /\ LeaseOnLatest

\* What may have reached a provider is never dispatched again as if it had not:
\* neither a turn in flight nor one whose end is unknown is reset.
NoBlindRedispatch ==
  [][\A g \in Attempts :
       cp[g].c \in InFlight \union Unknown => cp'[g].c # "not_dispatched"]_vars

\* A directive releases its leaf only on evidence: its turn is seen to end now,
\* or was seen to before a restart.  A leaf completes on evidence too: by the
\* attempt that is started, on the terminal checkpoint of its own turn; the reply
\* of a fenced turn completes nothing.
GoesOnWithEvidence ==
  [][/\ \A s \in Steers :
          steer[s].phase = "draining" /\ steer'[s].phase = "queued" =>
            \/ at[steer[s].at] = "turn" /\ at'[steer[s].at] # "turn"
            \/ cp[bound[steer[s].at]].c = "terminal_observed"
     /\ inst # "completed" /\ inst' = "completed" =>
          \E k \in Started : Here.at = k /\ Here.c = "terminal_observed"]_vars

\* A directive does not drain forever in an active Run, whatever happens to the
\* process, the lease and the turn.
DrainingEnds ==
  \A s \in Steers : (pend.id = s /\ inst = "running") ~> (pend.id # s \/ inst # "running" \/ run # "active")
=============================================================================
