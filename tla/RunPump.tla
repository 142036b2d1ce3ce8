-------------------------------- MODULE RunPump --------------------------------
(***************************************************************************)
(* How one process drives a Run: the pump of scheduler/advance.ts, the      *)
(* session and the operator controls of daemon/sessions.ts around it, and   *)
(* the store transactions of RunStore that both are made of.  A step of the *)
(* pump ends where another fiber or another process can come between: at    *)
(* every store transaction and at every yield.  A second process may take   *)
(* the lease when it lapses, and this process may crash and start again.    *)
(*                                                                         *)
(* Leaves are Tasks here: an Agent leaf is also held back while an          *)
(* execution of its session is unsettled, and a Signal lets the pump return *)
(* as "awaiting".                                                           *)
(***************************************************************************)
EXTENDS RunStore

CONSTANT MaxControls   \* bound on the controls of this process

ASSUME ControlAssumption == MaxControls \in Nat
ASSUME NoSignals == Signals = {}

VARIABLES
  pc,     \* where advanceRun is, "off" without a session
  mine,   \* owner epoch of its claim, 0 without one
  exec,   \* exec[l][k]: the fiber of attempt k of l in "active", "none" if absent
  snap,   \* what the pump keeps of the snapshot its last drain ended with
  fresh,  \* the projection has not changed since that snapshot
  woken,  \* the wakeup version differs from the observed one
  lost,   \* leaseLost
  ctl,    \* progress of the control at the head of the mutation queue
  used,   \* controls taken so far
  fenced, \* the failure fence holds for the present event version
  other   \* the present epoch was claimed by another process

local == <<pc, mine, exec, snap, fresh, woken, lost>>
desk  == <<ctl, used>>
pvars == <<vars, local, desk, fenced, other>>

Live      == {"running", "interrupted"}
Over      == {"completed", "failed", "aborted"}
NoSnap    == [run |-> "none", started |-> {}, admits |-> {}]
NoExec    == [l \in Leaves |-> [k \in Tries |-> "none"]]

PumpTypeOK ==
  /\ TypeOK
  /\ pc \in {"off", "drain", "recover", "turn", "draining", "settle", "wait",
             "leaving", "aborted", "failing"}
  /\ mine \in Epochs
  /\ exec \in [Leaves -> [Tries -> {"none"} \union Live \union Over]]
  /\ snap \in [run : {"none", "active", "paused"} \union Terminal,
               started : SUBSET (Leaves \X Tries), admits : SUBSET Leaves]
  /\ fresh \in BOOLEAN /\ woken \in BOOLEAN /\ lost \in BOOLEAN
  /\ ctl \in {"idle", "await", "ended", "claimed", "applied"}
  /\ used \in 0 .. MaxControls
  /\ fenced \in BOOLEAN /\ other \in BOOLEAN

PumpInit ==
  /\ Init
  /\ pc = "off" /\ mine = 0 /\ exec = NoExec /\ snap = NoSnap
  /\ fresh = FALSE /\ woken = FALSE /\ lost = FALSE
  /\ ctl = "idle" /\ used = 0 /\ fenced = FALSE /\ other = FALSE

MineHeld == Owned /\ epoch = mine
Active   == {x \in Leaves \X Tries : exec[x[1]][x[2]] # "none"}
Ended    == {x \in Active : exec[x[1]][x[2]] \in Over}
\* fibers of S that still run are asked to stop
Abort(f, S) == [l \in Leaves |-> [k \in Tries |->
                  IF <<l, k>> \in S /\ f[l][k] = "running" THEN "interrupted" ELSE f[l][k]]]
AbortAll == Abort(exec, Leaves \X Tries)

\* the projection changes under everybody who holds a snapshot or a fence
Disturb == fresh' = FALSE /\ fenced' = FALSE

-----------------------------------------------------------------------------
(* The pump *)

\* sessions.start by the daemon's tick, and claimRun by the new fiber
StartPump ==
  /\ pc = "off" /\ run = "active" /\ ~fenced
  /\ ClaimRun
  /\ pc' = "drain" /\ mine' = epoch + 1 /\ other' = FALSE
  /\ woken' = FALSE /\ lost' = FALSE
  /\ UNCHANGED <<exec, snap, fresh, fenced, desk>>

Drained == Quiet /\ DueNow = {}

\* one batch of derived transitions, behind a successful heartbeat
DrainStep ==
  /\ pc \in {"drain", "draining"} /\ ~lost /\ MineHeld
  /\ Derive
  /\ fenced' = FALSE
  /\ UNCHANGED <<local, desk, other>>

\* the heartbeat before a batch fails, or the heartbeat fiber has failed
DrainLost ==
  /\ pc \in {"drain", "draining"}
  /\ lost \/ (~MineHeld /\ ~Drained)
  /\ pc' = IF pc = "drain" THEN "leaving" ELSE "turn"
  /\ lost' = TRUE /\ exec' = IF pc = "drain" THEN AbortAll ELSE exec
  /\ UNCHANGED <<vars, mine, snap, fresh, woken, desk, fenced, other>>

\* mutant: the first drain goes straight to the loop
DrainEndsNoRecovery ==
  /\ pc \in {"drain", "draining"} /\ ~lost /\ Drained
  /\ pc' = IF pc = "drain" THEN "turn" ELSE "settle"
  /\ snap' = [run |-> run, started |-> AllStarted, admits |-> {l \in Leaves : Admits(l)}]
  /\ fresh' = TRUE
  /\ UNCHANGED <<vars, mine, exec, woken, lost, desk, fenced, other>>

\* nothing left to derive: the snapshot that the rest of the turn works on
DrainEnds ==
  /\ pc \in {"drain", "draining"} /\ ~lost /\ Drained
  /\ \/ pc = "drain" /\ pc' = "recover" /\ UNCHANGED <<snap, fresh>>
     \/ /\ pc = "draining" /\ pc' = "settle"
        /\ snap' = [run |-> run, started |-> AllStarted,
                    admits |-> {l \in Leaves : Admits(l)}]
        /\ fresh' = TRUE
  /\ UNCHANGED <<vars, mine, exec, woken, lost, desk, fenced, other>>

Foreign == {x \in AllStarted : own[x[1]][x[2]] # mine}

\* recoverExpiredOwnerAttempts: one expired epoch at a time, then the loop
RecoverExpired ==
  /\ pc = "recover"
  /\ \/ /\ Foreign # {} /\ MineHeld
        /\ \E x \in Foreign : SupersedeExpired(own[x[1]][x[2]])
        /\ fenced' = FALSE /\ UNCHANGED <<local, other>>
     \/ /\ Foreign # {} /\ ~MineHeld
        /\ pc' = "leaving"
        /\ UNCHANGED <<vars, mine, exec, snap, fresh, woken, lost, fenced, other>>
     \/ /\ Foreign = {}
        /\ pc' = "turn"
        /\ UNCHANGED <<vars, mine, exec, snap, fresh, woken, lost, fenced, other>>
  /\ UNCHANGED desk

\* top of the loop: leave if the lease is lost, else observe the wakeup version
Turn ==
  /\ pc = "turn"
  /\ \/ lost /\ pc' = "leaving" /\ exec' = AbortAll /\ UNCHANGED woken
     \/ ~lost /\ pc' = "draining" /\ woken' = FALSE /\ UNCHANGED exec
  /\ UNCHANGED <<vars, mine, snap, fresh, lost, desk, fenced, other>>

\* abortDurablyInterruptedExecutions, which every rest of a turn begins with
Stopped == Abort(exec, Active \ snap.started)

\* mutant: an interrupted execution is an incident whatever became of its attempt
CollectStrict(l, k) ==
  /\ pc = "settle" /\ exec[l][k] \in Over
  /\ exec' = [Stopped EXCEPT ![l][k] = "none"]
  /\ pc' = IF exec[l][k] = "aborted" THEN "aborted" ELSE "turn"
  /\ lost' = (lost \/ (exec[l][k] # "aborted" /\ ~MineHeld))
  /\ IF exec[l][k] # "aborted" /\ MineHeld /\ Started(l, k)
     THEN CommitResult(l, k, mine, exec[l][k]) /\ fenced' = FALSE
     ELSE UNCHANGED <<vars, fenced>>
  /\ UNCHANGED <<mine, snap, fresh, woken, desk, other>>

\* firstSettledExecution: commit a result, drop an execution whose attempt is
\* durably closed, or end with the cause of an interruption nobody recorded
Collect(l, k) ==
  /\ pc = "settle" /\ exec[l][k] \in Over
  /\ exec' = [Stopped EXCEPT ![l][k] = "none"]
  /\ \/ /\ exec[l][k] = "aborted"
        /\ pc' = IF <<l, k>> \in snap.started THEN "aborted" ELSE "turn"
        /\ UNCHANGED <<vars, lost, fenced>>
     \/ /\ exec[l][k] # "aborted" /\ pc' = "turn"
        /\ \/ CommitResult(l, k, mine, exec[l][k]) /\ fenced' = FALSE /\ UNCHANGED lost
           \/ ~MineHeld /\ lost' = TRUE /\ UNCHANGED <<vars, fenced>>
           \/ MineHeld /\ ~Started(l, k) /\ UNCHANGED <<vars, lost, fenced>>
  /\ UNCHANGED <<mine, snap, fresh, woken, desk, other>>

\* the snapshot says terminal or paused: stop everything, then return
Return ==
  /\ pc = "settle" /\ Ended = {} /\ snap.run # "active"
  /\ exec' = AbortAll
  /\ pc' = IF Active # {} THEN "wait" ELSE IF woken THEN "turn" ELSE "leaving"
  /\ UNCHANGED <<vars, mine, snap, fresh, woken, lost, desk, fenced, other>>

Admissible == IF Cardinality(Active) < MaxLeaf THEN snap.admits ELSE {}

\* tryStartAttempt with the snapshot's version, then launchExecution
Admit(l) ==
  LET k == Cardinality(Used(l)) + 1 IN
  /\ pc = "settle" /\ Ended = {} /\ snap.run = "active" /\ l \in Admissible
  /\ pc' = "turn"
  /\ \/ /\ fresh /\ MineHeld
        /\ StartAttempt(l)
        /\ exec' = [Stopped EXCEPT ![l][k] = "running"]
        /\ fenced' = FALSE /\ UNCHANGED lost
     \/ ~MineHeld /\ lost' = TRUE /\ exec' = Stopped /\ UNCHANGED <<vars, fenced>>
     \/ ~fresh /\ exec' = Stopped /\ UNCHANGED <<vars, lost, fenced>>
  /\ UNCHANGED <<mine, snap, fresh, woken, desk, other>>

\* mutant: the wakeup version is observed when the pump goes to wait
IdleObservesLate ==
  /\ pc = "settle" /\ Ended = {} /\ snap.run = "active" /\ Admissible = {}
  /\ exec' = Stopped
  /\ pc' = IF Active # {} THEN "wait" ELSE IF woken THEN "turn" ELSE "failing"
  /\ woken' = FALSE
  /\ UNCHANGED <<vars, mine, snap, fresh, lost, desk, fenced, other>>

\* nothing to start: wait for the executions; without any, the Run is "idle",
\* which runExecutionExit refuses (no Signal waits here)
Idle ==
  /\ pc = "settle" /\ Ended = {} /\ snap.run = "active" /\ Admissible = {}
  /\ exec' = Stopped
  /\ pc' = IF Active # {} THEN "wait" ELSE IF woken THEN "turn" ELSE "failing"
  /\ UNCHANGED <<vars, mine, snap, fresh, woken, lost, desk, fenced, other>>

\* mutant: the pump does not wait for the end of its executions
AwakenOnWakeupOnly ==
  /\ pc = "wait" /\ woken
  /\ pc' = "turn"
  /\ UNCHANGED <<vars, mine, exec, snap, fresh, woken, lost, desk, fenced, other>>

\* waitForPump: a wakeup, the end of an execution or the nearest deadline
Awaken ==
  /\ pc = "wait"
  /\ woken \/ Ended # {} \/ \E x \in Active : att[x[1]][x[2]] = "overdue"
  /\ pc' = "turn"
  /\ UNCHANGED <<vars, mine, exec, snap, fresh, woken, lost, desk, fenced, other>>

\* startRunHeartbeat: the renewal fails, once
Heartbeat ==
  /\ pc \notin {"off", "leaving", "aborted", "failing"} /\ ~lost /\ ~MineHeld
  /\ lost' = TRUE /\ woken' = TRUE /\ exec' = AbortAll
  /\ UNCHANGED <<vars, pc, mine, snap, fresh, desk, fenced, other>>

\* closing the scope interrupts and awaits every execution, then releases the
\* lease and removes the session; a failure leaves a fence at the event version,
\* but the cause of an aborted pump is an interruption and nothing else
Leave ==
  /\ pc \in {"leaving", "aborted", "failing"}
  /\ \A x \in Active : exec[x[1]][x[2]] \notin Live
  /\ IF epoch = mine /\ lease \in {"held", "expired"} THEN ReleaseRun ELSE UNCHANGED vars
  /\ fenced' = (fenced \/ pc = "failing")
  /\ pc' = "off" /\ mine' = 0 /\ exec' = NoExec /\ snap' = NoSnap
  /\ fresh' = FALSE /\ woken' = FALSE /\ lost' = FALSE
  /\ ctl' = IF ctl = "await" THEN "ended" ELSE ctl
  /\ UNCHANGED <<used, other>>

\* an executor ends; an interrupted one may still have won the race
ExecutionEnds(l, k) ==
  /\ exec[l][k] \in Live
  /\ \E res \in IF exec[l][k] = "running" THEN {"completed", "failed"} ELSE Over :
       exec' = [exec EXCEPT ![l][k] = res]
  /\ UNCHANGED <<vars, pc, mine, snap, fresh, woken, lost, desk, fenced, other>>

\* the scope that closes interrupts what still runs
Interrupting ==
  /\ pc \in {"leaving", "aborted", "failing"} /\ exec # AbortAll
  /\ exec' = AbortAll
  /\ UNCHANGED <<vars, pc, mine, snap, fresh, woken, lost, desk, fenced, other>>

-----------------------------------------------------------------------------
(* Operator controls, one at a time (RuntimeMutationQueue)                  *)

\* mutant: pause and cancel return without awaiting the session
ControlPlaceNoAwait(kind) ==
  /\ woken' = TRUE /\ ctl' = IF kind = "restarts" THEN "await" ELSE "idle"
  /\ pc' = IF kind = "restarts" /\ pc # "failing" THEN "leaving" ELSE pc

\* mutant: the control does not wake the pump
ControlPlaceSilent(kind) ==
  /\ woken' = woken /\ ctl' = IF kind = "goes on" THEN "idle" ELSE "await"
  /\ pc' = IF kind = "restarts" /\ pc # "failing" THEN "leaving" ELSE pc

\* what controlResult does with the session after its transaction, before any
\* other fiber runs: wake it, and interrupt it when the Run is to be restarted;
\* a control that ends or restarts the session then awaits its fiber
ControlPlace(kind) ==
  /\ woken' = TRUE /\ ctl' = IF kind = "goes on" THEN "idle" ELSE "await"
  /\ pc' = IF kind = "restarts" /\ pc # "failing" THEN "leaving" ELSE pc

SessionControl ==
  /\ ctl = "idle" /\ used < MaxControls /\ epoch < MaxEpoch
  /\ pc # "off" /\ MineHeld
  /\ \/ (Resume \/ \E l \in Leaves : CancelLeaf(l)) /\ ControlPlace("goes on")
     \/ (Pause \/ CancelRun) /\ ControlPlace("ends")
     \/ (\E l \in Leaves : RetryLeaf(l)) /\ ControlPlace("restarts")
  /\ used' = used + 1 /\ Disturb
  /\ UNCHANGED <<mine, exec, snap, lost, other>>

\* the fiber of the session has been awaited
Awaited ==
  /\ ctl = "ended"
  /\ ctl' = "idle"
  /\ UNCHANGED <<vars, local, used, fenced, other>>

\* controlWithShortSession; its lease of 30 s is taken to outlive it
ShortClaim ==
  /\ ctl = "idle" /\ pc = "off" /\ used < MaxControls /\ epoch + 1 < MaxEpoch
  /\ ClaimRun
  /\ ctl' = "claimed" /\ used' = used + 1 /\ other' = FALSE
  /\ UNCHANGED <<local, fenced>>

ShortApply ==
  /\ ctl = "claimed"
  /\ \/ Pause \/ Resume \/ CancelRun
     \/ \E l \in Leaves : CancelLeaf(l) \/ RetryLeaf(l)
  /\ ctl' = "applied" /\ Disturb
  /\ UNCHANGED <<pc, mine, exec, snap, woken, lost, used, other>>

ShortRelease ==
  /\ ctl \in {"claimed", "applied"}
  /\ ReleaseRun
  /\ ctl' = "idle"
  /\ UNCHANGED <<local, used, fenced, other>>

-----------------------------------------------------------------------------
(* The world around: time, another process, and a crash of this one         *)

Short == ctl \in {"claimed", "applied"}

Lapse ==
  /\ epoch < MaxEpoch /\ ~Short
  /\ LeaseExpires
  /\ UNCHANGED <<local, desk, fenced, other>>

Deadline(l, k) ==
  /\ DeadlinePasses(l, k)
  /\ UNCHANGED <<local, desk, fenced, other>>

OtherClaim ==
  /\ epoch + 1 < MaxEpoch
  /\ ClaimRun
  /\ other' = TRUE
  /\ UNCHANGED <<local, desk, fenced>>

OtherStep ==
  /\ other /\ Owned
  /\ \/ (Derive \/ \E e \in Epochs : SupersedeExpired(e)) /\ Disturb
     \/ ReleaseRun /\ UNCHANGED <<fresh, fenced>>
  /\ UNCHANGED <<pc, mine, exec, snap, woken, lost, desk, other>>

Crash ==
  /\ epoch < MaxEpoch /\ (pc # "off" \/ Short)
  /\ pc' = "off" /\ mine' = 0 /\ exec' = NoExec /\ snap' = NoSnap
  /\ fresh' = FALSE /\ woken' = FALSE /\ lost' = FALSE
  /\ ctl' = "idle" /\ fenced' = FALSE
  /\ UNCHANGED <<vars, used, other>>

-----------------------------------------------------------------------------
PumpStep ==
  \/ StartPump \/ DrainStep \/ DrainLost \/ DrainEnds \/ RecoverExpired \/ Turn
  \/ \E l \in Leaves, k \in Tries : Collect(l, k)
  \/ Return \/ Idle \/ Awaken \/ Leave \/ Interrupting
  \/ \E l \in Leaves : Admit(l)

DeskStep == Awaited \/ ShortRelease

PumpNext ==
  \/ PumpStep \/ DeskStep \/ Heartbeat
  \/ \E l \in Leaves, k \in Tries : ExecutionEnds(l, k) \/ Deadline(l, k)
  \/ SessionControl \/ ShortClaim \/ ShortApply
  \/ Lapse \/ OtherClaim \/ OtherStep \/ Crash

PumpSpec == PumpInit /\ [][PumpNext]_pvars

\* the fibers of a live process run, and an interrupted execution ends
PumpFairness ==
  /\ WF_pvars(PumpStep) /\ WF_pvars(DeskStep) /\ WF_pvars(Heartbeat)
  /\ \A l \in Leaves, k \in Tries :
       WF_pvars(exec[l][k] = "interrupted" /\ ExecutionEnds(l, k))

FairPumpSpec == PumpSpec /\ PumpFairness

\* what only the work and the other processes decide: every execution ends, and
\* a lease that nobody here renews lapses
WorkEnds ==
  /\ \A l \in Leaves, k \in Tries : WF_pvars(ExecutionEnds(l, k))
  /\ WF_pvars(epoch # mine /\ Lapse)

-----------------------------------------------------------------------------
(* Properties *)

\* New work starts only after the work of every earlier owner is closed, also
\* when controls and other owners come between (recoverExpiredOwnerAttempts).
OldWorkFirst ==
  [][\A l \in Leaves, k \in Tries :
       exec[l][k] = "none" /\ exec'[l][k] = "running" =>
         \A x \in AllStarted : own[x[1]][x[2]] = mine]_pvars

\* No control is slept through: while the pump waits with no wakeup pending, its
\* snapshot is the present state (the version is observed before the drain, createVersionedWakeup).
NoLostWakeup ==
  pc = "wait" /\ MineHeld /\ ~woken => fresh

\* A driver gives its Run up, with an incident or by an interruption nobody recorded,
\* only when it had lost the lease: pauses, cancellations and late results while it
\* owns the Run are none, and it never runs out of work with the Run unfinished.
FailsOnlyWithoutLease == pc \in {"aborted", "failing"} => ~MineHeld

\* The driver's local state is well formed, and it gives up only what it lost.
PumpConsistent == PumpTypeOK /\ FailsOnlyWithoutLease

\* Two executions of one leaf never run side by side in the process: its next
\* attempt is launched after the last one's fiber has ended (endsSession,
\* restartsSession, the scope of the pump).
OneExecution ==
  \A l \in Leaves : Cardinality({k \in Tries : exec[l][k] \in Live}) <= 1

\* A Run that can move is driven to an end or to a pause, through lease losses,
\* crashes, controls and drivers that were aborted: no failure fence of its own
\* making ever holds it back.
RunIsDriven == WorkEnds => (run = "active" ~> run # "active")

\* A control is answered, so the queue of mutations behind it moves on, even if no
\* execution would ever end by itself: pause, cancel and retry interrupt what they
\* wait for (controlResult, RuntimeMutationQueue).
QueueMovesOn == ctl # "idle" ~> ctl = "idle"
=============================================================================
