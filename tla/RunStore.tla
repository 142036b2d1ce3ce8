------------------------------- MODULE RunStore -------------------------------
(***************************************************************************)
(* The durable state of one Run and the transactions of the scheduler      *)
(* store on it (packages/runtime/src/store/scheduler-store.ts over the      *)
(* reducer of scheduler/transitions.ts).  Every action is one BEGIN         *)
(* IMMEDIATE ... COMMIT, so it is atomic; callers are whoever holds a       *)
(* lease epoch, and any number of them interleave.                          *)
(*                                                                         *)
(* The workflow is a frozen tree: a group node (parallel or fanout) has a   *)
(* member per branch, a member has a branch frame, and the branch runs one  *)
(* node, a leaf or another group.                 A tree node n other than *)
(* Root names its member and its branch frame too.  A status that is        *)
(* "cancelled" in the code is written here as its cancellation reason,      *)
(* since retry treats the reasons differently.  A leaf is a Task or an      *)
(* Agent, which attempts run, or a Signal, which a wait holds open until an *)
(* operator answers it or its deadline passes.                              *)
(***************************************************************************)
EXTENDS Integers, FiniteSets

CONSTANTS
  Leaves,      \* Task, Agent and Signal nodes
  Signals,     \* the Signal nodes among them
  Groups,      \* parallel and fanout nodes
  Root,        \* the group that is the only node of the root scope
  Path,        \* Path[n]: n and the groups around it, up to Root
  Parent,      \* Parent[n]: the group whose member n is
  Strategy,    \* "all", "race" or "quorum"
  Quorum,      \* quorumCount of a quorum group
  Cap,         \* maxConcurrency of a group
  MaxLeaf,     \* maxLeafConcurrency of the Run
  Timed,       \* leaves whose attempts, or whose wait, carry a deadline
  MaxAttempts, \* bound on the attempts of a leaf
  MaxEpoch     \* bound on the ownership epochs of the Run

Nodes   == Leaves \union Groups
Members == Nodes \ {Root}

ASSUME TreeAssumption ==
  /\ IsFiniteSet(Leaves) /\ IsFiniteSet(Groups)
  /\ Leaves \intersect Groups = {} /\ Root \in Groups
  /\ Parent \in [Members -> Groups]
  /\ Path \in [Nodes -> SUBSET Nodes]
  /\ Path[Root] = {Root}
  /\ \A n \in Members : Path[n] = {n} \union Path[Parent[n]] /\ n \notin Path[Parent[n]]

ASSUME BoundAssumption ==
  /\ Strategy \in [Groups -> {"all", "race", "quorum"}]
  /\ Quorum \in [Groups -> Nat \ {0}] /\ Cap \in [Groups -> Nat \ {0}]
  /\ MaxLeaf \in Nat \ {0} /\ Timed \subseteq Leaves /\ Signals \subseteq Leaves
  /\ MaxAttempts \in Nat \ {0} /\ MaxEpoch \in Nat \ {0}

VARIABLES
  run,      \* run.status; "active" stands for pending, running and awaiting
  member,   \* status of the group member
  branch,   \* status of its branch frame
  group,    \* status of the group projection
  gframe,   \* status of the node frame that owns the group
  inst,     \* status of the node instance of a leaf
  att,      \* att[l][k]: status of attempt number k of leaf l, "none" if unused,
            \* "overdue" while it is started and its deadlineAt has passed
  own,      \* own[l][k]: owner epoch recorded on it
  seq,      \* completionSequence of a member, 0 if undefined
  accepted, \* acceptedMemberKeys of a completed group
  wait,     \* status of the wait of a Signal, "none" without one, "due" while it
            \* is awaiting and its deadlineAt has passed, "frozen" while it is
            \* awaiting and a pause has put timeoutRemainingMs for deadlineAt
  epoch,    \* owner_epoch of the run_leases row, 0 before the first claim
  lease     \* "none", "held", "expired" or "released"

proj  == <<run, member, branch, group, gframe, inst, att, own, seq, accepted, wait>>
owner == <<epoch, lease>>
vars  == <<run, member, branch, group, gframe, inst, att, own, seq, accepted,
           wait, epoch, lease>>

-----------------------------------------------------------------------------
Tries     == 1 .. MaxAttempts
Epochs    == 0 .. MaxEpoch
Open      == {"ready", "running", "awaiting"}
Reasons   == {"parent_failed", "race_lost", "quorum_reached", "operator_cancelled"}
Settled   == {"completed", "failed"} \union Reasons
Status    == Open \union Settled
Terminal  == {"completed", "failed", "canceled"}
Running   == {"started", "overdue"}
OpenWait  == {"awaiting", "due", "frozen"}
Closed    == {"completed", "failed", "timed_out", "cancelled", "superseded"}

TypeOK ==
  /\ run \in {"active", "paused"} \union Terminal
  /\ member \in [Members -> Status] /\ branch \in [Members -> Status \ {"ready"}]
  /\ group \in [Groups -> Status \ {"ready"}] /\ gframe \in [Groups -> Status \ {"ready"}]
  /\ inst \in [Leaves -> Status]
  /\ att \in [Leaves -> [Tries -> {"none"} \union Running \union Closed]]
  /\ own \in [Leaves -> [Tries -> Epochs]]
  /\ seq \in [Members -> Nat]
  /\ accepted \in [Groups -> SUBSET Members]
  /\ wait \in [Signals -> {"none", "consumed", "timed_out"} \union OpenWait \union Reasons]
  /\ epoch \in Epochs
  /\ lease \in {"none", "held", "expired", "released"}

(* bootstrapRootEvents: the root scope, its group, and every first node.    *)
Init ==
  /\ run = "active"
  /\ member = [n \in Members |-> "ready"] /\ branch = [n \in Members |-> "running"]
  /\ group = [g \in Groups |-> "running"] /\ gframe = [g \in Groups |-> "running"]
  /\ inst = [l \in Leaves |-> "ready"]
  /\ att = [l \in Leaves |-> [k \in Tries |-> "none"]]
  /\ own = [l \in Leaves |-> [k \in Tries |-> 0]]
  /\ seq = [n \in Members |-> 0]
  /\ accepted = [g \in Groups |-> {}]
  /\ wait = [l \in Signals |-> "none"]
  /\ epoch = 0 /\ lease = "none"

-----------------------------------------------------------------------------
(* The tree, and what the projection says about it.                         *)

Kids(g)  == {n \in Members : Parent[n] = g}
Under(S) == {n \in Nodes : Path[n] \intersect S # {}}
Depth(n) == Cardinality(Path[n])
Line(l)  == Path[l] \ {Root}      \* ancestorGroupMembersForNode

Started(l, k) == att[l][k] \in Running
AllStarted    == {x \in Leaves \X Tries : Started(x[1], x[2])}
Used(l)       == {k \in Tries : att[l][k] # "none"}

\* mutant: a cancellation also overwrites what has settled
CancelInAll(f, S, r) == [n \in DOMAIN f |-> IF n \in Under(S) THEN r ELSE f[n]]
\* status after cancelling the open part of the subtrees rooted at S
CancelIn(f, S, r) ==
  [n \in DOMAIN f |-> IF n \in Under(S) /\ f[n] \in Open THEN r ELSE f[n]]
\* mutant: a cancellation forgets the waits
CancelNoWaits(S, r) == wait
\* open waits of the Signals under S
CancelWaits(S, r) ==
  [l \in Signals |-> IF l \in Under(S) /\ wait[l] \in OpenWait THEN r ELSE wait[l]]
\* mutant: the attempts of cancelled work stay started
CloseNoAttempts(L, st) == att
\* started attempts of the leaves in L become st
CloseAttempts(L, st) ==
  [l \in Leaves |-> [k \in Tries |->
     IF l \in L /\ Started(l, k) THEN st ELSE att[l][k]]]

\* the active lease that every scheduler write requires (requireActiveOwnerEpoch)
Owned == lease = "held"

-----------------------------------------------------------------------------
(* Leases                                                                   *)

ClaimRun ==
  /\ lease # "held" /\ epoch < MaxEpoch
  /\ epoch' = epoch + 1 /\ lease' = "held"
  /\ UNCHANGED proj

ReleaseRun ==
  /\ lease \in {"held", "expired"}
  /\ lease' = "released"
  /\ UNCHANGED <<epoch, proj>>

\* lease_expires_at passes before the owner's heartbeat renews it
LeaseExpires ==
  /\ lease = "held"
  /\ lease' = "expired"
  /\ UNCHANGED <<epoch, proj>>

\* mutant: the instance is requeued, the attempt of the expired epoch is not closed
SupersedeInstanceOnly(e) ==
  LET stale == {l \in Leaves : \E k \in Tries : Started(l, k) /\ own[l][k] = e} IN
  /\ Owned /\ e < epoch /\ stale # {}
  /\ inst' = [l \in Leaves |->
               IF l \in stale /\ inst[l] = "running" THEN "ready" ELSE inst[l]]
  /\ UNCHANGED <<run, member, branch, group, gframe, att, own, seq, accepted, wait, owner>>

\* recovery by the new owner: attempts of the expired epoch e are superseded
SupersedeExpired(e) ==
  LET stale == {l \in Leaves : \E k \in Tries : Started(l, k) /\ own[l][k] = e} IN
  /\ Owned /\ e < epoch /\ stale # {}
  /\ att' = [l \in Leaves |-> [k \in Tries |->
               IF Started(l, k) /\ own[l][k] = e THEN "superseded" ELSE att[l][k]]]
  /\ inst' = [l \in Leaves |->
               IF l \in stale /\ inst[l] = "running" THEN "ready" ELSE inst[l]]
  /\ UNCHANGED <<run, member, branch, group, gframe, own, seq, accepted, wait, owner>>

-----------------------------------------------------------------------------
(* Derived transitions: what follows from the projection alone.  One batch  *)
(* per transaction, in the order of nextSchedulerTransitionEvents.          *)

\* mutant: a member counts as finished before itself
ByCompletionInclusive(g, n) ==
  {m \in Kids(g) : member[m] = "completed" /\ seq[m] <= seq[n]}
ByCompletion(g, n) == {m \in Kids(g) : member[m] = "completed" /\ seq[m] < seq[n]}
Winners(g, count) ==
  {n \in Kids(g) : member[n] = "completed" /\ Cardinality(ByCompletion(g, n)) < count}

\* evaluateGroupCompletion
Outcome(g) ==
  LET In(S) == {n \in Kids(g) : member[n] \in S} IN
  CASE Strategy[g] = "all" ->
         IF In({"failed"} \union Reasons) # {} THEN "failed"
         ELSE IF In({"completed"}) = Kids(g) THEN "completed" ELSE "running"
    [] Strategy[g] = "race" ->
         IF In({"completed"}) # {} THEN "completed"
         ELSE IF In(Open) = {} THEN "failed" ELSE "running"
    [] Strategy[g] = "quorum" ->
         IF Cardinality(In({"completed"})) >= Quorum[g] THEN "completed"
         ELSE IF Cardinality(In({"completed"} \union Open)) < Quorum[g]
              THEN "failed" ELSE "running"

WinnerSet(g) ==
  CASE Strategy[g] = "all"    -> Kids(g)
    [] Strategy[g] = "race"   -> Winners(g, 1)
    [] Strategy[g] = "quorum" -> Winners(g, Quorum[g])

Decided == {g \in Groups : group[g] = "running" /\ Outcome(g) # "running"}
\* the decided groups at the greatest depth make one batch
Batch   == {g \in Decided : \A h \in Decided : Depth(h) <= Depth(g)}

\* the reason with which a decided group cancels its open members
LoserReason(g) ==
  CASE Outcome(g) = "failed"   -> "parent_failed"
    [] Strategy[g] = "quorum"  -> "quorum_reached"
    [] OTHER                   -> "race_lost"

CompleteGroups ==
  LET losers == {n \in Members : Parent[n] \in Batch /\ member[n] \in Open}
      Why(n) == LoserReason(CHOOSE g \in Batch : g \in Path[n])
      Cancel(f) == [n \in DOMAIN f |->
        IF n \in Under(losers) /\ f[n] \in Open THEN Why(n) ELSE f[n]]
      cancelled == Cancel(group)
  IN
  /\ Owned /\ Batch # {}
  /\ group' = [g \in Groups |-> IF g \in Batch THEN Outcome(g) ELSE cancelled[g]]
  /\ accepted' = [g \in Groups |->
        IF g \in Batch /\ Outcome(g) = "completed" THEN WinnerSet(g) ELSE accepted[g]]
  /\ member' = Cancel(member) /\ branch' = Cancel(branch)
  /\ gframe' = Cancel(gframe) /\ inst' = Cancel(inst)
  /\ att' = CloseAttempts(Leaves \intersect Under(losers), "cancelled")
  /\ wait' = [l \in Signals |->
       IF l \in Under(losers) /\ wait[l] \in OpenWait THEN Why(l) ELSE wait[l]]
  /\ UNCHANGED <<run, own, seq, owner>>

\* nodeState: the status of the one node of a branch
Child(n) == IF n \in Leaves THEN inst[n] ELSE gframe[n]

\* mutant: a branch ends without waiting for its node to start
BranchReadyEarly(n) ==
  branch[n] = "running" /\ (member[n] \in Reasons \/ Child(n) \in Settled \union {"ready"})
\* frames with a pending continuation, and the order runnableFrames gives them
BranchReady(n) == branch[n] = "running" /\ (member[n] \in Reasons \/ Child(n) \in Settled)
GroupReady(g)  == gframe[g] = "running" /\ group[g] \in Settled
RootReady      == run \notin Terminal /\ gframe[Root] \in Settled
BranchTurn(n) ==
  /\ BranchReady(n)
  /\ \A m \in Members : BranchReady(m) => Depth(m) <= Depth(n)
  /\ \A g \in Groups : GroupReady(g) => Depth(g) < Depth(n)
GroupTurn(g) ==
  /\ GroupReady(g)
  /\ \A m \in Members : BranchReady(m) => Depth(m) <= Depth(g)
  /\ \A h \in Groups : GroupReady(h) => Depth(h) <= Depth(g)

NextSequence == 1 + (CHOOSE s \in {0} \union {seq[n] : n \in Members} :
                       \A n \in Members : seq[n] <= s)

\* continueScopeFrameEvents and terminalScopeFrameEvents of a branch frame
ContinueBranch(n) ==
  LET end == IF member[n] \in Reasons THEN member[n] ELSE Child(n) IN
  /\ Owned /\ Batch = {} /\ BranchTurn(n)
  /\ branch' = [branch EXCEPT ![n] = end]
  /\ member' = IF member[n] \in Open THEN [member EXCEPT ![n] = end] ELSE member
  /\ seq' = IF member[n] \in Open /\ end = "completed"
            THEN [seq EXCEPT ![n] = NextSequence] ELSE seq
  /\ UNCHANGED <<run, group, gframe, inst, att, own, accepted, wait, owner>>

\* continueGroupFrameEvents; a cancelled group cancels its frame as parent_failed
ContinueGroup(g) ==
  /\ Owned /\ Batch = {} /\ GroupTurn(g)
  /\ gframe' = [gframe EXCEPT ![g] =
                  IF group[g] \in Reasons THEN "parent_failed" ELSE group[g]]
  /\ UNCHANGED <<run, member, branch, group, inst, att, own, seq, accepted, wait, owner>>

FramesQuiet == (\A n \in Members : ~BranchReady(n)) /\ (\A g \in Groups : ~GroupReady(g))

\* the root scope frame, whose end is the Run's end
ContinueRoot ==
  /\ Owned /\ Batch = {} /\ FramesQuiet /\ RootReady
  /\ run' = CASE gframe[Root] = "operator_cancelled"          -> "canceled"
              [] gframe[Root] \in {"failed"} \union Reasons   -> "failed"
              [] OTHER                                        -> "completed"
  /\ UNCHANGED <<member, branch, group, gframe, inst, att, own, seq, accepted, wait, owner>>

Quiet == Batch = {} /\ FramesQuiet /\ ~RootReady

DueNow == {x \in Leaves \X Tries : att[x[1]][x[2]] = "overdue"}
\* running ancestor members of a leaf: each gets a member_failed event
RunningLine(l) == {n \in Line(l) : member[n] = "running"}
Hit(x) == RunningLine(x[1])
\* the reducer refuses a second member_failed on the same member
Applies == \A x, y \in DueNow : x = y \/ Hit(x) \intersect Hit(y) = {}

\* attemptTimeoutEvents: all due attempts in one batch
TimeoutAttempts ==
  /\ Owned /\ Quiet /\ DueNow # {} /\ Applies
  /\ att' = [l \in Leaves |-> [k \in Tries |->
               IF <<l, k>> \in DueNow THEN "timed_out" ELSE att[l][k]]]
  /\ inst' = [l \in Leaves |->
               IF inst[l] = "running" /\ \E k \in Tries : <<l, k>> \in DueNow
               THEN "failed" ELSE inst[l]]
  /\ member' = [n \in Members |->
               IF \E x \in DueNow : n \in Hit(x) THEN "failed" ELSE member[n]]
  /\ UNCHANGED <<run, branch, group, gframe, own, seq, accepted, wait, owner>>

DueWaits == {l \in Signals : wait[l] = "due"}

\* signalTimeoutEvents: all due waits in one batch, under the same condition
ExpireWaits ==
  /\ Owned /\ run # "paused" /\ DueWaits # {}
  /\ \A l, m \in DueWaits : l = m \/ RunningLine(l) \intersect RunningLine(m) = {}
  /\ wait' = [l \in Signals |-> IF l \in DueWaits THEN "timed_out" ELSE wait[l]]
  /\ inst' = [l \in Leaves |->
               IF l \in DueWaits /\ inst[l] = "awaiting" THEN "failed" ELSE inst[l]]
  /\ member' = [n \in Members |->
               IF \E l \in DueWaits : n \in RunningLine(l) THEN "failed" ELSE member[n]]
  /\ UNCHANGED <<run, branch, group, gframe, att, own, seq, accepted, owner>>

\* the last transition settling looks for
TimeoutSignals == Quiet /\ DueNow = {} /\ ExpireWaits

\* the wall clock passes deadlineAt of a wait
WaitExpires(l) ==
  /\ l \in Signals \intersect Timed /\ wait[l] = "awaiting"
  /\ wait' = [wait EXCEPT ![l] = "due"]
  /\ UNCHANGED <<run, member, branch, group, gframe, inst, att, own, seq, accepted, owner>>

\* the wall clock passes deadlineAt of a started attempt
DeadlinePasses(l, k) ==
  /\ l \in Timed /\ att[l][k] = "started"
  /\ att' = [att EXCEPT ![l][k] = "overdue"]
  /\ UNCHANGED <<run, member, branch, group, gframe, inst, own, seq, accepted, wait, owner>>

-----------------------------------------------------------------------------
(* Attempts                                                                 *)

\* mutant: a member that is already counted as running needs a free slot again
GroupsAdmitNoReentry(l) == \A n \in Line(l) :
  /\ member[n] \in Open /\ group[Parent[n]] = "running"
  /\ Cardinality({m \in Kids(Parent[n]) : member[m] = "running"}) < Cap[Parent[n]]

\* groupsAdmit: every ancestor is open and the group of a waiting one has room
GroupsAdmit(l) == \A n \in Line(l) :
  /\ member[n] \in Open /\ group[Parent[n]] = "running"
  /\ \/ member[n] = "running"
     \/ Cardinality({m \in Kids(Parent[n]) : member[m] = "running"}) < Cap[Parent[n]]

\* selectNextAdmission; the code takes the ready leaf of the least readiness
\* sequence, any ready leaf may be taken here
Admits(l) ==
  /\ run = "active" /\ inst[l] = "ready"
  /\ l \in Signals \/ Cardinality(AllStarted) < MaxLeaf
  /\ GroupsAdmit(l)

\* readiness of the members on the way to l ends (startReadyAncestorMembers)
StartLine(l) ==
  [n \in Members |-> IF n \in Line(l) /\ member[n] = "ready" THEN "running" ELSE member[n]]

StartAttempt(l) ==
  LET k == Cardinality(Used(l)) + 1 IN
  /\ Owned /\ Quiet /\ l \notin Signals /\ Admits(l) /\ k \in Tries
  /\ att' = [att EXCEPT ![l][k] = "started"]
  /\ own' = [own EXCEPT ![l][k] = epoch]
  /\ inst' = [inst EXCEPT ![l] = "running"]
  /\ member' = StartLine(l)
  /\ UNCHANGED <<run, branch, group, gframe, seq, accepted, wait, owner>>

\* mutant: the epoch that started the attempt is not compared with the lease
CommitUnfenced(l, k, e, res) ==
  /\ Started(l, k) /\ own[l][k] = e /\ inst[l] \in Open
  /\ att' = [att EXCEPT ![l][k] = res]
  /\ inst' = [inst EXCEPT ![l] = res]
  /\ UNCHANGED <<run, member, branch, group, gframe, own, seq, accepted, wait, owner>>

\* commitAttemptResult by the owner of epoch e; res is the executor's verdict
CommitResult(l, k, e, res) ==
  /\ Started(l, k) /\ own[l][k] = e
  /\ Owned /\ e = epoch
  /\ inst[l] \in Open
  /\ att' = [att EXCEPT ![l][k] = res]
  /\ inst' = [inst EXCEPT ![l] = res]
  /\ member' = IF res = "completed" THEN StartLine(l) ELSE member
  /\ UNCHANGED <<run, branch, group, gframe, own, seq, accepted, wait, owner>>

-----------------------------------------------------------------------------
(* Signals                                                                  *)

\* the pump admits a Signal: its wait opens, whatever the executors are doing
AwaitSignal(l) ==
  /\ Owned /\ Quiet /\ Admits(l)
  /\ wait' = [wait EXCEPT ![l] = "awaiting"]
  /\ inst' = [inst EXCEPT ![l] = "awaiting"]
  /\ member' = StartLine(l)
  /\ UNCHANGED <<run, branch, group, gframe, att, own, seq, accepted, owner>>

\* drainDueSignalTimeouts: a control that answers a Signal or pauses the Run first
\* lets every due wait time out, whatever else is still to be derived
DrainSignals == ExpireWaits

\* mutant: an answer is taken while other waits are due
ConsumeUndrained(l) ==
  /\ Owned /\ wait[l] = "awaiting" /\ run # "paused"
  /\ wait' = [wait EXCEPT ![l] = "consumed"]
  /\ inst' = [inst EXCEPT ![l] = "completed"]
  /\ member' = StartLine(l)
  /\ UNCHANGED <<run, branch, group, gframe, att, own, seq, accepted, owner>>

\* consumeSignal by an operator's payload, after the drain
ConsumeSignal(l) ==
  /\ Owned /\ DueWaits = {}
  /\ wait[l] = "awaiting" /\ run # "paused"
  /\ wait' = [wait EXCEPT ![l] = "consumed"]
  /\ inst' = [inst EXCEPT ![l] = "completed"]
  /\ member' = StartLine(l)
  /\ UNCHANGED <<run, branch, group, gframe, att, own, seq, accepted, owner>>

-----------------------------------------------------------------------------
(* Controls                                                                 *)

\* the clock of a timed wait stops and goes on with what remained
Freeze == [l \in Signals |-> IF l \in Timed /\ wait[l] = "awaiting" THEN "frozen" ELSE wait[l]]
Thaw   == [l \in Signals |-> IF wait[l] = "frozen" THEN "awaiting" ELSE wait[l]]

\* mutant: only the attempts of the present owner are closed
PauseOwnAttempts ==
  LET mine == {l \in Leaves : \E k \in Tries : Started(l, k) /\ own[l][k] = epoch} IN
  /\ Owned /\ run = "active" /\ DueWaits = {}
  /\ run' = "paused" /\ wait' = Freeze
  /\ att' = CloseAttempts(mine, "cancelled")
  /\ inst' = [l \in Leaves |-> IF inst[l] = "running" /\ l \in mine THEN "ready" ELSE inst[l]]
  /\ UNCHANGED <<member, branch, group, gframe, own, seq, accepted, owner>>

\* pauseRun, after the drain; the Signals that wait go on waiting
Pause ==
  /\ Owned /\ run = "active" /\ DueWaits = {}
  /\ run' = "paused" /\ wait' = Freeze
  /\ att' = CloseAttempts(Leaves, "cancelled")
  /\ inst' = [l \in Leaves |->
               IF inst[l] = "running" /\ \E k \in Tries : Started(l, k)
               THEN "ready" ELSE inst[l]]
  /\ UNCHANGED <<member, branch, group, gframe, own, seq, accepted, owner>>

Resume ==
  /\ Owned /\ run = "paused"
  /\ run' = "active" /\ wait' = Thaw
  /\ UNCHANGED <<member, branch, group, gframe, inst, att, own, seq, accepted, owner>>

\* everything open under S, for a cancelled frame, member or Run
CancelTree(S) ==
  /\ member' = CancelIn(member, S, "operator_cancelled")
  /\ branch' = CancelIn(branch, S, "operator_cancelled")
  /\ inst' = CancelIn(inst, S, "operator_cancelled")
  /\ group' = CancelIn(group, S, "operator_cancelled")
  /\ gframe' = CancelIn(gframe, S, "operator_cancelled")
  /\ att' = CloseAttempts(Leaves \intersect Under(S), "cancelled")
  /\ wait' = CancelWaits(S, "operator_cancelled")

CancelRun ==
  /\ Owned /\ run \notin Terminal
  /\ run' = "canceled"
  /\ CancelTree({Root})
  /\ UNCHANGED <<own, seq, accepted, owner>>

\* target a leaf: its branch and member go with it
CancelLeaf(l) ==
  /\ Owned /\ inst[l] \in Open /\ member[l] \in Open
  /\ CancelTree({l})
  /\ UNCHANGED <<run, own, seq, accepted, owner>>

\* target the frame of group g: its own branch and member stay, and follow later
CancelGroup(g) ==
  /\ Owned /\ gframe[g] = "running"
  /\ group' = CancelIn(group, {g}, "operator_cancelled")
  /\ gframe' = CancelIn(gframe, {g}, "operator_cancelled")
  /\ member' = CancelIn(member, Kids(g), "operator_cancelled")
  /\ branch' = CancelIn(branch, Kids(g), "operator_cancelled")
  /\ inst' = CancelIn(inst, {g}, "operator_cancelled")
  /\ att' = CloseAttempts(Leaves \intersect Under({g}), "cancelled")
  /\ wait' = CancelWaits({g}, "operator_cancelled")
  /\ UNCHANGED <<run, own, seq, accepted, owner>>

-----------------------------------------------------------------------------
(* Retry of a failed leaf, with the parent_failed siblings it depends on.   *)

Dependencies(g) == {n \in Kids(g) : member[n] = "parent_failed"}

\* dependencyRecoveryBlocker: could the reopened part of node n still succeed?
Recover(s) == IF s \in {"parent_failed"} \union Open THEN "work"
              ELSE IF s = "completed" THEN "complete" ELSE "blocked"
NodeOutcome[n \in Nodes] ==
  IF n \in Leaves THEN Recover(inst[n])
  ELSE IF Recover(gframe[n]) # "work" THEN Recover(gframe[n])
  ELSE IF Recover(group[n]) # "work" THEN Recover(group[n])
  ELSE
    LET MemberOutcome(m) ==
          IF Recover(member[m]) # "work" THEN Recover(member[m])
          ELSE IF Recover(branch[m]) # "work" THEN Recover(branch[m])
          ELSE IF NodeOutcome[m] = "blocked" THEN "blocked" ELSE "work"
        Having(S) == {m \in Kids(n) : MemberOutcome(m) \in S}
        need == CASE Strategy[n] = "all"    -> Cardinality(Kids(n))
                  [] Strategy[n] = "race"   -> 1
                  [] Strategy[n] = "quorum" -> Quorum[n]
    IN IF Cardinality(Having({"complete"})) >= need THEN "complete"
       ELSE IF Cardinality(Having({"complete", "work"})) >= need THEN "work"
       ELSE "blocked"

\* mutant: the groups around the target are not assessed
GroupUnblockedAlways(g, target) == TRUE

\* targetedRetryGroupAssessment: the reopened group g would not end at once
GroupUnblocked(g, target) ==
  LET In(S) == {n \in Kids(g) \ Dependencies(g) : member[n] \in S}
      done == Cardinality(In({"completed"}))
  IN CASE Strategy[g] = "all"    -> In({"failed"} \union Reasons) \subseteq {target}
       [] Strategy[g] = "race"   -> done = 0
       [] Strategy[g] = "quorum" ->
            /\ done < Quorum[g]
            /\ done + Cardinality(In(Open)) + Cardinality(Dependencies(g)) + 1 >= Quorum[g]

RetryEligible(l) ==
  /\ run \in {"active", "failed"} /\ inst[l] = "failed"
  /\ \A n \in Line(l) :
       /\ branch[n] \in {"running", "failed"} /\ gframe[Parent[n]] \in {"running", "failed"}
       /\ member[n] = "failed" /\ group[Parent[n]] \in {"running", "failed"}
       /\ GroupUnblocked(Parent[n], n)
       /\ \A d \in Dependencies(Parent[n]) :
            /\ Recover(branch[d]) # "blocked"
            /\ Recover(branch[d]) = "work" => NodeOutcome[d] # "blocked"

Reopen(f, S, from, to) == [n \in DOMAIN f |-> IF n \in S /\ f[n] = from THEN to ELSE f[n]]

\* planRetry settles first, in the same transaction: Quiet and nothing due
RetryLeaf(l) ==
  LET line == Line(l)
      over == {Parent[n] : n \in line}
      deps == Under(UNION {Dependencies(g) : g \in over})
  IN
  /\ Owned /\ Quiet /\ DueNow = {} /\ DueWaits = {} /\ RetryEligible(l)
  /\ Cardinality(Used(l)) < MaxAttempts
  /\ run' = IF run = "failed" THEN "active" ELSE run
  /\ inst' = [Reopen(inst, deps, "parent_failed", "ready") EXCEPT ![l] = "ready"]
  /\ branch' = Reopen(Reopen(branch, line, "failed", "running"),
                      deps, "parent_failed", "running")
  /\ gframe' = Reopen(Reopen(gframe, over, "failed", "running"),
                      deps, "parent_failed", "running")
  /\ group' = Reopen(Reopen(group, over, "failed", "running"),
                     deps, "parent_failed", "running")
  /\ member' = Reopen(Reopen(member, line, "failed", "ready"),
                      deps, "parent_failed", "ready")
  /\ seq' = [n \in Members |->
               IF n \in line \/ (n \in deps /\ member[n] = "parent_failed") THEN 0 ELSE seq[n]]
  /\ wait' = [x \in Signals |->
       IF x = l \/ (x \in deps /\ inst[x] = "parent_failed" /\ wait[x] = "parent_failed")
       THEN "none" ELSE wait[x]]
  /\ UNCHANGED <<att, own, accepted, owner>>

-----------------------------------------------------------------------------
Derive ==
  \/ CompleteGroups
  \/ \E n \in Members : ContinueBranch(n)
  \/ \E g \in Groups : ContinueGroup(g)
  \/ ContinueRoot
  \/ TimeoutAttempts
  \/ TimeoutSignals

Ownership ==
  \/ ClaimRun
  \/ ReleaseRun
  \/ LeaseExpires
  \/ \E e \in Epochs : SupersedeExpired(e)

Execution ==
  \/ \E l \in Leaves : StartAttempt(l)
  \/ \E l \in Leaves, k \in Tries, e \in Epochs, res \in {"completed", "failed"} :
       CommitResult(l, k, e, res)
  \/ \E l \in Leaves, k \in Tries : DeadlinePasses(l, k)

Waiting ==
  \/ \E l \in Signals : AwaitSignal(l) \/ ConsumeSignal(l) \/ WaitExpires(l)
  \/ DrainSignals

Control ==
  \/ Pause
  \/ Resume
  \/ CancelRun
  \/ \E l \in Leaves : CancelLeaf(l)
  \/ \E g \in Groups : CancelGroup(g)
  \/ \E l \in Leaves : RetryLeaf(l)

Next == Derive \/ Ownership \/ Execution \/ Waiting \/ Control

Spec == Init /\ [][Next]_vars

-----------------------------------------------------------------------------
(* The abstraction: who holds the work of each leaf.                        *)

Holder(l) ==
  IF \E k \in Tries : Started(l, k)
  THEN own[l][CHOOSE k \in Tries : Started(l, k)] ELSE 0

Abstract == INSTANCE ExclusiveWork WITH
  Work <- Leaves \ Signals, owner <- epoch, live <- lease = "held",
  holder <- [l \in Leaves \ Signals |-> Holder(l)],
  done <- {l \in Leaves \ Signals : inst[l] = "completed"}

-----------------------------------------------------------------------------
(* Properties *)

\* A leaf has a started attempt exactly while its instance is running, and only
\* one: whatever mix of pause, cancel, recovery, timeout and retry came before,
\* starting again never doubles the work (startAttempt, assertInstanceRequeueable).
OneStartedAttempt ==
  \A l \in Leaves :
    /\ inst[l] = "running" <=> \E k \in Tries : Started(l, k)
    /\ \A j, k \in Tries : Started(l, j) /\ Started(l, k) => j = k

\* An open member has a running branch frame and a running group, and a group
\* agrees with the frame that owns it.
FramesAgree ==
  /\ \A n \in Members : member[n] \in Open =>
        branch[n] = "running" /\ group[Parent[n]] = "running"
  /\ \A g \in Groups :
        CASE group[g] = "running"   -> gframe[g] = "running"
          [] group[g] = "completed" -> gframe[g] \in {"running", "completed"} \union Reasons
          [] group[g] = "failed"    -> gframe[g] \in {"running", "failed"} \union Reasons
          [] OTHER                  -> gframe[g] \in {"running"} \union Reasons

\* A finished Run has no attempt still started and no instance still open: the
\* cascades that decide the groups reached every leaf (group-policy.ts).
FinishedRunIsSettled ==
  run \in Terminal => AllStarted = {} /\ \A l \in Leaves : inst[l] \notin Open

\* The local and the Run-wide concurrency limits hold, also after reopening
\* members by retry and requeueing by pause and recovery.
WithinLimits ==
  /\ Cardinality(AllStarted) <= MaxLeaf
  /\ \A g \in Groups :
        Cardinality({m \in Kids(g) : member[m] = "running"}) <= Cap[g]

\* The trees of which the code keeps its counts and frames in agreement: below the root
\* the members of a race or a quorum are leaves without a deadline.  Elsewhere a timeout
\* or a retry can leave work started or ready under a decided group
\* (attemptTimeoutEvents, reopenRetryDependencies).
Plain(g)    == Strategy[g] = "all" \/ Kids(g) \subseteq Leaves \ Timed
NestedPlain == \A g \in Groups \ {Root} : Plain(g)

\* What the batch planner asserts before every group decision
\* (validateGroupMemberIdentity, requireGroupOwnerFrame) and every admission
\* counts on: frames, groups and members agree, a decided tree is settled down to
\* its leaves, and no group has more work than its limit.  If a cascade, a retry
\* or a recovery broke it, every later drive would throw.
GroupsConsistent == FramesAgree /\ FinishedRunIsSettled /\ WithinLimits

\* A Signal waits exactly while its instance is awaiting; an answer is its output and
\* a timeout its failure, and a wait that was cancelled went with its instance for the
\* same reason.  Nothing but these two records says whether an operator may still
\* answer (signalTimeoutEvents, consumeSignal, cancellationEventsForSubtree).
WaitsAgree ==
  \A l \in Signals :
    CASE wait[l] \in OpenWait  -> inst[l] = "awaiting"
      [] wait[l] = "none"      -> inst[l] \in {"ready"} \union Reasons
      [] wait[l] = "consumed"  -> inst[l] = "completed"
      [] wait[l] = "timed_out" -> inst[l] = "failed"
      [] OTHER                 -> inst[l] = wait[l]

\* Every leaf has one record of its work that its instance agrees with: the one
\* started attempt of a Task or an Agent, the wait of a Signal.
OneRecordOfWork == OneStartedAttempt /\ WaitsAgree

\* A paused Run has no started attempt, so resuming can only start anew, and no clock
\* of a Signal runs, so a pause never uses up the time an operator has.
PausedRunIsIdle ==
  run = "paused" =>
    /\ AllStarted = {}
    /\ \A l \in Signals \intersect Timed : wait[l] \notin {"awaiting", "due"}

\* A Run whose derived transitions are exhausted, with nothing started, has a leaf
\* that can be admitted or a Signal that waits: the driver never finds it
\* "non-terminal without active work or a durable wake source", on which
\* runExecutionExit throws.
NeverIdle ==
  run = "active" /\ Quiet /\ AllStarted = {} =>
    \/ \E l \in Leaves : Admits(l)
    \/ \E l \in Signals : wait[l] \in OpenWait

\* A completed race or quorum group accepted exactly its first completed members
\* and left no work open under the others.
WinnersAreFirst ==
  \A g \in Groups : group[g] = "completed" =>
    /\ accepted[g] = WinnerSet(g)
    /\ Cardinality(accepted[g]) = (CASE Strategy[g] = "all"    -> Cardinality(Kids(g))
                                      [] Strategy[g] = "race"   -> 1
                                      [] Strategy[g] = "quorum" -> Quorum[g])
    /\ \A l \in Leaves : inst[l] \in Open => g \notin Path[l]

\* A group counts right: what it accepts, and how much it lets run at a time, whether
\* members begin with an attempt, begin again after a retry or a recovery, or wait.
CountsAreRight == WinnersAreFirst /\ WithinLimits

\* A retry never reopens a decided success: a leaf, a group and a Run that
\* completed stay completed, with the same winners.
SuccessIsFinal ==
  [][/\ \A l \in Leaves : inst[l] = "completed" => inst'[l] = "completed"
     /\ \A g \in Groups : group[g] = "completed" =>
          group'[g] = "completed" /\ accepted'[g] = accepted[g]
     /\ run \in {"completed", "canceled"} => run' = run]_vars

\* Fencing: an attempt gets an executor's result only from the epoch that
\* started it, while that epoch holds the lease, and a closed attempt never
\* changes again, so a late or superseded owner cannot write.
FencedResults ==
  [][\A l \in Leaves, k \in Tries :
       /\ att[l][k] \in Closed => att'[l][k] = att[l][k]
       /\ att'[l][k] # att[l][k] /\ att'[l][k] \in {"completed", "failed"} =>
            own[l][k] = epoch /\ lease = "held"]_vars

\* The end of a wait: an answer is final; once the deadline has passed no answer, no
\* pause and no answer to another Signal of the Run saves the wait, it times out or
\* goes with its leaf; and what has ended otherwise waits again only when its leaf is
\* ready anew (drainDueSignalTimeouts, assertSignalOpen, reopenRetryDependencies).
WaitsEndOnce ==
  [][/\ \A l \in Signals :
          /\ wait[l] = "consumed" => wait'[l] = "consumed"
          /\ wait[l] = "due" => wait'[l] \in {"due", "timed_out"} \union Reasons
          /\ wait[l] \in {"timed_out"} \union Reasons /\ wait'[l] # wait[l] =>
               wait'[l] = "none" /\ inst'[l] = "ready"
     /\ (\E l \in Signals : wait[l] # "consumed" /\ wait'[l] = "consumed") =>
          DueWaits = {} /\ run # "paused"]_vars

\* A retried Run has something to do: a ready leaf all of whose groups are open
\* again and still undecided, so the Run does not end again before it is tried
\* (targetedRetryGroupAssessment, dependencyRecoveryBlocker).
RetryMakesProgress ==
  [][run = "failed" /\ run' = "active" =>
       \E l \in Leaves : inst'[l] = "ready" /\
         \A n \in Line(l) : /\ member'[n] \in Open /\ group'[Parent[n]] = "running"
                            /\ Outcome(Parent[n])' = "running"]_vars

\* The scheduler store implements ExclusiveWork: the lease, the epochs recorded on
\* attempts and the instance statuses together hand every leaf to one owner at a
\* time, whatever controls, timeouts and recoveries happen in between.
WorkIsExclusive == Abstract!Spec
=============================================================================
