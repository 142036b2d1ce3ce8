--------------------------- MODULE SessionSupervisor ---------------------------
(***************************************************************************)
(* Who may use an Agent session: the supervisor of agent-executor            *)
(* (session-supervisor.ts), the opening and the cleanup of the worker each   *)
(* lease starts (process-capsule.ts, process-tree.ts) and the ownership      *)
(* records on disk by which the next supervisor knows the workers of the     *)
(* last one (ownership.ts).  A lease is numbered by its order and so is the  *)
(* worker it spawns; a tree of processes may die, survive what it is sent,   *)
(* or refuse to be seen at any time, a record may fail to be written or      *)
(* removed, and the supervisor's process may crash between any two steps.    *)
(***************************************************************************)
EXTENDS Naturals, FiniteSets

CONSTANTS
  Sessions,    \* the Agent sessions of the workspace
  MaxLeases,   \* bound on the leases ever asked for
  MaxBatches,  \* bound on the neutralizations ever asked for
  MaxStarts    \* bound on the starts of a supervisor

ASSUME SupervisorAssumption ==
  /\ MaxLeases \in Nat /\ MaxBatches \in Nat /\ MaxStarts \in Nat \ {0}

Leases  == 1 .. MaxLeases
Batches == 1 .. MaxBatches
Nobody  == "nobody"

VARIABLES
  sup,        \* the supervisor's life
  starts,     \* supervisors started
  sess, at,   \* of lease n: its session, and where its fiber is
  asked,      \* the lease was told to end: neutralized, shut down, interrupted
  capsule,    \* openProcessCapsule succeeded
  verdict,    \* what the cleanup of the capsule found
  held, entry,\* the quarantined sessions, and the record kept with one, or 0
  batch,      \* the neutralizations
  proc,       \* proc[n]: the process tree of lease n's worker
  record      \* the leases with an ownership record on disk

memory == <<sess, at, asked, capsule, verdict>>
quar   == <<held, entry>>
svars  == <<sup, starts, memory, quar, batch, proc, record>>

Active  == {"check", "record", "open", "use", "mark", "stop", "settle"}
Tree    == {"bare", "serving", "headless"}

BatchTypeOK ==
  batch \in [Batches -> [at : {"free", "preflight", "drain", "committed", "failed"},
                         of : SUBSET Sessions, left : SUBSET Sessions,
                         on : SUBSET Leases, bad : BOOLEAN]]

SupervisorTypeOK ==
  /\ sup \in {"off", "recovering", "up", "closing", "closed"} /\ starts \in 0 .. MaxStarts
  /\ sess \in [Leases -> Sessions \union {Nobody}]
  /\ at \in [Leases -> {"free", "ended"} \union Active]
  /\ asked \in [Leases -> BOOLEAN] /\ capsule \in [Leases -> BOOLEAN]
  /\ verdict \in [Leases -> {"none", "dead", "unrecorded", "unverified"}]
  /\ held \subseteq Sessions /\ entry \in [Sessions -> 0 .. MaxLeases]
  /\ BatchTypeOK
  /\ proc \in [Leases -> {"none", "dead"} \union Tree]
  /\ record \subseteq Leases

BatchAt(where, of) == [at |-> where, of |-> of, left |-> of, on |-> {}, bad |-> FALSE]

SupervisorInit ==
  /\ sup = "off" /\ starts = 0
  /\ sess = [n \in Leases |-> Nobody] /\ at = [n \in Leases |-> "free"]
  /\ asked = [n \in Leases |-> FALSE] /\ capsule = [n \in Leases |-> FALSE]
  /\ verdict = [n \in Leases |-> "none"]
  /\ held = {} /\ entry = [s \in Sessions |-> 0]
  /\ batch = [b \in Batches |-> BatchAt("free", {})]
  /\ proc = [n \in Leases |-> "none"] /\ record = {}

-----------------------------------------------------------------------------
(* What can be seen of a process tree, and of its record *)

\* a lease is in the map until its cleanup has settled
Leased(s) == \E n \in Leases : sess[n] = s /\ at[n] \in Active

Neutralizing(s) == \E b \in Batches : batch[b].at \in {"preflight", "drain"} /\ s \in batch[b].of

\* the worker was told to open the session: it, or the provider it started, lives
Serves(n) == proc[n] \in {"serving", "headless"}

\* a probe never takes a live tree for a dead one; it may see neither
Sight(n) == {"unverified", IF proc[n] \in Tree THEN "live" ELSE "dead"}

RecordsOf(s) == {n \in record : sess[n] = s}

\* revalidateOwnership: only a tree that is seen dead loses its record
Revalidate(n, seen) == record' = IF seen = "dead" THEN record \ {n} ELSE record

Quarantine(s, n) == held' = held \union {s} /\ entry' = [entry EXCEPT ![s] = n]
Release(s)       == held' = held \ {s} /\ entry' = [entry EXCEPT ![s] = 0]

\* performQuarantineRevalidation, of a session that is held: of its record, or
\* of the one kept with it; the directory may be unreadable
Revalidation(s, lifted) ==
  IF RecordsOf(s) = {} /\ entry[s] = 0
  THEN ~lifted /\ UNCHANGED <<quar, record>>
  ELSE \/ \E n \in (IF RecordsOf(s) = {} THEN {entry[s]} ELSE RecordsOf(s)), seen \in {"dead", "live", "unverified"} :
            /\ seen \in Sight(n) /\ lifted = (seen = "dead")
            /\ Revalidate(n, seen)
            /\ IF lifted THEN Release(s) ELSE Quarantine(s, n)
       \/ ~lifted /\ UNCHANGED <<quar, record>>

-----------------------------------------------------------------------------
(* A lease: withSessionLease, useSessionLease, openProcessCapsule *)

Goto(n, where) == at' = [at EXCEPT ![n] = where]

Acquire(n, s) ==
  /\ sup = "up" /\ at[n] = "free" /\ \A m \in 1 .. n - 1 : at[m] # "free"
  /\ ~Leased(s) /\ ~Neutralizing(s)
  /\ Goto(n, "check") /\ sess' = [sess EXCEPT ![n] = s]
  /\ UNCHANGED <<sup, starts, asked, capsule, verdict, quar, batch, proc, record>>

\* a session with residual ownership is refused
Check(n) ==
  /\ at[n] = "check" /\ sess[n] \in held
  /\ \E lifted \in BOOLEAN : Revalidation(sess[n], lifted) /\ (IF lifted THEN UNCHANGED at ELSE Goto(n, "settle"))
  /\ UNCHANGED <<sup, starts, sess, asked, capsule, verdict, batch, proc>>

\* the attempt is over or interrupted, its agent cannot be resolved or spawned
GiveUp(n) ==
  /\ at[n] = "check" /\ sess[n] \notin held
  /\ Goto(n, "settle")
  /\ UNCHANGED <<sup, starts, sess, asked, capsule, verdict, quar, batch, proc, record>>

\* the agent is resolved and the worker spawned; an interruption of the spawn is
\* seen after it, and leaves the child to the finalizer of its own Scope
Spawn(n) ==
  /\ at[n] = "check" /\ sess[n] \notin held /\ ~asked[n]
  /\ proc' = [proc EXCEPT ![n] = "bare"]
  /\ Goto(n, "record") \/ Goto(n, "settle")
  /\ UNCHANGED <<sup, starts, sess, asked, capsule, verdict, quar, batch, record>>

\* the record is on disk before the worker is told to open the session
Record(n) ==
  /\ at[n] = "record" /\ ~asked[n]
  /\ record' = record \union {n} /\ Goto(n, "open")
  /\ proc' = [proc EXCEPT ![n] = IF @ = "bare" THEN "serving" ELSE @]
  /\ UNCHANGED <<sup, starts, sess, asked, capsule, verdict, quar, batch>>

\* the write fails, or is interrupted when its file may be there
RecordFails(n) ==
  /\ at[n] = "record" /\ Goto(n, "mark")
  /\ record' \in {record, record \union {n}}
  /\ UNCHANGED <<sup, starts, sess, asked, capsule, verdict, quar, batch, proc>>

Ready(n) ==
  /\ at[n] = "open" /\ proc[n] = "serving" /\ ~asked[n]
  /\ Goto(n, "use") /\ capsule' = [capsule EXCEPT ![n] = TRUE]
  /\ UNCHANGED <<sup, starts, sess, asked, verdict, quar, batch, proc, record>>

\* refused by the worker, lost, out of time, aborted or interrupted; or the
\* use of the lease is over
Leave(n) ==
  /\ at[n] \in {"open", "use"} /\ Goto(n, "mark")
  /\ UNCHANGED <<sup, starts, sess, asked, capsule, verdict, quar, batch, proc, record>>

-----------------------------------------------------------------------------
(* The cleanup of a capsule: closeCapsuleValue, run once and not interrupted *)

\* the record says "cleaning" when it can be written, and the worker is told
Mark(n) ==
  /\ at[n] = "mark" /\ Goto(n, "stop")
  /\ \/ record' = record \union {n} /\ UNCHANGED verdict
     \/ UNCHANGED record /\ verdict' = [verdict EXCEPT ![n] = "unrecorded"]
  /\ UNCHANGED <<sup, starts, sess, asked, capsule, quar, batch, proc>>

\* mutant: the record goes when the budget is spent, whatever is left
StopDrops(n) ==
  /\ at[n] = "stop" /\ Goto(n, "settle") /\ record' = record \ {n}
  /\ proc' \in {proc, [proc EXCEPT ![n] = "dead"]}
  /\ verdict' = [verdict EXCEPT ![n] = IF @ = "none" THEN "dead" ELSE @]
  /\ UNCHANGED <<sup, starts, sess, asked, capsule, quar, batch>>

\* stopProcessTree and finishAcpOwnership: a tree seen dead, or killed by what it
\* is sent, loses its record; a tree that is not seen is not signalled, one may
\* survive SIGKILL for the rest of the budget, and either keeps a record, now
\* degraded; what is written or removed on disk may fail
Stop(n) ==
  /\ at[n] = "stop" /\ Goto(n, "settle")
  /\ \/ /\ proc' = [proc EXCEPT ![n] = "dead"] /\ record' = record \ {n}
        /\ verdict' = [verdict EXCEPT ![n] = IF @ = "none" THEN "dead" ELSE @]
     \/ /\ proc' = [proc EXCEPT ![n] = "dead"] /\ UNCHANGED record
        /\ verdict' = [verdict EXCEPT ![n] = "unverified"]
     \/ /\ UNCHANGED proc /\ record' \in {record, record \union {n}}
        /\ verdict' = [verdict EXCEPT ![n] = "unverified"]
  /\ UNCHANGED <<sup, starts, sess, asked, capsule, quar, batch>>

\* the Scope of the worker closes: one that is not seen closed is sent SIGKILL
Released(n) == proc' \in {proc, [proc EXCEPT ![n] = IF @ \in {"bare", "serving"} THEN "dead" ELSE @]}

\* the lease leaves the map, and who waits for its cleanup hears how it ended
Settled(n, v) ==
  /\ Goto(n, "ended") /\ verdict' = [verdict EXCEPT ![n] = "none"]
  /\ batch' = [b \in Batches |-> [batch[b] EXCEPT
                                 !.bad = @ \/ (n \in batch[b].on /\ v # "dead")]]
  /\ asked' = [asked EXCEPT ![n] = FALSE] /\ capsule' = [capsule EXCEPT ![n] = FALSE]
  /\ IF v = "unverified" THEN Quarantine(sess[n], 0) ELSE UNCHANGED quar

\* settleLeaseCleanup: with a capsule by what its cleanup found, without one by
\* what the directory says of the session
Settle(n) ==
  /\ at[n] = "settle" /\ Released(n)
  /\ IF capsule[n] THEN Settled(n, verdict[n]) /\ UNCHANGED record
     ELSE \/ RecordsOf(sess[n]) = {} /\ Settled(n, "dead") /\ UNCHANGED record
          \/ Settled(n, "unverified") /\ UNCHANGED record
          \/ \E m \in RecordsOf(sess[n]) :
               proc'[m] \notin Tree /\ Revalidate(m, "dead") /\ Settled(n, "dead")
  /\ UNCHANGED <<sup, starts, sess>>

-----------------------------------------------------------------------------
(* withSessionsNeutralized *)

Set(b, r) == batch' = [batch EXCEPT ![b] = r]

Neutralize(b, of) ==
  /\ sup = "up" /\ batch[b].at = "free" /\ \A c \in 1 .. b - 1 : batch[c].at # "free"
  /\ of # {} /\ \A s \in of : ~Neutralizing(s)
  /\ Set(b, BatchAt("preflight", of))
  /\ UNCHANGED <<sup, starts, memory, quar, proc, record>>

\* one session after the other; a held one is looked at again
Preflight(b, s) ==
  /\ batch[b].at = "preflight" /\ s \in batch[b].left
  /\ IF s \in held
     THEN \E lifted \in BOOLEAN :
            /\ Revalidation(s, lifted)
            /\ Set(b, IF lifted THEN [batch[b] EXCEPT !.left = @ \ {s}] ELSE BatchAt("failed", {}))
     ELSE Set(b, [batch[b] EXCEPT !.left = @ \ {s}]) /\ UNCHANGED <<quar, record>>
  /\ UNCHANGED <<sup, starts, memory, proc>>


\* all at once: a session without a lease is absent, the others are closed
Drain(b) ==
  /\ batch[b].at = "preflight" /\ batch[b].left = {}
  /\ LET on == {n \in Leases : sess[n] \in batch[b].of /\ at[n] \in Active} IN
       /\ Set(b, [batch[b] EXCEPT !.at = "drain", !.on = on])
       /\ asked' = [n \in Leases |-> asked[n] \/ n \in on]
  /\ UNCHANGED <<sup, starts, sess, at, capsule, verdict, quar, proc, record>>

\* mutant: the commit does not ask how the cleanups ended
CommitAnyway(b) ==
  /\ batch[b].at = "drain" /\ \A n \in batch[b].on : at[n] = "ended"
  /\ Set(b, BatchAt("committed", {}))
  /\ UNCHANGED <<sup, starts, memory, quar, proc, record>>

\* every cleanup is over and none failed
Commit(b) ==
  /\ batch[b].at = "drain" /\ \A n \in batch[b].on : at[n] = "ended" /\ ~batch[b].bad
  /\ Set(b, BatchAt("committed", {}))
  /\ UNCHANGED <<sup, starts, memory, quar, proc, record>>

\* a cleanup failed, the caller's signal is aborted, or the commit itself failed;
\* before the drain also by an interruption
Abandon(b) ==
  /\ \/ batch[b].at = "preflight"
     \/ batch[b].at = "drain" /\ \A n \in batch[b].on : at[n] = "ended"
  /\ Set(b, BatchAt("failed", {}))
  /\ UNCHANGED <<sup, starts, memory, quar, proc, record>>

-----------------------------------------------------------------------------
(* The supervisor: recovery, shutdown, crash *)

\* of a process that starts, nothing is in memory; every record is looked at
Start ==
  /\ sup \in {"off", "closed"} /\ starts < MaxStarts
  /\ sup' = "recovering" /\ starts' = starts + 1
  /\ UNCHANGED <<memory, quar, batch, proc, record>>

Unseen == {n \in record : entry[sess[n]] # n}

\* recoverManifest: a tree seen dead loses its record, one whose root is still
\* the recorded process is stopped; all others are held
Recover(n) ==
  /\ sup = "recovering" /\ n \in Unseen
  /\ \/ /\ proc[n] # "headless" /\ proc' = [proc EXCEPT ![n] = "dead"]
        /\ record' = record \ {n} /\ UNCHANGED quar
     \/ Quarantine(sess[n], n) /\ UNCHANGED <<proc, record>>
  /\ UNCHANGED <<sup, starts, memory, batch>>

\* a record that cannot be read, removed or degraded: no supervisor
RecoveryFails ==
  /\ sup = "recovering" /\ record # {} /\ sup' = "off"
  /\ held' = {} /\ entry' = [s \in Sessions |-> 0]
  /\ UNCHANGED <<starts, memory, batch, proc, record>>

Recovered ==
  /\ sup = "recovering" /\ Unseen = {} /\ sup' = "up"
  /\ UNCHANGED <<starts, memory, quar, batch, proc, record>>

\* no lease after this; every lease is told to end
Shutdown ==
  /\ sup = "up" /\ sup' = "closing"
  /\ asked' = [n \in Leases |-> asked[n] \/ at[n] \in Active]
  /\ UNCHANGED <<starts, sess, at, capsule, verdict, quar, batch, proc, record>>

\* the cleanups are over and the operations have ended
Closed ==
  /\ sup = "closing" /\ sup' = "closed"
  /\ held' = {} /\ entry' = [s \in Sessions |-> 0]
  /\ \A n \in Leases : at[n] \notin Active
  /\ \A b \in Batches : batch[b].at \notin {"preflight", "drain"}
  /\ UNCHANGED <<starts, memory, batch, proc, record>>

\* the trees live on; a worker hears its channel close and leaves when it can
Crash ==
  /\ sup \in {"recovering", "up", "closing"} /\ sup' = "off"
  /\ at' = [n \in Leases |-> IF at[n] \in Active THEN "ended" ELSE at[n]]
  /\ asked' = [n \in Leases |-> FALSE] /\ capsule' = [n \in Leases |-> FALSE]
  /\ verdict' = [n \in Leases |-> "none"] /\ held' = {} /\ entry' = [s \in Sessions |-> 0]
  /\ batch' = [b \in Batches |-> IF batch[b].at \in {"preflight", "drain"}
                                 THEN BatchAt("failed", {}) ELSE batch[b]]
  /\ UNCHANGED <<starts, sess, proc, record>>

\* of itself or by a signal: the whole tree, or the worker without what it started
Die(n) ==
  /\ proc[n] \in Tree
  /\ \/ proc' = [proc EXCEPT ![n] = "dead"]
     \/ proc[n] = "serving" /\ proc' = [proc EXCEPT ![n] = "headless"]
  /\ UNCHANGED <<sup, starts, memory, quar, batch, record>>

-----------------------------------------------------------------------------
Cleanup(n) == Mark(n) \/ Stop(n) \/ Settle(n)

LeaseStep(n) ==
  \/ Check(n) \/ GiveUp(n) \/ Spawn(n)
  \/ Record(n) \/ RecordFails(n) \/ Ready(n) \/ Leave(n) \/ Cleanup(n)

BatchStep(b) == Drain(b) \/ Commit(b) \/ Abandon(b) \/ \E s \in Sessions : Preflight(b, s)

SupervisorNext ==
  \/ \E n \in Leases : LeaseStep(n) \/ Die(n) \/ Recover(n)
  \/ \E n \in Leases, s \in Sessions : Acquire(n, s)
  \/ \E b \in Batches : BatchStep(b) \/ \E of \in SUBSET Sessions : Neutralize(b, of)
  \/ Start \/ RecoveryFails \/ Recovered \/ Shutdown \/ Closed \/ Crash

SupervisorSpec == SupervisorInit /\ [][SupervisorNext]_svars

\* the fibers run on, what they wait for is bounded by a timeout, and a use that
\* is interrupted ends; one that nobody interrupts need not
FairSupervisorSpec ==
  /\ SupervisorSpec
  /\ \A n \in Leases : WF_svars((asked[n] \/ at[n] # "use") /\ LeaseStep(n)) /\ WF_svars(Recover(n))
  /\ \A b \in Batches : WF_svars(BatchStep(b))
  /\ WF_svars(Recovered) /\ WF_svars(Closed)

-----------------------------------------------------------------------------
(* Properties *)

\* No two process trees serve one session, across cleanups that fail, crashes
\* and recoveries.
OneWorker ==
  \A n, m \in Leases : Serves(n) /\ Serves(m) /\ sess[n] = sess[m] => n = m

\* A tree that was told to open a session has its record on disk for as long as
\* it lives, so that no supervisor can miss it.
LiveIsRecorded == \A n \in Leases : Serves(n) => n \in record

\* The supervisor, the trees and the records on disk agree.
SupervisorConsistent == SupervisorTypeOK /\ OneWorker /\ LiveIsRecorded

\* When a Retry is committed the trees of the leases that it closed are dead, no
\* other lease of its sessions has begun, and a tree that still serves one of
\* them is known: its session is quarantined.
CommitIsSafe ==
  [][\A b \in Batches : batch[b].at = "drain" /\ batch'[b].at = "committed" =>
       /\ \A n \in batch[b].on : ~Serves(n)
       /\ \A n \in Leases : sess[n] \in batch[b].of =>
            at[n] \notin Active /\ (Serves(n) => sess[n] \in held)]_svars

\* What is told to end does: a neutralization, the leases it waits for and a
\* shutdown leave nothing half done, whatever the process trees do.
Closing ==
  \/ sup = "closing" \/ \E s \in Sessions : Neutralizing(s)
  \/ \E n \in Leases : at[n] \in Active /\ asked[n]

=============================================================================
