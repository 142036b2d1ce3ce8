----------------------------- MODULE Workspace -----------------------------
(* The daemons of one workspace and their clients: the socket, the authority
   row, admission with replay, the tick, hooks, the idle stop and the shutdown,
   over the durable Runs.  A Run here is the number of its committed events; how
   it advances is RunStore's and RunPump's subject. *)
EXTENDS Naturals, Sequences, FiniteSets

CONSTANTS
  Procs,      \* slots of daemon processes: as many live at once
  Requests,   \* admission request ids, one client each
  MaxRuns,    \* bound: Runs ever created
  Length,     \* events of each Run: the first admits it, the last ends it
  Poisoned,   \* <<run, event>>: observations whose context cannot be built
  MaxFaults   \* bound: crashes, store failures, shutdowns, busy stores, lost clients

ASSUME WorkspaceAssumption ==
  /\ MaxRuns \in Nat /\ MaxFaults \in Nat
  /\ Length \in [1..MaxRuns -> Nat] /\ \A r \in 1..MaxRuns : Length[r] >= 2
  /\ \A x \in Poisoned : x[1] \in 1..MaxRuns /\ x[2] \in 2..Length[x[1]]
  \* a process or a request is none of the words that stand for its absence
  /\ Procs \cap {"free", "dead", "none", "stale"} = {} /\ Requests \cap {"none", "fork"} = {}

Runs == 1..MaxRuns

VARIABLES
  \* durable
  authority,  \* runtime_authority: its process, "free" (released) or "dead" (its process died)
  socket,     \* the daemon endpoint: the process bound to it, "none" or "stale"
  last,       \* committed events of each Run, 0 before it exists
  origin,     \* the request that created it, "fork" or "none"
  lease,      \* run_leases: the owner's process, "free" or "dead" until it lapses
  cursor,     \* hook_dispatch_cursors
  handed,     \* observations handed to the hooks of any process, in order
  \* of each process
  srv,        \* its server: off, bound, closed
  rt,         \* its runtime: none, open, stopped (accepted), closing, closed
  tick,       \* the work the present tick read, [start, hooks]; empty between ticks
  quiet,      \* the last tick found nothing, and nothing was seen to be active since
  sess,       \* active Run sessions
  hooks,      \* some hook is running
  fence,      \* hookFailures: the event version of the incident, 0 if none
  \* of each client and its submission
  cl,         \* [st, at]: idle, ready, sent, admitted, failed; the daemon it knows
  job,        \* [by, st]: waiting, held, admitted in the mutation queue of a daemon
  faults

life == <<authority, socket, srv, rt>>
runs == <<last, origin, lease>>
observed == <<cursor, handed, hooks, fence>>
loop == <<tick, quiet>>
clients == <<cl, job>>
wvars == <<life, runs, observed, loop, sess, clients, faults>>

NoTick == [start |-> {}, hooks |-> {}]
Done(st) == [st |-> st, at |-> "none"]
NoJob == [by |-> "none", st |-> "none"]

WsInit ==
  /\ authority = "free" /\ socket = "none"
  /\ last = [r \in Runs |-> 0] /\ origin = [r \in Runs |-> "none"]
  /\ lease = [r \in Runs |-> "free"]
  /\ cursor = [r \in Runs |-> 0] /\ handed = [r \in Runs |-> <<>>]
  /\ srv = [p \in Procs |-> "off"] /\ rt = [p \in Procs |-> "none"]
  /\ tick = [p \in Procs |-> NoTick] /\ quiet = [p \in Procs |-> FALSE]
  /\ sess = [p \in Procs |-> {}]
  /\ hooks = [p \in Procs |-> FALSE]
  /\ fence = [p \in Procs |-> [r \in Runs |-> 0]]
  /\ cl = [q \in Requests |-> Done("idle")] /\ job = [q \in Requests |-> NoJob]
  /\ faults = 0

Exists(r) == last[r] > 0
Ended(r) == last[r] = Length[r]
Pending(r) == last[r] = 1
Connected(p) == {q \in Requests : cl[q] = [st |-> "sent", at |-> p]}
Jobs(p) == {q \in Requests : job[q].by = p}
Fault == faults < MaxFaults /\ faults' = faults + 1

-----------------------------------------------------------------------------
(* The life of a process *)

\* A client finds no daemon and spawns one; a socket left by a crash is taken over
\* unless the evidence of a live daemon is fresh.
Start(p) ==
  /\ srv[p] = "off" /\ p = CHOOSE x \in Procs : srv[x] = "off"  \* any free slot
  /\ \/ socket = "none"
     \/ socket = "stale" /\ ~(authority \in Procs /\ rt[authority] = "open")
  /\ socket' = p /\ srv' = [srv EXCEPT ![p] = "bound"]
  /\ UNCHANGED <<authority, rt, runs, observed, loop, sess, clients, faults>>

\* Mutant: a daemon that is stopping no longer counts.
ClaimsFromStopping == authority \notin Procs \/ rt[authority] # "open"

\* Claims the authority, which a live process keeps until it has released it.
Claimable == authority \notin Procs
Open(p) ==
  /\ srv[p] = "bound" /\ rt[p] = "none"
  /\ IF Claimable
     THEN authority' = p /\ rt' = [rt EXCEPT ![p] = "open"]
     ELSE authority' = authority /\ rt' = [rt EXCEPT ![p] = "closed"]
  /\ UNCHANGED <<socket, srv, runs, observed, loop, sess, clients, faults>>

\* A graceful shutdown is refused while requests, mutations or sessions are active.
Shutdown(p) ==
  /\ Fault /\ rt[p] = "open" /\ socket = p
  /\ Jobs(p) = {} /\ sess[p] = {}
  /\ rt' = [rt EXCEPT ![p] = "stopped"]
  /\ UNCHANGED <<authority, socket, srv, runs, observed, loop, sess, clients>>

\* The store fails under the tick or the heartbeat: server and runtime close at once.
StoreFails(p) ==
  /\ Fault /\ rt[p] = "open"
  /\ rt' = [rt EXCEPT ![p] = "closing"]
  /\ UNCHANGED <<authority, socket, srv, runs, observed, loop, sess, clients>>

Leaving(p) == rt[p] \in {"stopped", "closing", "closed"}

\* closeServerResources: its clients are cut off and go back to their retry, ...
CutOff(p) ==
  /\ srv[p] = "bound" /\ Leaving(p)
  /\ Connected(p) # {}
  /\ cl' = [q \in Requests |-> IF q \in Connected(p) THEN Done("idle") ELSE cl[q]]
  /\ UNCHANGED <<life, runs, observed, loop, sess, job, faults>>

\* ... requests in the mutation queue are awaited and the listener removes its path.
\* A runtime that only stopped closes now.
CloseServer(p) ==
  /\ srv[p] = "bound" /\ Leaving(p) /\ Jobs(p) = {}
  /\ srv' = [srv EXCEPT ![p] = "closed"] /\ socket' = "none"
  /\ rt' = [rt EXCEPT ![p] = IF @ = "stopped" THEN "closing" ELSE @]
  /\ UNCHANGED <<authority, runs, observed, loop, sess, clients, faults>>

\* The tick has ended and the mutations are drained: the executors are interrupted,
\* and each gives its lease back.
Ticking(p) == tick[p] # NoTick
Drained(p) == ~Ticking(p) /\ Jobs(p) = {}
StopExecutors(p) ==
  /\ rt[p] = "closing" /\ Drained(p) /\ sess[p] # {}
  /\ sess' = [sess EXCEPT ![p] = {}]
  /\ lease' = [r \in Runs |-> IF lease[r] = p THEN "free" ELSE lease[r]]
  /\ UNCHANGED <<life, last, origin, observed, loop, clients, faults>>

\* Hooks are drained before the scope that owns the authority closes.
Release(p) ==
  /\ rt[p] = "closing" /\ Drained(p) /\ sess[p] = {} /\ ~hooks[p]
  /\ rt' = [rt EXCEPT ![p] = "closed"] /\ authority' = "free"
  /\ UNCHANGED <<socket, srv, runs, observed, loop, sess, clients, faults>>

\* Its memory goes with a process; a client that knew its authority will not match another's.
Forget(p) ==
  /\ srv' = [srv EXCEPT ![p] = "off"] /\ rt' = [rt EXCEPT ![p] = "none"]
  /\ tick' = [tick EXCEPT ![p] = NoTick] /\ quiet' = [quiet EXCEPT ![p] = FALSE]
  /\ sess' = [sess EXCEPT ![p] = {}]
  /\ fence' = [fence EXCEPT ![p] = [r \in Runs |-> 0]]
  /\ hooks' = [hooks EXCEPT ![p] = FALSE]
  /\ cl' = [q \in Requests |-> IF q \in Connected(p) THEN Done("idle")
                             ELSE IF cl[q].at = p THEN [cl[q] EXCEPT !.at = "none"] ELSE cl[q]]
  /\ job' = [q \in Requests |-> IF job[q].by = p THEN NoJob ELSE job[q]]

Exit(p) ==
  /\ srv[p] = "closed" /\ rt[p] = "closed" /\ Forget(p)
  /\ UNCHANGED <<authority, socket, runs, cursor, handed, faults>>

Dispatching(p) == {r \in Runs : cursor[r] < last[r] /\ fence[p][r] # last[r]}
Healthy(r, e) == e \in (cursor[r] + 1)..last[r] /\ <<r, e>> \notin Poisoned

\* Mutant: an observation is handed over before the cursor takes it off.
CrashAfterHandoff(p) ==
  /\ Fault /\ srv[p] # "off" /\ Forget(p)
  /\ socket' = IF socket = p THEN "stale" ELSE socket
  /\ authority' = IF authority = p THEN "dead" ELSE authority
  /\ lease' = [r \in Runs |-> IF lease[r] = p THEN "dead" ELSE lease[r]]
  /\ \/ handed' = handed
     \/ \E r \in Dispatching(p) :
          /\ authority = p /\ Healthy(r, cursor[r] + 1)
          /\ handed' = [handed EXCEPT ![r] = Append(@, cursor[r] + 1)]
  /\ UNCHANGED <<last, origin, cursor>>

\* A crash may fall between the advance of a cursor and the handoff it stands for.
Crash(p) ==
  /\ Fault /\ srv[p] # "off" /\ Forget(p)
  /\ socket' = IF socket = p THEN "stale" ELSE socket
  /\ authority' = IF authority = p THEN "dead" ELSE authority
  /\ lease' = [r \in Runs |-> IF lease[r] = p THEN "dead" ELSE lease[r]]
  /\ \/ cursor' = cursor
     \/ \E r \in Dispatching(p) :
          /\ authority = p /\ Healthy(r, cursor[r] + 1)
          /\ cursor' = [cursor EXCEPT ![r] = @ + 1]
  /\ UNCHANGED <<last, origin, handed>>

\* The lease of a dead owner lapses within the idle window of its successor, so a
\* tick comes after it before the window ends (30 s each, a tick every second).
LeaseLapses(r) ==
  /\ lease[r] = "dead" /\ lease' = [lease EXCEPT ![r] = "free"]
  /\ quiet' = [p \in Procs |-> FALSE]
  /\ UNCHANGED <<life, last, origin, observed, tick, sess, clients, faults>>

-----------------------------------------------------------------------------
(* Runs and hooks *)

\* The events up to the first one whose context cannot be built.
Reach(r) ==
  LET healthy == {e \in cursor[r]..last[r] :
                    \A n \in (cursor[r] + 1)..e : <<r, n>> \notin Poisoned}
  IN CHOOSE e \in healthy : \A n \in healthy : n <= e

\* Every observation is taken off by the cursor before it is handed over; one that
\* cannot be built throws, and the Run is fenced at its present version.
Dispatch(p, rs) ==
  LET ds == rs \cap Dispatching(p) IN
  /\ cursor' = [r \in Runs |-> IF r \in ds THEN Reach(r) ELSE cursor[r]]
  /\ handed' = [r \in Runs |-> IF r \in ds
                 THEN handed[r] \o [i \in 1..(Reach(r) - cursor[r]) |-> cursor[r] + i]
                 ELSE handed[r]]
  /\ hooks' = [hooks EXCEPT ![p] = @ \/ \E r \in ds : Reach(r) > cursor[r]]
  /\ fence' = [fence EXCEPT ![p] = [r \in Runs |->
                 IF r \notin ds THEN @[r] ELSE IF Reach(r) < last[r] THEN last[r] ELSE 0]]

HooksEnd(p) ==
  /\ hooks[p] /\ hooks' = [hooks EXCEPT ![p] = FALSE]
  /\ UNCHANGED <<life, runs, cursor, handed, fence, loop, sess, clients, faults>>

\* Mutant: a Run whose owner is gone is not found again.
OnlyPending(r) == Pending(r)

\* listRuntimeWork: Runs to start, and Runs with observations to hand over.
Startable(r) == Exists(r) /\ ~Ended(r) /\ (Pending(r) \/ lease[r] = "free")
Backlog(r) == cursor[r] < last[r]

\* A tick that finds nothing is over at once.
TickBegin(p) ==
  LET work == [start |-> {r \in Runs : Startable(r)}, hooks |-> {r \in Runs : Backlog(r)}]
  IN
  /\ rt[p] = "open" /\ ~Ticking(p)
  /\ tick' = [tick EXCEPT ![p] = work]
  /\ quiet' = [quiet EXCEPT ![p] = @ \/ work = NoTick]
  /\ UNCHANGED <<life, runs, observed, sess, clients, faults>>

\* The tick goes on over what it read, also after a shutdown was accepted: a Run it
\* starts or finds active is left to its session, the others are dispatched here.
TickEnd(p) ==
  LET mine == {r \in tick[p].start : ~Ended(r)} IN
  /\ Ticking(p)
  /\ sess' = [sess EXCEPT ![p] = @ \cup mine]
  /\ Dispatch(p, tick[p].hooks \ mine)
  /\ quiet' = [quiet EXCEPT ![p] = FALSE] /\ tick' = [tick EXCEPT ![p] = NoTick]
  /\ UNCHANGED <<life, runs, clients, faults>>

\* The pump commits an event under its lease.
Execute(p, r) ==
  /\ r \in sess[p] /\ ~Ended(r) /\ lease[r] \in {"free", p}
  /\ last' = [last EXCEPT ![r] = @ + 1] /\ lease' = [lease EXCEPT ![r] = p]
  /\ UNCHANGED <<life, origin, observed, loop, sess, clients, faults>>

Checkpoint(p, r) ==
  /\ r \in sess[p] /\ r \in Dispatching(p) /\ Dispatch(p, {r})
  /\ UNCHANGED <<life, runs, loop, sess, clients, faults>>

SessionEnds(p, r) ==
  /\ r \in sess[p] /\ Ended(r) /\ r \notin Dispatching(p)
  /\ sess' = [sess EXCEPT ![p] = @ \ {r}] /\ lease' = [lease EXCEPT ![r] = "free"]
  /\ UNCHANGED <<life, last, origin, observed, loop, clients, faults>>

-----------------------------------------------------------------------------
(* The idle stop *)

\* Mutant: sessions are not asked.
BusyButForSessions(p) == hooks[p] \/ Ticking(p) \/ Jobs(p) # {} \/ Connected(p) # {}

Busy(p) ==
  sess[p] # {} \/ hooks[p] \/ Ticking(p) \/ Jobs(p) # {} \/ Connected(p) # {}

\* The idle window is many ticks long and outlasts the lease of an owner that died.
CheckIdle(p) ==
  /\ rt[p] = "open" /\ quiet[p]
  /\ IF Busy(p) THEN quiet' = [quiet EXCEPT ![p] = FALSE] /\ rt' = rt
     ELSE /\ \A r \in Runs : lease[r] # "dead"
          /\ rt' = [rt EXCEPT ![p] = "stopped"] /\ quiet' = quiet
  /\ UNCHANGED <<authority, socket, srv, runs, observed, tick, sess, clients, faults>>

-----------------------------------------------------------------------------
(* Submission: the client *)

\* ensureRuntimeAuthority: a daemon that is still initializing is asked again.
Probe(q) ==
  /\ cl[q].st = "idle" /\ socket \in Procs /\ rt[socket] = "open"
  /\ cl' = [cl EXCEPT ![q] = [st |-> "ready", at |-> socket]]
  /\ UNCHANGED <<life, runs, observed, loop, sess, job, faults>>

\* No connection and another authority are tried again; a runtime that is not open
\* answers "not-admitted", which the client takes for the end.
Connect(q) ==
  /\ cl[q].st = "ready"
  /\ LET refused == socket \in Procs /\ rt[socket] # "open"
         met == ~refused /\ socket # "none" /\ cl[q].at = socket
     IN IF met
        THEN /\ cl' = [cl EXCEPT ![q].st = "sent"]
             /\ job' = [job EXCEPT ![q] = [by |-> socket, st |-> "waiting"]]
        ELSE cl' = [cl EXCEPT ![q] = Done(IF refused THEN "failed" ELSE "idle")] /\ job' = job
  /\ UNCHANGED <<life, runs, observed, loop, sess, faults>>

\* The client is stopped: its request is not.
Disconnect(q) ==
  /\ Fault /\ cl[q].st = "sent" /\ cl' = [cl EXCEPT ![q] = Done("failed")]
  /\ UNCHANGED <<life, runs, observed, loop, sess, job>>

\* An answer reaches the client only if it is still connected.
Answer(q, answer) ==
  cl' = [cl EXCEPT ![q] = IF q \in Connected(job[q].by) THEN Done(answer) ELSE @]

-----------------------------------------------------------------------------
(* Submission: the mutation queue of a process, one at a time *)

Held(p) == \E q \in Jobs(p) : job[q].st # "waiting"

Take(q) ==
  /\ job[q].st = "waiting" /\ ~Held(job[q].by)
  /\ IF rt[job[q].by] = "open"
     THEN job' = [job EXCEPT ![q].st = "held"] /\ cl' = cl
     ELSE job' = [job EXCEPT ![q] = NoJob] /\ Answer(q, "failed")
  /\ UNCHANGED <<life, runs, observed, loop, sess, faults>>

Replays(q) == {r \in Runs : origin[r] = q}

\* admitRun: the Run of an earlier submission of the request, or a new pending Run.
Admit(q) ==
  /\ job[q].st = "held" /\ job' = [job EXCEPT ![q].st = "admitted"]
  /\ IF Replays(q) # {} THEN UNCHANGED <<last, origin>>
     ELSE \E r \in Runs :
            /\ ~Exists(r) /\ \A n \in 1..(r - 1) : Exists(n)
            /\ last' = [last EXCEPT ![r] = 1] /\ origin' = [origin EXCEPT ![r] = q]
  /\ UNCHANGED <<life, lease, observed, loop, sess, cl, faults>>

\* A busy store leaves the outcome unknown: the client asks again.
AdmitBusy(q) ==
  /\ Fault /\ job[q].st = "held" /\ job' = [job EXCEPT ![q] = NoJob] /\ Answer(q, "idle")
  /\ UNCHANGED <<life, runs, observed, loop, sess>>

\* A pending Run gets its session before the request is answered.
StartJob(q) ==
  LET p == job[q].by IN
  /\ job[q].st = "admitted" /\ job' = [job EXCEPT ![q] = NoJob] /\ Answer(q, "admitted")
  /\ sess' = [sess EXCEPT ![p] = @ \cup {r \in Replays(q) : Pending(r)}]
  /\ UNCHANGED <<life, runs, observed, loop, faults>>

\* A fork is a pending Run whose first event is dispatched at once; no session starts.
Fork(p) ==
  /\ rt[p] = "open" /\ ~Held(p) /\ \E r \in Runs : Exists(r)
  /\ \E r \in Runs :
       /\ ~Exists(r) /\ \A n \in 1..(r - 1) : Exists(n)
       /\ last' = [last EXCEPT ![r] = 1] /\ origin' = [origin EXCEPT ![r] = "fork"]
       /\ cursor' = [cursor EXCEPT ![r] = 1] /\ handed' = [handed EXCEPT ![r] = <<1>>]
  /\ hooks' = [hooks EXCEPT ![p] = TRUE]
  /\ UNCHANGED <<life, lease, fence, loop, sess, clients, faults>>

-----------------------------------------------------------------------------
LifeStep(p) ==
  Open(p) \/ CloseServer(p) \/ StopExecutors(p) \/ Release(p) \/ Exit(p)
SessionStep(p, r) == Execute(p, r) \/ Checkpoint(p, r) \/ SessionEnds(p, r)
JobStep(q) == Take(q) \/ Admit(q) \/ StartJob(q)

WsNext ==
  \/ \E p \in Procs :
       \/ Start(p) \/ LifeStep(p) \/ CutOff(p) \/ Shutdown(p) \/ StoreFails(p) \/ Crash(p)
       \/ TickBegin(p) \/ TickEnd(p) \/ HooksEnd(p) \/ CheckIdle(p) \/ Fork(p)
       \/ \E r \in Runs : SessionStep(p, r)
  \/ \E q \in Requests : Probe(q) \/ Connect(q) \/ Disconnect(q) \/ JobStep(q) \/ AdmitBusy(q)
  \/ \E r \in Runs : LeaseLapses(r)

WsSpec == WsInit /\ [][WsNext]_wvars

\* The fibers of a live process run, a dead owner's lease lapses, and somebody comes
\* back for the workspace when no daemon serves it.
WsFairness ==
  /\ \A p \in Procs : WF_wvars(LifeStep(p) \/ HooksEnd(p)) /\ WF_wvars(TickBegin(p) \/ TickEnd(p))
  /\ WF_wvars((\E p \in Procs, r \in Runs : SessionStep(p, r)) \/ (\E q \in Requests : JobStep(q)))
  /\ WF_wvars(\E r \in Runs : LeaseLapses(r))
  /\ WF_wvars(\E p \in Procs : Start(p))

FairWsSpec == WsSpec /\ WsFairness

-----------------------------------------------------------------------------
(* Properties *)

\* Types, and a process slot that is off remembers nothing.
WsTypeOK ==
  /\ authority \in Procs \cup {"free", "dead"} /\ socket \in Procs \cup {"none", "stale"}
  /\ last \in [Runs -> Nat] /\ (\A r \in Runs : last[r] <= Length[r]) /\ origin \in [Runs -> Requests \cup {"none", "fork"}]
  /\ lease \in [Runs -> Procs \cup {"free", "dead"}]
  /\ cursor \in [Runs -> Nat] /\ (\A r \in Runs : cursor[r] <= last[r])
  /\ handed \in [Runs -> Seq(Nat)]
  /\ srv \in [Procs -> {"off", "bound", "closed"}]
  /\ rt \in [Procs -> {"none", "open", "stopped", "closing", "closed"}]
  /\ tick \in [Procs -> [start : SUBSET Runs, hooks : SUBSET Runs]]
  /\ quiet \in [Procs -> BOOLEAN] /\ hooks \in [Procs -> BOOLEAN]
  /\ sess \in [Procs -> SUBSET Runs] /\ fence \in [Procs -> [Runs -> Nat]]
  /\ cl \in [Requests -> [st : {"idle", "ready", "sent", "admitted", "failed"},
                        at : Procs \cup {"none"}]]
  /\ job \in [Requests -> [by : Procs \cup {"none"}, st : {"none", "waiting", "held", "admitted"}]]
  /\ faults \in 0..MaxFaults
  /\ \A p \in Procs : srv[p] = "off" =>
       rt[p] = "none" /\ tick[p] = NoTick /\ sess[p] = {} /\ ~hooks[p] /\ Jobs(p) = {}

\* Whatever acts on the workspace - a session, a tick, an admission, a hook - runs in the
\* process that holds the authority, also while it closes and another one starts
\* (claimRuntimeAuthority, shutdownOwned); and a Run's lease is held by a session there.
WorkUnderAuthority ==
  /\ \A p \in Procs :
       sess[p] # {} \/ Ticking(p) \/ hooks[p] \/ Held(p) => authority = p
  /\ \A r \in Runs : lease[r] \in Procs => r \in sess[lease[r]]

\* A request has one Run, however often and to however many daemons it is sent, and a
\* client told "admitted" has one (findAdmissionReplay).
AdmittedOnce ==
  /\ \A q \in Requests : Cardinality(Replays(q)) <= 1
  /\ \A q \in Requests : cl[q].st = "admitted" => Replays(q) # {}

\* The daemons, the Runs and the clients agree at every step.
WsConsistent == WsTypeOK /\ WorkUnderAuthority /\ AdmittedOnce

\* Observations are handed over at most once and in the order of their events, over
\* crashes, incidents and changes of process (compareAndSetHookDispatchCursor).
HandedInOrder ==
  \A r \in Runs :
    /\ \A i, j \in DOMAIN handed[r] : i < j => handed[r][i] < handed[r][j]
    /\ \A i \in DOMAIN handed[r] : handed[r][i] <= cursor[r]

IdleStops(p) == rt[p] = "open" /\ rt'[p] = "stopped" /\ faults' = faults

\* A daemon that stops for idleness leaves no unfinished Run behind, except a fork
\* made since its last tick (checkIdleStop).
IdleStopLeavesForks ==
  [][\A p \in Procs, r \in Runs :
       IdleStops(p) /\ Exists(r) /\ ~Ended(r) => origin[r] = "fork" /\ Pending(r)]_wvars

\* An admitted or forked Run is driven to its end, over crashes, shutdowns and idle stops,
\* and its observations are taken off up to the first one that cannot be built.
RunsSettle ==
  \A r \in Runs : Exists(r) ~> Ended(r) /\ cursor[r] = Reach(r)
=============================================================================
