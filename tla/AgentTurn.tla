------------------------------- MODULE AgentTurn -------------------------------
(***************************************************************************)
(* The Turns of one lease, end to end: the user of the lease (runtime,       *)
(* execution/agent-node.ts), the capsule in the runtime's process            *)
(* (agent-executor, process-capsule.ts), the worker it talks to over IPC     *)
(* (worker-entry.ts), the ACP session in the worker (acp, session.ts) with   *)
(* its transport (transport.ts), and the provider at the other end of a      *)
(* pipe.  Every link is an ordered channel whose messages are read later     *)
(* than they are sent; a policy (deadline, silence, abort, an observer that  *)
(* refuses an event), a neutralization, the death of the worker or of the    *)
(* provider, and a provider that says nothing or too much may come between   *)
(* any two steps.  The lease begins with the session open                    *)
(* (SessionSupervisor has what comes before and after).                      *)
(***************************************************************************)
EXTENDS Sequences, Naturals

CONSTANTS
  MaxTurns,    \* bound on the Turns of the lease
  MaxUpdates,  \* bound on the updates the provider ever sends
  Policies     \* what may end a Turn that is under way: "sink" is an observer that refuses an event

ASSUME TurnAssumption ==
  /\ MaxTurns \in Nat \ {0} /\ MaxUpdates \in Nat
  /\ Policies \subseteq {"cancelled", "deadline", "inactivity", "sink"} /\ "cancelled" \in Policies

Turns == 1 .. MaxTurns

VARIABLES
  \* the user of the lease
  user, turn, outcome,
  \* the capsule
  phase, active, policy, sinkError, cancelAt, pending, faulted, cleanup, accepted,
  \* the worker
  loop, wactive,
  \* the ACP session and its transport
  at, pinned, processed, fence, prompt, count, reply, updates,
  \* the provider
  provider, spoken,
  \* the channels
  toWorker, toParent, fromAgent

uvars == <<user, turn, outcome>>
cvars == <<phase, active, policy, sinkError, cancelAt, pending, faulted, cleanup, accepted>>
wvars == <<loop, wactive>>
session   == <<at, pinned, processed, fence>>
transport == <<prompt, count, reply, updates>>
avars == <<provider, spoken>>
vars  == <<uvars, cvars, wvars, session, transport, avars, toWorker, toParent, fromAgent>>

None     == "none"
Kinds    == {"completed", "stopped", "error", "lost"}
Outcomes == Policies \union {None, "sink", "deadline", "completed", "error", "lost"}

\* what the parent and the child say over IPC; all but a close name a Turn
ParentMessage ==
  {m \in [type : {"run", "cancel", "close"}, turn : 0 .. MaxTurns] : m.type # "close" => m.turn # 0}
ChildMessage == [type : {"event", "terminal", "failed", "closed"},
                 turn : 0 .. MaxTurns, kind : Kinds \union {None}, of : 0 .. MaxTurns]

TurnTypeOK ==
  /\ user \in {"between", "claiming", "waiting", "left"} /\ turn \in 0 .. MaxTurns
  /\ outcome \in [Turns -> Outcomes]
  /\ phase \in {"ready", "running", "cancelling", "cleaning", "closed"}
  /\ active \in 0 .. MaxTurns /\ policy \in Policies \union {None} /\ sinkError \in BOOLEAN
  /\ cancelAt \in {"no", "writing", "grace"} /\ pending \in Kinds \union {None}
  /\ faulted \in BOOLEAN /\ cleanup \in {"no", "marking", "told", "done"}
  /\ accepted \in [Turns -> 0 .. MaxUpdates]
  /\ loop \in {"listening", "interrupting", "closing", "gone"} /\ wactive \in 0 .. MaxTurns
  /\ at \in {"idle", "saving", "prompt", "fence"}
  /\ pinned \in 0 .. MaxTurns /\ processed \in 0 .. MaxUpdates /\ fence \in 0 .. MaxUpdates
  /\ prompt \in 0 .. MaxTurns /\ count \in 0 .. MaxUpdates
  /\ reply \in {None, "completed", "stopped", "error"}
  /\ updates \in Seq([of : 0 .. MaxTurns, seq : 0 .. MaxUpdates])
  /\ provider \in {"idle", "busy", "gone"} /\ spoken \in 0 .. MaxUpdates
  /\ toWorker \in Seq(ParentMessage) /\ toParent \in Seq(ChildMessage)
  /\ fromAgent \in Seq({"update", "completed", "stopped", "error"})

TurnInit ==
  /\ user = "between" /\ turn = 0 /\ outcome = [t \in Turns |-> None]
  /\ phase = "ready" /\ active = 0 /\ policy = None /\ sinkError = FALSE /\ cancelAt = "no" /\ pending = None
  /\ faulted = FALSE /\ cleanup = "no" /\ accepted = [t \in Turns |-> 0]
  /\ loop = "listening" /\ wactive = 0
  /\ at = "idle" /\ pinned = 0 /\ processed = 0 /\ fence = 0
  /\ prompt = 0 /\ count = 0 /\ reply = None /\ updates = <<>>
  /\ provider = "idle" /\ spoken = 0
  /\ toWorker = <<>> /\ toParent = <<>> /\ fromAgent = <<>>

Inside == <<wvars, session, transport, avars, fromAgent>>

\* what the worker's process takes with it
Lost ==
  /\ wactive' = 0 /\ at' = "idle" /\ prompt' = 0 /\ reply' = None
  /\ updates' = <<>> /\ toWorker' = <<>> /\ fromAgent' = <<>>

Post(type, t) == Append(toWorker, [type |-> type, turn |-> t])

-----------------------------------------------------------------------------
(* The capsule: settlement *)

\* mapTurnSettlement: an event that was refused comes before the policy that took
\* effect, and that one before what the worker says
Mapped(kind) ==
  CASE sinkError                                            -> "sink"
    [] ~sinkError /\ policy # None                          -> policy
    [] ~sinkError /\ policy = None /\ kind = "stopped"      -> "cancelled"
    [] OTHER                                                -> kind

\* settleActive: at once while the capsule closes, else when the record on disk
\* says that the capsule is ready again
Settle(kind) ==
  /\ active' = 0
  /\ IF phase \in {"cleaning", "closed"}
     THEN outcome' = [outcome EXCEPT ![turn] = Mapped(kind)] /\ UNCHANGED <<phase, pending>>
     ELSE phase' = "ready" /\ pending' = kind /\ UNCHANGED outcome

SettleIf(kind) ==
  IF active # 0 THEN Settle(kind) ELSE UNCHANGED <<active, outcome, phase, pending>>

Settled ==
  /\ pending # None /\ pending' = None
  /\ \/ outcome' = [outcome EXCEPT ![turn] = Mapped(pending)] /\ UNCHANGED faulted
     \/ outcome' = [outcome EXCEPT ![turn] = Mapped("lost")] /\ faulted' = TRUE
  /\ UNCHANGED <<user, turn, phase, active, policy, sinkError, cancelAt, cleanup, accepted,
                 Inside, toWorker, toParent>>

\* faultCapsule: who meets the fault settles the Turn and runs the cleanup
Fault == faulted' = TRUE /\ SettleIf("lost")

-----------------------------------------------------------------------------
(* The user of the lease *)

\* mutant: another Turn after any Turn
ClaimAfterAny ==
  /\ user = "between" /\ turn < MaxTurns
  /\ turn' = turn + 1
  /\ IF phase = "ready" /\ active = 0
     THEN /\ active' = turn' /\ phase' = "running" /\ policy' = None /\ sinkError' = FALSE /\ cancelAt' = "no"
          /\ user' = "claiming" /\ UNCHANGED outcome
     ELSE /\ outcome' = [outcome EXCEPT ![turn'] = "lost"] /\ user' = "waiting"
          /\ UNCHANGED <<active, phase, policy, sinkError, cancelAt>>
  /\ UNCHANGED <<pending, faulted, cleanup, accepted, Inside, toWorker, toParent>>

\* one Turn after the other, and another one only for the repair of the
\* response of a completed one
Claim ==
  /\ user = "between" /\ turn < MaxTurns /\ (turn > 0 => outcome[turn] = "completed")
  /\ turn' = turn + 1
  /\ IF phase = "ready" /\ active = 0
     THEN /\ active' = turn' /\ phase' = "running" /\ policy' = None /\ sinkError' = FALSE /\ cancelAt' = "no"
          /\ user' = "claiming" /\ UNCHANGED outcome
     ELSE /\ outcome' = [outcome EXCEPT ![turn'] = "lost"] /\ user' = "waiting"
          /\ UNCHANGED <<active, phase, policy, sinkError, cancelAt>>
  /\ UNCHANGED <<pending, faulted, cleanup, accepted, Inside, toWorker, toParent>>

\* the deadline of the attempt may have passed in the meantime
Answered ==
  /\ user = "waiting" /\ outcome[turn] # None /\ user' = "between"
  /\ \/ UNCHANGED outcome
     \/ outcome[turn] = "completed" /\ outcome' = [outcome EXCEPT ![turn] = "deadline"]
  /\ UNCHANGED <<turn, cvars, Inside, toWorker, toParent>>

-----------------------------------------------------------------------------
(* The capsule: policies and cleanup *)

\* mutant: a later policy replaces the one that took effect
PolicyLatest(p) ==
  /\ active # 0
  /\ policy' = p
  /\ IF phase = "cleaning" THEN toWorker' = Post("cancel", turn) /\ UNCHANGED <<phase, cancelAt>>
     ELSE phase' = "cancelling" /\ cancelAt' = "writing" /\ UNCHANGED toWorker

\* requestPolicy, up to the write of the record: only the first one counts;
\* while the capsule closes nothing is written and the worker told at once
Policy(p) ==
  /\ active # 0 /\ policy = None
  /\ policy' = p
  /\ IF phase = "cleaning" THEN toWorker' = Post("cancel", turn) /\ UNCHANGED <<phase, cancelAt>>
     ELSE phase' = "cancelling" /\ cancelAt' = "writing" /\ UNCHANGED toWorker

\* the record says "running", and the Turn has not been settled or stopped
\* meanwhile; or the attempt is aborted already; or the record cannot be written
Dispatch ==
  /\ user = "claiming" /\ user' = "waiting"
  /\ \/ /\ toWorker' = IF active = turn /\ policy = None THEN Post("run", turn) ELSE toWorker
        /\ UNCHANGED <<active, outcome, phase, policy, cancelAt, pending, faulted>>
     \/ Policy("cancelled") /\ UNCHANGED <<active, outcome, pending, faulted>>
     \/ Fault /\ UNCHANGED <<policy, cancelAt, toWorker>>
  /\ UNCHANGED <<turn, sinkError, cleanup, accepted, Inside, toParent>>

\* the deadline, the silence or the abort that the Turn waits for
PolicyTakesEffect ==
  /\ \E p \in Policies \ {"sink"} : user = "waiting" /\ Policy(p)
  /\ UNCHANGED <<uvars, active, sinkError, pending, faulted, cleanup, accepted, Inside, toParent>>

\* the worker is told, unless the Turn was settled meanwhile; the grace begins
Told ==
  /\ cancelAt = "writing"
  /\ \/ /\ toWorker' = IF active # 0 THEN Post("cancel", turn) ELSE toWorker
        /\ cancelAt' = IF active # 0 THEN "grace" ELSE "no"
        /\ UNCHANGED <<active, outcome, phase, pending, faulted>>
     \/ Fault /\ cancelAt' = "no" /\ UNCHANGED toWorker
  /\ UNCHANGED <<user, turn, policy, sinkError, cleanup, accepted, Inside, toParent>>

\* mutant: the grace of a policy has no end
GraceLasts == faulted \/ user = "between"

\* what starts the cleanup: a fault, the end of the lease's use, the grace
Over == faulted \/ user = "between" \/ (active # 0 /\ cancelAt = "grace")

\* closeCapsuleValue runs once; it is also asked for by a neutralization, a
\* shutdown or an interruption, at any time
Close ==
  /\ cleanup = "no" /\ cleanup' = "marking" /\ phase' = "cleaning" /\ user' = IF user = "between" THEN "left" ELSE user
  /\ UNCHANGED <<turn, outcome, active, policy, sinkError, cancelAt, pending, faulted, accepted,
                 Inside, toWorker, toParent>>

\* the Turn there is gets cancelled, and the worker is asked to close
CancelOnClose ==
  /\ cleanup = "marking" /\ Policy("cancelled")
  /\ UNCHANGED <<uvars, active, sinkError, pending, faulted, cleanup, accepted, Inside, toParent>>

TellClose ==
  /\ cleanup = "marking" /\ cleanup' = "told" /\ (active = 0 \/ policy # None)
  /\ toWorker' = Post("close", 0)
  /\ UNCHANGED <<uvars, phase, active, policy, sinkError, cancelAt, pending, faulted, accepted, Inside, toParent>>

\* after the grace the tree is stopped; what it never settled is lost
StopTree ==
  /\ cleanup = "told" /\ cleanup' = "done"
  /\ \/ loop' = "gone" /\ Lost /\ provider' = "gone"
     \/ UNCHANGED <<loop, wactive, at, prompt, reply, updates, provider, toWorker, fromAgent>>
  /\ SettleIf("lost")
  /\ UNCHANGED <<user, turn, policy, sinkError, cancelAt, faulted, accepted, pinned, processed, fence,
                 count, spoken, toParent>>

-----------------------------------------------------------------------------
(* The capsule: what the worker sends, one message at a time *)

\* the observer waits for what it does itself: a settlement, the cancellation
\* of an observer's refusal, the cleanup after a fault
Listening ==
  /\ toParent # <<>> /\ pending = None
  /\ ~(policy = "sink" /\ cancelAt = "writing") /\ ~(faulted /\ cleanup # "done")

Receive(types) == Listening /\ Head(toParent).type \in types /\ toParent' = Tail(toParent)

Stray == active = 0 \/ Head(toParent).turn # active

\* the observer of the lease takes the event or refuses it, which asks for a
\* policy; after that it hears no more
Event ==
  /\ Receive({"event"}) /\ ~Stray
  /\ \/ /\ accepted' = IF sinkError THEN accepted ELSE [accepted EXCEPT ![turn] = @ + 1]
        /\ UNCHANGED <<policy, sinkError, phase, cancelAt, toWorker>>
     \/ /\ "sink" \in Policies /\ ~sinkError /\ sinkError' = TRUE
        /\ Policy("sink") \/ (policy # None /\ UNCHANGED <<policy, phase, cancelAt, toWorker>>)
        /\ UNCHANGED accepted
  /\ UNCHANGED <<uvars, active, pending, faulted, cleanup, Inside>>

Terminal ==
  /\ Receive({"terminal"}) /\ ~Stray
  /\ Settle(Head(toParent).kind)
  /\ UNCHANGED <<user, turn, policy, sinkError, cancelAt, faulted, cleanup, accepted, Inside, toWorker>>

\* an event or a terminal outside the active Turn
OutOfTurn ==
  /\ Receive({"event", "terminal"}) /\ Stray /\ Fault
  /\ UNCHANGED <<user, turn, policy, sinkError, cancelAt, cleanup, accepted, Inside, toWorker>>

Failed ==
  /\ Receive({"failed"}) /\ SettleIf("lost")
  /\ UNCHANGED <<user, turn, policy, sinkError, cancelAt, faulted, cleanup, accepted, Inside, toWorker>>

WorkerCloses ==
  /\ Receive({"closed"}) /\ phase' = "closed"
  /\ UNCHANGED <<uvars, active, policy, sinkError, cancelAt, pending, faulted, cleanup, accepted, Inside, toWorker>>

\* processExited, which does not wait for the messages still to be read
ExitSeen ==
  /\ loop = "gone" /\ phase # "closed" /\ phase' = "closed"
  /\ IF active # 0 THEN active' = 0 /\ outcome' = [outcome EXCEPT ![turn] = Mapped("lost")]
                   ELSE UNCHANGED <<active, outcome>>
  /\ UNCHANGED <<user, turn, policy, sinkError, cancelAt, pending, faulted, cleanup, accepted, Inside,
                 toWorker, toParent>>

-----------------------------------------------------------------------------
(* The worker *)

Outside == <<uvars, cvars>>

Say(type, kind, of) == Append(toParent, [type |-> type, turn |-> wactive, kind |-> kind, of |-> of])

\* runTurn's end: the terminal, and with it the worker has no active Turn
Ends(kind) ==
  /\ toParent' = Say("terminal", kind, 0)
  /\ wactive' = 0 /\ at' = "idle" /\ prompt' = 0 /\ reply' = None

Hears(type) == loop = "listening" /\ toWorker # <<>> /\ Head(toWorker).type = type /\ toWorker' = Tail(toWorker)

\* a second active Turn is the end of the worker
Run ==
  /\ Hears("run")
  /\ IF wactive # 0 THEN /\ loop' = "closing" /\ toParent' = Say("failed", None, 0)
                         /\ UNCHANGED <<wactive, at, pinned, processed, fence>>
     ELSE /\ wactive' = Head(toWorker).turn /\ at' = "saving"
          /\ pinned' = 0 /\ processed' = 0 /\ fence' = 0
          /\ UNCHANGED <<loop, toParent>>
  /\ UNCHANGED <<Outside, transport, avars, fromAgent>>

Cancel ==
  /\ Hears("cancel") /\ loop' = IF wactive = Head(toWorker).turn THEN "interrupting" ELSE loop
  /\ UNCHANGED <<Outside, wactive, session, transport, avars, toParent, fromAgent>>

\* Fiber.interrupt: the provider is told, the prompt abandoned; whether the
\* interrupted fiber still reports its end, fails the worker, or neither is open
Interrupted ==
  /\ loop = "interrupting"
  /\ \/ loop' = "listening" /\ Ends("stopped")
     \/ /\ at' = "idle" /\ prompt' = 0 /\ reply' = None
        /\ \/ loop' = "listening" /\ UNCHANGED <<wactive, toParent>>
           \/ loop' = "closing" /\ wactive' = 0 /\ toParent' = Say("failed", None, 0)
  /\ UNCHANGED <<Outside, pinned, processed, fence, count, updates, avars, toWorker, fromAgent>>

CloseHeard ==
  /\ Hears("close") /\ loop' = "closing"
  /\ UNCHANGED <<Outside, wactive, session, transport, avars, toParent, fromAgent>>

\* closeWorker: the Turn's fiber is interrupted, the provider terminated
CloseWorker ==
  /\ loop = "closing" /\ loop' = "gone"
  /\ toParent' = Say("closed", None, 0)
  /\ Lost /\ provider' = "gone"
  /\ UNCHANGED <<Outside, pinned, processed, fence, count, spoken>>

WorkerDies ==
  /\ loop # "gone" /\ loop' = "gone" /\ Lost
  /\ UNCHANGED <<Outside, pinned, processed, fence, count, avars, toParent>>

-----------------------------------------------------------------------------
(* The ACP session: runTurnTask and handleTransportUpdate *)

Going == loop = "listening"

Prompt ==
  /\ Going /\ at = "saving" /\ at' = "prompt"
  /\ prompt' = wactive /\ count' = 0 /\ reply' = None
  /\ provider' = IF provider = "idle" THEN "busy" ELSE provider
  /\ UNCHANGED <<Outside, wvars, pinned, processed, fence, updates, spoken, toWorker, toParent, fromAgent>>

\* the conversation cannot be saved, the provider is gone, the response of the
\* prompt is an error or names no reason
TurnFails ==
  /\ Going /\ \/ at \in {"saving", "fence"}
              \/ at = "prompt" /\ (provider = "gone" \/ reply = "error")
  /\ Ends("error")
  /\ UNCHANGED <<Outside, loop, pinned, processed, fence, count, updates, avars, toWorker, fromAgent>>

\* mutant: the response ends the Turn, whatever came before it
RespondedUnfenced ==
  /\ Going /\ at = "prompt" /\ reply \in {"completed", "stopped"}
  /\ Ends(reply)
  /\ UNCHANGED <<Outside, loop, pinned, processed, fence, count, updates, avars, toWorker, fromAgent>>

\* waitForUpdateFence
Responded ==
  /\ Going /\ at = "prompt" /\ reply \in {"completed", "stopped"}
  /\ IF pinned \in {0, wactive}
     THEN at' = "fence" /\ pinned' = wactive /\ fence' = count /\ UNCHANGED <<wactive, prompt, reply, toParent>>
     ELSE Ends("error") /\ UNCHANGED <<pinned, fence>>
  /\ UNCHANGED <<Outside, loop, processed, count, updates, avars, toWorker, fromAgent>>

Fenced ==
  /\ Going /\ at = "fence" /\ processed >= fence
  /\ Ends(reply)
  /\ UNCHANGED <<Outside, loop, pinned, processed, fence, count, updates, avars, toWorker, fromAgent>>

\* what is not of a prompt, of no Turn, or of another prompt is dropped; the
\* first update seen says which prompt the Turn is of
HandleUpdate ==
  /\ loop # "gone" /\ updates # <<>> /\ updates' = Tail(updates)
  /\ LET u == Head(updates) IN
       IF at = "idle" \/ u.of = 0 \/ pinned \notin {0, u.of}
       THEN UNCHANGED <<pinned, processed, toParent>>
       ELSE /\ pinned' = u.of
            /\ processed' = IF u.seq > processed THEN u.seq ELSE processed
            /\ toParent' = IF at = "saving" THEN toParent ELSE Say("event", None, u.of)
  /\ UNCHANGED <<Outside, wvars, at, fence, prompt, count, reply, avars, toWorker, fromAgent>>

\* the reader of the pipe marks each update with the prompt it arrived under,
\* and the response of the prompt with the number of those before it
Pull ==
  /\ loop # "gone" /\ fromAgent # <<>> /\ fromAgent' = Tail(fromAgent)
  /\ IF Head(fromAgent) = "update"
     THEN /\ count' = IF prompt = 0 THEN count ELSE count + 1
          /\ updates' = Append(updates, [of |-> prompt, seq |-> IF prompt = 0 THEN 0 ELSE count'])
          /\ UNCHANGED <<prompt, reply>>
     ELSE /\ reply' = IF prompt = 0 THEN reply ELSE Head(fromAgent)
          /\ prompt' = 0 /\ UNCHANGED <<count, updates>>
  /\ UNCHANGED <<Outside, wvars, session, avars, toWorker, toParent>>

-----------------------------------------------------------------------------
(* The provider *)

Update ==
  /\ provider # "gone" /\ spoken < MaxUpdates /\ spoken' = spoken + 1
  /\ fromAgent' = Append(fromAgent, "update")
  /\ UNCHANGED <<Outside, wvars, session, transport, provider, toWorker, toParent>>

Respond ==
  /\ provider = "busy" /\ provider' = "idle"
  /\ \E kind \in {"completed", "stopped", "error"} : fromAgent' = Append(fromAgent, kind)
  /\ UNCHANGED <<Outside, wvars, session, transport, spoken, toWorker, toParent>>

ProviderDies ==
  /\ provider # "gone" /\ provider' = "gone"
  /\ UNCHANGED <<Outside, wvars, session, transport, spoken, toWorker, toParent, fromAgent>>

-----------------------------------------------------------------------------
CapsuleStep == Settled \/ Dispatch \/ Told \/ (Over /\ Close) \/ CancelOnClose \/ TellClose \/ StopTree

TurnNext ==
  \/ CapsuleStep \/ Claim \/ Answered \/ PolicyTakesEffect \/ Close
  \/ Event \/ Terminal \/ OutOfTurn \/ Failed \/ WorkerCloses \/ ExitSeen
  \/ Run \/ Cancel \/ Interrupted \/ CloseHeard \/ CloseWorker \/ WorkerDies
  \/ Prompt \/ TurnFails \/ Responded \/ Fenced \/ HandleUpdate \/ Pull
  \/ Update \/ Respond \/ ProviderDies

TurnSpec == TurnInit /\ [][TurnNext]_vars

\* the fibers and timers of the runtime's process run on; neither the worker nor
\* the provider need ever do anything
FairTurnSpec ==
  /\ TurnSpec
  /\ WF_vars(Settled) /\ WF_vars(Dispatch) /\ WF_vars(Told)
  /\ WF_vars(Over /\ Close) /\ WF_vars(CancelOnClose) /\ WF_vars(TellClose) /\ WF_vars(StopTree)

-----------------------------------------------------------------------------
(* Properties *)

\* A Turn reported as completed was answered by the provider, and every update
\* that came before the answer reached the observer of the Turn first.
CompletedIsWhole ==
  \A t \in Turns : outcome[t] = "completed" /\ t = turn => accepted[t] = fence

\* An event is of the prompt of the Turn it is reported in: none of an earlier
\* Turn, and none from between two.
EventsInTheirTurn ==
  \A i \in 1 .. Len(toParent) :
    toParent[i].type = "event" => toParent[i].of = toParent[i].turn /\ toParent[i].turn # 0

\* The runtime and the worker agree on the Turn there is: the worker is never
\* asked for a second one while it has one, and has none the capsule never had.
OneTurnAtATime ==
  /\ loop = "listening" /\ toWorker # <<>> /\ Head(toWorker).type = "run" => wactive = 0
  /\ wactive \in {0, turn}

\* The user, the capsule, the worker and the ACP session agree on the Turn, and on
\* what a completed one consists of.
TurnConsistent == TurnTypeOK /\ EventsInTheirTurn /\ OneTurnAtATime /\ CompletedIsWhole

\* The first policy that takes effect on a Turn stays, and so does the refusal of an
\* event; the Turn ends by the refusal, though another policy was first, or else by the
\* policy, whatever the worker says; and an outcome is kept, but that a completed Turn
\* may turn out to be past its deadline.
FirstPolicyWins ==
  [][/\ turn' = turn => (policy # None => policy' = policy) /\ (sinkError => sinkError')
     /\ \A t \in Turns :
          /\ outcome[t] # None =>
               outcome'[t] \in {outcome[t]} \union (IF outcome[t] = "completed" THEN {"deadline"} ELSE {})
          /\ outcome[t] = None /\ outcome'[t] # None /\ t = turn =>
               IF sinkError THEN outcome'[t] = "sink" ELSE policy # None => outcome'[t] = policy]_vars

\* A Turn that a policy ends, ends, though the worker and the provider are silent.
StoppedTurnEnds == \A t \in Turns : (active = t /\ policy # None) ~> (outcome[t] # None)
=============================================================================
