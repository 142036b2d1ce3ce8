----------------------------- MODULE WorkspaceProofs -----------------------------
(***************************************************************************)
(* What holds of Workspace for any number of processes, requests, Runs,     *)
(* events, unbuildable observations and faults; and, at the end, of the     *)
(* RuntimeLock its processes take, for any set of processes: while no       *)
(* marker was stolen, whoever has made the marker owns it; a user that came *)
(* in before it is on the list maintenance works off, or looked at, or      *)
(* found; and nobody puts a file at a path that is still to be looked at.   *)
(***************************************************************************)
EXTENDS Workspace, RuntimeLock, SequenceTheorems, FiniteSetTheorems, WellFoundedInduction, TLAPS

-----------------------------------------------------------------------------
(* The inductive invariant                                                  *)

\* the authority row names the process whose runtime has claimed and not released it,
\* the endpoint the one whose server listens
LiveHolds == \A p \in Procs : rt[p] \in {"open", "stopped", "closing"} <=> authority = p
BoundListens == \A p \in Procs : srv[p] = "bound" <=> socket = p

\* a submission has a queue, a Run that does not exist has no origin, a request has
\* one Run at most and has it once it is admitted
JobsKnown == \A q \in Requests : job[q].st = "none" <=> job[q].by = "none"
Unborn == \A r \in Runs : ~Exists(r) => origin[r] = "none"
OneRun == \A q \in Requests : \A r, s \in Replays(q) : r = s
Answered ==
  \A q \in Requests : cl[q].st = "admitted" \/ job[q].st = "admitted" => Replays(q) # {}

\* a tick that finds nothing has seen every unfinished Run in hand: what came since is
\* a fork, or a Run whose admission is not answered yet
Served(r, p) == \E q \in Requests : job[q].by = p /\ job[q].st = "admitted" /\ origin[r] = q
InHand(p, r) ==
  \/ origin[r] = "fork" /\ Pending(r)
  \/ lease[r] = "dead" \/ r \in sess[p]
  \/ Pending(r) /\ Served(r, p)
QuietSaw ==
  \A p \in Procs, r \in Runs :
    quiet[p] /\ rt[p] = "open" /\ Exists(r) /\ ~Ended(r) => InHand(p, r)

QuietOpen == \A p \in Procs : quiet[p] => rt[p] # "none"

\* a client that waits has a submission in the queue of the daemon it knows; one that was
\* cut off comes back only when its submission is gone or its daemon is leaving
Queued ==
  \A q \in Requests :
    /\ cl[q].st = "sent" => job[q].by = cl[q].at /\ cl[q].at # "none"
    /\ job[q].by # "none" =>
         /\ srv[job[q].by] = "bound"
         /\ cl[q].st \in {"idle", "ready"} => cl[q].st = "idle" /\ Leaving(job[q].by)

Submitted == JobsKnown /\ Unborn /\ OneRun /\ Answered
WsInv == WsTypeOK /\ LiveHolds /\ BoundListens /\ WorkUnderAuthority /\ Submitted
         /\ Queued /\ QuietOpen /\ QuietSaw /\ HandedInOrder

-----------------------------------------------------------------------------
(* Lemmas about what steps do                                               *)

\* the events that can be handed over have a last one
LEMMA ReachIsThere ==
  ASSUME WsTypeOK, NEW r \in Runs
  PROVE  Reach(r) \in cursor[r] .. last[r]
<1> DEFINE healthy == {e \in cursor[r]..last[r] :
                         \A n \in (cursor[r] + 1)..e : <<r, n>> \notin Poisoned}
           Left(e) == last[r] - e
           T == {Left(e) : e \in healthy}
<1>1. cursor[r] \in Nat /\ last[r] \in Nat /\ cursor[r] <= last[r]
  BY DEF WsTypeOK
<1>2. cursor[r] \in healthy
  BY <1>1
<1>3. T \subseteq Nat /\ T # {}
  BY <1>1, <1>2
<1>4. IsWellFoundedOn(OpToRel(<, Nat), Nat)
  BY NatLessThanWellFounded
<1>5. PICK x \in T : \A y \in T : <<y, x>> \notin OpToRel(<, Nat)
  <2> HIDE DEF T
  <2> QED BY <1>3, <1>4, WFMin
<1>6. \A y \in T : x <= y
  <2> HIDE DEF T
  <2> TAKE y \in T
  <2>1. x \in Nat /\ y \in Nat /\ ~(y < x)
    BY <1>3, <1>5 DEF OpToRel
  <2> QED BY <2>1
<1>7. PICK e \in healthy : x = Left(e)
  BY <1>5
<1>8. \A n \in healthy : n <= e
  <2> TAKE n \in healthy
  <2>1. Left(n) \in T /\ Left(e) <= Left(n)
    BY <1>6, <1>7
  <2> QED BY <1>1, <2>1
<1>9. Reach(r) = CHOOSE m \in healthy : \A n \in healthy : n <= m
  BY DEF Reach
<1> HIDE DEF healthy
<1>10. Reach(r) \in healthy
  BY <1>8, <1>9
<1> QED BY <1>10 DEF healthy

\* what a dispatch hands over comes after all that was handed over before
LEMMA DispatchFacts ==
  ASSUME WsTypeOK, HandedInOrder, NEW p \in Procs, NEW rs, Dispatch(p, rs)
  PROVE  /\ cursor' \in [Runs -> Nat]
         /\ \A r \in Runs : cursor'[r] <= last[r]
         /\ handed' \in [Runs -> Seq(Nat)]
         /\ hooks' \in [Procs -> BOOLEAN] /\ \A x \in Procs \ {p} : hooks'[x] = hooks[x]
         /\ fence' \in [Procs -> [Runs -> Nat]]
         /\ HandedInOrder'
<1> DEFINE ds == rs \cap Dispatching(p)
<1>1. \A r \in Runs : /\ Reach(r) \in Nat /\ cursor[r] <= Reach(r) /\ Reach(r) <= last[r]
                      /\ cursor[r] \in Nat /\ last[r] \in Nat /\ handed[r] \in Seq(Nat)
  BY ReachIsThere DEF WsTypeOK
<1>2. cursor' = [r \in Runs |-> IF r \in ds THEN Reach(r) ELSE cursor[r]]
  BY DEF Dispatch
<1>3. cursor' \in [Runs -> Nat] /\ \A r \in Runs : cursor'[r] <= last[r]
  BY <1>1, <1>2
<1>4. hooks' \in [Procs -> BOOLEAN] /\ \A x \in Procs \ {p} : hooks'[x] = hooks[x]
  <2>1. hooks' = [hooks EXCEPT ![p] = @ \/ \E r \in ds : Reach(r) > cursor[r]]
    BY DEF Dispatch
  <2>2. hooks \in [Procs -> BOOLEAN]
    BY DEF WsTypeOK
  <2> HIDE DEF ds
  <2> QED BY <2>1, <2>2
<1>5. fence' \in [Procs -> [Runs -> Nat]]
  BY <1>1 DEF Dispatch, WsTypeOK
<1>6. ASSUME NEW r \in Runs
      PROVE  /\ handed'[r] \in Seq(Nat)
             /\ \A i, j \in DOMAIN handed'[r] : i < j => handed'[r][i] < handed'[r][j]
             /\ \A i \in DOMAIN handed'[r] : handed'[r][i] <= cursor'[r]
  <2> DEFINE more == [i \in 1..(Reach(r) - cursor[r]) |-> cursor[r] + i]
             h == handed[r]
  <2>1. /\ h \in Seq(Nat) /\ DOMAIN h = 1 .. Len(h) /\ Len(h) \in Nat
        /\ \A i, j \in DOMAIN h : i < j => h[i] < h[j]
        /\ \A i \in DOMAIN h : h[i] <= cursor[r] /\ h[i] \in Nat
    BY <1>1 DEF HandedInOrder
  <2>2. CASE r \notin ds
    <3>1. handed'[r] = h /\ cursor'[r] = cursor[r]
      BY <1>2, <2>2 DEF Dispatch
    <3> QED BY <2>1, <3>1
  <2>3. CASE r \in ds
    <3>1. handed'[r] = h \o more /\ cursor'[r] = Reach(r)
      BY <1>2, <2>3 DEF Dispatch
    <3>2. Reach(r) - cursor[r] \in Nat /\ cursor[r] \in Nat
      BY <1>1
    <3>3. more \in Seq(Nat) /\ Len(more) = Reach(r) - cursor[r]
          /\ \A i \in 1 .. Len(more) : more[i] = cursor[r] + i
      <4>1. \A i \in 1..(Reach(r) - cursor[r]) : cursor[r] + i \in Nat
        BY <3>2
      <4> QED BY <3>2, <4>1, SeqDef, LenProperties
    <3>4. /\ h \o more \in Seq(Nat) /\ Len(h \o more) = Len(h) + Len(more)
          /\ \A i \in 1 .. Len(h) + Len(more) :
               (h \o more)[i] = IF i <= Len(h) THEN h[i] ELSE more[i - Len(h)]
      <4> HIDE DEF h, more
      <4> QED BY <2>1, <3>3, ConcatProperties
    <3>5. DOMAIN (h \o more) = 1 .. Len(h) + Len(more)
      <4> HIDE DEF h, more
      <4> QED BY <3>4, LenProperties
    <3>6. \A i \in 1 .. Len(h) + Len(more) :
            /\ i <= Len(h) => i \in DOMAIN h /\ (h \o more)[i] = h[i]
            /\ i > Len(h) => (h \o more)[i] = cursor[r] + (i - Len(h))
      <4> HIDE DEF h, more
      <4> TAKE i \in 1 .. Len(h) + Len(more)
      <4>1. Len(h) \in Nat /\ Len(more) \in Nat /\ i \in Nat
        BY <2>1, <3>2, <3>3
      <4>2. CASE i <= Len(h)
        BY <2>1, <3>4, <4>1, <4>2
      <4>3. CASE i > Len(h)
        <5>1. i - Len(h) \in 1 .. Len(more)
          BY <4>1, <4>3
        <5> QED BY <3>3, <3>4, <4>1, <4>3, <5>1
      <4> QED BY <4>1, <4>2, <4>3
    <3>7. Len(more) = Reach(r) - cursor[r] /\ Len(h) \in Nat
      BY <2>1, <3>3
    <3> HIDE DEF h, more
    <3> DEFINE w == h \o more
    <3>a. \A i \in 1 .. Len(h) + Len(more) :
            /\ i \in Nat
            /\ i <= Len(h) => i \in DOMAIN h /\ w[i] = h[i] /\ w[i] \in Nat /\ w[i] <= cursor[r]
            /\ i > Len(h) => w[i] = cursor[r] + (i - Len(h)) /\ i - Len(h) <= Reach(r) - cursor[r]
      <4> TAKE i \in 1 .. Len(h) + Len(more)
      <4>1. i \in Nat /\ i <= Len(h) + (Reach(r) - cursor[r])
        BY <3>2, <3>7
      <4>2. i > Len(h) => i - Len(h) <= Reach(r) - cursor[r]
        BY <3>2, <3>7, <4>1
      <4> QED BY <2>1, <3>6, <4>1, <4>2
    <3> HIDE DEF w
    <3>8. \A i, j \in DOMAIN (h \o more) : i < j => (h \o more)[i] < (h \o more)[j]
      <4> SUFFICES ASSUME NEW i \in 1 .. Len(h) + Len(more), NEW j \in 1 .. Len(h) + Len(more),
                          i < j
                   PROVE  w[i] < w[j]
        BY <3>5 DEF w
      <4>1. i \in Nat /\ j \in Nat /\ Len(h) \in Nat /\ cursor[r] \in Nat
        BY <3>2, <3>7, <3>a
      <4>2. CASE j <= Len(h)
        <5>1. i <= Len(h)
          BY <4>1, <4>2
        <5>2. i \in DOMAIN h /\ j \in DOMAIN h /\ w[i] = h[i] /\ w[j] = h[j]
          BY <3>a, <4>2, <5>1
        <5>3. h[i] < h[j]
          BY <2>1, <5>2
        <5> QED BY <5>2, <5>3
      <4>3. CASE i <= Len(h) /\ j > Len(h)
        BY <4>1, <4>3, <3>a
      <4>4. CASE i > Len(h)
        BY <4>1, <4>4, <3>a
      <4> QED BY <4>1, <4>2, <4>3, <4>4
    <3>9. \A i \in DOMAIN (h \o more) : (h \o more)[i] <= Reach(r)
      <4> SUFFICES ASSUME NEW i \in 1 .. Len(h) + Len(more) PROVE w[i] <= Reach(r)
        BY <3>5 DEF w
      <4>1. i \in Nat /\ Len(h) \in Nat /\ cursor[r] \in Nat /\ Reach(r) \in Nat /\ cursor[r] <= Reach(r)
        BY <1>1, <3>2, <3>7, <3>a
      <4>2. CASE i <= Len(h)
        BY <3>a, <4>1, <4>2
      <4>3. CASE i > Len(h)
        BY <3>a, <4>1, <4>3
      <4> QED BY <4>1, <4>2, <4>3
    <3> QED BY <3>1, <3>4, <3>8, <3>9
  <2> QED BY <2>2, <2>3
<1>7. handed' \in [Runs -> Seq(Nat)]
  <2>1. handed' = [r \in Runs |-> handed'[r]]
    BY DEF Dispatch
  <2> QED BY <1>6, <2>1
<1> QED BY <1>3, <1>4, <1>5, <1>6, <1>7 DEF HandedInOrder

\* what a process that is gone leaves: nothing of its own, everything of the others
LEMMA ForgetFacts ==
  ASSUME WsTypeOK, NEW p \in Procs, Forget(p)
  PROVE  /\ srv' \in [Procs -> {"off", "bound", "closed"}]
         /\ rt' \in [Procs -> {"none", "open", "stopped", "closing", "closed"}]
         /\ tick' \in [Procs -> [start : SUBSET Runs, hooks : SUBSET Runs]]
         /\ quiet' \in [Procs -> BOOLEAN] /\ hooks' \in [Procs -> BOOLEAN]
         /\ sess' \in [Procs -> SUBSET Runs] /\ fence' \in [Procs -> [Runs -> Nat]]
         /\ cl' \in [Requests -> [st : {"idle", "ready", "sent", "admitted", "failed"},
                                  at : Procs \cup {"none"}]]
         /\ job' \in [Requests -> [by : Procs \cup {"none"},
                                   st : {"none", "waiting", "held", "admitted"}]]
         /\ srv'[p] = "off" /\ rt'[p] = "none" /\ tick'[p] = NoTick /\ sess'[p] = {}
         /\ ~hooks'[p] /\ ~quiet'[p]
         /\ \A x \in Procs \ {p} :
              /\ srv'[x] = srv[x] /\ rt'[x] = rt[x] /\ tick'[x] = tick[x]
              /\ sess'[x] = sess[x] /\ hooks'[x] = hooks[x] /\ quiet'[x] = quiet[x]
         /\ \A q \in Requests : job'[q] = IF job[q].by = p THEN NoJob ELSE job[q]
         /\ \A q \in Requests : cl'[q].st = "admitted" => cl[q].st = "admitted"
         /\ \A q \in Requests : IF q \in Connected(p) THEN cl'[q].st = "idle"
                               ELSE cl'[q].st = cl[q].st /\ (cl[q].at # p => cl'[q] = cl[q])
<1> USE DEF WsTypeOK
<1>1. NoTick \in [start : SUBSET Runs, hooks : SUBSET Runs]
      /\ NoJob \in [by : Procs \cup {"none"}, st : {"none", "waiting", "held", "admitted"}]
      /\ Done("idle") \in [st : {"idle", "ready", "sent", "admitted", "failed"},
                           at : Procs \cup {"none"}]
      /\ [r \in Runs |-> 0] \in [Runs -> Nat]
  BY DEF NoTick, NoJob, Done
<1>2. /\ srv' = [srv EXCEPT ![p] = "off"] /\ rt' = [rt EXCEPT ![p] = "none"]
      /\ tick' = [tick EXCEPT ![p] = NoTick] /\ quiet' = [quiet EXCEPT ![p] = FALSE]
      /\ sess' = [sess EXCEPT ![p] = {}] /\ hooks' = [hooks EXCEPT ![p] = FALSE]
      /\ fence' = [fence EXCEPT ![p] = [r \in Runs |-> 0]]
  BY DEF Forget
<1>3. job' = [q \in Requests |-> IF job[q].by = p THEN NoJob ELSE job[q]]
  BY DEF Forget
<1>4. cl' = [q \in Requests |-> IF q \in Connected(p) THEN Done("idle")
                                ELSE IF cl[q].at = p THEN [cl[q] EXCEPT !.at = "none"] ELSE cl[q]]
  BY DEF Forget
<1>5. /\ cl' \in [Requests -> [st : {"idle", "ready", "sent", "admitted", "failed"},
                               at : Procs \cup {"none"}]]
      /\ \A q \in Requests : cl'[q].st = "admitted" => cl[q].st = "admitted"
      /\ \A q \in Requests : IF q \in Connected(p) THEN cl'[q].st = "idle"
                            ELSE cl'[q].st = cl[q].st /\ (cl[q].at # p => cl'[q] = cl[q])
  <2>1. \A q \in Requests : [cl[q] EXCEPT !.at = "none"] \in
                               [st : {"idle", "ready", "sent", "admitted", "failed"},
                                at : Procs \cup {"none"}]
                            /\ [cl[q] EXCEPT !.at = "none"].st = cl[q].st
    <3> TAKE q \in Requests
    <3>1. PICK c \in [st : {"idle", "ready", "sent", "admitted", "failed"},
                      at : Procs \cup {"none"}] : c = cl[q]
      OBVIOUS
    <3> HIDE DEF WsTypeOK
    <3>2. [c EXCEPT !.at = "none"] = [st |-> c.st, at |-> "none"]
      OBVIOUS
    <3> QED BY <3>1, <3>2
  <2> QED BY <1>1, <1>4, <2>1 DEF Done
<1>6. job' \in [Requests -> [by : Procs \cup {"none"},
                             st : {"none", "waiting", "held", "admitted"}]]
  BY <1>1, <1>3
<1>7. srv' \in [Procs -> {"off", "bound", "closed"}]
      /\ rt' \in [Procs -> {"none", "open", "stopped", "closing", "closed"}]
      /\ tick' \in [Procs -> [start : SUBSET Runs, hooks : SUBSET Runs]]
  BY <1>1, <1>2
<1>8. /\ quiet' \in [Procs -> BOOLEAN] /\ hooks' \in [Procs -> BOOLEAN]
      /\ sess' \in [Procs -> SUBSET Runs] /\ fence' \in [Procs -> [Runs -> Nat]]
  BY <1>1, <1>2
<1> QED BY <1>2, <1>3, <1>5, <1>6, <1>7, <1>8

LEMMA WsInitInv == WsInit => WsInv
<1> SUFFICES ASSUME WsInit PROVE WsInv
  OBVIOUS
<1>1. WsTypeOK
  <2>1. NoTick \in [start : SUBSET Runs, hooks : SUBSET Runs]
        /\ NoJob \in [by : Procs \cup {"none"}, st : {"none", "waiting", "held", "admitted"}]
        /\ Done("idle") \in [st : {"idle", "ready", "sent", "admitted", "failed"},
                             at : Procs \cup {"none"}]
        /\ 0 \in 0 .. MaxFaults /\ <<>> \in Seq(Nat)
    BY WorkspaceAssumption DEF NoTick, NoJob, Done
  <2>2. \A p \in Procs : Jobs(p) = {}
    BY WorkspaceAssumption DEF WsInit, Jobs, NoJob
  <2>3. \A r \in Runs : Length[r] \in Nat
    BY WorkspaceAssumption DEF Runs
  <2> QED BY <2>1, <2>2, <2>3 DEF WsInit, WsTypeOK
<1>2. LiveHolds /\ BoundListens /\ WorkUnderAuthority
  BY WorkspaceAssumption DEF WsInit, LiveHolds, BoundListens, WorkUnderAuthority, Ticking, Held, Jobs,
     NoJob
<1>3. Submitted /\ Queued /\ QuietOpen /\ QuietSaw /\ HandedInOrder
  BY WorkspaceAssumption DEF WsInit, Submitted, JobsKnown, Unborn, OneRun, Replays, Answered, NoJob,
     Done, Queued, QuietOpen, QuietSaw, HandedInOrder
<1> QED BY <1>1, <1>2, <1>3 DEF WsInv

-----------------------------------------------------------------------------
(* Types                                                                    *)

\* what a client is told and what its submission becomes are of the right kind
LEMMA ClientFacts ==
  /\ \A s \in {"idle", "admitted", "failed"} :
       Done(s) \in [st : {"idle", "ready", "sent", "admitted", "failed"}, at : Procs \cup {"none"}]
  /\ NoJob \in [by : Procs \cup {"none"}, st : {"none", "waiting", "held", "admitted"}]
  /\ NoJob.by = "none" /\ NoJob.st = "none"
  BY DEF Done, NoJob

LEMMA AnswerFacts ==
  ASSUME WsTypeOK, NEW q \in Requests, NEW s \in {"idle", "admitted", "failed"}, Answer(q, s)
  PROVE  /\ cl' \in [Requests -> [st : {"idle", "ready", "sent", "admitted", "failed"},
                                  at : Procs \cup {"none"}]]
         /\ \A x \in Requests : cl'[x].st = "admitted" => cl[x].st = "admitted" \/ (x = q /\ s = "admitted")
         /\ \A x \in Requests : x # q => cl'[x] = cl[x]
         /\ IF q \in Connected(job[q].by) THEN cl'[q] = Done(s) ELSE cl'[q] = cl[q]
<1>1. Done(s).st = s
  BY DEF Done
<1>2. cl \in [Requests -> [st : {"idle", "ready", "sent", "admitted", "failed"},
                           at : Procs \cup {"none"}]]
  BY DEF WsTypeOK
<1>3. \E c : /\ cl' = [cl EXCEPT ![q] = c]
             /\ IF q \in Connected(job[q].by) THEN c = Done(s) ELSE c = cl[q]
  BY DEF Answer
<1>4. PICK c : /\ cl' = [cl EXCEPT ![q] = c]
               /\ IF q \in Connected(job[q].by) THEN c = Done(s) ELSE c = cl[q]
  BY <1>3
<1>5. /\ \A x \in Requests : x # q => cl'[x] = cl[x]
      /\ cl'[q] = c
  BY <1>2, <1>4
<1>6. Done(s) \in [st : {"idle", "ready", "sent", "admitted", "failed"}, at : Procs \cup {"none"}]
  BY ClientFacts
<1>7. c \in [st : {"idle", "ready", "sent", "admitted", "failed"}, at : Procs \cup {"none"}]
  BY <1>2, <1>4, <1>6
<1>8. cl' \in [Requests -> [st : {"idle", "ready", "sent", "admitted", "failed"},
                            at : Procs \cup {"none"}]]
  BY <1>2, <1>4, <1>7
<1>9. \A x \in Requests : cl'[x].st = "admitted" => cl[x].st = "admitted" \/ (x = q /\ s = "admitted")
  BY <1>1, <1>4, <1>5
<1> QED BY <1>4, <1>5, <1>8, <1>9

LEMMA FaultFact ==
  ASSUME WsTypeOK, Fault
  PROVE  faults' \in 0 .. MaxFaults
  BY WorkspaceAssumption DEF WsTypeOK, Fault

LEMMA NextType ==
  ASSUME WsInv, [WsNext]_wvars
  PROVE  WsTypeOK'
<1>0. WsTypeOK /\ LiveHolds /\ BoundListens /\ HandedInOrder
  BY DEF WsInv
<1> USE <1>0
<1>a. ASSUME UNCHANGED life, UNCHANGED <<tick, sess, hooks, job>>
      PROVE  \A p \in Procs : srv'[p] = "off" =>
               rt'[p] = "none" /\ tick'[p] = NoTick /\ sess'[p] = {} /\ ~hooks'[p] /\ Jobs(p)' = {}
  BY <1>a DEF WsTypeOK, life, Jobs
<1>b. \A p \in Procs : rt[p] # "none" \/ tick[p] # NoTick \/ sess[p] # {} \/ hooks[p] \/ Jobs(p) # {}
                         => srv[p] # "off"
  BY DEF WsTypeOK
<1>1. ASSUME NEW p \in Procs, Start(p) PROVE WsTypeOK'
  BY <1>1 DEF Start, WsTypeOK, runs, observed, loop, clients, Jobs
<1>2. ASSUME NEW p \in Procs, Open(p) PROVE WsTypeOK'
  <2>1. /\ srv[p] = "bound" /\ UNCHANGED <<socket, srv, runs, observed, loop, sess, clients, faults>>
        /\ authority' \in {p, authority}
        /\ rt' = [rt EXCEPT ![p] = "open"] \/ rt' = [rt EXCEPT ![p] = "closed"]
    BY <1>2 DEF Open
  <2>2. authority' \in Procs \cup {"free", "dead"}
        /\ rt' \in [Procs -> {"none", "open", "stopped", "closing", "closed"}]
        /\ \A x \in Procs \ {p} : rt'[x] = rt[x]
    BY <2>1 DEF WsTypeOK
  <2> QED BY <2>1, <2>2 DEF WsTypeOK, runs, observed, loop, clients, Jobs
<1>3. ASSUME NEW p \in Procs, Shutdown(p) \/ StoreFails(p) PROVE WsTypeOK'
  <2>1. faults' \in 0 .. MaxFaults
    <3>1. Shutdown(p) => Fault
      BY DEF Shutdown
    <3>2. StoreFails(p) => Fault
      BY DEF StoreFails, Fault
    <3> QED BY <1>3, <3>1, <3>2, FaultFact
  <2>2. CASE Shutdown(p)
    BY <1>b, <2>1, <2>2 DEF Shutdown, WsTypeOK, runs, observed, loop, clients, Jobs
  <2>3. CASE StoreFails(p)
    BY <1>b, <2>1, <2>3 DEF StoreFails, WsTypeOK, runs, observed, loop, clients, Jobs
  <2> QED BY <1>3, <2>2, <2>3
<1>4. ASSUME NEW p \in Procs, CutOff(p) PROVE WsTypeOK'
  <2>1. cl' \in [Requests -> [st : {"idle", "ready", "sent", "admitted", "failed"},
                              at : Procs \cup {"none"}]]
    BY <1>4, ClientFacts DEF CutOff, WsTypeOK
  <2> QED BY <1>4, <2>1 DEF CutOff, WsTypeOK, life, runs, observed, loop, Jobs
<1>5. ASSUME NEW p \in Procs, CloseServer(p) \/ Release(p) PROVE WsTypeOK'
  <2>1. /\ srv[p] # "off" /\ UNCHANGED <<runs, observed, loop, sess, clients, faults>>
        /\ socket' \in {"none", socket} /\ authority' \in {"free", authority}
        /\ srv' = srv \/ srv' = [srv EXCEPT ![p] = "closed"]
        /\ rt' = [rt EXCEPT ![p] = rt[p]] \/ rt' = [rt EXCEPT ![p] = "closing"] \/ rt' = [rt EXCEPT ![p] = "closed"]
    BY <1>5, <1>b DEF CloseServer, Release
  <2>2. /\ authority' \in Procs \cup {"free", "dead"} /\ socket' \in Procs \cup {"none", "stale"}
        /\ rt' \in [Procs -> {"none", "open", "stopped", "closing", "closed"}]
        /\ srv' \in [Procs -> {"off", "bound", "closed"}]
        /\ \A x \in Procs : srv'[x] = "off" => srv[x] = "off" /\ x # p
        /\ \A x \in Procs \ {p} : rt'[x] = rt[x]
    <3>1. srv \in [Procs -> {"off", "bound", "closed"}]
          /\ rt \in [Procs -> {"none", "open", "stopped", "closing", "closed"}]
          /\ authority \in Procs \cup {"free", "dead"} /\ socket \in Procs \cup {"none", "stale"}
      BY DEF WsTypeOK
    <3>2. /\ rt' \in [Procs -> {"none", "open", "stopped", "closing", "closed"}]
          /\ \A x \in Procs \ {p} : rt'[x] = rt[x]
      BY <2>1, <3>1
    <3>3. /\ srv' \in [Procs -> {"off", "bound", "closed"}]
          /\ \A x \in Procs : srv'[x] = "off" => srv[x] = "off" /\ x # p
      BY <2>1, <3>1
    <3> QED BY <2>1, <3>1, <3>2, <3>3
  <2> QED BY <2>1, <2>2 DEF WsTypeOK, runs, observed, loop, clients, Jobs
<1>6. ASSUME NEW p \in Procs, StopExecutors(p) PROVE WsTypeOK'
  BY <1>6 DEF StopExecutors, WsTypeOK, life, observed, loop, clients, Jobs
<1>7. ASSUME NEW p \in Procs, Exit(p) \/ Crash(p) PROVE WsTypeOK'
  <2>1. Forget(p) /\ UNCHANGED <<last, origin, handed>>
    BY <1>7 DEF Exit, Crash, runs
  <2>2. faults' \in 0 .. MaxFaults
    BY <1>7, WorkspaceAssumption DEF Exit, Crash, Fault, WsTypeOK
  <2>3. /\ authority' \in Procs \cup {"free", "dead"} /\ socket' \in Procs \cup {"none", "stale"}
        /\ lease' \in [Runs -> Procs \cup {"free", "dead"}]
    BY <1>7 DEF Exit, Crash, WsTypeOK, runs
  <2>4. cursor' \in [Runs -> Nat] /\ \A r \in Runs : cursor'[r] <= last[r]
    <3>1. CASE cursor' = cursor
      BY <3>1 DEF WsTypeOK
    <3>2. ASSUME NEW r \in Dispatching(p), cursor' = [cursor EXCEPT ![r] = @ + 1]
          PROVE  cursor' \in [Runs -> Nat] /\ \A x \in Runs : cursor'[x] <= last[x]
      <4>1. r \in Runs /\ cursor[r] < last[r] /\ cursor \in [Runs -> Nat] /\ last \in [Runs -> Nat]
            /\ \A x \in Runs : cursor[x] <= last[x]
        BY DEF Dispatching, WsTypeOK
      <4> QED BY <3>2, <4>1
    <3> QED BY <1>7, <3>1, <3>2 DEF Exit, Crash
  <2>5. \A x \in Procs : srv'[x] = "off" =>
          rt'[x] = "none" /\ tick'[x] = NoTick /\ sess'[x] = {} /\ ~hooks'[x] /\ Jobs(x)' = {}
    <3> TAKE x \in Procs
    <3>1. CASE x = p
      <4>1. Jobs(p)' = {}
        <5>1. \A q \in Requests : job'[q].by # p
          <6>1. \A q \in Requests : job'[q] = IF job[q].by = p THEN NoJob ELSE job[q]
            BY <2>1, ForgetFacts
          <6>2. NoJob.by # p /\ NoJob.by # x
            BY ClientFacts, WorkspaceAssumption
          <6> QED BY <6>1, <6>2
        <5> QED BY <5>1 DEF Jobs
      <4> QED BY <2>1, <3>1, <4>1, ForgetFacts
    <3>2. CASE x # p
      <4>1. Jobs(x) = {} => Jobs(x)' = {}
        <5>1. \A q \in Requests : job'[q].by = x => job[q].by = x
          <6>1. \A q \in Requests : job'[q] = IF job[q].by = p THEN NoJob ELSE job[q]
            BY <2>1, ForgetFacts
          <6>2. NoJob.by # p /\ NoJob.by # x
            BY ClientFacts, WorkspaceAssumption
          <6> QED BY <6>1, <6>2
        <5> QED BY <5>1 DEF Jobs
      <4> QED BY <2>1, <3>2, <4>1, ForgetFacts DEF WsTypeOK
    <3> QED BY <3>1, <3>2
  <2>6. /\ srv' \in [Procs -> {"off", "bound", "closed"}]
        /\ rt' \in [Procs -> {"none", "open", "stopped", "closing", "closed"}]
        /\ tick' \in [Procs -> [start : SUBSET Runs, hooks : SUBSET Runs]]
        /\ quiet' \in [Procs -> BOOLEAN] /\ hooks' \in [Procs -> BOOLEAN]
        /\ sess' \in [Procs -> SUBSET Runs] /\ fence' \in [Procs -> [Runs -> Nat]]
        /\ cl' \in [Requests -> [st : {"idle", "ready", "sent", "admitted", "failed"},
                                 at : Procs \cup {"none"}]]
        /\ job' \in [Requests -> [by : Procs \cup {"none"},
                                  st : {"none", "waiting", "held", "admitted"}]]
    BY <2>1, ForgetFacts
  <2> QED BY <2>1, <2>2, <2>3, <2>4, <2>5, <2>6 DEF WsTypeOK
<1>8. ASSUME NEW p \in Procs, TickBegin(p) PROVE WsTypeOK'
  <2>1. PICK work \in [start : SUBSET Runs, hooks : SUBSET Runs] :
          /\ tick' = [tick EXCEPT ![p] = work]
          /\ quiet' = [quiet EXCEPT ![p] = @ \/ work = NoTick]
    BY <1>8 DEF TickBegin
  <2>2. rt[p] = "open" /\ UNCHANGED <<life, runs, observed, sess, clients, faults>>
    BY <1>8 DEF TickBegin
  <2>3. tick' \in [Procs -> [start : SUBSET Runs, hooks : SUBSET Runs]] /\ quiet' \in [Procs -> BOOLEAN]
        /\ \A x \in Procs \ {p} : tick'[x] = tick[x]
    BY <2>1 DEF WsTypeOK
  <2> QED BY <1>b, <2>2, <2>3 DEF WsTypeOK, life, runs, observed, clients, Jobs
<1>9. ASSUME NEW p \in Procs, TickEnd(p) PROVE WsTypeOK'
  <2>1. PICK ended \in SUBSET Runs :
          sess' = [sess EXCEPT ![p] = @ \cup ended] /\ Dispatch(p, tick[p].hooks \ ended)
    BY <1>9 DEF TickEnd, WsTypeOK
  <2>2. /\ Ticking(p) /\ quiet' = [quiet EXCEPT ![p] = FALSE] /\ tick' = [tick EXCEPT ![p] = NoTick]
        /\ UNCHANGED <<life, runs, clients, faults>>
    BY <1>9 DEF TickEnd
  <2>3. srv[p] # "off"
    BY <1>b, <2>2 DEF Ticking
  <2>4. NoTick \in [start : SUBSET Runs, hooks : SUBSET Runs]
    BY DEF NoTick
  <2>5. /\ sess' \in [Procs -> SUBSET Runs] /\ \A x \in Procs \ {p} : sess'[x] = sess[x]
        /\ tick' \in [Procs -> [start : SUBSET Runs, hooks : SUBSET Runs]]
        /\ \A x \in Procs \ {p} : tick'[x] = tick[x]
        /\ quiet' \in [Procs -> BOOLEAN]
    BY <2>1, <2>2, <2>4 DEF WsTypeOK
  <2>6. /\ cursor' \in [Runs -> Nat]
        /\ handed' \in [Runs -> Seq(Nat)] /\ \A r \in Runs : cursor'[r] <= last[r]
        /\ hooks' \in [Procs -> BOOLEAN] /\ \A x \in Procs \ {p} : hooks'[x] = hooks[x]
        /\ fence' \in [Procs -> [Runs -> Nat]]
    BY <2>1, DispatchFacts
  <2> QED BY <2>2, <2>3, <2>5, <2>6 DEF WsTypeOK, life, runs, clients, Jobs
<1>10. ASSUME NEW p \in Procs, HooksEnd(p) \/ CheckIdle(p) PROVE WsTypeOK'
  <2>1. /\ UNCHANGED <<authority, socket, srv, runs, cursor, handed, fence, tick, sess, clients, faults>>
        /\ hooks' = hooks \/ hooks' = [hooks EXCEPT ![p] = FALSE]
        /\ quiet' = quiet \/ quiet' = [quiet EXCEPT ![p] = FALSE]
        /\ rt' = rt \/ (rt[p] = "open" /\ rt' = [rt EXCEPT ![p] = "stopped"])
    BY <1>10 DEF HooksEnd, CheckIdle, life, loop, observed
  <2>2. /\ rt' \in [Procs -> {"none", "open", "stopped", "closing", "closed"}]
        /\ hooks' \in [Procs -> BOOLEAN] /\ quiet' \in [Procs -> BOOLEAN]
        /\ \A x \in Procs : (rt'[x] # rt[x] => srv[x] # "off") /\ (hooks'[x] => hooks[x])
    <3>1. /\ rt \in [Procs -> {"none", "open", "stopped", "closing", "closed"}]
          /\ hooks \in [Procs -> BOOLEAN] /\ quiet \in [Procs -> BOOLEAN]
      BY DEF WsTypeOK
    <3>2. /\ rt' \in [Procs -> {"none", "open", "stopped", "closing", "closed"}]
          /\ \A x \in Procs : rt'[x] # rt[x] => srv[x] # "off"
      BY <2>1, <3>1, <1>b
    <3>3. hooks' \in [Procs -> BOOLEAN] /\ \A x \in Procs : hooks'[x] => hooks[x]
      BY <2>1, <3>1
    <3>4. quiet' \in [Procs -> BOOLEAN]
      BY <2>1, <3>1
    <3> QED BY <3>2, <3>3, <3>4
  <2> QED BY <2>1, <2>2 DEF WsTypeOK, runs, clients, Jobs
<1>11. ASSUME NEW p \in Procs, Fork(p) PROVE WsTypeOK'
  <2>1. PICK r \in Runs :
          /\ ~Exists(r) /\ last' = [last EXCEPT ![r] = 1] /\ origin' = [origin EXCEPT ![r] = "fork"]
          /\ cursor' = [cursor EXCEPT ![r] = 1] /\ handed' = [handed EXCEPT ![r] = <<1>>]
    BY <1>11 DEF Fork
  <2>2. 1 <= Length[r]
    BY WorkspaceAssumption DEF Runs
  <2>3. /\ last' \in [Runs -> Nat] /\ \A x \in Runs : last'[x] <= Length[x]
        /\ origin' \in [Runs -> Requests \cup {"none", "fork"}]
        /\ cursor' \in [Runs -> Nat] /\ \A x \in Runs : cursor'[x] <= last'[x]
    BY <2>1, <2>2 DEF WsTypeOK
  <2>4. handed' \in [Runs -> Seq(Nat)]
    <3>1. <<1>> \in Seq(Nat)
      OBVIOUS
    <3> QED BY <2>1, <3>1 DEF WsTypeOK
  <2>5. hooks' \in [Procs -> BOOLEAN] /\ (\A x \in Procs \ {p} : hooks'[x] = hooks[x]) /\ srv[p] # "off"
    BY <1>11, <1>b DEF Fork, WsTypeOK
  <2>6. UNCHANGED <<life, lease, fence, loop, sess, clients, faults>>
    BY <1>11 DEF Fork
  <2> QED BY <2>3, <2>4, <2>5, <2>6 DEF WsTypeOK, life, loop, clients, Jobs
<1>12. ASSUME NEW p \in Procs, NEW r \in Runs, Execute(p, r) PROVE WsTypeOK'
  <2>1. /\ last' = [last EXCEPT ![r] = @ + 1] /\ lease' = [lease EXCEPT ![r] = p] /\ ~Ended(r)
        /\ UNCHANGED <<life, origin, observed, loop, sess, clients, faults>>
    BY <1>12 DEF Execute
  <2>2. last \in [Runs -> Nat] /\ last[r] < Length[r]
    <3>1. last \in [Runs -> Nat] /\ last[r] <= Length[r] /\ last[r] # Length[r] /\ Length[r] \in Nat
      BY <2>1, WorkspaceAssumption DEF WsTypeOK, Ended, Runs
    <3> QED BY <3>1
  <2>3. /\ last' \in [Runs -> Nat]
        /\ \A x \in Runs : last'[x] <= Length[x] /\ last[x] <= last'[x]
    <3>1. Length[r] \in Nat
      BY WorkspaceAssumption DEF Runs
    <3>2. \A x \in Runs : last[x] <= Length[x] /\ last[x] \in Nat
      BY DEF WsTypeOK
    <3> QED BY <2>1, <2>2, <3>1, <3>2
  <2>4. \A x \in Runs : cursor[x] <= last'[x]
    <3> TAKE x \in Runs
    <3>1. cursor[x] \in Nat /\ last[x] \in Nat /\ last'[x] \in Nat /\ cursor[x] <= last[x]
      BY <2>3 DEF WsTypeOK
    <3> QED BY <2>3, <3>1
  <2>5. lease' \in [Runs -> Procs \cup {"free", "dead"}]
    BY <2>1 DEF WsTypeOK
  <2> QED BY <2>1, <2>3, <2>4, <2>5 DEF WsTypeOK, life, observed, loop, clients, Jobs
<1>13. ASSUME NEW p \in Procs, NEW r \in Runs, Checkpoint(p, r) PROVE WsTypeOK'
  <2>1. /\ cursor' \in [Runs -> Nat]
        /\ handed' \in [Runs -> Seq(Nat)] /\ \A x \in Runs : cursor'[x] <= last[x]
        /\ hooks' \in [Procs -> BOOLEAN] /\ \A x \in Procs \ {p} : hooks'[x] = hooks[x]
        /\ fence' \in [Procs -> [Runs -> Nat]]
    BY <1>13, DispatchFacts DEF Checkpoint
  <2>2. srv[p] # "off" /\ UNCHANGED <<life, runs, loop, sess, clients, faults>>
    BY <1>13, <1>b DEF Checkpoint
  <2> QED BY <2>1, <2>2 DEF WsTypeOK, life, runs, loop, clients, Jobs
<1>14. ASSUME NEW p \in Procs, NEW r \in Runs, SessionEnds(p, r) PROVE WsTypeOK'
  BY <1>14 DEF SessionEnds, WsTypeOK, life, observed, loop, clients, Jobs
<1>15. ASSUME NEW q \in Requests, Probe(q) \/ Disconnect(q) PROVE WsTypeOK'
  <2>1. cl' \in [Requests -> [st : {"idle", "ready", "sent", "admitted", "failed"},
                              at : Procs \cup {"none"}]]
    <3>1. \/ cl' = [cl EXCEPT ![q] = Done("failed")]
          \/ socket \in Procs /\ cl' = [cl EXCEPT ![q] = [st |-> "ready", at |-> socket]]
      BY <1>15 DEF Probe, Disconnect
    <3>2. cl \in [Requests -> [st : {"idle", "ready", "sent", "admitted", "failed"},
                               at : Procs \cup {"none"}]]
      BY DEF WsTypeOK
    <3> QED BY <3>1, <3>2, ClientFacts
  <2>2. faults' \in 0 .. MaxFaults
    <3>1. CASE Disconnect(q)
      BY <3>1, FaultFact DEF Disconnect
    <3>2. CASE Probe(q)
      BY <3>2 DEF Probe, WsTypeOK
    <3> QED BY <1>15, <3>1, <3>2
  <2> QED BY <1>15, <2>1, <2>2 DEF Probe, Disconnect, WsTypeOK, life, runs, observed, loop, Jobs
<1>16. ASSUME NEW q \in Requests, Connect(q) PROVE WsTypeOK'
  <2>1. /\ cl' \in [Requests -> [st : {"idle", "ready", "sent", "admitted", "failed"},
                                 at : Procs \cup {"none"}]]
        /\ \/ job' = job
           \/ socket \in Procs /\ job' = [job EXCEPT ![q] = [by |-> socket, st |-> "waiting"]]
    <3>1. /\ \/ cl' = [cl EXCEPT ![q].st = "sent"]
             \/ cl' = [cl EXCEPT ![q] = Done("failed")] \/ cl' = [cl EXCEPT ![q] = Done("idle")]
          /\ \/ job' = job
             \/ /\ socket # "none" /\ cl[q].at = socket
                /\ job' = [job EXCEPT ![q] = [by |-> socket, st |-> "waiting"]]
      BY <1>16 DEF Connect
    <3>2. cl \in [Requests -> [st : {"idle", "ready", "sent", "admitted", "failed"},
                               at : Procs \cup {"none"}]]
      BY DEF WsTypeOK
    <3> QED BY <3>1, <3>2, ClientFacts
  <2>2. /\ job' \in [Requests -> [by : Procs \cup {"none"}, st : {"none", "waiting", "held", "admitted"}]]
        /\ \A p \in Procs : srv[p] = "off" => Jobs(p)' = {}
    <3>1. CASE job' = job
      BY <3>1 DEF WsTypeOK, Jobs
    <3>2. CASE socket \in Procs /\ job' = [job EXCEPT ![q] = [by |-> socket, st |-> "waiting"]]
      <4>1. srv[socket] # "off"
        BY <3>2 DEF BoundListens
      <4>2. \A x \in Requests : job'[x] = job[x] \/ job'[x].by = socket
        BY <3>2 DEF WsTypeOK
      <4> QED BY <3>2, <4>1, <4>2 DEF WsTypeOK, Jobs
    <3> QED BY <2>1, <3>1, <3>2
  <2>3. UNCHANGED <<life, runs, observed, loop, sess, faults>>
    BY <1>16 DEF Connect
  <2> QED BY <2>1, <2>2, <2>3 DEF WsTypeOK, life, runs, observed, loop
<1>17. ASSUME NEW q \in Requests, Take(q) \/ Admit(q) \/ AdmitBusy(q) \/ StartJob(q)
       PROVE  WsTypeOK'
  <2>1. /\ job[q].st # "none"
        /\ \/ job' = [job EXCEPT ![q] = NoJob] \/ job' = [job EXCEPT ![q].st = "held"]
           \/ job' = [job EXCEPT ![q].st = "admitted"]
    BY <1>17 DEF Take, Admit, AdmitBusy, StartJob
  <2>2. /\ job' \in [Requests -> [by : Procs \cup {"none"}, st : {"none", "waiting", "held", "admitted"}]]
        /\ \A x \in Requests, p \in Procs : job'[x].by = p => job[x].by = p
    <3>1. job \in [Requests -> [by : Procs \cup {"none"}, st : {"none", "waiting", "held", "admitted"}]]
      BY DEF WsTypeOK
    <3>2. CASE job' = [job EXCEPT ![q] = NoJob]
      BY <3>1, <3>2, ClientFacts, WorkspaceAssumption
    <3>3. ASSUME NEW s \in {"held", "admitted"}, job' = [job EXCEPT ![q].st = s]
          PROVE  /\ job' \in [Requests -> [by : Procs \cup {"none"},
                                           st : {"none", "waiting", "held", "admitted"}]]
                 /\ \A x \in Requests : job'[x].by = job[x].by
      BY <3>1, <3>3
    <3> QED BY <2>1, <3>2, <3>3
  <2>3. cl' \in [Requests -> [st : {"idle", "ready", "sent", "admitted", "failed"},
                              at : Procs \cup {"none"}]]
    <3>1. cl' = cl \/ \E s \in {"idle", "admitted", "failed"} : Answer(q, s)
      BY <1>17 DEF Take, Admit, AdmitBusy, StartJob
    <3> QED BY <3>1, AnswerFacts DEF WsTypeOK
  <2>4. /\ last' \in [Runs -> Nat] /\ \A r \in Runs : last'[r] <= Length[r] /\ cursor[r] <= last'[r]
        /\ origin' \in [Runs -> Requests \cup {"none", "fork"}]
    <3>1. CASE UNCHANGED <<last, origin>>
      BY <3>1 DEF WsTypeOK
    <3>2. CASE ~ UNCHANGED <<last, origin>>
      <4>1. PICK r \in Runs : /\ ~Exists(r) /\ last' = [last EXCEPT ![r] = 1]
                              /\ origin' = [origin EXCEPT ![r] = q]
        BY <1>17, <3>2 DEF Take, Admit, AdmitBusy, StartJob, runs
      <4>2. 1 <= Length[r] /\ last[r] = 0
        BY <4>1, WorkspaceAssumption DEF Runs, Exists, WsTypeOK
      <4> QED BY <4>1, <4>2 DEF WsTypeOK
    <3> QED BY <3>1, <3>2
  <2>5. sess' \in [Procs -> SUBSET Runs]
        /\ \A p \in Procs : sess'[p] # {} => sess[p] # {} \/ job[q].by = p
    <3>1. CASE sess' = sess
      BY <3>1 DEF WsTypeOK
    <3>2. CASE StartJob(q)
      <4>1. PICK R \in SUBSET Runs : sess' = [sess EXCEPT ![job[q].by] = @ \cup R]
        BY <3>2 DEF StartJob, Replays
      <4> QED BY <4>1 DEF WsTypeOK
    <3> QED BY <1>17, <3>1, <3>2 DEF Take, Admit, AdmitBusy
  <2>6. faults' \in 0 .. MaxFaults
    BY <1>17, WorkspaceAssumption DEF Take, Admit, AdmitBusy, StartJob, Fault, WsTypeOK
  <2>7. UNCHANGED <<life, observed, loop, lease>>
    BY <1>17 DEF Take, Admit, AdmitBusy, StartJob, runs
  <2>8. \A p \in Procs : srv[p] = "off" => Jobs(p)' = {} /\ sess'[p] = {}
    <3>1. job[q].by \in Procs \cup {"none"} /\ \A p \in Procs : srv[p] = "off" => Jobs(p) = {} /\ sess[p] = {}
      BY DEF WsTypeOK
    <3>2. \A p \in Procs : srv[p] = "off" => job[q].by # p
      BY <3>1 DEF Jobs
    <3> QED BY <2>2, <2>5, <3>1, <3>2 DEF Jobs
  <2> QED BY <2>2, <2>3, <2>4, <2>5, <2>6, <2>7, <2>8 DEF WsTypeOK, life, observed, loop
<1>18. ASSUME NEW r \in Runs, LeaseLapses(r) PROVE WsTypeOK'
  BY <1>18 DEF LeaseLapses, WsTypeOK, life, observed, clients, Jobs
<1>19. CASE UNCHANGED wvars
  BY <1>19 DEF wvars, WsTypeOK, life, runs, observed, loop, clients, Jobs
<1> QED BY <1>1, <1>2, <1>3, <1>4, <1>5, <1>6, <1>7, <1>8, <1>9, <1>10, <1>11, <1>12, <1>13, <1>14,
           <1>15, <1>16, <1>17, <1>18, <1>19 DEF WsNext, LifeStep, SessionStep, JobStep

-----------------------------------------------------------------------------
(* Who acts on the workspace                                                *)

LEMMA NextLife ==
  ASSUME WsInv, [WsNext]_wvars
  PROVE  LiveHolds' /\ BoundListens'
<1>0. /\ rt \in [Procs -> {"none", "open", "stopped", "closing", "closed"}]
      /\ srv \in [Procs -> {"off", "bound", "closed"}]
      /\ LiveHolds /\ BoundListens /\ WsTypeOK
      /\ \A p \in Procs : p # "free" /\ p # "dead" /\ p # "none" /\ p # "stale"
  BY WorkspaceAssumption DEF WsInv, WsTypeOK
<1>1. CASE UNCHANGED life
  BY <1>0, <1>1 DEF life, LiveHolds, BoundListens
<1>2. ASSUME NEW p \in Procs, Start(p) PROVE LiveHolds' /\ BoundListens'
  <2>1. /\ socket \notin Procs /\ socket' = p /\ srv' = [srv EXCEPT ![p] = "bound"]
        /\ UNCHANGED <<authority, rt>>
    BY <1>0, <1>2 DEF Start
  <2> QED BY <1>0, <2>1 DEF LiveHolds, BoundListens
<1>3. ASSUME NEW p \in Procs, Open(p) PROVE LiveHolds' /\ BoundListens'
  BY <1>0, <1>3 DEF Open, Claimable, LiveHolds, BoundListens
<1>4. ASSUME NEW p \in Procs, Shutdown(p) \/ StoreFails(p) \/ CheckIdle(p)
      PROVE  LiveHolds' /\ BoundListens'
  <2>1. /\ UNCHANGED <<authority, socket, srv>>
        /\ rt' = rt \/ (rt[p] = "open" /\ \E s \in {"stopped", "closing"} : rt' = [rt EXCEPT ![p] = s])
    <3>1. Shutdown(p) => /\ UNCHANGED <<authority, socket, srv>> /\ rt[p] = "open"
                         /\ rt' = [rt EXCEPT ![p] = "stopped"]
      BY DEF Shutdown
    <3>2. StoreFails(p) => /\ UNCHANGED <<authority, socket, srv>> /\ rt[p] = "open"
                           /\ rt' = [rt EXCEPT ![p] = "closing"]
      BY DEF StoreFails, Fault
    <3>3. CheckIdle(p) => /\ UNCHANGED <<authority, socket, srv>> /\ rt[p] = "open"
                          /\ rt' = rt \/ rt' = [rt EXCEPT ![p] = "stopped"]
      BY DEF CheckIdle
    <3> QED BY <1>4, <3>1, <3>2, <3>3
  <2> QED BY <1>0, <2>1 DEF LiveHolds, BoundListens
<1>5. ASSUME NEW p \in Procs, CloseServer(p) PROVE LiveHolds' /\ BoundListens'
  <2>1. /\ srv[p] = "bound" /\ srv' = [srv EXCEPT ![p] = "closed"] /\ socket' = "none"
        /\ UNCHANGED authority
        /\ rt' = [rt EXCEPT ![p] = IF rt[p] = "stopped" THEN "closing" ELSE rt[p]]
    BY <1>5 DEF CloseServer
  <2>2. BoundListens'
    BY <1>0, <2>1 DEF BoundListens
  <2>3. LiveHolds'
    BY <1>0, <2>1 DEF LiveHolds
  <2> QED BY <2>2, <2>3
<1>6. ASSUME NEW p \in Procs, Release(p) PROVE LiveHolds' /\ BoundListens'
  BY <1>0, <1>6 DEF Release, LiveHolds, BoundListens
<1>7. ASSUME NEW p \in Procs, Exit(p) PROVE LiveHolds' /\ BoundListens'
  <2>1. Forget(p) /\ UNCHANGED <<authority, socket>> /\ srv[p] = "closed" /\ rt[p] = "closed"
    BY <1>7 DEF Exit
  <2>2. /\ srv'[p] = "off" /\ rt'[p] = "none"
        /\ \A x \in Procs \ {p} : srv'[x] = srv[x] /\ rt'[x] = rt[x]
    BY <1>0, <2>1, ForgetFacts
  <2> QED BY <1>0, <2>1, <2>2 DEF LiveHolds, BoundListens
<1>8. ASSUME NEW p \in Procs, Crash(p) PROVE LiveHolds' /\ BoundListens'
  <2>1. /\ Forget(p) /\ socket' = IF socket = p THEN "stale" ELSE socket
        /\ authority' = IF authority = p THEN "dead" ELSE authority
    BY <1>8 DEF Crash
  <2>2. /\ srv'[p] = "off" /\ rt'[p] = "none"
        /\ \A x \in Procs \ {p} : srv'[x] = srv[x] /\ rt'[x] = rt[x]
    BY <1>0, <2>1, ForgetFacts
  <2> QED BY <1>0, <2>1, <2>2 DEF LiveHolds, BoundListens
<1>9. ASSUME NEW p \in Procs,
             \/ CutOff(p) \/ StopExecutors(p) \/ TickBegin(p) \/ TickEnd(p) \/ HooksEnd(p) \/ Fork(p)
             \/ \E r \in Runs : SessionStep(p, r)
      PROVE  UNCHANGED life
  BY <1>9 DEF CutOff, StopExecutors, TickBegin, TickEnd, HooksEnd, Fork, SessionStep, Execute,
              Checkpoint, SessionEnds
<1>10. ASSUME NEW q \in Requests, Probe(q) \/ Connect(q) \/ Disconnect(q) \/ JobStep(q) \/ AdmitBusy(q)
       PROVE  UNCHANGED life
  BY <1>10 DEF Probe, Connect, Disconnect, JobStep, Take, Admit, StartJob, AdmitBusy
<1>11. (\E r \in Runs : LeaseLapses(r)) \/ UNCHANGED wvars => UNCHANGED life
  BY DEF LeaseLapses, wvars
<1> QED BY <1>1, <1>2, <1>3, <1>4, <1>5, <1>6, <1>7, <1>8, <1>9, <1>10, <1>11 DEF WsNext, LifeStep

\* a runtime that has claimed the authority is the one that works
LEMMA OpenHolds ==
  ASSUME WsInv, NEW p \in Procs, rt[p] = "open"
  PROVE  authority = p
  BY DEF WsInv, LiveHolds

\* a step changes the work of one process only, and gives it some only where it holds
\* the authority
LEMMA NextWork ==
  ASSUME WsInv, [WsNext]_wvars
  PROVE  WorkUnderAuthority'
<1>0. /\ WsTypeOK /\ LiveHolds /\ WorkUnderAuthority /\ HandedInOrder /\ JobsKnown
      /\ \A p \in Procs : p # "free" /\ p # "dead" /\ p # "none"
  BY WorkspaceAssumption DEF WsInv, Submitted
<1>a. /\ \A p \in Procs : sess[p] # {} \/ Ticking(p) \/ hooks[p] \/ Held(p) => authority = p
      /\ \A r \in Runs : lease[r] \in Procs => r \in sess[lease[r]]
  BY <1>0 DEF WorkUnderAuthority
<1>b. /\ sess \in [Procs -> SUBSET Runs] /\ lease \in [Runs -> Procs \cup {"free", "dead"}]
      /\ hooks \in [Procs -> BOOLEAN] /\ tick \in [Procs -> [start : SUBSET Runs, hooks : SUBSET Runs]]
      /\ job \in [Requests -> [by : Procs \cup {"none"}, st : {"none", "waiting", "held", "admitted"}]]
  BY <1>0 DEF WsTypeOK
<1>c. \A p \in Procs : rt[p] \in {"open", "stopped", "closing"} <=> authority = p
  BY <1>0 DEF LiveHolds
<1>1. CASE UNCHANGED <<authority, sess, tick, hooks, job, lease>>
  BY <1>a, <1>1 DEF WorkUnderAuthority, Ticking, Held, Jobs
<1>2. ASSUME NEW p \in Procs, Open(p) PROVE WorkUnderAuthority'
  <2>1. authority \in Procs => authority' = authority
    BY <1>2 DEF Open, Claimable
  <2>2. UNCHANGED <<sess, tick, hooks, job, lease>>
    BY <1>2 DEF Open, runs, observed, loop, clients
  <2> QED BY <1>a, <2>1, <2>2 DEF WorkUnderAuthority, Ticking, Held, Jobs
<1>3. ASSUME NEW p \in Procs, StopExecutors(p) PROVE WorkUnderAuthority'
  <2>1. /\ sess' = [sess EXCEPT ![p] = {}] /\ UNCHANGED <<authority, tick, hooks, job>>
        /\ lease' = [r \in Runs |-> IF lease[r] = p THEN "free" ELSE lease[r]]
    BY <1>3 DEF StopExecutors, life, observed, loop, clients
  <2> QED BY <1>0, <1>a, <1>b, <2>1 DEF WorkUnderAuthority, Ticking, Held, Jobs
<1>4. ASSUME NEW p \in Procs, Release(p) PROVE WorkUnderAuthority'
  <2>1. /\ rt[p] = "closing" /\ ~Ticking(p) /\ Jobs(p) = {} /\ sess[p] = {} /\ ~hooks[p]
        /\ UNCHANGED <<sess, tick, hooks, job, lease>>
    BY <1>4 DEF Release, Drained, runs, observed, loop, clients
  <2>2. authority = p /\ ~Held(p)
    BY <1>c, <2>1 DEF Held
  <2>3. \A x \in Procs : ~(sess[x] # {} \/ Ticking(x) \/ hooks[x] \/ Held(x))
    BY <1>a, <2>1, <2>2
  <2> QED BY <1>a, <2>1, <2>3 DEF WorkUnderAuthority, Ticking, Held, Jobs
<1>5. ASSUME NEW p \in Procs, Exit(p) \/ Crash(p) PROVE WorkUnderAuthority'
  <2>1. Forget(p)
    BY <1>5 DEF Exit, Crash
  <2>2. /\ tick'[p] = NoTick /\ sess'[p] = {} /\ ~hooks'[p]
        /\ \A x \in Procs \ {p} : tick'[x] = tick[x] /\ sess'[x] = sess[x] /\ hooks'[x] = hooks[x]
        /\ \A q \in Requests : job'[q] = IF job[q].by = p THEN NoJob ELSE job[q]
    BY <1>0, <2>1, ForgetFacts
  <2>3. \A x \in Procs : Held(x)' => x # p /\ Held(x)
    BY <1>0, <2>2, ClientFacts DEF Held, Jobs
  <2>4. \A x \in Procs \ {p} : authority = x => authority' = x
    BY <1>5 DEF Exit, Crash
  <2>5. \A r \in Runs : lease'[r] \in Procs => lease'[r] = lease[r] /\ lease[r] # p
    <3>1. CASE Crash(p)
      BY <1>0, <1>b, <3>1 DEF Crash
    <3>2. CASE Exit(p)
      <4>1. UNCHANGED lease /\ authority # p
        BY <1>c, <3>2 DEF Exit, runs
      <4> QED BY <1>a, <4>1
    <3> QED BY <1>5, <3>1, <3>2
  <2>6. \A x \in Procs : (sess[x] # {} \/ Ticking(x) \/ hooks[x] \/ Held(x))' => authority' = x
    <3> SUFFICES ASSUME NEW x \in Procs, (sess[x] # {} \/ Ticking(x) \/ hooks[x] \/ Held(x))'
                 PROVE  authority' = x
      OBVIOUS
    <3>1. x # p /\ (sess[x] # {} \/ Ticking(x) \/ hooks[x] \/ Held(x))
      BY <2>2, <2>3 DEF Ticking
    <3> QED BY <1>a, <2>4, <3>1
  <2> QED BY <1>a, <2>2, <2>5, <2>6 DEF WorkUnderAuthority
<1>6. ASSUME NEW p \in Procs, TickBegin(p) PROVE WorkUnderAuthority'
  <2>1. /\ rt[p] = "open" /\ UNCHANGED <<authority, sess, hooks, job, lease>>
        /\ \A x \in Procs \ {p} : tick'[x] = tick[x]
    BY <1>6, <1>b DEF TickBegin, life, runs, observed, clients
  <2> QED BY <1>a, <1>c, <2>1 DEF WorkUnderAuthority, Ticking, Held, Jobs
<1>7. ASSUME NEW p \in Procs, TickEnd(p) PROVE WorkUnderAuthority'
  <2>1. PICK ended \in SUBSET Runs :
          sess' = [sess EXCEPT ![p] = @ \cup ended] /\ Dispatch(p, tick[p].hooks \ ended)
    BY <1>7, <1>b DEF TickEnd
  <2>2. /\ Ticking(p) /\ tick' = [tick EXCEPT ![p] = NoTick] /\ UNCHANGED <<authority, job, lease>>
    BY <1>7 DEF TickEnd, life, runs, clients
  <2>3. /\ \A x \in Procs \ {p} : hooks'[x] = hooks[x] /\ sess'[x] = sess[x] /\ tick'[x] = tick[x]
        /\ sess[p] \subseteq sess'[p]
    BY <1>0, <1>b, <2>1, <2>2, DispatchFacts
  <2>4. authority = p
    BY <1>a, <2>2
  <2>5. \A r \in Runs : lease[r] \in Procs => r \in sess'[lease[r]]
    BY <1>a, <2>3
  <2> QED BY <1>a, <2>2, <2>3, <2>4, <2>5 DEF WorkUnderAuthority, Ticking, Held, Jobs
<1>8. ASSUME NEW p \in Procs, HooksEnd(p) PROVE WorkUnderAuthority'
  <2>1. hooks' = [hooks EXCEPT ![p] = FALSE] /\ UNCHANGED <<authority, sess, tick, job, lease>>
    BY <1>8 DEF HooksEnd, life, runs, loop, clients
  <2> QED BY <1>a, <1>b, <2>1 DEF WorkUnderAuthority, Ticking, Held, Jobs
<1>9. ASSUME NEW p \in Procs, Fork(p) PROVE WorkUnderAuthority'
  <2>1. /\ rt[p] = "open" /\ hooks' = [hooks EXCEPT ![p] = TRUE]
        /\ UNCHANGED <<authority, sess, tick, job, lease>>
    BY <1>9 DEF Fork, life, loop, clients
  <2> QED BY <1>a, <1>b, <1>c, <2>1 DEF WorkUnderAuthority, Ticking, Held, Jobs
<1>10. ASSUME NEW p \in Procs, NEW r \in Runs, Execute(p, r) PROVE WorkUnderAuthority'
  <2>1. /\ r \in sess[p] /\ lease' = [lease EXCEPT ![r] = p]
        /\ UNCHANGED <<authority, sess, tick, hooks, job>>
    BY <1>10 DEF Execute, life, observed, loop, clients
  <2> QED BY <1>a, <1>b, <2>1 DEF WorkUnderAuthority, Ticking, Held, Jobs
<1>11. ASSUME NEW p \in Procs, NEW r \in Runs, Checkpoint(p, r) PROVE WorkUnderAuthority'
  <2>1. /\ r \in sess[p] /\ UNCHANGED <<authority, sess, tick, job, lease>>
        /\ \A x \in Procs \ {p} : hooks'[x] = hooks[x]
    BY <1>0, <1>11, DispatchFacts DEF Checkpoint, life, runs, loop, clients
  <2>2. authority = p
    BY <1>a, <2>1
  <2> QED BY <1>a, <2>1, <2>2 DEF WorkUnderAuthority, Ticking, Held, Jobs
<1>12. ASSUME NEW p \in Procs, NEW r \in Runs, SessionEnds(p, r) PROVE WorkUnderAuthority'
  <2>1. /\ r \in sess[p] /\ sess' = [sess EXCEPT ![p] = @ \ {r}] /\ lease' = [lease EXCEPT ![r] = "free"]
        /\ UNCHANGED <<authority, tick, hooks, job>>
    BY <1>12 DEF SessionEnds, life, observed, loop, clients
  <2> QED BY <1>0, <1>a, <1>b, <2>1 DEF WorkUnderAuthority, Ticking, Held, Jobs
<1>13. ASSUME NEW q \in Requests, Connect(q) PROVE WorkUnderAuthority'
  <2>1. /\ UNCHANGED <<authority, sess, tick, hooks, lease>>
        /\ job' = job \/ job' = [job EXCEPT ![q] = [by |-> socket, st |-> "waiting"]]
    BY <1>13 DEF Connect, life, runs, observed, loop
  <2>2. \A y \in Requests : job'[y] = job[y] \/ job'[y].st = "waiting"
    BY <1>b, <2>1
  <2>3. \A x \in Procs : Held(x)' => Held(x)
    BY <2>2 DEF Held, Jobs
  <2> QED BY <1>a, <2>1, <2>3 DEF WorkUnderAuthority, Ticking
<1>14. ASSUME NEW q \in Requests, Take(q) \/ Admit(q) \/ AdmitBusy(q) PROVE WorkUnderAuthority'
  <2>1. UNCHANGED <<authority, sess, tick, hooks, lease>>
    BY <1>14 DEF Take, Admit, AdmitBusy, life, runs, observed, loop
  <2>2. /\ job[q].st # "none"
        /\ \/ job' = [job EXCEPT ![q] = NoJob]
           \/ job' = [job EXCEPT ![q].st = "held"] /\ rt[job[q].by] = "open"
           \/ job' = [job EXCEPT ![q].st = "admitted"] /\ job[q].st = "held"
    BY <1>14 DEF Take, Admit, AdmitBusy
  <2>3. \A x \in Procs : Held(x)' => Held(x) \/ (x = job[q].by /\ rt[x] = "open")
    <3> SUFFICES ASSUME NEW x \in Procs, NEW y \in Requests, job'[y].by = x, job'[y].st # "waiting"
                 PROVE  Held(x) \/ (x = job[q].by /\ rt[x] = "open")
      BY DEF Held, Jobs
    <3>1. CASE y # q
      <4>1. job'[y] = job[y]
        BY <1>b, <2>2, <3>1
      <4> QED BY <4>1 DEF Held, Jobs
    <3>2. CASE y = q /\ job' = [job EXCEPT ![q] = NoJob]
      BY <1>0, <1>b, <3>2, ClientFacts
    <3>3. CASE y = q /\ job' = [job EXCEPT ![q].st = "held"] /\ rt[job[q].by] = "open"
      BY <1>b, <3>3
    <3>4. CASE y = q /\ job' = [job EXCEPT ![q].st = "admitted"] /\ job[q].st = "held"
      BY <1>b, <3>4 DEF Held, Jobs
    <3> QED BY <2>2, <3>1, <3>2, <3>3, <3>4
  <2>4. \A x \in Procs : Held(x)' => authority = x
    BY <1>a, <1>c, <2>3
  <2> QED BY <1>a, <2>1, <2>4 DEF WorkUnderAuthority, Ticking
<1>15. ASSUME NEW q \in Requests, StartJob(q) PROVE WorkUnderAuthority'
  <2>1. PICK R \in SUBSET Runs : sess' = [sess EXCEPT ![job[q].by] = @ \cup R]
    BY <1>15 DEF StartJob, Replays
  <2>2. /\ job[q].st = "admitted" /\ job' = [job EXCEPT ![q] = NoJob]
        /\ UNCHANGED <<authority, tick, hooks, lease>>
    BY <1>15 DEF StartJob, life, runs, observed, loop
  <2>3. job[q].by \in Procs /\ q \in Jobs(job[q].by)
    BY <1>0, <1>b, <2>2 DEF JobsKnown, Jobs
  <2>4. authority = job[q].by
    BY <1>a, <2>2, <2>3 DEF Held
  <2>5. \A x \in Procs : Held(x)' => Held(x)
    BY <1>0, <1>b, <2>2, ClientFacts DEF Held, Jobs
  <2>6. /\ \A x \in Procs : sess[x] \subseteq sess'[x]
        /\ \A x \in Procs : x # job[q].by => sess'[x] = sess[x]
    BY <1>b, <2>1
  <2> QED BY <1>a, <2>2, <2>4, <2>5, <2>6 DEF WorkUnderAuthority, Ticking
<1>16. ASSUME NEW r \in Runs, LeaseLapses(r) PROVE WorkUnderAuthority'
  <2>1. /\ lease' = [lease EXCEPT ![r] = "free"] /\ UNCHANGED <<authority, sess, tick, hooks, job>>
    BY <1>16 DEF LeaseLapses, life, observed, clients
  <2> QED BY <1>0, <1>a, <1>b, <2>1 DEF WorkUnderAuthority, Ticking, Held, Jobs
<1>17. ASSUME NEW p \in Procs,
              Start(p) \/ Shutdown(p) \/ StoreFails(p) \/ CutOff(p) \/ CloseServer(p) \/ CheckIdle(p)
       PROVE  UNCHANGED <<authority, sess, tick, hooks, job, lease>>
  BY <1>17 DEF Start, Shutdown, StoreFails, CutOff, CloseServer, CheckIdle, life, runs, observed, loop,
               clients
<1>18. (\E q \in Requests : Probe(q) \/ Disconnect(q)) \/ UNCHANGED wvars
       => UNCHANGED <<authority, sess, tick, hooks, job, lease>>
  BY DEF Probe, Disconnect, wvars, life, runs, observed, loop, clients
<1> QED BY <1>1, <1>2, <1>3, <1>4, <1>5, <1>6, <1>7, <1>8, <1>9, <1>10, <1>11, <1>12, <1>13, <1>14,
           <1>15, <1>16, <1>17, <1>18 DEF WsNext, LifeStep, SessionStep, JobStep

-----------------------------------------------------------------------------
(* Submissions                                                              *)

LEMMA NextSubmitted ==
  ASSUME WsInv, [WsNext]_wvars
  PROVE  Submitted'
<1>0. /\ WsTypeOK /\ JobsKnown /\ Unborn /\ OneRun /\ Answered /\ BoundListens
      /\ \A q \in Requests : q # "none" /\ q # "fork"
      /\ \A p \in Procs : p # "none"
  BY WorkspaceAssumption DEF WsInv, Submitted
<1>b. /\ last \in [Runs -> Nat] /\ origin \in [Runs -> Requests \cup {"none", "fork"}]
      /\ job \in [Requests -> [by : Procs \cup {"none"}, st : {"none", "waiting", "held", "admitted"}]]
      /\ cl \in [Requests -> [st : {"idle", "ready", "sent", "admitted", "failed"},
                              at : Procs \cup {"none"}]]
  BY <1>0 DEF WsTypeOK
<1>1. CASE /\ UNCHANGED <<last, origin, job>>
           /\ \A q \in Requests : cl'[q].st = "admitted" => cl[q].st = "admitted"
  BY <1>0, <1>1 DEF Submitted, JobsKnown, Unborn, Exists, OneRun, Answered, Replays
<1>2. ASSUME NEW p \in Procs, NEW r \in Runs, Execute(p, r) PROVE Submitted'
  <2>1. last' = [last EXCEPT ![r] = @ + 1] /\ UNCHANGED <<origin, job, cl>>
    BY <1>2 DEF Execute, clients
  <2>2. \A x \in Runs : Exists(x) => Exists(x)'
    BY <1>b, <2>1 DEF Exists
  <2> QED BY <1>0, <2>1, <2>2 DEF Submitted, JobsKnown, Unborn, OneRun, Answered, Replays
<1>3. ASSUME NEW p \in Procs, Fork(p) PROVE Submitted'
  <2>1. PICK r \in Runs :
          ~Exists(r) /\ last' = [last EXCEPT ![r] = 1] /\ origin' = [origin EXCEPT ![r] = "fork"]
    BY <1>3 DEF Fork
  <2>2. UNCHANGED <<job, cl>>
    BY <1>3 DEF Fork, clients
  <2>3. origin[r] = "none"
    BY <1>0, <2>1 DEF Unborn
  <2>4. \A q \in Requests : Replays(q)' = Replays(q)
    BY <1>0, <1>b, <2>1, <2>3 DEF Replays
  <2>5. Unborn'
    BY <1>0, <1>b, <2>1 DEF Unborn, Exists
  <2> QED BY <1>0, <2>2, <2>4, <2>5 DEF Submitted, JobsKnown, OneRun, Answered
<1>4. ASSUME NEW p \in Procs, Exit(p) \/ Crash(p) PROVE Submitted'
  <2>1. Forget(p) /\ UNCHANGED <<last, origin>>
    BY <1>4 DEF Exit, Crash, runs
  <2>2. /\ \A q \in Requests : job'[q] = IF job[q].by = p THEN NoJob ELSE job[q]
        /\ \A q \in Requests : cl'[q].st = "admitted" => cl[q].st = "admitted"
    BY <1>0, <2>1, ForgetFacts
  <2> QED BY <1>0, <2>1, <2>2, ClientFacts
          DEF Submitted, JobsKnown, Unborn, Exists, OneRun, Answered, Replays
<1>5. ASSUME NEW q \in Requests, Connect(q) PROVE Submitted'
  <2>1. /\ UNCHANGED <<last, origin>>
        /\ \/ cl' = [cl EXCEPT ![q].st = "sent"]
           \/ cl' = [cl EXCEPT ![q] = Done("failed")] \/ cl' = [cl EXCEPT ![q] = Done("idle")]
        /\ \/ job' = job
           \/ socket \in Procs /\ job' = [job EXCEPT ![q] = [by |-> socket, st |-> "waiting"]]
           \/ job' = [job EXCEPT ![q] = [by |-> socket, st |-> "waiting"]] /\ socket \notin Procs
    BY <1>5 DEF Connect, runs
  <2>2. \A x \in Requests : cl'[x].st = "admitted" => cl[x].st = "admitted"
    BY <1>b, <2>1 DEF Done
  <2>3. \A x \in Requests : job'[x] = job[x] \/ (job'[x].by # "none" /\ job'[x].st = "waiting")
    <3>1. socket = "none" => job' = job
      BY <1>5 DEF Connect
    <3> QED BY <1>b, <2>1, <3>1
  <2> QED BY <1>0, <2>1, <2>2, <2>3
          DEF Submitted, JobsKnown, Unborn, Exists, OneRun, Answered, Replays
<1>6. ASSUME NEW q \in Requests, Take(q) \/ AdmitBusy(q) \/ StartJob(q) PROVE Submitted'
  <2>1. /\ UNCHANGED <<last, origin>>
        /\ job' = [job EXCEPT ![q].st = "held"] \/ job' = [job EXCEPT ![q] = NoJob]
        /\ job[q].st # "none"
    BY <1>6 DEF Take, AdmitBusy, StartJob, runs
  <2>2. cl' = cl \/ \E s \in {"idle", "failed"} : Answer(q, s)
        \/ (Answer(q, "admitted") /\ job[q].st = "admitted")
    BY <1>6 DEF Take, AdmitBusy, StartJob
  <2>3. \A x \in Requests :
          cl'[x].st = "admitted" => cl[x].st = "admitted" \/ (x = q /\ job[q].st = "admitted")
    BY <1>0, <2>2, AnswerFacts
  <2>4. \A x \in Requests : \/ job'[x] = job[x] \/ job'[x] = NoJob
                            \/ x = q /\ job'[x].st = "held" /\ job'[x].by = job[x].by
    BY <1>b, <2>1
  <2> QED BY <1>0, <2>1, <2>3, <2>4, ClientFacts
          DEF Submitted, JobsKnown, Unborn, Exists, OneRun, Answered, Replays
<1>7. ASSUME NEW q \in Requests, Admit(q) PROVE Submitted'
  <2>1. job[q].st = "held" /\ job' = [job EXCEPT ![q].st = "admitted"] /\ cl' = cl
    BY <1>7 DEF Admit
  <2>2. \A x \in Requests : /\ job'[x].by = job[x].by
                            /\ IF x = q THEN job'[x].st = "admitted" ELSE job'[x] = job[x]
    BY <1>b, <2>1
  <2>3. JobsKnown'
    BY <1>0, <2>1, <2>2 DEF JobsKnown
  <2>4. CASE Replays(q) # {} /\ UNCHANGED <<last, origin>>
    BY <1>0, <2>1, <2>2, <2>3, <2>4 DEF Submitted, Unborn, Exists, OneRun, Answered, Replays
  <2>5. CASE Replays(q) = {} /\ ~ UNCHANGED <<last, origin>>
    <3>1. PICK r \in Runs :
            ~Exists(r) /\ last' = [last EXCEPT ![r] = 1] /\ origin' = [origin EXCEPT ![r] = q]
      BY <1>7, <2>5 DEF Admit
    <3>2. origin[r] = "none"
      BY <1>0, <3>1 DEF Unborn
    <3>3. Replays(q)' = {r} /\ \A x \in Requests \ {q} : Replays(x)' = Replays(x)
      BY <1>0, <1>b, <2>5, <3>1, <3>2 DEF Replays
    <3>4. Unborn'
      BY <1>0, <1>b, <3>1 DEF Unborn, Exists
    <3> QED BY <1>0, <2>1, <2>2, <2>3, <3>3, <3>4 DEF Submitted, OneRun, Answered
  <2>6. CASE UNCHANGED <<last, origin>> /\ Replays(q) = {}
    <3>1. PICK r \in Runs : ~Exists(r) /\ last' = [last EXCEPT ![r] = 1]
      BY <1>7, <2>6 DEF Admit
    <3> QED BY <1>b, <2>6, <3>1 DEF Exists
  <2> QED BY <1>7, <2>4, <2>5, <2>6 DEF Admit
<1>8. ASSUME NEW p \in Procs,
             \/ Start(p) \/ Open(p) \/ Shutdown(p) \/ StoreFails(p) \/ CloseServer(p) \/ StopExecutors(p)
             \/ Release(p) \/ TickBegin(p) \/ TickEnd(p) \/ HooksEnd(p) \/ CheckIdle(p)
             \/ \E r \in Runs : Checkpoint(p, r) \/ SessionEnds(p, r)
      PROVE  UNCHANGED <<last, origin, job, cl>>
  BY <1>8 DEF Start, Open, Shutdown, StoreFails, CloseServer, StopExecutors, Release, TickBegin, TickEnd,
              HooksEnd, CheckIdle, Checkpoint, SessionEnds, life, runs, observed, loop, clients
<1>9. (\E r \in Runs : LeaseLapses(r)) \/ UNCHANGED wvars => UNCHANGED <<last, origin, job, cl>>
  BY DEF LeaseLapses, wvars, life, runs, observed, loop, clients
<1>10. ASSUME NEW q \in Requests, Probe(q) \/ Disconnect(q)
       PROVE  /\ UNCHANGED <<last, origin, job>>
              /\ \A x \in Requests : cl'[x].st = "admitted" => cl[x].st = "admitted"
  <2>1. /\ UNCHANGED <<last, origin, job>>
        /\ \/ cl' = [cl EXCEPT ![q] = [st |-> "ready", at |-> socket]]
           \/ cl' = [cl EXCEPT ![q] = Done("failed")]
    BY <1>10 DEF Probe, Disconnect, runs
  <2> QED BY <1>b, <2>1 DEF Done
<1>11. ASSUME NEW p \in Procs, CutOff(p)
       PROVE  /\ UNCHANGED <<last, origin, job>>
              /\ \A x \in Requests : cl'[x].st = "admitted" => cl[x].st = "admitted"
  BY <1>b, <1>11 DEF CutOff, Done, runs
<1>12. UNCHANGED <<last, origin, job, cl>> => Submitted'
  BY <1>1
<1> QED BY <1>1, <1>2, <1>3, <1>4, <1>5, <1>6, <1>7, <1>8, <1>9, <1>10, <1>11, <1>12
        DEF WsNext, LifeStep, SessionStep, JobStep
-----------------------------------------------------------------------------
(* Clients and their submissions                                            *)

LEMMA NextQueued ==
  ASSUME WsInv, [WsNext]_wvars
  PROVE  Queued'
<1>0. /\ WsTypeOK /\ JobsKnown /\ Queued /\ BoundListens /\ LiveHolds
      /\ \A p \in Procs : p # "none" /\ p # "stale"
  BY WorkspaceAssumption DEF WsInv, Submitted
<1>b. /\ srv \in [Procs -> {"off", "bound", "closed"}]
      /\ rt \in [Procs -> {"none", "open", "stopped", "closing", "closed"}]
      /\ job \in [Requests -> [by : Procs \cup {"none"}, st : {"none", "waiting", "held", "admitted"}]]
      /\ cl \in [Requests -> [st : {"idle", "ready", "sent", "admitted", "failed"},
                              at : Procs \cup {"none"}]]
  BY <1>0 DEF WsTypeOK
<1>1. CASE /\ UNCHANGED clients
           /\ \A p \in Procs : Jobs(p) # {} /\ srv[p] = "bound" =>
                srv'[p] = "bound" /\ (rt[p] \in {"stopped", "closing", "closed"}
                                      => rt'[p] \in {"stopped", "closing", "closed"})
  <2> SUFFICES ASSUME NEW q \in Requests, job[q].by # "none"
               PROVE  /\ srv'[job[q].by] = "bound"
                      /\ cl[q].st \in {"idle", "ready"} => cl[q].st = "idle" /\ rt'[job[q].by] \in {"stopped", "closing", "closed"}
    BY <1>0, <1>1 DEF Queued, clients, Leaving
  <2>1. job[q].by \in Procs /\ Jobs(job[q].by) # {}
    BY <1>b DEF Jobs
  <2> QED BY <1>0, <1>1, <2>1 DEF Queued, Leaving
<1>2. CASE UNCHANGED <<clients, life>>
  BY <1>1, <1>2 DEF life
<1>3. ASSUME NEW p \in Procs, Start(p) \/ Open(p) \/ Shutdown(p) \/ StoreFails(p) \/ CheckIdle(p) PROVE Queued'
  <2>1. /\ UNCHANGED clients
        /\ srv' = srv \/ srv' = [srv EXCEPT ![p] = "bound"]
        /\ rt' = rt \/ (~Leaving(p) /\ \E s : rt' = [rt EXCEPT ![p] = s])
    BY <1>3 DEF Start, Open, Shutdown, StoreFails, CheckIdle, Leaving, Fault
  <2>2. \A x \in Procs : /\ srv[x] = "bound" => srv'[x] = "bound"
                        /\ rt[x] \in {"stopped", "closing", "closed"} => rt'[x] = rt[x]
    BY <1>b, <2>1 DEF Leaving
  <2> QED BY <1>1, <1>b, <2>1, <2>2
<1>4. ASSUME NEW p \in Procs, Release(p) PROVE Queued'
  <2>1. UNCHANGED <<clients, srv>> /\ rt' = [rt EXCEPT ![p] = "closed"]
    BY <1>4 DEF Release
  <2> QED BY <1>1, <1>b, <2>1
<1>5. ASSUME NEW p \in Procs, CloseServer(p) PROVE Queued'
  <2>1. /\ UNCHANGED clients /\ Jobs(p) = {} /\ srv' = [srv EXCEPT ![p] = "closed"]
        /\ rt' = [rt EXCEPT ![p] = IF rt[p] = "stopped" THEN "closing" ELSE rt[p]]
    BY <1>5 DEF CloseServer
  <2>2. \A x \in Procs : x # p => srv'[x] = srv[x] /\ rt'[x] = rt[x]
    BY <1>b, <2>1
  <2>3. rt[p] \in {"stopped", "closing", "closed"} => rt'[p] \in {"stopped", "closing", "closed"}
    BY <1>b, <2>1
  <2> QED BY <1>1, <2>1, <2>2
<1>6. ASSUME NEW p \in Procs, CutOff(p) PROVE Queued'
  <2>1. /\ UNCHANGED <<life, job>> /\ srv[p] = "bound" /\ Leaving(p)
        /\ cl' = [q \in Requests |-> IF q \in Connected(p) THEN Done("idle") ELSE cl[q]]
    BY <1>6 DEF CutOff
  <2>2. ASSUME NEW q \in Connected(p) PROVE job[q].by = p
    BY <1>0, <2>2 DEF Connected, Queued
  <2> QED BY <1>0, <2>1, <2>2 DEF Queued, Leaving, life, Done
<1>7. ASSUME NEW p \in Procs, Exit(p) \/ Crash(p) PROVE Queued'
  <2>1. Forget(p)
    BY <1>7 DEF Exit, Crash
  <2>2. /\ \A x \in Procs \ {p} : srv'[x] = srv[x] /\ rt'[x] = rt[x]
        /\ \A q \in Requests : job'[q] = IF job[q].by = p THEN NoJob ELSE job[q]
        /\ \A q \in Requests : IF q \in Connected(p) THEN cl'[q].st = "idle"
                              ELSE cl'[q].st = cl[q].st /\ (cl[q].at # p => cl'[q] = cl[q])
    BY <1>0, <2>1, ForgetFacts
  <2> SUFFICES ASSUME NEW q \in Requests
               PROVE  /\ cl'[q].st = "sent" => job'[q].by = cl'[q].at /\ cl'[q].at # "none"
                      /\ job'[q].by # "none" =>
                           /\ srv'[job'[q].by] = "bound"
                           /\ cl'[q].st \in {"idle", "ready"} => cl'[q].st = "idle" /\ rt'[job'[q].by] \in {"stopped", "closing", "closed"}
    BY DEF Queued, Leaving
  <2>3. cl[q].st = "sent" /\ cl[q].at = p => q \in Connected(p)
    BY <1>b DEF Connected
  <2>4. q \in Connected(p) => job[q].by = p
    BY <1>0 DEF Connected, Queued
  <2>5. CASE job[q].by = p
    <3>1. job'[q].by = "none"
      BY <2>2, <2>5, ClientFacts
    <3>2. cl'[q].st # "sent"
      <4>1. CASE q \in Connected(p)
        BY <2>2, <4>1
      <4>2. CASE q \notin Connected(p)
        BY <1>0, <2>2, <2>3, <2>5, <4>2 DEF Queued
      <4> QED BY <4>1, <4>2
    <3> QED BY <3>1, <3>2
  <2>6. CASE job[q].by # p
    <3>1. job'[q] = job[q] /\ cl'[q].st = cl[q].st /\ (cl[q].at # p => cl'[q] = cl[q])
      BY <2>2, <2>4, <2>6
    <3>2. cl'[q].st = "sent" => job'[q].by = cl'[q].at /\ cl'[q].at # "none"
      BY <1>0, <2>3, <2>4, <2>6, <3>1 DEF Queued
    <3>3. ASSUME job[q].by # "none" PROVE srv'[job[q].by] = srv[job[q].by] /\ rt'[job[q].by] = rt[job[q].by]
      BY <1>b, <2>2, <2>6, <3>3
    <3> QED BY <1>0, <3>1, <3>2, <3>3 DEF Queued, Leaving
  <2> QED BY <2>5, <2>6
<1>8. ASSUME NEW q \in Requests, Probe(q) PROVE Queued'
  <2>1. /\ cl[q].st = "idle" /\ socket \in Procs /\ rt[socket] = "open" /\ UNCHANGED <<life, job>>
        /\ cl' = [cl EXCEPT ![q] = [st |-> "ready", at |-> socket]]
    BY <1>8 DEF Probe
  <2>2. job[q].by = "none"
    <3>1. SUFFICES ASSUME job[q].by # "none" PROVE FALSE
      OBVIOUS
    <3>2. job[q].by \in Procs /\ srv[job[q].by] = "bound" /\ Leaving(job[q].by)
      BY <1>0, <1>b, <2>1, <3>1 DEF Queued
    <3> QED BY <1>0, <2>1, <3>2 DEF BoundListens, Leaving
  <2>3. cl'[q].st = "ready" /\ \A x \in Requests : x # q => cl'[x] = cl[x]
    BY <1>b, <2>1
  <2> QED BY <1>0, <2>1, <2>2, <2>3 DEF Queued, Leaving, life
<1>9. ASSUME NEW q \in Requests, Connect(q) PROVE Queued'
  <2>1. /\ cl[q].st = "ready" /\ UNCHANGED life
        /\ \/ /\ socket # "none" /\ cl[q].at = socket /\ cl' = [cl EXCEPT ![q].st = "sent"]
              /\ job' = [job EXCEPT ![q] = [by |-> socket, st |-> "waiting"]]
           \/ job' = job /\ \E s \in {"idle", "failed"} : cl' = [cl EXCEPT ![q] = Done(s)]
    BY <1>9 DEF Connect
  <2>2. job[q].by = "none"
    BY <1>0, <2>1 DEF Queued
  <2>3. /\ \A x \in Requests : x # q => cl'[x] = cl[x] /\ job'[x] = job[x]
        /\ \/ /\ socket # "none" /\ cl[q].at = socket /\ cl'[q].st = "sent" /\ cl'[q].at = socket
              /\ job'[q].by = socket
           \/ job'[q] = job[q] /\ cl'[q].st \in {"idle", "failed"}
    <3>1. CASE /\ socket # "none" /\ cl[q].at = socket /\ cl' = [cl EXCEPT ![q].st = "sent"]
               /\ job' = [job EXCEPT ![q] = [by |-> socket, st |-> "waiting"]]
      BY <1>b, <3>1
    <3>2. ASSUME job' = job, NEW s \in {"idle", "failed"}, cl' = [cl EXCEPT ![q] = Done(s)]
          PROVE  /\ \A x \in Requests : x # q => cl'[x] = cl[x] /\ job'[x] = job[x]
                 /\ job'[q] = job[q] /\ cl'[q].st \in {"idle", "failed"}
      BY <1>b, <3>2 DEF Done
    <3> QED BY <2>1, <3>1, <3>2
  <2>4. cl[q].at = socket /\ socket # "none" => srv[socket] = "bound"
    BY <1>0, <1>b DEF BoundListens
  <2> QED BY <1>0, <2>1, <2>2, <2>3, <2>4 DEF Queued, Leaving, life
<1>10. ASSUME NEW q \in Requests, Disconnect(q) PROVE Queued'
  <2>1. UNCHANGED <<life, job>> /\ cl' = [cl EXCEPT ![q] = Done("failed")]
    BY <1>10 DEF Disconnect
  <2>2. cl'[q].st = "failed" /\ \A x \in Requests : x # q => cl'[x] = cl[x]
    BY <1>b, <2>1 DEF Done
  <2> QED BY <1>0, <2>1, <2>2 DEF Queued, Leaving, life
<1>11. ASSUME NEW q \in Requests, Take(q) \/ Admit(q) \/ AdmitBusy(q) \/ StartJob(q) PROVE Queued'
  <2>1. UNCHANGED life
    BY <1>11 DEF Take, Admit, AdmitBusy, StartJob
  <2>2. CASE cl' = cl /\ \E s \in {"held", "admitted"} : job' = [job EXCEPT ![q].st = s]
    <3>1. \A x \in Requests : job'[x].by = job[x].by
      BY <1>b, <2>2
    <3> QED BY <1>0, <2>1, <2>2, <3>1 DEF Queued, Leaving, life
  <2>3. CASE job' = [job EXCEPT ![q] = NoJob] /\ \E s \in {"idle", "admitted", "failed"} : Answer(q, s)
    <3>1. job'[q].by = "none" /\ \A x \in Requests : x # q => job'[x] = job[x]
      BY <1>b, <2>3, ClientFacts
    <3>2. /\ \A x \in Requests : x # q => cl'[x] = cl[x]
          /\ \E s \in {"idle", "admitted", "failed"} :
               IF q \in Connected(job[q].by) THEN cl'[q] = Done(s) ELSE cl'[q] = cl[q]
      BY <1>0, <2>3, AnswerFacts
    <3>3. cl[q].st = "sent" => q \in Connected(job[q].by)
      BY <1>0, <1>b DEF Queued, Connected
    <3>4. cl'[q].st # "sent"
      BY <3>2, <3>3 DEF Done
    <3> QED BY <1>0, <2>1, <3>1, <3>2, <3>4 DEF Queued, Leaving, life
  <2>4. \/ cl' = cl /\ \E s \in {"held", "admitted"} : job' = [job EXCEPT ![q].st = s]
        \/ job' = [job EXCEPT ![q] = NoJob] /\ \E s \in {"idle", "admitted", "failed"} : Answer(q, s)
    BY <1>11 DEF Take, Admit, AdmitBusy, StartJob
  <2> QED BY <2>2, <2>3, <2>4
<1>12. ASSUME NEW p \in Procs,
              \/ StopExecutors(p) \/ TickBegin(p) \/ TickEnd(p) \/ HooksEnd(p) \/ Fork(p)
              \/ \E r \in Runs : SessionStep(p, r)
       PROVE  UNCHANGED <<clients, life>>
  BY <1>12 DEF StopExecutors, TickBegin, TickEnd, HooksEnd, Fork, SessionStep, Execute, Checkpoint,
               SessionEnds
<1>13. (\E r \in Runs : LeaseLapses(r)) \/ UNCHANGED wvars => UNCHANGED <<clients, life>>
  BY DEF LeaseLapses, wvars
<1> QED BY <1>2, <1>3, <1>4, <1>5, <1>6, <1>7, <1>8, <1>9, <1>10, <1>11, <1>12, <1>13
        DEF WsNext, LifeStep, JobStep

-----------------------------------------------------------------------------
(* What a quiet process knows                                               *)

LEMMA NextQuietOpen ==
  ASSUME WsInv, [WsNext]_wvars
  PROVE  QuietOpen'
<1>0. /\ WsTypeOK /\ QuietOpen
      /\ quiet \in [Procs -> BOOLEAN]
      /\ rt \in [Procs -> {"none", "open", "stopped", "closing", "closed"}]
  BY DEF WsInv, WsTypeOK
<1>1. CASE \A p \in Procs : (quiet'[p] => quiet[p] \/ rt'[p] # "none") /\ (rt'[p] = "none" => rt[p] = "none")
  BY <1>0, <1>1 DEF QuietOpen
<1>2. ASSUME NEW p \in Procs,
             \/ Open(p) \/ Shutdown(p) \/ StoreFails(p) \/ CloseServer(p) \/ Release(p)
      PROVE  QuietOpen'
  <2>1. UNCHANGED quiet /\ \E s \in {"open", "stopped", "closing", "closed", rt[p]} : rt' = [rt EXCEPT ![p] = s]
    BY <1>0, <1>2 DEF Open, Shutdown, StoreFails, CloseServer, Release, loop, Fault
  <2> QED BY <1>0, <1>1, <2>1
<1>3. ASSUME NEW p \in Procs, CheckIdle(p) PROVE QuietOpen'
  <2>1. /\ quiet' = quiet \/ quiet' = [quiet EXCEPT ![p] = FALSE]
        /\ rt' = rt \/ rt' = [rt EXCEPT ![p] = "stopped"]
    BY <1>3 DEF CheckIdle
  <2> QED BY <1>0, <1>1, <2>1
<1>4. ASSUME NEW p \in Procs, Exit(p) \/ Crash(p) PROVE QuietOpen'
  <2>1. Forget(p)
    BY <1>4 DEF Exit, Crash
  <2> QED BY <1>0, <2>1, ForgetFacts DEF QuietOpen
<1>5. ASSUME NEW p \in Procs, TickBegin(p) PROVE QuietOpen'
  <2>1. rt[p] = "open" /\ UNCHANGED rt /\ \A x \in Procs \ {p} : quiet'[x] = quiet[x]
    BY <1>0, <1>5 DEF TickBegin, life
  <2> QED BY <1>0, <2>1 DEF QuietOpen
<1>6. ASSUME NEW p \in Procs, TickEnd(p) PROVE QuietOpen'
  <2>1. UNCHANGED rt /\ quiet' = [quiet EXCEPT ![p] = FALSE]
    BY <1>6 DEF TickEnd, life
  <2> QED BY <1>0, <1>1, <2>1
<1>7. ASSUME NEW r \in Runs, LeaseLapses(r) PROVE QuietOpen'
  BY <1>7 DEF LeaseLapses, QuietOpen
<1>8. ASSUME NEW p \in Procs,
             \/ Start(p) \/ CutOff(p) \/ StopExecutors(p) \/ HooksEnd(p) \/ Fork(p)
             \/ \E r \in Runs : SessionStep(p, r)
      PROVE  UNCHANGED <<rt, quiet>>
  BY <1>8 DEF Start, CutOff, StopExecutors, HooksEnd, Fork, SessionStep, Execute, Checkpoint, SessionEnds,
              life, loop
<1>9. ASSUME NEW q \in Requests, Probe(q) \/ Connect(q) \/ Disconnect(q) \/ JobStep(q) \/ AdmitBusy(q)
      PROVE  UNCHANGED <<rt, quiet>>
  BY <1>9 DEF Probe, Connect, Disconnect, JobStep, Take, Admit, StartJob, AdmitBusy, life, loop
<1>10. UNCHANGED wvars => UNCHANGED <<rt, quiet>>
  BY DEF wvars, life, loop
<1>11. UNCHANGED <<rt, quiet>> => QuietOpen'
  BY <1>0 DEF QuietOpen
<1> QED BY <1>2, <1>3, <1>4, <1>5, <1>6, <1>7, <1>8, <1>9, <1>10, <1>11 DEF WsNext, LifeStep

LEMMA NextQuiet ==
  ASSUME WsInv, [WsNext]_wvars
  PROVE  QuietSaw'
<1>0. /\ WsTypeOK /\ QuietOpen /\ QuietSaw /\ WorkUnderAuthority /\ JobsKnown /\ Queued
      /\ quiet \in [Procs -> BOOLEAN] /\ sess \in [Procs -> SUBSET Runs]
      /\ rt \in [Procs -> {"none", "open", "stopped", "closing", "closed"}]
      /\ last \in [Runs -> Nat] /\ origin \in [Runs -> Requests \cup {"none", "fork"}]
      /\ lease \in [Runs -> Procs \cup {"free", "dead"}]
      /\ job \in [Requests -> [by : Procs \cup {"none"}, st : {"none", "waiting", "held", "admitted"}]]
      /\ \A p \in Procs : p # "none" /\ p # "dead"
  BY WorkspaceAssumption DEF WsInv, WsTypeOK, Submitted
<1>a. \A p, x \in Procs : rt[p] = "open" /\ (sess[x] # {} \/ rt[x] = "closing" \/ Held(x)) => x = p
  BY DEF WsInv, LiveHolds, WorkUnderAuthority
\* what a process has in hand it keeps, unless the step is about that very Run
<1>b. ASSUME NEW p \in Procs, NEW r \in Runs, InHand(p, r),
             UNCHANGED <<last[r], origin[r]>>, lease'[r] = lease[r] \/ lease'[r] = "dead",
             sess[p] \subseteq sess'[p],
             \A q \in Requests : job[q].by = p /\ job[q].st = "admitted" => job'[q] = job[q]
      PROVE  InHand(p, r)'
  <2>1. Served(r, p) => Served(r, p)'
    BY <1>b DEF Served
  <2> QED BY <1>b, <2>1 DEF InHand, Pending
<1>c. ASSUME UNCHANGED <<last, origin, lease, sess, job>>,
             \A p \in Procs : quiet'[p] /\ rt'[p] = "open" => quiet[p] /\ rt[p] = "open"
      PROVE  QuietSaw'
  <2> SUFFICES ASSUME NEW p \in Procs, NEW r \in Runs,
                      quiet'[p], rt'[p] = "open", Exists(r)', ~Ended(r)'
               PROVE  InHand(p, r)'
    BY DEF QuietSaw
  <2>1. InHand(p, r)
    BY <1>0, <1>c DEF QuietSaw, Exists, Ended
  <2> QED BY <1>b, <1>c, <2>1
<1>1. ASSUME NEW p \in Procs,
             \/ Open(p) \/ Shutdown(p) \/ StoreFails(p) \/ CloseServer(p) \/ Release(p) \/ CheckIdle(p)
      PROVE  QuietSaw'
  <2>1. UNCHANGED <<last, origin, lease, sess, job>>
    BY <1>1 DEF Open, Shutdown, StoreFails, CloseServer, Release, CheckIdle, runs, clients
  <2>2. CASE Open(p)
    <3>1. ~quiet[p] /\ UNCHANGED quiet /\ \A x \in Procs \ {p} : rt'[x] = rt[x]
      BY <1>0, <2>2 DEF Open, loop, QuietOpen
    <3> QED BY <1>c, <2>1, <3>1
  <2>3. CASE ~Open(p)
    <3>1. /\ quiet' = quiet \/ quiet' = [quiet EXCEPT ![p] = FALSE]
          /\ \E s \in {"stopped", "closing", "closed", rt[p]} : rt' = [rt EXCEPT ![p] = s]
      BY <1>0, <1>1, <2>3 DEF Shutdown, StoreFails, CloseServer, Release, CheckIdle, loop, Fault
    <3>2. \A x \in Procs : quiet'[x] /\ rt'[x] = "open" => quiet[x] /\ rt[x] = "open"
      BY <1>0, <3>1
    <3> QED BY <1>c, <2>1, <3>2
  <2> QED BY <2>2, <2>3
<1>2. ASSUME NEW p \in Procs, StopExecutors(p) PROVE QuietSaw'
  <2>1. rt[p] = "closing" /\ UNCHANGED rt
    BY <1>2 DEF StopExecutors, life
  <2>2. \A x \in Procs : rt'[x] # "open"
    BY <1>a, <2>1
  <2> QED BY <2>2 DEF QuietSaw
<1>3. ASSUME NEW p \in Procs, Exit(p) \/ Crash(p) PROVE QuietSaw'
  <2>1. Forget(p) /\ UNCHANGED <<last, origin>> /\ \A r \in Runs : lease'[r] = lease[r] \/ lease'[r] = "dead"
    BY <1>3 DEF Exit, Crash, runs
  <2>2. /\ ~quiet'[p]
        /\ \A x \in Procs \ {p} : quiet'[x] = quiet[x] /\ rt'[x] = rt[x] /\ sess'[x] = sess[x]
        /\ \A q \in Requests : job'[q] = IF job[q].by = p THEN NoJob ELSE job[q]
    BY <1>0, <2>1, ForgetFacts
  <2> SUFFICES ASSUME NEW x \in Procs, NEW r \in Runs,
                      quiet'[x], rt'[x] = "open", Exists(r)', ~Ended(r)'
               PROVE  InHand(x, r)'
    BY DEF QuietSaw
  <2>3. x # p
    BY <2>2
  <2>4. InHand(x, r)
    BY <1>0, <2>1, <2>2, <2>3 DEF QuietSaw, Exists, Ended
  <2> QED BY <1>b, <2>1, <2>2, <2>3, <2>4
<1>4. ASSUME NEW p \in Procs, TickBegin(p) PROVE QuietSaw'
  <2> DEFINE work == [start |-> {r \in Runs : Startable(r)}, hooks |-> {r \in Runs : Backlog(r)}]
  <2>1. /\ rt[p] = "open" /\ quiet' = [quiet EXCEPT ![p] = quiet[p] \/ work = NoTick]
        /\ UNCHANGED <<rt, last, origin, lease, sess, job>>
    BY <1>4 DEF TickBegin, life, runs, clients
  <2>2. CASE \A x \in Procs : quiet'[x] => quiet[x]
    BY <1>c, <2>1, <2>2
  <2>3. CASE work = NoTick
    <3> SUFFICES ASSUME NEW x \in Procs, NEW r \in Runs,
                        quiet'[x], rt[x] = "open", Exists(r), ~Ended(r)
                 PROVE  InHand(x, r)
      BY <2>1 DEF QuietSaw, Exists, Ended, InHand, Pending, Served
    <3>1. x = p
      BY <2>1 DEF WsInv, LiveHolds
    <3>2. ~Startable(r)
      BY <2>3 DEF NoTick
    <3>3. lease[r] # "free"
      BY <3>2 DEF Startable
    <3>4. CASE lease[r] \in Procs
      <4>1. r \in sess[lease[r]]
        BY <1>0, <3>4 DEF WorkUnderAuthority
      <4>2. lease[r] = p
        BY <1>a, <2>1, <3>4, <4>1
      <4> QED BY <3>1, <4>1, <4>2 DEF InHand
    <3>5. CASE lease[r] = "dead"
      BY <3>5 DEF InHand
    <3> QED BY <1>0, <3>3, <3>4, <3>5
  <2>4. work # NoTick => \A x \in Procs : quiet'[x] => quiet[x]
    <3> HIDE DEF work
    <3> QED BY <1>0, <2>1
  <2> QED BY <2>2, <2>3, <2>4
<1>5. ASSUME NEW p \in Procs, TickEnd(p) PROVE QuietSaw'
  <2>1. PICK mine : sess' = [sess EXCEPT ![p] = @ \cup mine]
    BY <1>5 DEF TickEnd
  <2>2. /\ quiet' = [quiet EXCEPT ![p] = FALSE] /\ UNCHANGED <<rt, last, origin, lease, job>>
        /\ \A x \in Procs \ {p} : sess'[x] = sess[x]
    BY <1>0, <1>5, <2>1 DEF TickEnd, life, runs, clients
  <2> SUFFICES ASSUME NEW x \in Procs, NEW r \in Runs,
                      quiet'[x], rt'[x] = "open", Exists(r)', ~Ended(r)'
               PROVE  InHand(x, r)'
    BY DEF QuietSaw
  <2>3. x # p /\ quiet[x]
    BY <1>0, <2>2
  <2>4. InHand(x, r)
    BY <1>0, <2>2, <2>3 DEF QuietSaw, Exists, Ended
  <2> QED BY <1>b, <2>2, <2>3, <2>4
<1>6. ASSUME NEW p \in Procs, NEW r0 \in Runs, Execute(p, r0) \/ SessionEnds(p, r0) PROVE QuietSaw'
  <2>1. /\ r0 \in sess[p] /\ UNCHANGED <<rt, origin, quiet, job>>
        /\ last' = last \/ last' = [last EXCEPT ![r0] = @ + 1]
        /\ \E l : lease' = [lease EXCEPT ![r0] = l]
        /\ \/ sess' = sess
           \/ sess' = [sess EXCEPT ![p] = @ \ {r0}] /\ Ended(r0) /\ UNCHANGED last
    BY <1>6 DEF Execute, SessionEnds, life, loop, clients
  <2> SUFFICES ASSUME NEW x \in Procs, NEW r \in Runs,
                      quiet'[x], rt'[x] = "open", Exists(r)', ~Ended(r)'
               PROVE  InHand(x, r)'
    BY DEF QuietSaw
  <2>2. x = p
    BY <1>a, <2>1
  <2>3. CASE r = r0
    <3>1. sess' = sess
      BY <2>1, <2>3 DEF Ended
    <3> QED BY <2>1, <2>2, <2>3, <3>1 DEF InHand
  <2>4. CASE r # r0
    <3>1. /\ last'[r] = last[r] /\ lease'[r] = lease[r] /\ origin'[r] = origin[r]
          /\ r \in sess[p] => r \in sess'[p]
      BY <1>0, <2>1, <2>4
    <3>2. InHand(x, r)
      BY <1>0, <2>1, <3>1 DEF QuietSaw, Exists, Ended
    <3> QED BY <2>1, <2>2, <3>1, <3>2 DEF InHand, Pending, Served
  <2> QED BY <2>3, <2>4
<1>7. ASSUME NEW q \in Requests, Take(q) \/ AdmitBusy(q) \/ Connect(q) PROVE QuietSaw'
  <2>1. UNCHANGED <<rt, last, origin, lease, quiet, sess>>
    BY <1>7 DEF Take, AdmitBusy, Connect, life, runs, loop
  <2>2. job' = job \/ ((job[q].st # "admitted" \/ job[q].by = "none") /\ \E j : job' = [job EXCEPT ![q] = j])
    <3>1. CASE Take(q)
      BY <3>1 DEF Take
    <3>2. CASE AdmitBusy(q)
      BY <3>2 DEF AdmitBusy
    <3>3. CASE Connect(q)
      <4>1. job[q].by = "none"
        BY <1>0, <3>3 DEF Connect, Queued
      <4> QED BY <3>3, <4>1 DEF Connect
    <3> QED BY <1>7, <3>1, <3>2, <3>3
  <2>3. \A x \in Requests, p \in Procs : job[x].by = p /\ job[x].st = "admitted" => job'[x] = job[x]
    BY <1>0, <2>2
  <2> SUFFICES ASSUME NEW x \in Procs, NEW r \in Runs,
                      quiet'[x], rt'[x] = "open", Exists(r)', ~Ended(r)'
               PROVE  InHand(x, r)'
    BY DEF QuietSaw
  <2>4. InHand(x, r)
    BY <1>0, <2>1 DEF QuietSaw, Exists, Ended
  <2> QED BY <1>b, <2>1, <2>3, <2>4
<1>8. ASSUME NEW q \in Requests, Admit(q) PROVE QuietSaw'
  <2>1. /\ job[q].st = "held" /\ job' = [job EXCEPT ![q].st = "admitted"]
        /\ UNCHANGED <<rt, lease, quiet, sess>>
    BY <1>8 DEF Admit, life, loop
  <2>2. /\ \A x \in Requests : x # q => job'[x] = job[x]
        /\ job'[q].by = job[q].by /\ job'[q].st = "admitted"
    BY <1>0, <2>1
  <2>3. job[q].by \in Procs /\ Held(job[q].by)
    BY <1>0, <2>1 DEF JobsKnown, Held, Jobs
  <2>4. \A x \in Runs : UNCHANGED <<last[x], origin[x]>> \/ (last'[x] = 1 /\ origin'[x] = q)
    <3>1. CASE UNCHANGED <<last, origin>>
      BY <3>1
    <3>2. CASE \E r \in Runs : last' = [last EXCEPT ![r] = 1] /\ origin' = [origin EXCEPT ![r] = q]
      BY <1>0, <3>2
    <3> QED BY <1>8, <3>1, <3>2 DEF Admit
  <2> SUFFICES ASSUME NEW x \in Procs, NEW r \in Runs,
                      quiet'[x], rt'[x] = "open", Exists(r)', ~Ended(r)'
               PROVE  InHand(x, r)'
    BY DEF QuietSaw
  <2>5. CASE UNCHANGED <<last[r], origin[r]>>
    <3>1. InHand(x, r)
      BY <1>0, <2>1, <2>5 DEF QuietSaw, Exists, Ended
    <3> QED BY <1>b, <2>1, <2>2, <2>5, <3>1
  <2>6. CASE last'[r] = 1 /\ origin'[r] = q
    <3>1. job[q].by = x
      BY <1>a, <2>1, <2>3
    <3> QED BY <2>2, <2>6, <3>1 DEF InHand, Pending, Served
  <2> QED BY <2>4, <2>5, <2>6
<1>9. ASSUME NEW q \in Requests, StartJob(q) PROVE QuietSaw'
  <2> DEFINE p == job[q].by
             begun == {r \in Replays(q) : Pending(r)}
  <2>1. /\ job[q].st = "admitted" /\ job' = [job EXCEPT ![q] = NoJob]
        /\ sess' = [sess EXCEPT ![p] = sess[p] \cup begun]
        /\ UNCHANGED <<rt, last, origin, lease, quiet>>
    BY <1>9 DEF StartJob, life, runs, loop
  <2>2. p \in Procs /\ Held(p)
    BY <1>0, <2>1 DEF JobsKnown, Held, Jobs
  <2>3. \A x \in Requests : x # q => job'[x] = job[x]
    BY <1>0, <2>1
  <2>4. sess'[p] = sess[p] \cup begun
    BY <1>0, <2>1, <2>2
  <2> SUFFICES ASSUME NEW x \in Procs, NEW r \in Runs,
                      quiet'[x], rt'[x] = "open", Exists(r)', ~Ended(r)'
               PROVE  InHand(x, r)'
    BY DEF QuietSaw
  <2>5. x = p
    BY <1>a, <2>1, <2>2
  <2>6. InHand(x, r)
    BY <1>0, <2>1 DEF QuietSaw, Exists, Ended
  <2> HIDE DEF p
  <2>7. CASE Pending(r) /\ origin[r] = q
    <3>1. r \in begun
      BY <2>7 DEF Replays
    <3> QED BY <2>4, <2>5, <3>1 DEF InHand
  <2>8. CASE Pending(r) /\ Served(r, x) /\ origin[r] # q
    <3>1. Served(r, x)'
      BY <2>1, <2>3, <2>8 DEF Served
    <3> QED BY <2>1, <2>8, <3>1 DEF InHand, Pending
  <2>9. CASE (origin[r] = "fork" /\ Pending(r)) \/ lease[r] = "dead" \/ r \in sess[x]
    BY <2>1, <2>4, <2>5, <2>9 DEF InHand, Pending
  <2> QED BY <2>6, <2>7, <2>8, <2>9 DEF InHand
<1>10. ASSUME NEW p \in Procs, Fork(p) PROVE QuietSaw'
  <2>1. PICK n \in Runs : last' = [last EXCEPT ![n] = 1] /\ origin' = [origin EXCEPT ![n] = "fork"]
    BY <1>10 DEF Fork
  <2>2. UNCHANGED <<rt, lease, quiet, sess, job>>
    BY <1>10 DEF Fork, life, loop, clients
  <2> SUFFICES ASSUME NEW x \in Procs, NEW r \in Runs,
                      quiet'[x], rt'[x] = "open", Exists(r)', ~Ended(r)'
               PROVE  InHand(x, r)'
    BY DEF QuietSaw
  <2>3. CASE r = n
    BY <1>0, <2>1, <2>3 DEF InHand, Pending
  <2>4. CASE r # n
    <3>1. UNCHANGED <<last[r], origin[r]>>
      BY <1>0, <2>1, <2>4
    <3>2. InHand(x, r)
      BY <1>0, <2>2, <3>1 DEF QuietSaw, Exists, Ended
    <3> QED BY <1>b, <2>2, <3>1, <3>2
  <2> QED BY <2>3, <2>4
<1>11. ASSUME NEW r \in Runs, LeaseLapses(r) PROVE QuietSaw'
  BY <1>11 DEF LeaseLapses, QuietSaw
<1>12. ASSUME NEW p \in Procs,
              Start(p) \/ CutOff(p) \/ HooksEnd(p) \/ \E r \in Runs : Checkpoint(p, r)
       PROVE  UNCHANGED <<rt, quiet, last, origin, lease, sess, job>>
  BY <1>12 DEF Start, CutOff, HooksEnd, Checkpoint, life, runs, loop, clients
<1>13. (\E q \in Requests : Probe(q) \/ Disconnect(q)) \/ UNCHANGED wvars
       => UNCHANGED <<rt, quiet, last, origin, lease, sess, job>>
  BY DEF Probe, Disconnect, wvars, life, runs, loop, clients
<1>14. UNCHANGED <<rt, quiet, last, origin, lease, sess, job>> => QuietSaw'
  BY <1>c
<1> QED BY <1>1, <1>2, <1>3, <1>4, <1>5, <1>6, <1>7, <1>8, <1>9, <1>10, <1>11, <1>12, <1>13, <1>14
        DEF WsNext, LifeStep, SessionStep, JobStep

-----------------------------------------------------------------------------
(* Observations                                                             *)

LEMMA NextHanded ==
  ASSUME WsInv, [WsNext]_wvars
  PROVE  HandedInOrder'
<1>0. /\ WsTypeOK /\ HandedInOrder
      /\ cursor \in [Runs -> Nat] /\ handed \in [Runs -> Seq(Nat)]
  BY DEF WsInv, WsTypeOK
<1>1. CASE UNCHANGED <<cursor, handed>>
  BY <1>0, <1>1 DEF HandedInOrder
<1>2. ASSUME NEW p \in Procs, TickEnd(p) \/ \E r \in Runs : Checkpoint(p, r) PROVE HandedInOrder'
  <2>1. \E rs : Dispatch(p, rs)
    BY <1>2 DEF TickEnd, Checkpoint
  <2> QED BY <1>0, <2>1, DispatchFacts
<1>3. ASSUME NEW p \in Procs, Exit(p) \/ Crash(p) PROVE HandedInOrder'
  <2>1. /\ UNCHANGED handed
        /\ cursor' = cursor \/ \E n \in Runs : cursor' = [cursor EXCEPT ![n] = @ + 1]
    BY <1>3 DEF Exit, Crash, Dispatching
  <2>2. \A r \in Runs : cursor'[r] \in Nat /\ cursor[r] <= cursor'[r]
    <3>1. CASE cursor' = cursor
      BY <1>0, <3>1
    <3>2. ASSUME NEW n \in Runs, cursor' = [cursor EXCEPT ![n] = @ + 1],
                 NEW r \in Runs
          PROVE  cursor'[r] \in Nat /\ cursor[r] <= cursor'[r]
      <4>1. cursor[r] \in Nat /\ (cursor'[r] = cursor[r] \/ cursor'[r] = cursor[r] + 1)
        BY <1>0, <3>2
      <4> QED BY <4>1
    <3> QED BY <2>1, <3>1, <3>2
  <2>3. \A r \in Runs : \A i \in DOMAIN handed[r] : handed[r][i] \in Nat
    BY <1>0
  <2>4. ASSUME NEW r \in Runs, NEW i \in DOMAIN handed[r] PROVE handed[r][i] <= cursor'[r]
    <3>1. handed[r][i] <= cursor[r] /\ handed[r][i] \in Nat /\ cursor[r] \in Nat /\ cursor'[r] \in Nat
          /\ cursor[r] <= cursor'[r]
      BY <1>0, <2>2, <2>3 DEF HandedInOrder
    <3> QED BY <3>1
  <2> QED BY <1>0, <2>1, <2>4 DEF HandedInOrder
<1>4. ASSUME NEW p \in Procs, Fork(p) PROVE HandedInOrder'
  <2>1. PICK n \in Runs : cursor' = [cursor EXCEPT ![n] = 1] /\ handed' = [handed EXCEPT ![n] = <<1>>]
    BY <1>4 DEF Fork
  <2>2. cursor'[n] = 1 /\ handed'[n] = <<1>>
    BY <1>0, <2>1
  <2>3. \A r \in Runs : r # n => cursor'[r] = cursor[r] /\ handed'[r] = handed[r]
    BY <1>0, <2>1
  <2> SUFFICES ASSUME NEW r \in Runs
               PROVE  /\ \A i, j \in DOMAIN handed'[r] : i < j => handed'[r][i] < handed'[r][j]
                      /\ \A i \in DOMAIN handed'[r] : handed'[r][i] <= cursor'[r]
    BY DEF HandedInOrder
  <2>4. CASE r = n
    <3>1. DOMAIN handed'[r] = {1} /\ handed'[r][1] = 1
      BY <2>2, <2>4
    <3> QED BY <2>2, <2>4, <3>1
  <2>5. CASE r # n
    BY <1>0, <2>3, <2>5 DEF HandedInOrder
  <2> QED BY <2>4, <2>5
<1>5. ASSUME NEW p \in Procs,
             \/ Start(p) \/ Open(p) \/ Shutdown(p) \/ StoreFails(p) \/ CutOff(p) \/ CloseServer(p)
             \/ StopExecutors(p) \/ Release(p) \/ TickBegin(p) \/ HooksEnd(p) \/ CheckIdle(p)
             \/ \E r \in Runs : Execute(p, r) \/ SessionEnds(p, r)
      PROVE  UNCHANGED <<cursor, handed>>
  BY <1>5 DEF Start, Open, Shutdown, StoreFails, CutOff, CloseServer, StopExecutors, Release, TickBegin,
              HooksEnd, CheckIdle, Execute, SessionEnds, observed
<1>6. ASSUME NEW q \in Requests, Probe(q) \/ Connect(q) \/ Disconnect(q) \/ JobStep(q) \/ AdmitBusy(q)
      PROVE  UNCHANGED <<cursor, handed>>
  BY <1>6 DEF Probe, Connect, Disconnect, JobStep, Take, Admit, StartJob, AdmitBusy, observed
<1>7. (\E r \in Runs : LeaseLapses(r)) \/ UNCHANGED wvars => UNCHANGED <<cursor, handed>>
  BY DEF LeaseLapses, wvars, observed
<1> QED BY <1>1, <1>2, <1>3, <1>4, <1>5, <1>6, <1>7 DEF WsNext, LifeStep, SessionStep

-----------------------------------------------------------------------------
(* The theorems                                                             *)

LEMMA WsInvariance == WsSpec => []WsInv
<1>1. WsInv /\ [WsNext]_wvars => WsInv'
  BY NextType, NextLife, NextWork, NextSubmitted, NextQueued, NextQuietOpen, NextQuiet, NextHanded
     DEF WsInv
<1> QED BY <1>1, WsInitInv, PTL DEF WsSpec

\* Sessions, ticks, admissions and hooks run only in the process that holds the authority,
\* leases are held by its sessions, and a request never has two Runs, however many daemons
\* it was sent to over crashes and retries (claimRuntimeAuthority, shutdownOwned,
\* findAdmissionReplay).
THEOREM WorkspaceAgrees == WsSpec => []WsConsistent
<1>1. WsInv => WsConsistent
  <2> SUFFICES ASSUME WsInv PROVE AdmittedOnce
    BY DEF WsInv, WsConsistent
  <2>1. OneRun /\ Answered
    BY DEF WsInv, Submitted
  <2>2. ASSUME NEW q \in Requests PROVE Cardinality(Replays(q)) <= 1
    <3>1. CASE Replays(q) = {}
      BY <3>1, FS_EmptySet
    <3>2. CASE Replays(q) # {}
      <4>1. PICK r \in Replays(q) : Replays(q) = {r}
        BY <2>1, <3>2 DEF OneRun
      <4> QED BY <4>1, FS_Singleton
    <3> QED BY <3>1, <3>2
  <2> QED BY <2>1, <2>2 DEF AdmittedOnce, Answered
<1> QED BY <1>1, WsInvariance, PTL

\* No observation is handed to the hooks twice or out of order, whatever crashes, incidents
\* and changes of process fall between its cursor and its handoff
\* (compareAndSetHookDispatchCursor).
THEOREM HandedOverInOrder == WsSpec => []HandedInOrder
<1>1. WsInv => HandedInOrder
  BY DEF WsInv
<1> QED BY <1>1, WsInvariance, PTL

\* When a daemon stops for idleness, the only unfinished Runs it leaves are forks made
\* since its last tick: every other one was in its sessions, in an admission it had still
\* to answer or under a lease that had still to lapse, and then it goes on (checkIdleStop).
THEOREM IdleStopIsSafe == WsSpec => IdleStopLeavesForks
<1>1. ASSUME WsInv, [WsNext]_wvars, NEW p \in Procs, NEW r \in Runs,
             IdleStops(p), Exists(r), ~Ended(r)
      PROVE  origin[r] = "fork" /\ Pending(r)
  <2>1. /\ rt[p] = "open" /\ rt'[p] = "stopped" /\ faults' = faults
        /\ rt \in [Procs -> {"none", "open", "stopped", "closing", "closed"}]
        /\ faults \in Nat
    BY <1>1, WorkspaceAssumption DEF IdleStops, WsInv, WsTypeOK
  <2>2. CheckIdle(p)
    <3>1. ASSUME NEW x \in Procs, CheckIdle(x) PROVE x = p
      BY <2>1, <3>1 DEF CheckIdle
    <3>2. ASSUME NEW x \in Procs,
                 Open(x) \/ CloseServer(x) \/ Release(x) \/ Exit(x)
          PROVE  FALSE
      <4>1. CASE Exit(x)
        <5>1. srv' = [srv EXCEPT ![x] = "off"] /\ rt' = [rt EXCEPT ![x] = "none"]
          BY <4>1 DEF Exit, Forget
        <5> QED BY <2>1, <5>1
      <4>2. CASE Open(x) \/ CloseServer(x) \/ Release(x)
        <5>1. rt' = [rt EXCEPT ![x] = rt'[x]]
          BY <2>1, <4>2 DEF Open, CloseServer, Release
        <5>2. x = p
          BY <2>1, <5>1
        <5> QED BY <2>1, <4>2, <5>2 DEF Open, CloseServer, Release, Leaving
      <4> QED BY <3>2, <4>1, <4>2
    <3>3. ASSUME NEW x \in Procs, Shutdown(x) \/ StoreFails(x) \/ Crash(x) PROVE FALSE
      <4>1. faults' = faults + 1
        BY <3>3 DEF Shutdown, StoreFails, Crash, Fault
      <4> QED BY <2>1, <4>1
    <3>4. ASSUME NEW x \in Procs,
                 \/ Start(x) \/ CutOff(x) \/ StopExecutors(x) \/ TickBegin(x) \/ TickEnd(x)
                 \/ HooksEnd(x) \/ Fork(x) \/ \E y \in Runs : SessionStep(x, y)
          PROVE  FALSE
      <4>1. UNCHANGED rt
        BY <3>4 DEF Start, CutOff, StopExecutors, TickBegin, TickEnd, HooksEnd, Fork, SessionStep,
                    Execute, Checkpoint, SessionEnds, life
      <4> QED BY <2>1, <4>1
    <3>5. ASSUME NEW q \in Requests,
                 Probe(q) \/ Connect(q) \/ Disconnect(q) \/ JobStep(q) \/ AdmitBusy(q)
          PROVE  FALSE
      <4>1. UNCHANGED rt
        BY <3>5 DEF Probe, Connect, Disconnect, JobStep, Take, Admit, StartJob, AdmitBusy, life
      <4> QED BY <2>1, <4>1
    <3>6. (\E y \in Runs : LeaseLapses(y)) \/ UNCHANGED wvars => UNCHANGED rt
      BY DEF LeaseLapses, wvars, life
    <3> QED BY <1>1, <2>1, <3>1, <3>2, <3>3, <3>4, <3>5, <3>6 DEF WsNext, LifeStep
  <2>3. quiet[p] /\ sess[p] = {} /\ Jobs(p) = {} /\ \A x \in Runs : lease[x] # "dead"
    BY <2>1, <2>2 DEF CheckIdle, Busy
  <2>4. InHand(p, r)
    BY <1>1, <2>1, <2>3 DEF WsInv, QuietSaw
  <2>5. ~Served(r, p)
    BY <2>3 DEF Served, Jobs
  <2> QED BY <2>3, <2>4, <2>5 DEF InHand
<1>2. WsInv /\ [WsNext]_wvars =>
        [\A p \in Procs, r \in Runs :
           IdleStops(p) /\ Exists(r) /\ ~Ended(r) => origin[r] = "fork" /\ Pending(r)]_wvars
  BY <1>1
<1> QED BY <1>2, WsInvariance, PTL DEF WsSpec, IdleStopLeavesForks

-----------------------------------------------------------------------------
(* The lock of the runtime                                                  *)


\* who looks at the marker, and whom it took for dead
LooksOK ==
  \A p \in Proc : /\ seen[p] # Nobody => at[p] \in Sites
                  /\ p \in reclaim => seen[p] # Nobody
                  /\ p \in reclaim /\ seen[p] \in Proc => at[seen[p]] = "dead"

\* which file maintenance looks at, and whose files there are
ScanOK ==
  \A p \in Proc : /\ at[p] \in {"read", "judge", "drop"} => look[p] \in Paths
                  /\ p \in holders => at[p] \in Holds \union {"dead"}

UserFileKept == ~stolen => \A p \in Proc : at[p] \in Holds => p \in holders

MarkerKept == ~stolen => \A p \in Proc : at[p] \in Marks => marker = p

\* no file comes back at a path while maintenance, whose marker is there, looks at
\* it; what it removes is of no user
NoneReturns ==
  ~stolen => \A p, q \in Proc :
    /\ at[p] \in Scanning /\ Path(q) \in todo[p] => at[q] # "mark"
    /\ at[p] \in {"read", "judge"} /\ look[p] = Path(q) => at[q] # "mark"
    /\ at[p] = "drop" /\ look[p] = Path(q) => at[q] \notin Holds \union {"mark"}

\* one of the two sees the other
OneSees ==
  ~stolen => \A p, q \in Proc :
    /\ at[q] \in Scanning /\ at[p] = "shared" =>
         Path(p) \in todo[q] \/ q \in found \/ (at[q] \in {"read", "judge"} /\ look[q] = Path(p))
    /\ at[q] = "exclusive" => at[p] # "shared"

LockInv == LockTypeOK /\ LooksOK /\ ScanOK /\ UserFileKept /\ MarkerKept /\ NoneReturns /\ OneSees

LEMMA LockInitInv == LockInit => LockInv
<1> SUFFICES ASSUME LockInit PROVE LockInv
  OBVIOUS
<1>0. stolen \in BOOLEAN
  BY DEF LockInit
<1>1. LockTypeOK
  BY <1>0, LockAssumption DEF LockInit, LockTypeOK, LockAssumption
<1>2. \A p \in Proc : at[p] = "idle" /\ seen[p] = Nobody /\ p \notin reclaim /\ p \notin holders
  BY DEF LockInit
<1>3. LooksOK /\ ScanOK /\ UserFileKept /\ MarkerKept /\ NoneReturns /\ OneSees
  BY <1>2 DEF LooksOK, ScanOK, UserFileKept, MarkerKept, NoneReturns, OneSees, Holds, Marks, Scanning
<1> QED BY <1>1, <1>3 DEF LockInv

LEMMA LockStepInv ==
  ASSUME LockInv, LockNext
  PROVE  LockInv'
<1> USE LockAssumption
    DEF LockAssumption, LockInv, LockTypeOK, LooksOK, ScanOK, UserFileKept, MarkerKept, NoneReturns, OneSees,
        User, Maintenance, Scanning, Sites, Marks, Holds, Goto, Alive, Paths, Path, There
<1>1. ASSUME NEW p \in Proc, Begin(p) PROVE LockInv'
  <2>1. LockTypeOK'
    BY <1>1 DEF Begin
  <2>2. LooksOK' /\ ScanOK'
    BY <1>1 DEF Begin
  <2>3. UserFileKept'
    BY <1>1 DEF Begin
  <2>4. MarkerKept'
    BY <1>1 DEF Begin
  <2>5. NoneReturns'
    BY <1>1 DEF Begin
  <2>6. OneSees'
    BY <1>1 DEF Begin
  <2> QED BY <2>1, <2>2, <2>3, <2>4, <2>5, <2>6
<1>2. ASSUME NEW p \in Proc, Stat(p) PROVE LockInv'
  <2>1. LockTypeOK'
    BY <1>2 DEF Stat, IfFree
  <2>2. LooksOK' /\ ScanOK'
    BY <1>2 DEF Stat, IfFree
  <2>3. UserFileKept'
    BY <1>2 DEF Stat, IfFree
  <2>4. MarkerKept'
    BY <1>2 DEF Stat, IfFree
  <2>5. NoneReturns'
    BY <1>2 DEF Stat, IfFree
  <2>6. OneSees'
    BY <1>2 DEF Stat, IfFree
  <2> QED BY <2>1, <2>2, <2>3, <2>4, <2>5, <2>6
<1>3. ASSUME NEW p \in Proc, Read(p) PROVE LockInv'
  <2>1. LockTypeOK'
    BY <1>3 DEF Read, IfBusy
  <2>2. LooksOK' /\ ScanOK'
    BY <1>3 DEF Read, IfBusy
  <2>3. UserFileKept'
    BY <1>3 DEF Read, IfBusy
  <2>4. MarkerKept'
    BY <1>3 DEF Read, IfBusy
  <2>5. NoneReturns'
    BY <1>3 DEF Read, IfBusy
  <2>6. OneSees'
    BY <1>3 DEF Read, IfBusy
  <2> QED BY <2>1, <2>2, <2>3, <2>4, <2>5, <2>6
<1>4. ASSUME NEW p \in Proc, Judge(p) PROVE LockInv'
  <2>1. LockTypeOK'
    BY <1>4 DEF Judge, IfBusy
  <2>2. LooksOK' /\ ScanOK'
    BY <1>4 DEF Judge, IfBusy
  <2>3. UserFileKept'
    BY <1>4 DEF Judge, IfBusy
  <2>4. MarkerKept'
    BY <1>4 DEF Judge, IfBusy
  <2>5. NoneReturns'
    BY <1>4 DEF Judge, IfBusy
  <2>6. OneSees'
    BY <1>4 DEF Judge, IfBusy
  <2> QED BY <2>1, <2>2, <2>3, <2>4, <2>5, <2>6
<1>5. ASSUME NEW p \in Proc, Remove(p) PROVE LockInv'
  <2>1. LockTypeOK'
    BY <1>5 DEF Remove, IfFree, Unlink
  <2>2. LooksOK' /\ ScanOK'
    BY <1>5 DEF Remove, IfFree, Unlink
  <2>3. ASSUME ~stolen', NEW q \in Proc PROVE ~stolen /\ at[q] \notin Marks
    <3>1. ~stolen /\ marker \in {Nobody, seen[p]}
      BY <1>5, <2>3, Zenon DEF Remove, Unlink
    <3>2. p \in reclaim /\ seen[p] \in Proc \union {Nobody, Unread}
      BY <1>5 DEF Remove
    \* the marker would be q's, and p has taken its owner for dead
    <3> QED BY <3>1, <3>2
  <2>4. /\ at' \in [Proc -> User \union Maintenance \union {"idle", "dead"}] /\ UNCHANGED <<todo, look, found, uses, holders>>
        /\ at'[p] \in {"mark", "shared", "create"} /\ (at'[p] = "shared" => at[p] = "confirm")
        /\ \A q \in Proc : q # p => at'[q] = at[q]
    BY <1>5, <2>1 DEF Remove, IfFree
  <2>5. ASSUME ~stolen', NEW q \in Proc PROVE at'[q] \notin Marks
    BY <2>3, <2>4, <2>5
  <2>6. UserFileKept'
    <3>1. ASSUME ~stolen', NEW q \in Proc, at'[q] \in Holds PROVE q \in holders'
      <4>1. ~stolen
        BY <2>3, <3>1
      <4>2. at[q] \in Holds
        BY <2>4, <3>1
      <4> QED BY <2>4, <4>1, <4>2
    <3> QED BY <3>1
  <2>7. MarkerKept'
    BY <2>5
  <2>8. NoneReturns'
    <3>1. ASSUME ~stolen', NEW q \in Proc PROVE at'[q] \notin {"scan", "read", "judge", "drop"}
      BY <2>5, <3>1
    <3> QED BY <3>1
  <2>9. OneSees'
    <3>1. ASSUME ~stolen', NEW q \in Proc PROVE at'[q] \notin {"scan", "read", "judge", "drop", "exclusive"}
      BY <2>5, <3>1
    <3> QED BY <3>1
  <2> QED BY <2>1, <2>2, <2>6, <2>7, <2>8, <2>9
<1>6. ASSUME NEW p \in Proc, Mark(p) PROVE LockInv'
  <2>1. LockTypeOK'
    BY <1>6 DEF Mark
  <2>2. LooksOK' /\ ScanOK'
    BY <1>6 DEF Mark
  <2>3. UserFileKept'
    BY <1>6 DEF Mark
  <2>4. MarkerKept'
    BY <1>6 DEF Mark
  <2>5. NoneReturns'
    BY <1>6 DEF Mark
  <2>6. OneSees'
    BY <1>6 DEF Mark
  <2> QED BY <2>1, <2>2, <2>3, <2>4, <2>5, <2>6
<1>7. ASSUME NEW p \in Proc, Write(p) PROVE LockInv'
  <2>1. LockTypeOK'
    BY <1>7 DEF Write
  <2>2. LooksOK' /\ ScanOK'
    BY <1>7 DEF Write
  <2>3. UserFileKept'
    BY <1>7 DEF Write
  <2>4. MarkerKept'
    BY <1>7 DEF Write
  <2>5. NoneReturns'
    BY <1>7 DEF Write
  <2>6. OneSees'
    BY <1>7 DEF Write
  <2> QED BY <2>1, <2>2, <2>3, <2>4, <2>5, <2>6
<1>8. ASSUME NEW p \in Proc, Leave(p) PROVE LockInv'
  <2>1. LockTypeOK'
    BY <1>8 DEF Leave
  <2>2. LooksOK' /\ ScanOK'
    BY <1>8 DEF Leave
  <2>3. UserFileKept'
    BY <1>8 DEF Leave
  <2>4. MarkerKept'
    BY <1>8 DEF Leave
  <2>5. NoneReturns'
    BY <1>8 DEF Leave
  <2>6. OneSees'
    BY <1>8 DEF Leave
  <2> QED BY <2>1, <2>2, <2>3, <2>4, <2>5, <2>6
<1>9. ASSUME NEW p \in Proc, ReleaseShared(p) PROVE LockInv'
  <2>1. LockTypeOK'
    BY <1>9 DEF ReleaseShared
  <2>2. LooksOK' /\ ScanOK'
    BY <1>9 DEF ReleaseShared
  <2>3. UserFileKept'
    BY <1>9 DEF ReleaseShared
  <2>4. MarkerKept'
    BY <1>9 DEF ReleaseShared
  <2>5. NoneReturns'
    BY <1>9 DEF ReleaseShared
  <2>6. OneSees'
    BY <1>9 DEF ReleaseShared
  <2> QED BY <2>1, <2>2, <2>3, <2>4, <2>5, <2>6
<1>10. ASSUME NEW p \in Proc, Create(p) PROVE LockInv'
  <2>1. LockTypeOK'
    BY <1>10 DEF Create
  <2>2. LooksOK' /\ ScanOK'
    BY <1>10 DEF Create
  <2>3. UserFileKept'
    BY <1>10 DEF Create
  <2>4. MarkerKept'
    BY <1>10 DEF Create
  <2>5. NoneReturns'
    BY <1>10 DEF Create
  <2>6. OneSees'
    BY <1>10 DEF Create
  <2> QED BY <2>1, <2>2, <2>3, <2>4, <2>5, <2>6
<1>11. ASSUME NEW p \in Proc, Fill(p) PROVE LockInv'
  <2>1. LockTypeOK'
    BY <1>11 DEF Fill
  <2>2. LooksOK' /\ ScanOK'
    BY <1>11 DEF Fill
  <2>3. UserFileKept'
    BY <1>11 DEF Fill
  <2>4. MarkerKept'
    BY <1>11 DEF Fill
  <2>5. NoneReturns'
    BY <1>11 DEF Fill
  <2>6. OneSees'
    BY <1>11 DEF Fill
  <2> QED BY <2>1, <2>2, <2>3, <2>4, <2>5, <2>6
<1>12. ASSUME NEW p \in Proc, List(p) PROVE LockInv'
  <2>1. LockTypeOK'
    BY <1>12 DEF List
  <2>2. LooksOK' /\ ScanOK'
    BY <1>12 DEF List
  <2>3. UserFileKept'
    BY <1>12 DEF List
  <2>4. MarkerKept'
    BY <1>12 DEF List
  <2>5. NoneReturns'
    BY <1>12 DEF List
  <2>6. OneSees'
    BY <1>12 DEF List
  <2> QED BY <2>1, <2>2, <2>3, <2>4, <2>5, <2>6
<1>13. ASSUME NEW p \in Proc, Look(p) PROVE LockInv'
  <2>1. LockTypeOK'
    BY <1>13 DEF Look
  <2>2. LooksOK' /\ ScanOK'
    BY <1>13 DEF Look
  <2>3. UserFileKept'
    BY <1>13 DEF Look
  <2>4. MarkerKept'
    BY <1>13 DEF Look
  <2>5. NoneReturns'
    BY <1>13 DEF Look
  <2>6. OneSees'
    BY <1>13 DEF Look
  <2> QED BY <2>1, <2>2, <2>3, <2>4, <2>5, <2>6
<1>14. ASSUME NEW p \in Proc, ReadUser(p) PROVE LockInv'
  <2> DEFINE f == look[p]
  <2>0. /\ at[p] = "read" /\ f \in Paths /\ UNCHANGED <<uses, seen, reclaim, todo, marker, holders, blank, stolen>>
        /\ \/ ~There(f) /\ OnTo(p, "drop", FALSE)
           \/ There(f) /\ OnTo(p, "scan", TRUE)
           \/ There(f) /\ OnTo(p, "judge", FALSE)
    BY <1>14 DEF ReadUser
  \* the file is gone: nobody puts one there while the marker is
  <2>1. CASE ~There(f) /\ OnTo(p, "drop", FALSE)
    <3>1. LockTypeOK' /\ LooksOK' /\ ScanOK'
      BY <2>0, <2>1 DEF OnTo
    <3>2. UserFileKept' /\ MarkerKept'
      BY <2>0, <2>1 DEF OnTo
    <3>3. NoneReturns'
      BY <2>0, <2>1 DEF OnTo
    <3>4. OneSees'
      BY <2>0, <2>1 DEF OnTo
    <3> QED BY <3>1, <3>2, <3>3, <3>4
  <2>2. CASE There(f) /\ OnTo(p, "scan", TRUE)
    <3>1. LockTypeOK' /\ LooksOK' /\ ScanOK'
      BY <2>0, <2>2 DEF OnTo
    <3>2. UserFileKept' /\ MarkerKept'
      BY <2>0, <2>2 DEF OnTo
    <3>3. NoneReturns'
      BY <2>0, <2>2 DEF OnTo
    <3>4. OneSees'
      BY <2>0, <2>2 DEF OnTo
    <3> QED BY <3>1, <3>2, <3>3, <3>4
  <2>3. CASE There(f) /\ OnTo(p, "judge", FALSE)
    <3>1. LockTypeOK' /\ LooksOK' /\ ScanOK'
      BY <2>0, <2>3 DEF OnTo
    <3>2. UserFileKept' /\ MarkerKept'
      BY <2>0, <2>3 DEF OnTo
    <3>3. NoneReturns'
      BY <2>0, <2>3 DEF OnTo
    <3>4. OneSees'
      BY <2>0, <2>3 DEF OnTo
    <3> QED BY <3>1, <3>2, <3>3, <3>4
  <2> QED BY <2>0, <2>1, <2>2, <2>3
<1>15. ASSUME NEW p \in Proc, JudgeUser(p) PROVE LockInv'
  <2>1. LockTypeOK'
    BY <1>15 DEF JudgeUser, OnTo
  <2>2. LooksOK' /\ ScanOK'
    BY <1>15 DEF JudgeUser, OnTo
  <2>3. UserFileKept'
    BY <1>15 DEF JudgeUser, OnTo
  <2>4. MarkerKept'
    BY <1>15 DEF JudgeUser, OnTo
  <2>5. NoneReturns'
    BY <1>15 DEF JudgeUser, OnTo
  <2>6. OneSees'
    BY <1>15 DEF JudgeUser, OnTo
  <2> QED BY <2>1, <2>2, <2>3, <2>4, <2>5, <2>6
<1>16. ASSUME NEW p \in Proc, Drop(p) PROVE LockInv'
  <2>1. LockTypeOK'
    BY <1>16 DEF Drop, OnTo
  <2>2. LooksOK' /\ ScanOK'
    BY <1>16 DEF Drop, OnTo
  <2>3. UserFileKept'
    BY <1>16 DEF Drop, OnTo
  <2>4. MarkerKept'
    BY <1>16 DEF Drop, OnTo
  <2>5. NoneReturns'
    BY <1>16 DEF Drop, OnTo
  <2>6. OneSees'
    BY <1>16 DEF Drop, OnTo
  <2> QED BY <2>1, <2>2, <2>3, <2>4, <2>5, <2>6
<1>17. ASSUME NEW p \in Proc, Acquire(p) PROVE LockInv'
  <2>1. LockTypeOK'
    BY <1>17 DEF Acquire
  <2>2. LooksOK' /\ ScanOK'
    BY <1>17 DEF Acquire
  <2>3. UserFileKept'
    BY <1>17 DEF Acquire
  <2>4. MarkerKept'
    BY <1>17 DEF Acquire
  <2>5. NoneReturns'
    BY <1>17 DEF Acquire
  <2>6. OneSees'
    BY <1>17 DEF Acquire
  <2> QED BY <2>1, <2>2, <2>3, <2>4, <2>5, <2>6
<1>18. ASSUME NEW p \in Proc, Back(p) PROVE LockInv'
  <2>1. LockTypeOK'
    BY <1>18 DEF Back, Unlink
  <2>2. LooksOK' /\ ScanOK'
    BY <1>18 DEF Back, Unlink
  <2>3. UserFileKept'
    BY <1>18 DEF Back, Unlink
  <2>4. MarkerKept'
    BY <1>18 DEF Back, Unlink
  <2>5. NoneReturns'
    BY <1>18 DEF Back, Unlink
  <2>6. OneSees'
    BY <1>18 DEF Back, Unlink
  <2> QED BY <2>1, <2>2, <2>3, <2>4, <2>5, <2>6
<1>19. ASSUME NEW p \in Proc, Retry(p) PROVE LockInv'
  <2>1. LockTypeOK'
    BY <1>19 DEF Retry
  <2>2. LooksOK' /\ ScanOK'
    BY <1>19 DEF Retry
  <2>3. UserFileKept'
    BY <1>19 DEF Retry
  <2>4. MarkerKept'
    BY <1>19 DEF Retry
  <2>5. NoneReturns'
    BY <1>19 DEF Retry
  <2>6. OneSees'
    BY <1>19 DEF Retry
  <2> QED BY <2>1, <2>2, <2>3, <2>4, <2>5, <2>6
<1>20. ASSUME NEW p \in Proc, Refuse(p) PROVE LockInv'
  <2>1. LockTypeOK'
    BY <1>20 DEF Refuse
  <2>2. LooksOK' /\ ScanOK'
    BY <1>20 DEF Refuse
  <2>3. UserFileKept'
    BY <1>20 DEF Refuse
  <2>4. MarkerKept'
    BY <1>20 DEF Refuse
  <2>5. NoneReturns'
    BY <1>20 DEF Refuse
  <2>6. OneSees'
    BY <1>20 DEF Refuse
  <2> QED BY <2>1, <2>2, <2>3, <2>4, <2>5, <2>6
<1>21. ASSUME NEW p \in Proc, Die(p) PROVE LockInv'
  <2>1. LockTypeOK'
    BY <1>21 DEF Die
  <2>2. LooksOK' /\ ScanOK'
    BY <1>21 DEF Die
  <2>3. UserFileKept'
    BY <1>21 DEF Die
  <2>4. MarkerKept'
    BY <1>21 DEF Die
  <2>5. NoneReturns'
    BY <1>21 DEF Die
  <2>6. OneSees'
    BY <1>21 DEF Die
  <2> QED BY <2>1, <2>2, <2>3, <2>4, <2>5, <2>6
<1> HIDE DEF LockInv
<1>22. ASSUME NEW p \in Proc, Attempt(p) PROVE LockInv'
  BY <1>2, <1>3, <1>4, <1>5, <1>6, <1>7, <1>8, <1>10, <1>11, <1>12, <1>13, <1>14, <1>15, <1>16,
     <1>17, <1>18, <1>19, <1>22, Zenon DEF Attempt
<1> QED BY <1>1, <1>9, <1>18, <1>20, <1>21, <1>22, Zenon DEF LockNext

LEMMA LockInvConsistent == LockInv => LockConsistent
<1> SUFFICES ASSUME LockInv PROVE LockConsistent
  OBVIOUS
<1>1. FilesKept
  BY DEF LockInv, UserFileKept, MarkerKept, FilesKept
<1>2. AloneUnlessStolen
  BY DEF LockInv, MarkerKept, OneSees, AloneUnlessStolen, MaintenanceIsAlone, Marks
<1> QED BY <1>1, <1>2 DEF LockInv, LockConsistent

-----------------------------------------------------------------------------
\* Unless a marker was stolen, a user's file and the marker stay as long as their owner
\* needs them, whatever comes and goes at the users' paths, and maintenance is alone.
THEOREM LockKept == LockSpec => []LockConsistent
<1>1. LockInv /\ UNCHANGED lvars => LockInv'
  BY DEF LockInv, LockTypeOK, LooksOK, ScanOK, UserFileKept, MarkerKept, NoneReturns, OneSees, Path, lvars
<1>2. LockInv /\ [LockNext]_lvars => LockInv'
  BY <1>1, LockStepInv
<1> QED BY <1>2, LockInitInv, LockInvConsistent, PTL DEF LockSpec
=============================================================================
