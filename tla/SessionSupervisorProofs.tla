------------------------- MODULE SessionSupervisorProofs -------------------------
(***************************************************************************)
(* What holds of SessionSupervisor for any sessions, leases, neutralizations *)
(* and starts.                                                              *)
(***************************************************************************)
EXTENDS SessionSupervisor, TLAPS

-----------------------------------------------------------------------------
(* The inductive invariant: which session a worker's record belongs to       *)

\* what has a session, a record or a worker is a lease that was asked for
LeasesAsked ==
  /\ \A n \in Leases : at[n] # "free" => sess[n] \in Sessions
  /\ \A n \in Leases : at[n] = "free" => n \notin record /\ ~Serves(n)

\* a session has one lease at a time, and one record at most
OneLease  == \A n, m \in Leases : at[n] \in Active /\ at[m] \in Active /\ sess[n] = sess[m] => n = m
OneRecord == \A n, m \in record : sess[n] = sess[m] => n = m

\* a worker is started only when nothing of its session is held
Unheld == \A n \in Leases : at[n] \in {"record", "open", "use", "mark", "stop"} => sess[n] \notin held

\* a record is of a lease that is still at it, or its session is held
RecordsHeld ==
  sup \in {"up", "closing"} => \A n \in record : at[n] \in Active \/ sess[n] \in held

EntriesHeld == \A s \in Sessions : entry[s] # 0 => s \in held

\* without a supervisor nothing is under way
OffIdle ==
  sup \in {"off", "recovering", "closed"} =>
    /\ \A n \in Leases : at[n] \notin Active
    /\ \A b \in Batches : batch[b].at \notin {"preflight", "drain"}

\* what the cleanup of a capsule has found is so
VerdictsHold ==
  \A n \in Leases :
    /\ capsule[n] => at[n] \in {"use", "mark", "stop", "settle"}
    /\ capsule[n] /\ at[n] = "settle" => verdict[n] # "none" /\ (verdict[n] # "unverified" => n \notin record)
    /\ at[n] # "settle" => verdict[n] \in {"none", "unrecorded"}

\* a drain knows every lease of its sessions, and which of them are over
DrainCovers ==
  \A b \in Batches, n \in Leases :
    batch[b].at = "drain" /\ sess[n] \in batch[b].of /\ at[n] \in Active => n \in batch[b].on

DrainKnows ==
  \A b \in Batches : \A n \in batch[b].on :
    batch[b].at = "drain" /\ ~batch[b].bad /\ at[n] \notin Active => ~Serves(n)

SupervisorInv ==
  /\ SupervisorTypeOK /\ LiveIsRecorded /\ LeasesAsked /\ OneLease /\ OneRecord /\ Unheld
  /\ RecordsHeld /\ EntriesHeld /\ OffIdle /\ VerdictsHold /\ DrainCovers /\ DrainKnows

\* a supervisor that has never run holds nothing
LEMMA SupervisorInitInv == SupervisorInit => SupervisorInv
<1> SUFFICES ASSUME SupervisorInit PROVE SupervisorInv
  OBVIOUS
<1> USE SupervisorAssumption DEF SupervisorAssumption, SupervisorInit, BatchAt, Active, Tree, Leases, Batches
<1>1. SupervisorTypeOK
  BY DEF SupervisorTypeOK, BatchTypeOK
<1>2. LiveIsRecorded /\ LeasesAsked /\ OneLease /\ OneRecord /\ Unheld /\ RecordsHeld
  BY DEF LiveIsRecorded, LeasesAsked, OneLease, OneRecord, Unheld, RecordsHeld, Serves
<1>3. EntriesHeld /\ OffIdle /\ VerdictsHold /\ DrainCovers /\ DrainKnows
  BY DEF EntriesHeld, OffIdle, VerdictsHold, DrainCovers, DrainKnows
<1> QED BY <1>1, <1>2, <1>3 DEF SupervisorInv

\* what is updated of a neutralization leaves a neutralization
BatchRecords ==
  [at : {"free", "preflight", "drain", "committed", "failed"},
   of : SUBSET Sessions, left : SUBSET Sessions, on : SUBSET Leases, bad : BOOLEAN]

LEMMA BatchUpdate ==
  ASSUME NEW r \in BatchRecords
  PROVE  /\ \A bad \in BOOLEAN : [r EXCEPT !.bad = bad] \in BatchRecords
         /\ \A left \in SUBSET Sessions : [r EXCEPT !.left = left] \in BatchRecords
         /\ \A on \in SUBSET Leases : [r EXCEPT !.at = "drain", !.on = on] \in BatchRecords
BY DEF BatchRecords

\* looking at a held session again takes away the records of dead trees only,
\* and lifts the hold only when no record of the session is left
LEMMA RevalidationIsSafe ==
  ASSUME SupervisorInv, NEW s \in held, NEW lifted \in BOOLEAN, Revalidation(s, lifted)
  PROVE  /\ record' \subseteq record /\ \A n \in record \ record' : ~Serves(n)
         /\ entry' \in [Sessions -> 0 .. MaxLeases]
         /\ \A t \in Sessions : entry'[t] # 0 => t \in held'
         /\ held' = held \/ (held' = held \ {s} /\ \A n \in record' : sess[n] # s)
<1> USE SupervisorAssumption
    DEF SupervisorAssumption, SupervisorInv, SupervisorTypeOK, EntriesHeld, OneRecord, Serves, Leases
<1>1. CASE UNCHANGED <<quar, record>>
  BY <1>1 DEF quar
<1>2. CASE \E n \in (IF RecordsOf(s) = {} THEN {entry[s]} ELSE RecordsOf(s)), seen \in {"dead", "live", "unverified"} :
             /\ seen \in Sight(n) /\ lifted = (seen = "dead")
             /\ Revalidate(n, seen)
             /\ IF lifted THEN Release(s) ELSE Quarantine(s, n)
  <2>1. PICK n \in (IF RecordsOf(s) = {} THEN {entry[s]} ELSE RecordsOf(s)), seen \in {"dead", "live", "unverified"} :
             /\ seen \in Sight(n) /\ lifted = (seen = "dead")
             /\ Revalidate(n, seen)
             /\ IF lifted THEN Release(s) ELSE Quarantine(s, n)
    BY <1>2
  <2>2. n \in 0 .. MaxLeases /\ \A m \in record \ {n} : sess[m] # s
    <3>1. CASE RecordsOf(s) = {}
      <4>1. n = entry[s]
        BY <2>1, <3>1
      <4>2. \A m \in record : sess[m] # s
        BY <3>1 DEF RecordsOf
      <4> QED BY <4>1, <4>2
    <3>2. CASE RecordsOf(s) # {}
      BY <2>1, <3>2 DEF RecordsOf
    <3> QED BY <3>1, <3>2
  <2>3. CASE lifted
    <3>1. seen = "dead" /\ record' = record \ {n} /\ Release(s)
      BY <2>1, <2>3 DEF Revalidate
    <3>2. proc[n] \notin Tree
      BY <2>1, <3>1 DEF Sight
    <3> QED BY <2>2, <3>1, <3>2 DEF Release, Tree
  <2>4. CASE ~lifted
    <3>1. record' = record /\ Quarantine(s, n)
      BY <2>1, <2>4 DEF Revalidate
    <3> QED BY <2>2, <3>1 DEF Quarantine
  <2> QED BY <2>3, <2>4
<1> QED BY <1>1, <1>2 DEF Revalidation

\* while a worker may be running, the record of its session is its own
LEMMA RecordIsOwn ==
  ASSUME SupervisorInv, NEW n \in Leases, at[n] \in {"record", "open", "use", "mark", "stop"}
  PROVE  \A m \in record : sess[m] = sess[n] => m = n
<1> USE DEF SupervisorInv, SupervisorTypeOK, Active
<1>1. sup \in {"up", "closing"}
  BY DEF OffIdle
<1> QED BY <1>1 DEF RecordsHeld, OneLease, Unheld

\* every step keeps the invariant: one step per action, one leaf per conjunct
\* it may disturb, one for the rest
LEMMA SupervisorStepInv ==
  ASSUME SupervisorInv, SupervisorNext
  PROVE  SupervisorInv'
<1> USE SupervisorAssumption
    DEF SupervisorAssumption, SupervisorTypeOK, BatchTypeOK, LiveIsRecorded, LeasesAsked,
        OneLease, OneRecord, Unheld, RecordsHeld, EntriesHeld, OffIdle, VerdictsHold,
        DrainCovers, DrainKnows, Serves, Goto, Active, Tree, Leases, Batches, memory, quar
<1>type. SupervisorTypeOK
  BY DEF SupervisorInv
<1>live. LiveIsRecorded
  BY DEF SupervisorInv
<1>asked. LeasesAsked
  BY DEF SupervisorInv
<1>lease. OneLease
  BY DEF SupervisorInv
<1>record. OneRecord
  BY DEF SupervisorInv
<1>unheld. Unheld
  BY DEF SupervisorInv
<1>held. RecordsHeld
  BY DEF SupervisorInv
<1>entry. EntriesHeld
  BY DEF SupervisorInv
<1>off. OffIdle
  BY DEF SupervisorInv
<1>verdict. VerdictsHold
  BY DEF SupervisorInv
<1>covers. DrainCovers
  BY DEF SupervisorInv
<1>knows. DrainKnows
  BY DEF SupervisorInv
<1>1. ASSUME NEW n \in Leases, NEW s \in Sessions, Acquire(n, s) PROVE SupervisorInv'
  <2>type. SupervisorTypeOK'
    BY <1>1, <1>type DEF Acquire, Leased, Neutralizing
  <2>asked. LeasesAsked'
    BY <1>1, <1>asked, <1>type, <1>live DEF Acquire, Leased, Neutralizing
  <2>lease. OneLease'
    BY <1>1, <1>lease, <1>type DEF Acquire, Leased, Neutralizing
  <2>record. OneRecord'
    BY <1>1, <1>record, <1>type, <1>asked DEF Acquire
  <2>unheld. Unheld'
    BY <1>1, <1>unheld, <1>type, <1>lease DEF Acquire, Leased, Neutralizing
  <2>held. RecordsHeld'
    BY <1>1, <1>held, <1>type, <1>asked, <1>off DEF Acquire, Leased, Neutralizing
  <2>off. OffIdle'
    BY <1>1, <1>off, <1>type DEF Acquire, Leased, Neutralizing
  <2>verdict. VerdictsHold'
    BY <1>1, <1>verdict, <1>type DEF Acquire, Leased, Neutralizing
  <2>covers. DrainCovers'
    BY <1>1, <1>covers, <1>type, <1>off DEF Acquire, Leased, Neutralizing
  <2>knows. DrainKnows'
    BY <1>1, <1>knows, <1>type, <1>off DEF Acquire, Leased, Neutralizing
  <2>rest. LiveIsRecorded' /\ EntriesHeld'
    BY <1>1, <1>live, <1>entry DEF Acquire
  <2> QED BY <2>type, <2>asked, <2>lease, <2>record, <2>unheld, <2>held, <2>off,
        <2>verdict, <2>covers, <2>knows, <2>rest DEF SupervisorInv
<1>2. ASSUME NEW n \in Leases, Check(n) PROVE SupervisorInv'
  <2>1. PICK lifted \in BOOLEAN : Revalidation(sess[n], lifted)
    BY <1>2 DEF Check
  <2>2. /\ record' \subseteq record /\ \A m \in record \ record' : ~Serves(m)
        /\ entry' \in [Sessions -> 0 .. MaxLeases]
        /\ \A t \in Sessions : entry'[t] # 0 => t \in held'
        /\ held' = held \/ (held' = held \ {sess[n]} /\ \A m \in record' : sess[m] # sess[n])
    BY <1>2, <2>1, RevalidationIsSafe DEF Check
  <2>3. /\ at[n] = "check" /\ at' \in {at, [at EXCEPT ![n] = "settle"]}
        /\ UNCHANGED <<sup, starts, sess, asked, capsule, verdict, batch, proc>>
    BY <1>2 DEF Check
  <2>type. SupervisorTypeOK'
    BY <2>2, <2>3, <1>type
  <2>live. LiveIsRecorded'
    BY <2>2, <2>3, <1>type, <1>live
  <2>asked. LeasesAsked'
    BY <2>2, <2>3, <1>type, <1>asked
  <2>lease. OneLease'
    BY <2>2, <2>3, <1>type, <1>lease
  <2>record. OneRecord'
    BY <2>2, <2>3, <1>type, <1>record
  <2>unheld. Unheld'
    BY <2>2, <2>3, <1>type, <1>unheld
  <2>held. RecordsHeld'
    BY <2>2, <2>3, <1>type, <1>held, <1>asked, <1>off
  <2>entry. EntriesHeld'
    BY <2>2, <2>3, <1>type, <1>entry
  <2>off. OffIdle'
    BY <2>2, <2>3, <1>type, <1>off
  <2>verdict. VerdictsHold'
    BY <2>2, <2>3, <1>type, <1>verdict
  <2>covers. DrainCovers'
    BY <2>2, <2>3, <1>type, <1>covers, <1>off
  <2>knows. DrainKnows'
    BY <2>2, <2>3, <1>type, <1>knows, <1>off
  <2> QED BY <2>type, <2>live, <2>asked, <2>lease, <2>record, <2>unheld, <2>held,
        <2>entry, <2>off, <2>verdict, <2>covers, <2>knows DEF SupervisorInv
<1>3. ASSUME NEW n \in Leases, GiveUp(n) PROVE SupervisorInv'
  <2>type. SupervisorTypeOK'
    BY <1>3, <1>type DEF GiveUp
  <2>asked. LeasesAsked'
    BY <1>3, <1>asked, <1>type, <1>live DEF GiveUp
  <2>lease. OneLease'
    BY <1>3, <1>lease, <1>type DEF GiveUp
  <2>unheld. Unheld'
    BY <1>3, <1>unheld, <1>type, <1>lease DEF GiveUp
  <2>held. RecordsHeld'
    BY <1>3, <1>held, <1>type, <1>asked, <1>off DEF GiveUp
  <2>off. OffIdle'
    BY <1>3, <1>off, <1>type DEF GiveUp
  <2>verdict. VerdictsHold'
    BY <1>3, <1>verdict, <1>type DEF GiveUp
  <2>covers. DrainCovers'
    BY <1>3, <1>covers, <1>type, <1>off DEF GiveUp
  <2>knows. DrainKnows'
    BY <1>3, <1>knows, <1>type, <1>off DEF GiveUp
  <2>rest. LiveIsRecorded' /\ OneRecord' /\ EntriesHeld'
    BY <1>3, <1>live, <1>record, <1>entry DEF GiveUp
  <2> QED BY <2>type, <2>asked, <2>lease, <2>unheld, <2>held, <2>off, <2>verdict,
        <2>covers, <2>knows, <2>rest DEF SupervisorInv
<1>4. ASSUME NEW n \in Leases, Spawn(n) PROVE SupervisorInv'
  <2>type. SupervisorTypeOK'
    BY <1>4, <1>type DEF Spawn
  <2>live. LiveIsRecorded'
    BY <1>4, <1>live, <1>type, <1>asked DEF Spawn
  <2>asked. LeasesAsked'
    BY <1>4, <1>asked, <1>type, <1>live DEF Spawn
  <2>lease. OneLease'
    BY <1>4, <1>lease, <1>type DEF Spawn
  <2>unheld. Unheld'
    BY <1>4, <1>unheld, <1>type, <1>lease DEF Spawn
  <2>held. RecordsHeld'
    BY <1>4, <1>held, <1>type, <1>asked, <1>off DEF Spawn
  <2>off. OffIdle'
    BY <1>4, <1>off, <1>type DEF Spawn
  <2>verdict. VerdictsHold'
    BY <1>4, <1>verdict, <1>type DEF Spawn
  <2>covers. DrainCovers'
    BY <1>4, <1>covers, <1>type, <1>off DEF Spawn
  <2>knows. DrainKnows'
    BY <1>4, <1>knows, <1>type, <1>off DEF Spawn
  <2>rest. OneRecord' /\ EntriesHeld'
    BY <1>4, <1>record, <1>entry DEF Spawn
  <2> QED BY <2>type, <2>live, <2>asked, <2>lease, <2>unheld, <2>held, <2>off,
        <2>verdict, <2>covers, <2>knows, <2>rest DEF SupervisorInv
<1>5. ASSUME NEW n \in Leases, Record(n) PROVE SupervisorInv'
  <2>type. SupervisorTypeOK'
    BY <1>5, <1>type DEF Record
  <2>live. LiveIsRecorded'
    BY <1>5, <1>live, <1>type, <1>asked DEF Record
  <2>asked. LeasesAsked'
    BY <1>5, <1>asked, <1>type, <1>live DEF Record
  <2>lease. OneLease'
    BY <1>5, <1>lease, <1>type DEF Record
  <2>record. OneRecord'
    BY <1>5, <1>record, <1>type, RecordIsOwn DEF Record
  <2>unheld. Unheld'
    BY <1>5, <1>unheld, <1>type, <1>lease DEF Record
  <2>held. RecordsHeld'
    BY <1>5, <1>held, <1>type, <1>asked, <1>off DEF Record
  <2>entry. EntriesHeld'
    BY <1>5, <1>entry, <1>type DEF Record
  <2>off. OffIdle'
    BY <1>5, <1>off, <1>type DEF Record
  <2>verdict. VerdictsHold'
    BY <1>5, <1>verdict, <1>type DEF Record
  <2>covers. DrainCovers'
    BY <1>5, <1>covers, <1>type, <1>off DEF Record
  <2>knows. DrainKnows'
    BY <1>5, <1>knows, <1>type, <1>off DEF Record
  <2> QED BY <2>type, <2>live, <2>asked, <2>lease, <2>record, <2>unheld, <2>held,
        <2>entry, <2>off, <2>verdict, <2>covers, <2>knows DEF SupervisorInv
<1>6. ASSUME NEW n \in Leases, RecordFails(n) PROVE SupervisorInv'
  <2>type. SupervisorTypeOK'
    BY <1>6, <1>type DEF RecordFails
  <2>live. LiveIsRecorded'
    BY <1>6, <1>live, <1>type, <1>asked DEF RecordFails
  <2>asked. LeasesAsked'
    BY <1>6, <1>asked, <1>type, <1>live DEF RecordFails
  <2>lease. OneLease'
    BY <1>6, <1>lease, <1>type DEF RecordFails
  <2>record. OneRecord'
    BY <1>6, <1>record, <1>type, RecordIsOwn DEF RecordFails
  <2>unheld. Unheld'
    BY <1>6, <1>unheld, <1>type, <1>lease DEF RecordFails
  <2>held. RecordsHeld'
    BY <1>6, <1>held, <1>type, <1>asked, <1>off DEF RecordFails
  <2>entry. EntriesHeld'
    BY <1>6, <1>entry, <1>type DEF RecordFails
  <2>off. OffIdle'
    BY <1>6, <1>off, <1>type DEF RecordFails
  <2>verdict. VerdictsHold'
    BY <1>6, <1>verdict, <1>type DEF RecordFails
  <2>covers. DrainCovers'
    BY <1>6, <1>covers, <1>type, <1>off DEF RecordFails
  <2>knows. DrainKnows'
    BY <1>6, <1>knows, <1>type, <1>off DEF RecordFails
  <2> QED BY <2>type, <2>live, <2>asked, <2>lease, <2>record, <2>unheld, <2>held,
        <2>entry, <2>off, <2>verdict, <2>covers, <2>knows DEF SupervisorInv
<1>7. ASSUME NEW n \in Leases, Ready(n) PROVE SupervisorInv'
  <2>type. SupervisorTypeOK'
    BY <1>7, <1>type DEF Ready
  <2>asked. LeasesAsked'
    BY <1>7, <1>asked, <1>type, <1>live DEF Ready
  <2>lease. OneLease'
    BY <1>7, <1>lease, <1>type DEF Ready
  <2>unheld. Unheld'
    BY <1>7, <1>unheld, <1>type, <1>lease DEF Ready
  <2>held. RecordsHeld'
    BY <1>7, <1>held, <1>type, <1>asked, <1>off DEF Ready
  <2>off. OffIdle'
    BY <1>7, <1>off, <1>type DEF Ready
  <2>verdict. VerdictsHold'
    BY <1>7, <1>verdict, <1>type DEF Ready
  <2>covers. DrainCovers'
    BY <1>7, <1>covers, <1>type, <1>off DEF Ready
  <2>knows. DrainKnows'
    BY <1>7, <1>knows, <1>type, <1>off DEF Ready
  <2>rest. LiveIsRecorded' /\ OneRecord' /\ EntriesHeld'
    BY <1>7, <1>live, <1>record, <1>entry DEF Ready
  <2> QED BY <2>type, <2>asked, <2>lease, <2>unheld, <2>held, <2>off, <2>verdict,
        <2>covers, <2>knows, <2>rest DEF SupervisorInv
<1>8. ASSUME NEW n \in Leases, Leave(n) PROVE SupervisorInv'
  <2>type. SupervisorTypeOK'
    BY <1>8, <1>type DEF Leave
  <2>asked. LeasesAsked'
    BY <1>8, <1>asked, <1>type, <1>live DEF Leave
  <2>lease. OneLease'
    BY <1>8, <1>lease, <1>type DEF Leave
  <2>unheld. Unheld'
    BY <1>8, <1>unheld, <1>type, <1>lease DEF Leave
  <2>held. RecordsHeld'
    BY <1>8, <1>held, <1>type, <1>asked, <1>off DEF Leave
  <2>off. OffIdle'
    BY <1>8, <1>off, <1>type DEF Leave
  <2>verdict. VerdictsHold'
    BY <1>8, <1>verdict, <1>type DEF Leave
  <2>covers. DrainCovers'
    BY <1>8, <1>covers, <1>type, <1>off DEF Leave
  <2>knows. DrainKnows'
    BY <1>8, <1>knows, <1>type, <1>off DEF Leave
  <2>rest. LiveIsRecorded' /\ OneRecord' /\ EntriesHeld'
    BY <1>8, <1>live, <1>record, <1>entry DEF Leave
  <2> QED BY <2>type, <2>asked, <2>lease, <2>unheld, <2>held, <2>off, <2>verdict,
        <2>covers, <2>knows, <2>rest DEF SupervisorInv
<1>9. ASSUME NEW n \in Leases, Mark(n) PROVE SupervisorInv'
  <2>1. /\ at[n] = "mark" /\ at' = [at EXCEPT ![n] = "stop"]
        /\ record' \in {record, record \union {n}} /\ UNCHANGED <<sup, sess, quar>>
    BY <1>9 DEF Mark
  <2>type. SupervisorTypeOK'
    BY <1>9, <1>type DEF Mark
  <2>live. LiveIsRecorded'
    BY <1>9, <1>live, <1>type, <1>asked DEF Mark
  <2>asked. LeasesAsked'
    BY <1>9, <1>asked, <1>type, <1>live DEF Mark
  <2>lease. OneLease'
    BY <1>9, <1>lease, <1>type DEF Mark
  <2>record. OneRecord'
    BY <2>1, <1>record, <1>type, RecordIsOwn
  <2>unheld. Unheld'
    BY <1>9, <1>unheld, <1>type, <1>lease DEF Mark
  <2>held. RecordsHeld'
    BY <2>1, <1>held, <1>type
  <2>entry. EntriesHeld'
    BY <1>9, <1>entry, <1>type DEF Mark
  <2>off. OffIdle'
    BY <1>9, <1>off, <1>type DEF Mark
  <2>verdict. VerdictsHold'
    BY <1>9, <1>verdict, <1>type DEF Mark
  <2>covers. DrainCovers'
    BY <1>9, <1>covers, <1>type, <1>off DEF Mark
  <2>knows. DrainKnows'
    BY <1>9, <1>knows, <1>type, <1>off DEF Mark
  <2> QED BY <2>type, <2>live, <2>asked, <2>lease, <2>record, <2>unheld, <2>held,
        <2>entry, <2>off, <2>verdict, <2>covers, <2>knows DEF SupervisorInv
<1>10. ASSUME NEW n \in Leases, Stop(n) PROVE SupervisorInv'
  <2>1. /\ at[n] = "stop" /\ at' = [at EXCEPT ![n] = "settle"]
        /\ record' \in {record, record \union {n}, record \ {n}} /\ UNCHANGED <<sup, sess, quar>>
    BY <1>10 DEF Stop
  <2>type. SupervisorTypeOK'
    BY <1>10, <1>type DEF Stop
  <2>live. LiveIsRecorded'
    BY <1>10, <1>live, <1>type, <1>asked DEF Stop
  <2>asked. LeasesAsked'
    BY <1>10, <1>asked, <1>type, <1>live DEF Stop
  <2>lease. OneLease'
    BY <1>10, <1>lease, <1>type DEF Stop
  <2>record. OneRecord'
    BY <2>1, <1>record, <1>type, RecordIsOwn
  <2>unheld. Unheld'
    BY <1>10, <1>unheld, <1>type, <1>lease DEF Stop
  <2>held. RecordsHeld'
    BY <2>1, <1>held, <1>type
  <2>entry. EntriesHeld'
    BY <1>10, <1>entry, <1>type DEF Stop
  <2>off. OffIdle'
    BY <1>10, <1>off, <1>type DEF Stop
  <2>verdict. VerdictsHold'
    BY <1>10, <1>verdict, <1>type DEF Stop
  <2>covers. DrainCovers'
    BY <1>10, <1>covers, <1>type, <1>off DEF Stop
  <2>knows. DrainKnows'
    BY <1>10, <1>knows, <1>type, <1>off DEF Stop
  <2> QED BY <2>type, <2>live, <2>asked, <2>lease, <2>record, <2>unheld, <2>held,
        <2>entry, <2>off, <2>verdict, <2>covers, <2>knows DEF SupervisorInv
<1>11. ASSUME NEW n \in Leases, Settle(n) PROVE SupervisorInv'
  <2>1. at[n] = "settle" /\ Released(n) /\ UNCHANGED <<sup, starts, sess>>
    BY <1>11 DEF Settle
  \* whatever the cleanup found, it ends well only for a lease without a record
  <2>2. PICK v \in {"dead", "unrecorded", "unverified"} :
          /\ Settled(n, v) /\ (v # "unverified" => n \notin record')
          /\ record' \subseteq record /\ \A m \in record \ record' : proc'[m] \notin Tree
    <3>1. CASE capsule[n]
      <4>1. verdict[n] \in {"dead", "unrecorded", "unverified"} /\ (verdict[n] # "unverified" => n \notin record)
        BY <2>1, <3>1, <1>verdict, <1>type
      <4>2. Settled(n, verdict[n]) /\ record' = record
        BY <1>11, <3>1 DEF Settle
      <4> QED BY <4>1, <4>2
    <3>2. CASE ~capsule[n]
      <4>1. CASE RecordsOf(sess[n]) = {} /\ Settled(n, "dead") /\ UNCHANGED record
        <5>1. n \notin record
          BY <4>1 DEF RecordsOf
        <5> QED BY <4>1, <5>1
      <4>2. CASE Settled(n, "unverified") /\ UNCHANGED record
        BY <4>2
      <4>3. ASSUME NEW m \in RecordsOf(sess[n]),
                   proc'[m] \notin Tree, Revalidate(m, "dead"), Settled(n, "dead")
            PROVE  /\ Settled(n, "dead") /\ n \notin record'
                   /\ record' \subseteq record /\ \A k \in record \ record' : proc'[k] \notin Tree
        <5>1. m \in record /\ sess[m] = sess[n] /\ record' = record \ {m}
          BY <4>3 DEF RecordsOf, Revalidate
        <5> QED BY <4>3, <5>1, <1>record
      <4> QED BY <1>11, <3>2, <4>1, <4>2, <4>3 DEF Settle
    <3> QED BY <3>1, <3>2
  <2>3. /\ at' = [at EXCEPT ![n] = "ended"] /\ verdict' = [verdict EXCEPT ![n] = "none"]
        /\ asked' = [asked EXCEPT ![n] = FALSE] /\ capsule' = [capsule EXCEPT ![n] = FALSE]
        /\ IF v = "unverified" THEN Quarantine(sess[n], 0) ELSE UNCHANGED quar
    BY <2>2 DEF Settled
  <2>4. batch' = [b \in Batches |-> [batch[b] EXCEPT !.bad = @ \/ (n \in batch[b].on /\ v # "dead")]]
    BY <2>2 DEF Settled
  <2>5. ASSUME NEW b \in Batches
        PROVE  /\ batch'[b].at = batch[b].at /\ batch'[b].of = batch[b].of /\ batch'[b].on = batch[b].on
               /\ batch'[b].left = batch[b].left
               /\ batch'[b].bad = (batch[b].bad \/ (n \in batch[b].on /\ v # "dead"))
    BY <2>4, <1>type
  <2>6. /\ proc' \in [Leases -> {"none", "dead"} \union Tree]
        /\ \A m \in Leases : Serves(m)' => Serves(m)
    BY <2>1, <1>type DEF Released
  <2>type. SupervisorTypeOK'
    <3>1. BatchTypeOK'
      <4>1. ASSUME NEW b \in Batches
            PROVE  [batch[b] EXCEPT !.bad = @ \/ (n \in batch[b].on /\ v # "dead")] \in BatchRecords
        <5>1. (batch[b].bad \/ (n \in batch[b].on /\ v # "dead")) \in BOOLEAN
          OBVIOUS
        <5>2. batch[b] \in BatchRecords
          BY <1>type DEF BatchRecords
        <5> QED BY <5>1, <5>2, BatchUpdate
      <4> QED BY <2>4, <4>1 DEF BatchRecords
    <3>2. sup' \in {"off", "recovering", "up", "closing", "closed"} /\ starts' \in 0 .. MaxStarts
      BY <2>1, <1>type
    <3>3. /\ sess' \in [Leases -> Sessions \union {Nobody}]
          /\ at' \in [Leases -> {"free", "ended"} \union Active]
          /\ asked' \in [Leases -> BOOLEAN] /\ capsule' \in [Leases -> BOOLEAN]
          /\ verdict' \in [Leases -> {"none", "dead", "unrecorded", "unverified"}]
      BY <2>1, <2>3, <1>type
    <3>4. held' \subseteq Sessions /\ entry' \in [Sessions -> 0 .. MaxLeases]
      <4>1. CASE v = "unverified"
        <5>1. sess[n] \in Sessions
          BY <2>1, <1>asked, <1>type
        <5>2. held' = held \union {sess[n]} /\ entry' = [entry EXCEPT ![sess[n]] = 0] /\ 0 \in 0 .. MaxLeases
          BY <2>3, <4>1 DEF Quarantine
        <5> QED BY <5>1, <5>2, <1>type
      <4>2. CASE v # "unverified"
        BY <2>3, <4>2, <1>type
      <4> QED BY <4>1, <4>2
    <3> QED BY <2>2, <2>6, <3>1, <3>2, <3>3, <3>4, <1>type
  <2>live. LiveIsRecorded'
    BY <2>2, <2>6, <1>type, <1>live
  <2>asked. LeasesAsked'
    BY <2>1, <2>2, <2>3, <2>6, <1>type, <1>asked
  <2>lease. OneLease'
    BY <2>1, <2>3, <1>type, <1>lease
  <2>record. OneRecord'
    BY <2>1, <2>2, <1>type, <1>record
  <2>unheld. Unheld'
    BY <2>1, <2>3, <1>type, <1>unheld, <1>lease DEF Quarantine
  <2>held. RecordsHeld'
    BY <2>1, <2>2, <2>3, <1>type, <1>held DEF Quarantine
  <2>entry. EntriesHeld'
    BY <2>3, <1>type, <1>entry DEF Quarantine
  <2>off. OffIdle'
    BY <2>1, <2>3, <1>type, <1>off
  <2>verdict. VerdictsHold'
    BY <2>1, <2>2, <2>3, <1>type, <1>verdict
  <2>covers. DrainCovers'
    BY <2>1, <2>3, <2>5, <1>type, <1>covers
  <2>knows. DrainKnows'
    <3> SUFFICES ASSUME NEW b \in Batches, NEW m \in batch'[b].on, batch'[b].at = "drain",
                        ~batch'[b].bad, at'[m] \notin Active
                 PROVE  ~Serves(m)'
      OBVIOUS
    <3>1. m \in Leases /\ m \in batch[b].on /\ batch[b].at = "drain" /\ ~batch[b].bad
      BY <2>5, <1>type
    <3>2. CASE m = n
      <4>1. n \notin record'
        BY <2>2, <2>5, <3>1, <3>2
      <4> QED BY <2>live, <3>2, <4>1
    <3>3. CASE m # n
      BY <2>3, <2>6, <3>1, <3>3, <1>type, <1>knows
    <3> QED BY <3>2, <3>3
  <2> QED BY <2>type, <2>live, <2>asked, <2>lease, <2>record, <2>unheld, <2>held,
        <2>entry, <2>off, <2>verdict, <2>covers, <2>knows DEF SupervisorInv
<1>12. ASSUME NEW n \in Leases, Die(n) PROVE SupervisorInv'
  <2>type. SupervisorTypeOK'
    BY <1>12, <1>type DEF Die
  <2>live. LiveIsRecorded'
    BY <1>12, <1>live, <1>type, <1>asked DEF Die
  <2>asked. LeasesAsked'
    BY <1>12, <1>asked, <1>type, <1>live DEF Die
  <2>knows. DrainKnows'
    BY <1>12, <1>knows, <1>type, <1>off DEF Die
  <2>rest. OneLease' /\ OneRecord' /\ Unheld' /\ RecordsHeld' /\ EntriesHeld' /\
        OffIdle' /\ VerdictsHold' /\ DrainCovers'
    BY <1>12, <1>lease, <1>record, <1>unheld, <1>held, <1>entry, <1>off, <1>verdict,
       <1>covers DEF Die
  <2> QED BY <2>type, <2>live, <2>asked, <2>knows, <2>rest DEF SupervisorInv
<1>13. ASSUME NEW n \in Leases, Recover(n) PROVE SupervisorInv'
  <2>type. SupervisorTypeOK'
    <3>1. CASE proc' = [proc EXCEPT ![n] = "dead"] /\ record' = record \ {n} /\ UNCHANGED quar
      BY <1>13, <3>1, <1>type DEF Recover
    <3>2. CASE Quarantine(sess[n], n) /\ UNCHANGED <<proc, record>>
      <4>1. sess[n] \in Sessions /\ n \in 0 .. MaxLeases
        BY <1>13, <1>type, <1>asked DEF Recover, Unseen
      <4>2. UNCHANGED <<sup, starts, memory, batch>>
        BY <1>13 DEF Recover
      <4> QED BY <3>2, <4>1, <4>2, <1>type DEF Quarantine
    <3> QED BY <1>13, <3>1, <3>2 DEF Recover
  <2>live. LiveIsRecorded'
    BY <1>13, <1>live, <1>type, <1>asked DEF Recover, Unseen, Quarantine
  <2>asked. LeasesAsked'
    BY <1>13, <1>asked, <1>type, <1>live DEF Recover, Unseen, Quarantine
  <2>record. OneRecord'
    BY <1>13, <1>record, <1>type DEF Recover, Unseen, Quarantine
  <2>unheld. Unheld'
    BY <1>13, <1>type, <1>off DEF Recover, Unseen, Quarantine
  <2>held. RecordsHeld'
    BY <1>13, <1>held, <1>type, <1>asked, <1>off DEF Recover, Unseen, Quarantine
  <2>entry. EntriesHeld'
    BY <1>13, <1>entry, <1>type DEF Recover, Unseen, Quarantine
  <2>verdict. VerdictsHold'
    BY <1>13, <1>verdict, <1>type DEF Recover, Unseen, Quarantine
  <2>knows. DrainKnows'
    BY <1>13, <1>knows, <1>type, <1>off DEF Recover, Unseen, Quarantine
  <2>rest. OneLease' /\ OffIdle' /\ DrainCovers'
    BY <1>13, <1>lease, <1>off, <1>covers DEF Recover
  <2> QED BY <2>type, <2>live, <2>asked, <2>record, <2>unheld, <2>held, <2>entry,
        <2>verdict, <2>knows, <2>rest DEF SupervisorInv
<1>14. ASSUME NEW b \in Batches, NEW of \in SUBSET Sessions, Neutralize(b, of) PROVE SupervisorInv'
  <2>type. SupervisorTypeOK'
    BY <1>14, <1>type DEF Neutralize, BatchAt, Set
  <2>off. OffIdle'
    BY <1>14, <1>off, <1>type DEF Neutralize, BatchAt, Set
  <2>covers. DrainCovers'
    BY <1>14, <1>covers, <1>type, <1>off DEF Neutralize, BatchAt, Set
  <2>knows. DrainKnows'
    BY <1>14, <1>knows, <1>type, <1>off DEF Neutralize, BatchAt, Set
  <2>rest. LiveIsRecorded' /\ LeasesAsked' /\ OneLease' /\ OneRecord' /\ Unheld' /\
        RecordsHeld' /\ EntriesHeld' /\ VerdictsHold'
    BY <1>14, <1>live, <1>asked, <1>lease, <1>record, <1>unheld, <1>held, <1>entry,
       <1>verdict DEF Neutralize
  <2> QED BY <2>type, <2>off, <2>covers, <2>knows, <2>rest DEF SupervisorInv
<1>15. ASSUME NEW b \in Batches, NEW s \in Sessions, Preflight(b, s) PROVE SupervisorInv'
  <2>1. /\ batch[b].at = "preflight" /\ UNCHANGED <<sup, starts, memory, proc>>
        /\ \/ batch' = [batch EXCEPT ![b] = [batch[b] EXCEPT !.left = @ \ {s}]]
           \/ batch' = [batch EXCEPT ![b] = BatchAt("failed", {})]
    BY <1>15 DEF Preflight, Set
  <2>2. /\ record' \subseteq record /\ \A m \in record \ record' : ~Serves(m)
        /\ entry' \in [Sessions -> 0 .. MaxLeases]
        /\ \A t \in Sessions : entry'[t] # 0 => t \in held'
        /\ held' = held \/ (held' = held \ {s} /\ \A m \in record' : sess[m] # s)
    <3>1. CASE s \in held
      <4>1. PICK lifted \in BOOLEAN : Revalidation(s, lifted)
        BY <1>15, <3>1 DEF Preflight
      <4> QED BY <3>1, <4>1, RevalidationIsSafe
    <3>2. CASE s \notin held
      BY <1>15, <3>2, <1>type, <1>entry DEF Preflight
    <3> QED BY <3>1, <3>2
  <2>3. /\ batch'[b].at \in {"preflight", "failed"}
        /\ \A c \in Batches : c # b => batch'[c] = batch[c]
    BY <2>1, <1>type DEF BatchAt
  <2>type. SupervisorTypeOK'
    <3>1. BatchTypeOK'
      <4>1. batch[b] \in BatchRecords /\ BatchAt("failed", {}) \in BatchRecords
        BY <1>type DEF BatchRecords, BatchAt
      <4>2. [batch[b] EXCEPT !.left = @ \ {s}] \in BatchRecords
        BY <4>1, BatchUpdate DEF BatchRecords
      <4> QED BY <2>1, <4>1, <4>2, <1>type DEF BatchRecords
    <3> QED BY <2>1, <2>2, <3>1, <1>type
  <2>live. LiveIsRecorded'
    BY <2>1, <2>2, <1>type, <1>live
  <2>asked. LeasesAsked'
    BY <2>1, <2>2, <1>type, <1>asked
  <2>lease. OneLease'
    BY <2>1, <2>2, <1>type, <1>lease
  <2>record. OneRecord'
    BY <2>1, <2>2, <1>type, <1>record
  <2>unheld. Unheld'
    BY <2>1, <2>2, <1>type, <1>unheld
  <2>held. RecordsHeld'
    BY <2>1, <2>2, <1>type, <1>held, <1>asked, <1>off
  <2>entry. EntriesHeld'
    BY <2>1, <2>2, <1>type, <1>entry
  <2>off. OffIdle'
    BY <2>1, <2>3, <1>type, <1>off, <1>off
  <2>verdict. VerdictsHold'
    BY <2>1, <2>2, <1>type, <1>verdict
  <2>covers. DrainCovers'
    BY <2>1, <2>3, <1>type, <1>off, <1>covers
  <2>knows. DrainKnows'
    <3> SUFFICES ASSUME NEW c \in Batches, batch'[c].at = "drain"
                 PROVE  \A m \in batch'[c].on : ~batch'[c].bad /\ at'[m] \notin Active => ~Serves(m)'
      OBVIOUS
    <3>1. batch'[c] = batch[c]
      BY <2>3
    <3>2. UNCHANGED <<at, proc>>
      BY <2>1
    <3> QED BY <3>1, <3>2, <1>knows
  <2> QED BY <2>type, <2>live, <2>asked, <2>lease, <2>record, <2>unheld, <2>held,
        <2>entry, <2>off, <2>verdict, <2>covers, <2>knows DEF SupervisorInv
<1>16. ASSUME NEW b \in Batches, Drain(b) PROVE SupervisorInv'
  <2>type. SupervisorTypeOK'
    <3> DEFINE on == {n \in Leases : sess[n] \in batch[b].of /\ at[n] \in Active}
    <3>1. batch' = [batch EXCEPT ![b] = [batch[b] EXCEPT !.at = "drain", !.on = on]]
      BY <1>16 DEF Drain, Set
    <3>2. BatchTypeOK'
      <4>1. on \in SUBSET Leases /\ batch[b] \in BatchRecords
        BY <1>type DEF BatchRecords
      <4>2. [batch[b] EXCEPT !.at = "drain", !.on = on] \in BatchRecords
        BY <4>1, BatchUpdate
      <4> HIDE DEF on
      <4> QED BY <3>1, <4>2, <1>type DEF BatchRecords
    <3>3. asked' \in [Leases -> BOOLEAN]
      BY <1>16 DEF Drain
    <3>4. UNCHANGED <<sup, starts, sess, at, capsule, verdict, quar, proc, record>>
      BY <1>16 DEF Drain
    <3> QED BY <3>2, <3>3, <3>4, <1>type
  <2>off. OffIdle'
    BY <1>16, <1>off, <1>type DEF Drain, Set
  <2>covers. DrainCovers'
    BY <1>16, <1>covers, <1>type, <1>off DEF Drain, Set
  <2>knows. DrainKnows'
    BY <1>16, <1>knows, <1>type, <1>off DEF Drain, Set
  <2>rest. LiveIsRecorded' /\ LeasesAsked' /\ OneLease' /\ OneRecord' /\ Unheld' /\
        RecordsHeld' /\ EntriesHeld' /\ VerdictsHold'
    BY <1>16, <1>live, <1>asked, <1>lease, <1>record, <1>unheld, <1>held, <1>entry,
       <1>verdict DEF Drain
  <2> QED BY <2>type, <2>off, <2>covers, <2>knows, <2>rest DEF SupervisorInv
<1>17. ASSUME NEW b \in Batches, Commit(b) PROVE SupervisorInv'
  <2>type. SupervisorTypeOK'
    BY <1>17, <1>type DEF Commit, BatchAt, Set
  <2>off. OffIdle'
    BY <1>17, <1>off, <1>type DEF Commit, BatchAt, Set
  <2>covers. DrainCovers'
    BY <1>17, <1>covers, <1>type, <1>off DEF Commit, BatchAt, Set
  <2>knows. DrainKnows'
    BY <1>17, <1>knows, <1>type, <1>off DEF Commit, BatchAt, Set
  <2>rest. LiveIsRecorded' /\ LeasesAsked' /\ OneLease' /\ OneRecord' /\ Unheld' /\
        RecordsHeld' /\ EntriesHeld' /\ VerdictsHold'
    BY <1>17, <1>live, <1>asked, <1>lease, <1>record, <1>unheld, <1>held, <1>entry,
       <1>verdict DEF Commit
  <2> QED BY <2>type, <2>off, <2>covers, <2>knows, <2>rest DEF SupervisorInv
<1>18. ASSUME NEW b \in Batches, Abandon(b) PROVE SupervisorInv'
  <2>type. SupervisorTypeOK'
    BY <1>18, <1>type DEF Abandon, BatchAt, Set
  <2>off. OffIdle'
    BY <1>18, <1>off, <1>type DEF Abandon, BatchAt, Set
  <2>covers. DrainCovers'
    BY <1>18, <1>covers, <1>type, <1>off DEF Abandon, BatchAt, Set
  <2>knows. DrainKnows'
    BY <1>18, <1>knows, <1>type, <1>off DEF Abandon, BatchAt, Set
  <2>rest. LiveIsRecorded' /\ LeasesAsked' /\ OneLease' /\ OneRecord' /\ Unheld' /\
        RecordsHeld' /\ EntriesHeld' /\ VerdictsHold'
    BY <1>18, <1>live, <1>asked, <1>lease, <1>record, <1>unheld, <1>held, <1>entry,
       <1>verdict DEF Abandon
  <2> QED BY <2>type, <2>off, <2>covers, <2>knows, <2>rest DEF SupervisorInv
<1>19. ASSUME Start PROVE SupervisorInv'
  <2>type. SupervisorTypeOK'
    BY <1>19, <1>type DEF Start
  <2>held. RecordsHeld'
    BY <1>19, <1>held, <1>type, <1>asked, <1>off DEF Start
  <2>off. OffIdle'
    BY <1>19, <1>off, <1>type DEF Start
  <2>rest. LiveIsRecorded' /\ LeasesAsked' /\ OneLease' /\ OneRecord' /\ Unheld' /\
        EntriesHeld' /\ VerdictsHold' /\ DrainCovers' /\ DrainKnows'
    BY <1>19, <1>live, <1>asked, <1>lease, <1>record, <1>unheld, <1>entry, <1>verdict,
       <1>covers, <1>knows DEF Start
  <2> QED BY <2>type, <2>held, <2>off, <2>rest DEF SupervisorInv
<1>20. ASSUME RecoveryFails PROVE SupervisorInv'
  <2>type. SupervisorTypeOK'
    BY <1>20, <1>type DEF RecoveryFails
  <2>unheld. Unheld'
    BY <1>20, <1>unheld, <1>type, <1>lease DEF RecoveryFails
  <2>held. RecordsHeld'
    BY <1>20, <1>held, <1>type, <1>asked, <1>off DEF RecoveryFails
  <2>entry. EntriesHeld'
    BY <1>20, <1>entry, <1>type DEF RecoveryFails
  <2>off. OffIdle'
    BY <1>20, <1>off, <1>type DEF RecoveryFails
  <2>rest. LiveIsRecorded' /\ LeasesAsked' /\ OneLease' /\ OneRecord' /\ VerdictsHold' /\
        DrainCovers' /\ DrainKnows'
    BY <1>20, <1>live, <1>asked, <1>lease, <1>record, <1>verdict, <1>covers, <1>knows
       DEF RecoveryFails
  <2> QED BY <2>type, <2>unheld, <2>held, <2>entry, <2>off, <2>rest DEF SupervisorInv
<1>21. ASSUME Recovered PROVE SupervisorInv'
  <2>1. \A n \in record : entry[sess[n]] = n /\ n # 0
    <3>1. record \subseteq Leases
      BY <1>type
    <3>2. Unseen = {}
      BY <1>21 DEF Recovered
    <3>3. \A n \in record : entry[sess[n]] = n
      BY <3>2 DEF Unseen
    <3> QED BY <3>1, <3>3
  <2>type. SupervisorTypeOK'
    BY <1>21, <1>type DEF Recovered, Unseen
  <2>held. RecordsHeld'
    BY <1>21, <2>1, <1>type, <1>asked, <1>entry DEF Recovered
  <2>off. OffIdle'
    BY <1>21, <1>off, <1>type DEF Recovered, Unseen
  <2>rest. LiveIsRecorded' /\ LeasesAsked' /\ OneLease' /\ OneRecord' /\ Unheld' /\
        EntriesHeld' /\ VerdictsHold' /\ DrainCovers' /\ DrainKnows'
    BY <1>21, <1>live, <1>asked, <1>lease, <1>record, <1>unheld, <1>entry, <1>verdict,
       <1>covers, <1>knows DEF Recovered
  <2> QED BY <2>type, <2>held, <2>off, <2>rest DEF SupervisorInv
<1>22. ASSUME Shutdown PROVE SupervisorInv'
  <2>type. SupervisorTypeOK'
    BY <1>22, <1>type DEF Shutdown
  <2>held. RecordsHeld'
    BY <1>22, <1>held, <1>type, <1>asked, <1>off DEF Shutdown
  <2>off. OffIdle'
    BY <1>22, <1>off, <1>type DEF Shutdown
  <2>rest. LiveIsRecorded' /\ LeasesAsked' /\ OneLease' /\ OneRecord' /\ Unheld' /\
        EntriesHeld' /\ VerdictsHold' /\ DrainCovers' /\ DrainKnows'
    BY <1>22, <1>live, <1>asked, <1>lease, <1>record, <1>unheld, <1>entry, <1>verdict,
       <1>covers, <1>knows DEF Shutdown
  <2> QED BY <2>type, <2>held, <2>off, <2>rest DEF SupervisorInv
<1>23. ASSUME Closed PROVE SupervisorInv'
  <2>type. SupervisorTypeOK'
    BY <1>23, <1>type DEF Closed
  <2>unheld. Unheld'
    BY <1>23, <1>unheld, <1>type, <1>lease DEF Closed
  <2>held. RecordsHeld'
    BY <1>23, <1>held, <1>type, <1>asked, <1>off DEF Closed
  <2>entry. EntriesHeld'
    BY <1>23, <1>entry, <1>type DEF Closed
  <2>off. OffIdle'
    BY <1>23, <1>off, <1>type DEF Closed
  <2>rest. LiveIsRecorded' /\ LeasesAsked' /\ OneLease' /\ OneRecord' /\ VerdictsHold' /\
        DrainCovers' /\ DrainKnows'
    BY <1>23, <1>live, <1>asked, <1>lease, <1>record, <1>verdict, <1>covers, <1>knows
       DEF Closed
  <2> QED BY <2>type, <2>unheld, <2>held, <2>entry, <2>off, <2>rest DEF SupervisorInv
<1>24. ASSUME Crash PROVE SupervisorInv'
  <2>type. SupervisorTypeOK'
    BY <1>24, <1>type DEF Crash, BatchAt
  <2>asked. LeasesAsked'
    BY <1>24, <1>asked, <1>type, <1>live DEF Crash, BatchAt
  <2>lease. OneLease'
    BY <1>24, <1>lease, <1>type DEF Crash, BatchAt
  <2>unheld. Unheld'
    BY <1>24, <1>unheld, <1>type, <1>lease DEF Crash, BatchAt
  <2>held. RecordsHeld'
    BY <1>24, <1>held, <1>type, <1>asked, <1>off DEF Crash, BatchAt
  <2>entry. EntriesHeld'
    BY <1>24, <1>entry, <1>type DEF Crash, BatchAt
  <2>off. OffIdle'
    BY <1>24, <1>off, <1>type DEF Crash, BatchAt
  <2>verdict. VerdictsHold'
    BY <1>24, <1>verdict, <1>type DEF Crash, BatchAt
  <2>covers. DrainCovers'
    BY <1>24, <1>covers, <1>type, <1>off DEF Crash, BatchAt
  <2>knows. DrainKnows'
    BY <1>24, <1>knows, <1>type, <1>off DEF Crash, BatchAt
  <2>rest. LiveIsRecorded' /\ OneRecord'
    BY <1>24, <1>live, <1>record DEF Crash
  <2> QED BY <2>type, <2>asked, <2>lease, <2>unheld, <2>held, <2>entry, <2>off,
        <2>verdict, <2>covers, <2>knows, <2>rest DEF SupervisorInv
<1> QED BY SupervisorNext, <1>1, <1>2, <1>3, <1>4, <1>5, <1>6, <1>7, <1>8, <1>9, <1>10,
      <1>11, <1>12, <1>13, <1>14, <1>15, <1>16, <1>17, <1>18, <1>19, <1>20, <1>21, <1>22, <1>23, <1>24
    DEF SupervisorNext, LeaseStep, BatchStep, Cleanup

\* the invariant is about the variables only
LEMMA SupervisorStutters == SupervisorInv /\ UNCHANGED svars => SupervisorInv'
BY DEF svars, memory, quar, SupervisorInv, SupervisorTypeOK, BatchTypeOK, LiveIsRecorded,
   LeasesAsked,
       OneLease, OneRecord, Unheld, RecordsHeld, EntriesHeld, OffIdle, VerdictsHold,
       DrainCovers, DrainKnows, Serves

\* only the commit of a neutralization that is draining commits it
LEMMA CommitOnly ==
  ASSUME SupervisorTypeOK, SupervisorNext, NEW b \in Batches,
         batch[b].at = "drain", batch'[b].at = "committed"
  PROVE  Commit(b)
<1> USE DEF SupervisorTypeOK, BatchTypeOK, Batches
<1>1. ASSUME NEW n \in Leases, LeaseStep(n) \/ Die(n) \/ Recover(n) PROVE Commit(b)
  <2>1. CASE Settle(n)
    <3>1. PICK v \in {"none", "dead", "unrecorded", "unverified"} : Settled(n, v)
      BY <2>1 DEF Settle
    <3>2. batch' = [c \in Batches |-> [batch[c] EXCEPT !.bad = @ \/ (n \in batch[c].on /\ v # "dead")]]
      BY <3>1 DEF Settled
    <3>3. batch'[b].at = batch[b].at
      BY <3>2
    <3> QED BY <3>3
  <2>2. CASE Check(n) \/ GiveUp(n) \/ Spawn(n) \/ Record(n) \/ RecordFails(n) \/ Ready(n) \/ Leave(n)
    BY <2>2 DEF Check, GiveUp, Spawn, Record, RecordFails, Ready, Leave
  <2>3. CASE Mark(n) \/ Stop(n) \/ Die(n) \/ Recover(n)
    BY <2>3 DEF Mark, Stop, Die, Recover
  <2> QED BY <1>1, <2>1, <2>2, <2>3 DEF LeaseStep, Cleanup
<1>2. ASSUME NEW n \in Leases, NEW s \in Sessions, Acquire(n, s) PROVE Commit(b)
  BY <1>2 DEF Acquire
<1>3. ASSUME NEW c \in Batches, BatchStep(c) PROVE Commit(b)
  <2>1. CASE Drain(c)
    BY <2>1 DEF Drain, Set
  <2>2. CASE Commit(c)
    BY <2>2 DEF Commit, Set
  <2>3. CASE Abandon(c)
    BY <2>3 DEF Abandon, Set, BatchAt
  <2>4. CASE \E s \in Sessions : Preflight(c, s)
    <3>1. PICK s \in Sessions : Preflight(c, s)
      BY <2>4
    <3>2. \/ batch' = [batch EXCEPT ![c] = [batch[c] EXCEPT !.left = @ \ {s}]]
          \/ batch' = [batch EXCEPT ![c] = BatchAt("failed", {})]
      BY <3>1 DEF Preflight, Set
    <3>3. CASE c = b
      <4>1. batch[c].at = "preflight"
        BY <3>1 DEF Preflight
      <4> QED BY <3>3, <4>1
    <3>4. CASE c # b
      BY <3>2, <3>4
    <3> QED BY <3>3, <3>4
  <2> QED BY <1>3, <2>1, <2>2, <2>3, <2>4 DEF BatchStep
<1>4. ASSUME NEW c \in Batches, NEW of \in SUBSET Sessions, Neutralize(c, of) PROVE Commit(b)
  BY <1>4 DEF Neutralize, Set, BatchAt
<1>5. ASSUME Start \/ RecoveryFails \/ Recovered \/ Shutdown \/ Closed PROVE Commit(b)
  BY <1>5 DEF Start, RecoveryFails, Recovered, Shutdown, Closed
<1>6. ASSUME Crash PROVE Commit(b)
  BY <1>6 DEF Crash, BatchAt
<1> QED BY <1>1, <1>2, <1>3, <1>4, <1>5, <1>6 DEF SupervisorNext
\* No worker lives unseen: of the trees of one session at most one serves it,
\* and it has its record, for any number of sessions, leases and restarts.
THEOREM SupervisorAgrees == SupervisorSpec => []SupervisorConsistent
<1>1. SupervisorInv /\ UNCHANGED svars => SupervisorInv'
  BY SupervisorStutters
<1>2. SupervisorInv => SupervisorConsistent
  BY DEF SupervisorInv, SupervisorConsistent, SupervisorTypeOK, OneWorker,
     LiveIsRecorded, OneRecord
<1> QED BY SupervisorInitInv, SupervisorStepInv, <1>1, <1>2, PTL DEF SupervisorSpec

\* A Retry is committed over dead workers only, or over workers that are known:
\* those of the leases it closed are dead, no lease of its sessions is at it, and
\* what still serves one of them has its session held.
THEOREM CommitSafe == SupervisorSpec => CommitIsSafe
<1> DEFINE Safe == \A b \in Batches : batch[b].at = "drain" /\ batch'[b].at = "committed" =>
                     /\ \A n \in batch[b].on : ~Serves(n)
                     /\ \A n \in Leases : sess[n] \in batch[b].of =>
                          at[n] \notin Active /\ (Serves(n) => sess[n] \in held)
<1>1. SupervisorInv /\ SupervisorNext => Safe
  <2> SUFFICES ASSUME SupervisorInv, SupervisorNext, NEW b \in Batches,
                      batch[b].at = "drain", batch'[b].at = "committed"
               PROVE  /\ \A n \in batch[b].on : ~Serves(n)
                      /\ \A n \in Leases : sess[n] \in batch[b].of =>
                           at[n] \notin Active /\ (Serves(n) => sess[n] \in held)
    OBVIOUS
  <2>1. Commit(b)
    BY CommitOnly DEF SupervisorInv
  <2>2. \A n \in batch[b].on : at[n] = "ended" /\ ~batch[b].bad
    BY <2>1 DEF Commit
  <2>3. \A n \in batch[b].on : ~Serves(n)
    BY <2>2 DEF SupervisorInv, DrainKnows, Active
  <2>4. \A n \in Leases : sess[n] \in batch[b].of => at[n] \notin Active
    BY <2>2 DEF SupervisorInv, DrainCovers, Active
  <2>5. sup \in {"up", "closing"}
    BY DEF SupervisorInv, OffIdle, SupervisorTypeOK
  <2>6. \A n \in Leases : at[n] \notin Active /\ Serves(n) => sess[n] \in held
    BY <2>5 DEF SupervisorInv, LiveIsRecorded, RecordsHeld
  <2> QED BY <2>3, <2>4, <2>6
<1>2. UNCHANGED svars => Safe
  BY DEF svars
<1>3. SupervisorInv /\ UNCHANGED svars => SupervisorInv'
  BY SupervisorStutters
<1> QED BY SupervisorInitInv, SupervisorStepInv, <1>1, <1>2, <1>3, PTL
      DEF SupervisorSpec, CommitIsSafe
=============================================================================
