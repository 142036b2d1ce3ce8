---------------------------- MODULE AgentTurnProofs ----------------------------
(***************************************************************************)
(* What holds of the Turns of one lease for any number of Turns and         *)
(* updates and any policies.                                                *)
(***************************************************************************)
EXTENDS AgentTurn, SequenceTheorems, FiniteSetTheorems, TLAPS

-----------------------------------------------------------------------------
(* The inductive invariant                                                  *)

\* how many elements of a sequence are in a set
Number(s, T) == Cardinality({i \in DOMAIN s : s[i] \in T})

\* the events the capsule has still to read
Unheard == Number(toParent, {m \in ChildMessage : m.type = "event"})

Asks(i)    == toWorker[i].type = "run"
Reports(i) == toParent[i].type = "event"
Closes(i)  == toParent[i].type = "terminal"

\* nothing is under way in the worker, nor reported by it
NoneLeft == \A i \in DOMAIN updates : updates[i].of = 0
Quiet ==
  /\ wactive = 0 /\ prompt = 0 /\ at = "idle" /\ NoneLeft
  /\ \A i \in DOMAIN toParent : ~Reports(i) /\ ~Closes(i)

\* the observer of the Turn has not refused an event
Attends == active # 0 /\ ~sinkError

\* the Turn of the capsule is the last one claimed, and has no outcome yet
TurnAtHand ==
  /\ active \in {0, turn}
  /\ active # 0 => outcome[turn] = None /\ pending = None
  /\ pending # None => outcome[turn] = None /\ turn # 0
  /\ \A t \in Turns : t > turn => outcome[t] = None /\ accepted[t] = 0

\* the Turn was claimed, and the worker is not asked for it yet, or not yet at it
NotBegun ==
  /\ user = "claiming" => Quiet /\ turn # 0 /\ accepted[turn] = 0 /\ \A i \in DOMAIN toWorker : ~Asks(i)
  /\ \A i \in DOMAIN toWorker : Asks(i) =>
       /\ Quiet /\ toWorker[i].turn = turn /\ turn # 0 /\ accepted[turn] = 0
       /\ \A j \in DOMAIN toWorker : Asks(j) => j = i

\* there is no Turn yet, or the last one was answered in full
Done == turn = 0 \/ outcome[turn] = "completed" \/ (pending = "completed" /\ ~sinkError)
Whole ==
  Done => /\ Quiet /\ (turn # 0 => accepted[turn] = fence)
          /\ \A i \in DOMAIN toWorker : ~Asks(i)

\* the updates that are not handled yet are those after the first b, as many as the
\* session has still to process
Window(b) ==
  /\ b + (count - processed) <= Len(updates)
  /\ prompt # 0 => b + (count - processed) = Len(updates)
  /\ \A i \in DOMAIN updates :
       /\ b < i /\ i <= b + (count - processed) => updates[i].of = wactive /\ updates[i].seq = processed + (i - b)
       /\ ~(b < i /\ i <= b + (count - processed)) => updates[i].of = 0

\* the Turn in the worker
AtTurn ==
  /\ wactive \in {0, turn} /\ (at # "idle" \/ loop = "interrupting" => wactive # 0)
  /\ prompt # 0 => prompt = wactive /\ at = "prompt" /\ reply = None
  /\ at = "saving" =>
       /\ pinned = 0 /\ processed = 0 /\ accepted[turn] = 0 /\ NoneLeft
       /\ \A i \in DOMAIN toParent : ~Reports(i)
  /\ at \in {"prompt", "fence"} => pinned \in {0, wactive} /\ processed <= count /\ \E b \in Nat : Window(b)
  /\ at = "fence" => pinned = wactive /\ fence = count /\ reply \in {"completed", "stopped"}

\* what the worker says is of the Turn, and its end comes last
Reported ==
  /\ \A i \in DOMAIN toParent : Reports(i) \/ Closes(i) => toParent[i].turn = turn /\ turn # 0
  /\ \A i \in DOMAIN toParent : Reports(i) => toParent[i].of = turn
  /\ \A i \in DOMAIN toParent : Closes(i) =>
       /\ wactive = 0 /\ prompt = 0 /\ at = "idle"
       /\ \A j \in DOMAIN toParent : (Reports(j) => j < i) /\ (Closes(j) => j = i)
       /\ toParent[i].kind = "completed" => NoneLeft /\ (Attends => accepted[turn] + Unheard = fence)

\* every update is counted once
Counted ==
  /\ turn # 0 => accepted[turn] + Unheard <= processed
  /\ at \in {"prompt", "fence"} /\ Attends => accepted[turn] + Unheard = processed
  /\ count + Number(fromAgent, {"update"}) <= spoken

TurnInv ==
  /\ TurnTypeOK /\ TurnAtHand /\ NotBegun /\ Whole /\ AtTurn /\ Reported /\ Counted

-----------------------------------------------------------------------------
(* Channels                                                                 *)

LEMMA TailFacts ==
  ASSUME NEW S, NEW s \in Seq(S), s # <<>>
  PROVE  /\ Tail(s) \in Seq(S) /\ Head(s) \in S /\ 1 \in DOMAIN s /\ Head(s) = s[1]
         /\ \A i \in DOMAIN Tail(s) : i \in Nat /\ i >= 1 /\ i + 1 \in DOMAIN s /\ Tail(s)[i] = s[i + 1]
         /\ \A i \in DOMAIN s : i \in Nat /\ (i # 1 => i - 1 \in DOMAIN Tail(s) /\ Tail(s)[i - 1] = s[i])
         /\ Len(s) \in Nat /\ Len(Tail(s)) = Len(s) - 1 /\ DOMAIN s = 1 .. Len(s)
<1>1. Len(s) \in Nat /\ Len(s) # 0 /\ DOMAIN s = 1 .. Len(s)
  BY EmptySeq, LenProperties
<1>2. Tail(s) \in Seq(S) /\ Len(Tail(s)) = Len(s) - 1 /\ Head(s) \in S
      /\ \A i \in 1 .. Len(Tail(s)) : Tail(s)[i] = s[i + 1]
  BY HeadTailProperties
<1>3. DOMAIN Tail(s) = 1 .. Len(s) - 1
  BY <1>2, LenProperties
<1> QED BY <1>1, <1>2, <1>3

LEMMA AppendFacts ==
  ASSUME NEW S, NEW s \in Seq(S), NEW x \in S
  PROVE  /\ Append(s, x) \in Seq(S) /\ Append(s, x) # <<>> /\ Len(Append(s, x)) = Len(s) + 1 /\ Len(s) \in Nat
         /\ DOMAIN Append(s, x) = DOMAIN s \union {Len(s) + 1}
         /\ \A i \in DOMAIN Append(s, x) : \/ (i \in DOMAIN s /\ Append(s, x)[i] = s[i])
                                          \/ (i = Len(s) + 1 /\ Append(s, x)[i] = x)
         /\ \A i \in DOMAIN s : i \in Nat /\ i <= Len(s) /\ Append(s, x)[i] = s[i]
         /\ Append(s, x)[Len(s) + 1] = x
<1>1. Len(s) \in Nat /\ DOMAIN s = 1 .. Len(s)
  BY LenProperties
<1>2. Append(s, x) \in Seq(S) /\ Append(s, x) # <<>> /\ Len(Append(s, x)) = Len(s) + 1
      /\ \A i \in 1 .. Len(s) : Append(s, x)[i] = s[i]
      /\ Append(s, x)[Len(s) + 1] = x
  BY AppendProperties
<1>3. DOMAIN Append(s, x) = 1 .. Len(s) + 1
  <2> DEFINE t == Append(s, x)
  <2>1. t \in Seq(S) /\ Len(t) = Len(s) + 1
    BY <1>2
  <2> HIDE DEF t
  <2>2. DOMAIN t = 1 .. Len(t)
    BY <2>1, LenProperties
  <2> QED BY <2>1, <2>2 DEF t
<1> QED BY <1>1, <1>2, <1>3

LEMMA NumberIsNat ==
  ASSUME NEW S, NEW s \in Seq(S), NEW T
  PROVE  /\ IsFiniteSet({i \in DOMAIN s : s[i] \in T}) /\ Number(s, T) \in Nat
         /\ (\A i \in DOMAIN s : s[i] \notin T) => Number(s, T) = 0
         /\ Number(<<>>, T) = 0
<1> DEFINE A == {i \in DOMAIN s : s[i] \in T}
<1>1. Len(s) \in Nat /\ DOMAIN s = 1 .. Len(s)
  BY LenProperties
<1>2. IsFiniteSet(1 .. Len(s))
  BY <1>1, FS_Interval
<1>3. A \in SUBSET (1 .. Len(s))
  BY <1>1
<1>4. IsFiniteSet(A)
  BY <1>2, <1>3, FS_Subset
<1>5. Cardinality(A) \in Nat
  BY <1>4, FS_CardinalityType
<1>6. (\A i \in DOMAIN s : s[i] \notin T) => A = {}
  OBVIOUS
<1>7. {i \in DOMAIN <<>> : (<<>>)[i] \in T} = {}
  OBVIOUS
<1>8. Number(<<>>, T) = 0
  BY <1>7, FS_EmptySet DEF Number
<1> QED BY <1>4, <1>5, <1>6, <1>8, FS_EmptySet DEF Number

LEMMA NumberAppend ==
  ASSUME NEW S, NEW s \in Seq(S), NEW x \in S, NEW T
  PROVE  /\ x \in T => Number(Append(s, x), T) = Number(s, T) + 1
         /\ x \notin T => Number(Append(s, x), T) = Number(s, T)
<1> DEFINE A == {i \in DOMAIN s : s[i] \in T}
           t == Append(s, x)
           B == {i \in DOMAIN t : t[i] \in T}
           n == Len(s) + 1
<1>1. IsFiniteSet(A)
  BY NumberIsNat
<1>2. /\ DOMAIN t = DOMAIN s \union {n} /\ n \notin DOMAIN s /\ t[n] = x
      /\ \A i \in DOMAIN s : t[i] = s[i]
  BY AppendFacts
<1> HIDE DEF t, n
<1>3. x \in T => B = A \cup {n}
  BY <1>2
<1>4. x \notin T => B = A
  BY <1>2
<1>5. n \notin A
  BY <1>2
<1>6. Cardinality(A \cup {n}) = Cardinality(A) + 1
  BY <1>1, <1>5, FS_AddElement
<1>7. Number(s, T) = Cardinality(A) /\ Number(t, T) = Cardinality(B)
  BY DEF Number
<1> QED BY <1>3, <1>4, <1>6, <1>7 DEF t

LEMMA NumberTail ==
  ASSUME NEW S, NEW s \in Seq(S), s # <<>>, NEW T
  PROVE  /\ Head(s) \in T => Number(s, T) = Number(Tail(s), T) + 1
         /\ Head(s) \notin T => Number(Tail(s), T) = Number(s, T)
<1> DEFINE A == {i \in DOMAIN s : s[i] \in T}
           t == Tail(s)
           B == {i \in DOMAIN t : t[i] \in T}
           f == [i \in B |-> i + 1]
<1>1. IsFiniteSet(A)
  BY NumberIsNat
<1>2. /\ t \in Seq(S) /\ 1 \in DOMAIN s /\ Head(s) = s[1]
      /\ \A i \in DOMAIN t : i \in Nat /\ i >= 1 /\ i + 1 \in DOMAIN s /\ t[i] = s[i + 1]
      /\ \A i \in DOMAIN s : i \in Nat /\ (i # 1 => i - 1 \in DOMAIN t /\ t[i - 1] = s[i])
  BY TailFacts
<1>3. IsFiniteSet(B)
  BY <1>2, NumberIsNat
<1> HIDE DEF t
<1>4. f \in Bijection(B, A \ {1})
  <2>1. f \in [B -> A \ {1}]
    BY <1>2
  <2>2. \A i, j \in B : f[i] = f[j] => i = j
    BY <1>2
  <2>3. \A j \in A \ {1} : \E i \in B : f[i] = j
    <3> TAKE j \in A \ {1}
    <3>1. j \in DOMAIN s /\ s[j] \in T /\ j # 1
      OBVIOUS
    <3>2. j \in Nat /\ j - 1 \in DOMAIN t /\ t[j - 1] \in T
      BY <1>2, <3>1
    <3>3. j - 1 \in B /\ (j - 1) + 1 = j
      BY <3>2
    <3> QED BY <3>3
  <2> QED BY <2>1, <2>2, <2>3 DEF Bijection, Injection, Surjection, IsInjective
<1>5. ExistsBijection(B, A \ {1})
  BY <1>4 DEF ExistsBijection
<1>6. Cardinality(A \ {1}) = Cardinality(B)
  BY <1>3, <1>5, FS_Bijection
<1>7. Cardinality(A \ {1}) = IF 1 \in A THEN Cardinality(A) - 1 ELSE Cardinality(A)
  BY <1>1, FS_RemoveElement
<1>8. Cardinality(A) \in Nat
  BY <1>1, FS_CardinalityType
<1>9. Number(s, T) = Cardinality(A) /\ Number(t, T) = Cardinality(B)
  BY DEF Number
<1>10. 1 \in A <=> Head(s) \in T
  BY <1>2, Zenon
<1>11. t = Tail(s)
  BY DEF t
<1> HIDE DEF A, B
<1>12. CASE Head(s) \in T
  BY <1>6, <1>7, <1>8, <1>9, <1>10, <1>11, <1>12
<1>13. CASE Head(s) \notin T
  BY <1>6, <1>7, <1>8, <1>9, <1>10, <1>11, <1>13
<1> QED BY <1>12, <1>13

\* a message to the worker, or none, that asks for no Turn
AsksNothing ==
  \/ toWorker' \in {toWorker, <<>>}
  \/ \E m \in ParentMessage : m.type # "run" /\ toWorker' = Append(toWorker, m)
  \/ toWorker # <<>> /\ toWorker' = Tail(toWorker)

LEMMA ToWorker ==
  ASSUME TurnTypeOK, AsksNothing
  PROVE  /\ toWorker' \in Seq(ParentMessage)
         /\ (\A i \in DOMAIN toWorker : ~Asks(i)) => \A i \in DOMAIN toWorker' : ~Asks(i)'
         /\ \E k \in {0, 1} : \A i \in DOMAIN toWorker' :
              Asks(i)' => i \in Nat /\ i + k \in DOMAIN toWorker /\ Asks(i + k) /\ toWorker'[i] = toWorker[i + k]
<1>0. toWorker \in Seq(ParentMessage) /\ DOMAIN toWorker \subseteq Nat
  BY LenProperties DEF TurnTypeOK, ParentMessage
<1>1. CASE toWorker' = toWorker
  <2>1. \A i \in DOMAIN toWorker : i + 0 = i
    BY <1>0
  <2> QED BY <1>0, <1>1, <2>1 DEF Asks
<1>2. CASE toWorker' = <<>>
  BY <1>2, EmptySeq DEF Asks
<1>3. ASSUME NEW m \in ParentMessage, m.type # "run", toWorker' = Append(toWorker, m)
      PROVE  /\ toWorker' \in Seq(ParentMessage)
             /\ \A i \in DOMAIN toWorker' :
                  Asks(i)' => i \in Nat /\ i + 0 \in DOMAIN toWorker /\ Asks(i + 0) /\ toWorker'[i] = toWorker[i + 0]
  <2>1. \A i \in DOMAIN toWorker : i + 0 = i /\ i \in Nat
    BY <1>0
  <2> QED BY <1>0, <1>3, <2>1, AppendFacts DEF Asks
<1>4. CASE toWorker # <<>> /\ toWorker' = Tail(toWorker)
  <2>1. /\ toWorker' \in Seq(ParentMessage)
        /\ \A i \in DOMAIN toWorker' :
             Asks(i)' => i \in Nat /\ i + 1 \in DOMAIN toWorker /\ Asks(i + 1) /\ toWorker'[i] = toWorker[i + 1]
    BY <1>0, <1>4, TailFacts DEF Asks
  <2> QED BY <2>1
<1> QED BY <1>1, <1>2, <1>3, <1>4 DEF AsksNothing

\* the channel to the capsule
LEMMA ToParent ==
  ASSUME TurnTypeOK
  PROVE  /\ Unheard \in Nat /\ toParent \in Seq(ChildMessage)
         /\ (\A i \in DOMAIN toParent : ~Reports(i)) => Unheard = 0
         /\ toParent' = toParent => Unheard' = Unheard
<1>1. toParent \in Seq(ChildMessage)
  BY DEF TurnTypeOK, ChildMessage
<1>2. Unheard \in Nat
  BY <1>1, NumberIsNat DEF Unheard
<1>3. (\A i \in DOMAIN toParent : ~Reports(i)) => Unheard = 0
  <2> SUFFICES ASSUME \A i \in DOMAIN toParent : ~Reports(i) PROVE Unheard = 0
    OBVIOUS
  <2>1. \A i \in DOMAIN toParent : toParent[i] \notin {m \in ChildMessage : m.type = "event"}
    BY DEF Reports
  <2> QED BY <1>1, <2>1, NumberIsNat DEF Unheard
<1>4. toParent' = toParent => Unheard' = Unheard
  BY DEF Unheard
<1> QED BY <1>1, <1>2, <1>3, <1>4

LEMMA ToParentAppend ==
  ASSUME TurnTypeOK, NEW m \in ChildMessage, toParent' = Append(toParent, m)
  PROVE  /\ toParent' \in Seq(ChildMessage)
         /\ m.type = "event" => Unheard' = Unheard + 1
         /\ m.type # "event" => Unheard' = Unheard
         /\ \A i \in DOMAIN toParent' : \/ (i \in DOMAIN toParent /\ toParent'[i] = toParent[i])
                                        \/ (i = Len(toParent) + 1 /\ toParent'[i] = m)
         /\ \A i \in DOMAIN toParent : i \in Nat /\ i <= Len(toParent)
         /\ Len(toParent) \in Nat
<1>1. toParent \in Seq(ChildMessage)
  BY ToParent
<1>2. m \in {x \in ChildMessage : x.type = "event"} <=> m.type = "event"
  OBVIOUS
<1>3. Number(toParent', {x \in ChildMessage : x.type = "event"}) = Unheard'
  BY DEF Unheard
<1>4. /\ m.type = "event" => Unheard' = Unheard + 1
      /\ m.type # "event" => Unheard' = Unheard
  BY <1>1, <1>2, <1>3, NumberAppend DEF Unheard
<1> QED BY <1>1, <1>4, AppendFacts

LEMMA ToParentTail ==
  ASSUME TurnTypeOK, toParent # <<>>, toParent' = Tail(toParent)
  PROVE  /\ toParent' \in Seq(ChildMessage) /\ Head(toParent) \in ChildMessage
         /\ Head(toParent).type = "event" => Unheard = Unheard' + 1
         /\ Head(toParent).type # "event" => Unheard' = Unheard
         /\ Unheard' \in Nat
         /\ 1 \in DOMAIN toParent /\ Head(toParent) = toParent[1]
         /\ \A i \in DOMAIN toParent' : i \in Nat /\ i >= 1 /\ i + 1 \in DOMAIN toParent /\ toParent'[i] = toParent[i + 1]
<1>1. toParent \in Seq(ChildMessage)
  BY ToParent
<1>2. /\ toParent' \in Seq(ChildMessage) /\ Head(toParent) \in ChildMessage
      /\ 1 \in DOMAIN toParent /\ Head(toParent) = toParent[1]
      /\ \A i \in DOMAIN toParent' : i \in Nat /\ i >= 1 /\ i + 1 \in DOMAIN toParent /\ toParent'[i] = toParent[i + 1]
  BY <1>1, TailFacts
<1>3. Head(toParent) \in {x \in ChildMessage : x.type = "event"} <=> Head(toParent).type = "event"
  BY <1>2
<1>4. Number(toParent', {x \in ChildMessage : x.type = "event"}) = Unheard'
  BY DEF Unheard
<1>5. /\ Head(toParent).type = "event" => Unheard = Unheard' + 1
      /\ Head(toParent).type # "event" => Unheard' = Unheard
  BY <1>1, <1>3, <1>4, NumberTail DEF Unheard
<1>6. Unheard' \in Nat
  BY <1>2, <1>4, NumberIsNat
<1> QED BY <1>2, <1>5, <1>6

\* a policy
LEMMA PolicyFacts ==
  ASSUME TurnTypeOK, TurnAtHand, NEW p \in Policies, Policy(p)
  PROVE  /\ policy = None /\ active # 0 /\ policy' = p
         /\ phase' \in {phase, "cancelling"} /\ cancelAt' \in {cancelAt, "writing"} /\ AsksNothing
<1>1. turn \in 0 .. MaxTurns /\ turn # 0
  BY DEF TurnTypeOK, TurnAtHand, Policy
<1>2. [type |-> "cancel", turn |-> turn] \in ParentMessage
  BY <1>1 DEF ParentMessage
<1> QED BY <1>2 DEF Policy, Post, AsksNothing

\* how a Turn is settled
LEMMA MappedFacts ==
  ASSUME TurnTypeOK, NEW kind \in Kinds \union {None}
  PROVE  /\ Mapped(kind) \in Outcomes
         /\ Mapped(kind) = "completed" => kind = "completed" /\ ~sinkError
         /\ sinkError => Mapped(kind) = "sink"
         /\ ~sinkError /\ policy # None => Mapped(kind) = policy
<1>1. policy \in Policies \union {None} /\ sinkError \in BOOLEAN
  BY DEF TurnTypeOK
<1>2. Policies \subseteq {"cancelled", "deadline", "inactivity", "sink"} /\ "cancelled" \in Policies
  BY TurnAssumption DEF TurnAssumption
<1> QED BY <1>1, <1>2 DEF Mapped, Outcomes, Kinds, None

\* a settlement: the Turn at hand has an outcome or will have
LEMMA SettleFacts ==
  ASSUME TurnTypeOK, TurnAtHand, NEW kind \in Kinds \union {None}, SettleIf(kind)
  PROVE  /\ active' = 0 /\ outcome' \in [Turns -> Outcomes] /\ pending' \in Kinds \union {None}
         /\ phase' \in {phase, "ready"}
         /\ UNCHANGED <<turn, accepted, sinkError>> => TurnAtHand' /\ (Done' => Done \/ (Attends /\ kind = "completed"))
<1>0. /\ turn \in 0 .. MaxTurns /\ outcome \in [Turns -> Outcomes] /\ pending \in Kinds \union {None}
      /\ MaxTurns \in Nat
  BY TurnAssumption DEF TurnTypeOK, TurnAssumption
<1>1. CASE active = 0
  BY <1>0, <1>1 DEF SettleIf, TurnAtHand, Done, Attends
<1>2. CASE active # 0
  <2>1. active = turn /\ turn \in Turns /\ outcome[turn] = None /\ pending = None
    BY <1>0, <1>2 DEF TurnAtHand, Turns
  <2>2. Settle(kind)
    BY <1>2 DEF SettleIf
  <2>3. CASE phase \in {"cleaning", "closed"}
    <3>1. /\ active' = 0 /\ outcome' = [outcome EXCEPT ![turn] = Mapped(kind)] /\ phase' = phase /\ pending' = pending
      BY <2>2, <2>3 DEF Settle
    <3>2. Mapped(kind) \in Outcomes /\ (Mapped(kind) = "completed" => kind = "completed" /\ ~sinkError)
      BY MappedFacts
    <3>3. \A t \in Turns : t # turn => outcome'[t] = outcome[t]
      BY <1>0, <3>1
    <3>4. outcome'[turn] = Mapped(kind)
      BY <1>0, <2>1, <3>1
    <3>5. outcome' \in [Turns -> Outcomes]
      BY <1>0, <3>1, <3>2
    <3>6. ASSUME UNCHANGED <<turn, accepted, sinkError>> PROVE TurnAtHand'
      BY <1>0, <2>1, <3>1, <3>3, <3>6 DEF TurnAtHand, Turns
    <3>7. ASSUME UNCHANGED turn, Done' PROVE Done \/ (Attends /\ kind = "completed")
      BY <1>2, <2>1, <3>1, <3>2, <3>4, <3>7 DEF Done, Attends, None
    <3> QED BY <1>0, <1>2, <3>1, <3>5, <3>6, <3>7
  <2>4. CASE phase \notin {"cleaning", "closed"}
    <3>1. active' = 0 /\ phase' = "ready" /\ pending' = kind /\ outcome' = outcome
      BY <2>2, <2>4 DEF Settle
    <3> QED BY <1>0, <1>2, <2>1, <3>1 DEF TurnAtHand, Turns, Done, Attends
  <2> QED BY <2>3, <2>4
<1> QED BY <1>1, <1>2

-----------------------------------------------------------------------------
(* Steps that begin and end no Turn                                         *)

SaysNothing ==
  \/ toParent' = toParent
  \/ \E m \in ChildMessage : m.type \notin {"event", "terminal"} /\ toParent' = Append(toParent, m)

\* a worker at rest stays there
Still ==
  wactive = 0 /\ prompt = 0 /\ at = "idle" =>
    wactive' = 0 /\ prompt' = 0 /\ at' = "idle" /\ fence' = fence /\ (NoneLeft => NoneLeft')

LEMMA NothingSaid ==
  ASSUME TurnTypeOK, SaysNothing
  PROVE  /\ Unheard' = Unheard /\ toParent' \in Seq(ChildMessage)
         /\ \A i \in DOMAIN toParent' : Reports(i)' \/ Closes(i)' =>
              i \in DOMAIN toParent /\ toParent'[i] = toParent[i] /\ (Reports(i)' <=> Reports(i)) /\ (Closes(i)' <=> Closes(i))
<1>1. CASE toParent' = toParent
  BY <1>1, ToParent DEF Reports, Closes
<1>2. ASSUME NEW m \in ChildMessage, m.type \notin {"event", "terminal"}, toParent' = Append(toParent, m)
      PROVE  /\ Unheard' = Unheard /\ toParent' \in Seq(ChildMessage)
             /\ \A i \in DOMAIN toParent' : Reports(i)' \/ Closes(i)' =>
                  i \in DOMAIN toParent /\ toParent'[i] = toParent[i] /\ (Reports(i)' <=> Reports(i)) /\ (Closes(i)' <=> Closes(i))
  <2>1. Unheard' = Unheard /\ toParent' \in Seq(ChildMessage)
    BY <1>2, ToParentAppend
  <2>2. \A i \in DOMAIN toParent' : \/ (i \in DOMAIN toParent /\ toParent'[i] = toParent[i])
                                    \/ (i = Len(toParent) + 1 /\ toParent'[i] = m)
    BY <1>2, ToParentAppend
  <2> QED BY <1>2, <2>1, <2>2 DEF Reports, Closes
<1> QED BY <1>1, <1>2 DEF SaysNothing

LEMMA Frame ==
  ASSUME TurnInv, AsksNothing, SaysNothing, Still, UNCHANGED <<turn, accepted, sinkError>>,
         user' = "claiming" => user = "claiming", active' \in {active, 0}, Done' => Done
  PROVE  NotBegun' /\ Whole' /\ Reported'
<1>0. TurnTypeOK /\ NotBegun /\ Whole /\ Reported
  BY DEF TurnInv
<1>1. /\ Unheard' = Unheard
      /\ \A i \in DOMAIN toParent' : Reports(i)' \/ Closes(i)' =>
           i \in DOMAIN toParent /\ toParent'[i] = toParent[i] /\ (Reports(i)' <=> Reports(i)) /\ (Closes(i)' <=> Closes(i))
  BY <1>0, NothingSaid
<1>2. Quiet => Quiet' /\ fence' = fence
  BY <1>1 DEF Quiet, Still
<1>3. NotBegun'
  <2>1. PICK k \in {0, 1} : \A i \in DOMAIN toWorker' :
              Asks(i)' => i \in Nat /\ i + k \in DOMAIN toWorker /\ Asks(i + k) /\ toWorker'[i] = toWorker[i + k]
    BY <1>0, ToWorker
  <2>2. (\A i \in DOMAIN toWorker : ~Asks(i)) => \A i \in DOMAIN toWorker' : ~Asks(i)'
    BY <1>0, ToWorker
  <2>3. ASSUME user' = "claiming"
        PROVE  Quiet' /\ turn' # 0 /\ accepted'[turn'] = 0 /\ \A i \in DOMAIN toWorker' : ~Asks(i)'
    BY <1>0, <1>2, <2>2, <2>3 DEF NotBegun
  <2>4. ASSUME NEW i \in DOMAIN toWorker', Asks(i)'
        PROVE  /\ Quiet' /\ toWorker'[i].turn = turn' /\ turn' # 0 /\ accepted'[turn'] = 0
               /\ \A j \in DOMAIN toWorker' : Asks(j)' => j = i
    <3>1. i + k \in DOMAIN toWorker /\ Asks(i + k) /\ toWorker'[i] = toWorker[i + k]
      BY <2>1, <2>4
    <3>2. Quiet /\ toWorker'[i].turn = turn /\ turn # 0 /\ accepted[turn] = 0
      BY <1>0, <3>1 DEF NotBegun
    <3>3. ASSUME NEW j \in DOMAIN toWorker', Asks(j)' PROVE j = i
      <4>1. j + k = i + k /\ i \in Nat /\ j \in Nat
        BY <1>0, <2>1, <2>4, <3>1, <3>3 DEF NotBegun
      <4> QED BY <4>1
    <3> QED BY <1>2, <3>2, <3>3
  <2> QED BY <2>3, <2>4 DEF NotBegun
<1>4. Whole'
  <2>1. (\A i \in DOMAIN toWorker : ~Asks(i)) => \A i \in DOMAIN toWorker' : ~Asks(i)'
    BY <1>0, ToWorker
  <2> QED BY <1>0, <1>2, <2>1 DEF Whole
<1>5. Reported'
  <2>1. ASSUME NEW i \in DOMAIN toParent', Reports(i)' \/ Closes(i)'
        PROVE  /\ toParent'[i].turn = turn' /\ turn' # 0
               /\ Reports(i)' => toParent'[i].of = turn'
               /\ Closes(i)' =>
                    /\ wactive' = 0 /\ prompt' = 0 /\ at' = "idle"
                    /\ \A j \in DOMAIN toParent' : (Reports(j)' => j < i) /\ (Closes(j)' => j = i)
                    /\ toParent'[i].kind = "completed" => NoneLeft' /\ (Attends' => accepted'[turn'] + Unheard' = fence')
    <3>1. i \in DOMAIN toParent /\ toParent'[i] = toParent[i] /\ (Reports(i)' <=> Reports(i)) /\ (Closes(i)' <=> Closes(i))
      BY <1>1, <2>1
    <3>2. /\ toParent'[i].turn = turn' /\ turn' # 0
          /\ Reports(i)' => toParent'[i].of = turn'
      BY <1>0, <2>1, <3>1 DEF Reported
    <3>3. ASSUME Closes(i)
          PROVE  /\ wactive' = 0 /\ prompt' = 0 /\ at' = "idle"
                 /\ \A j \in DOMAIN toParent' : (Reports(j)' => j < i) /\ (Closes(j)' => j = i)
                 /\ toParent'[i].kind = "completed" => NoneLeft' /\ (Attends' => accepted'[turn'] + Unheard' = fence')
      <4>1. /\ wactive = 0 /\ prompt = 0 /\ at = "idle"
            /\ \A j \in DOMAIN toParent : (Reports(j) => j < i) /\ (Closes(j) => j = i)
            /\ toParent[i].kind = "completed" => NoneLeft /\ (Attends => accepted[turn] + Unheard = fence)
        BY <1>0, <3>1, <3>3 DEF Reported
      <4>2. wactive' = 0 /\ prompt' = 0 /\ at' = "idle" /\ fence' = fence /\ (NoneLeft => NoneLeft')
        BY <4>1 DEF Still
      <4>3. \A j \in DOMAIN toParent' : (Reports(j)' => j < i) /\ (Closes(j)' => j = i)
        BY <1>1, <4>1
      <4> QED BY <1>1, <3>1, <4>1, <4>2, <4>3 DEF Attends
    <3> QED BY <3>1, <3>2, <3>3
  <2> QED BY <2>1 DEF Reported
<1> QED BY <1>3, <1>4, <1>5

\* a step of the capsule that leaves what it hears and the worker alone
LEMMA CapsuleKeeps ==
  ASSUME TurnInv, TurnTypeOK', TurnAtHand', AsksNothing, UNCHANGED <<turn, accepted, sinkError, Inside, toParent>>,
         user' = "claiming" => user = "claiming", active' \in {active, 0}, Done' => Done
  PROVE  TurnInv'
<1>0. TurnTypeOK /\ AtTurn /\ Counted
  BY DEF TurnInv
<1>1. /\ UNCHANGED <<wactive, loop, at, pinned, processed, fence, prompt, count, reply, updates, spoken, fromAgent>>
      /\ SaysNothing /\ Still /\ Unheard' = Unheard
  BY <1>0, ToParent DEF Inside, wvars, session, transport, avars, SaysNothing, Still, NoneLeft
<1>2. NotBegun' /\ Whole' /\ Reported'
  BY <1>1, Frame
<1>3. AtTurn'
  <2>1. \A b \in Nat : Window(b) => Window(b)'
    BY <1>1 DEF Window
  <2> QED BY <1>0, <1>1, <2>1 DEF AtTurn, NoneLeft, Reports
<1>4. Counted'
  BY <1>0, <1>1 DEF Counted, Attends
<1> QED BY <1>2, <1>3, <1>4 DEF TurnInv

\* the worker's process takes with it what it had in hand
LEMMA LostKeeps ==
  ASSUME TurnInv, TurnTypeOK', TurnAtHand', Lost, SaysNothing, loop' = "gone",
         UNCHANGED <<user, turn, accepted, sinkError, pinned, processed, fence, count, spoken>>,
         active' \in {active, 0}, Done' => Done
  PROVE  TurnInv'
<1>0. TurnTypeOK /\ AtTurn /\ Counted
  BY DEF TurnInv
<1>1. AsksNothing /\ Still /\ Unheard' = Unheard
  BY <1>0, NothingSaid DEF Lost, AsksNothing, Still, NoneLeft
<1>2. NotBegun' /\ Whole' /\ Reported'
  BY <1>1, Frame
<1>3. AtTurn'
  BY DEF Lost, AtTurn
<1>4. Counted'
  <2>1. Number(fromAgent, {"update"}) \in Nat /\ Number(fromAgent', {"update"}) = 0
    BY <1>0, NumberIsNat DEF TurnTypeOK, Lost
  <2>2. count \in Nat /\ spoken \in Nat
    BY <1>0 DEF TurnTypeOK
  <2> QED BY <1>0, <1>1, <2>1, <2>2 DEF Counted, Attends, Lost
<1> QED BY <1>2, <1>3, <1>4 DEF TurnInv

-----------------------------------------------------------------------------
(* The capsule                                                              *)

Users   == {"between", "claiming", "waiting", "left"}
Phases  == {"ready", "running", "cancelling", "cleaning", "closed"}

LEMMA CapsuleTypes ==
  ASSUME TurnTypeOK, UNCHANGED <<turn, accepted, sinkError, Inside, toParent>>, user' \in Users,
         outcome' \in [Turns -> Outcomes], phase' \in Phases, active' \in {0, active, turn},
         policy' \in Policies \union {None}, sinkError' \in BOOLEAN, cancelAt' \in {"no", "writing", "grace"},
         pending' \in Kinds \union {None}, faulted' \in BOOLEAN,
         cleanup' \in {"no", "marking", "told", "done"}, toWorker' \in Seq(ParentMessage)
  PROVE  TurnTypeOK'
<1>1. turn \in 0 .. MaxTurns /\ active \in 0 .. MaxTurns /\ 0 \in 0 .. MaxTurns
  BY TurnAssumption DEF TurnTypeOK, TurnAssumption
<1> QED BY <1>1 DEF TurnTypeOK, Users, Phases, ParentMessage, Inside, wvars, session, transport, avars

LEMMA CapsuleNow ==
  ASSUME TurnTypeOK
  PROVE  /\ user \in Users /\ turn \in 0 .. MaxTurns /\ outcome \in [Turns -> Outcomes] /\ phase \in Phases
         /\ policy \in Policies \union {None} /\ sinkError \in BOOLEAN /\ cancelAt \in {"no", "writing", "grace"}
         /\ pending \in Kinds \union {None} /\ faulted \in BOOLEAN
         /\ cleanup \in {"no", "marking", "told", "done"} /\ toWorker \in Seq(ParentMessage)
         /\ (turn # 0 => turn \in Turns) /\ MaxTurns \in Nat
BY TurnAssumption DEF TurnTypeOK, Users, Phases, ParentMessage, Turns, TurnAssumption

\* a policy, as a step of the capsule
LEMMA PolicyKeeps ==
  ASSUME TurnInv, NEW p \in Policies, Policy(p), user' \in Users, user' = "claiming" => user = "claiming",
         UNCHANGED <<turn, outcome, active, pending, faulted, cleanup, accepted, sinkError, Inside, toParent>>
  PROVE  TurnInv'
<1>0. TurnTypeOK /\ TurnAtHand
  BY DEF TurnInv
<1>1. /\ policy' \in Policies /\ sinkError' \in BOOLEAN /\ phase' \in Phases /\ cancelAt' \in {"no", "writing", "grace"} /\ AsksNothing
  BY <1>0, PolicyFacts, CapsuleNow DEF Phases
<1>2. TurnTypeOK'
  BY <1>0, <1>1, CapsuleNow, ToWorker, CapsuleTypes
<1>3. TurnAtHand' /\ (Done' => Done)
  BY <1>0 DEF TurnAtHand, Done, Attends
<1> QED BY <1>1, <1>2, <1>3, CapsuleKeeps

\* a settlement, as a step of the capsule
LEMMA SettleKeeps ==
  ASSUME TurnInv, NEW kind \in Kinds \ {"completed"}, SettleIf(kind), AsksNothing,
         user' \in Users, user' = "claiming" => user = "claiming", cancelAt' \in {"no", "writing", "grace"},
         faulted' \in BOOLEAN, UNCHANGED <<turn, policy, cleanup, accepted, sinkError, Inside, toParent>>
  PROVE  TurnInv'
<1>0. TurnTypeOK /\ TurnAtHand
  BY DEF TurnInv
<1>1. /\ active' = 0 /\ outcome' \in [Turns -> Outcomes] /\ pending' \in Kinds \union {None}
      /\ phase' \in {phase, "ready"} /\ TurnAtHand' /\ (Done' => Done)
  BY <1>0, SettleFacts
<1>2. TurnTypeOK'
  BY <1>0, <1>1, CapsuleNow, ToWorker, CapsuleTypes DEF Phases
<1> QED BY <1>1, <1>2, CapsuleKeeps

LEMMA CapsuleStepKeeps ==
  ASSUME TurnInv, Settled \/ Answered \/ PolicyTakesEffect \/ Told \/ Close \/ CancelOnClose \/ TellClose
  PROVE  TurnInv'
<1>0. TurnTypeOK /\ TurnAtHand
  BY DEF TurnInv
<1>a. toWorker' = toWorker => AsksNothing
  BY DEF AsksNothing
<1>b. "lost" \in Kinds \ {"completed"}
  BY DEF Kinds
<1>1. CASE Settled
  <2>1. /\ pending # None /\ active = 0 /\ turn \in Turns /\ pending \in Kinds
    BY <1>0, <1>1, CapsuleNow DEF Settled, TurnAtHand
  <2>2. \A k \in Kinds : Mapped(k) \in Outcomes /\ (Mapped(k) = "completed" => k = "completed" /\ ~sinkError)
    BY <1>0, MappedFacts
  <2>3. PICK o \in Outcomes : /\ outcome' = [outcome EXCEPT ![turn] = o]
                              /\ (o = "completed" => pending = "completed" /\ ~sinkError)
                              /\ faulted' \in BOOLEAN
    BY <1>0, <1>1, <1>b, <2>1, <2>2, CapsuleNow DEF Settled
  <2>4. UNCHANGED <<user, turn, phase, active, policy, cancelAt, cleanup, accepted, sinkError, Inside, toWorker, toParent>>
        /\ pending' = None
    BY <1>1 DEF Settled
  <2>5. /\ outcome' \in [Turns -> Outcomes] /\ outcome'[turn] = o
        /\ \A t \in Turns : t # turn => outcome'[t] = outcome[t]
    BY <1>0, <2>1, <2>3, CapsuleNow
  <2>6. TurnTypeOK'
    BY <1>0, <2>3, <2>4, <2>5, CapsuleNow, CapsuleTypes
  <2>7. TurnAtHand'
    BY <1>0, <2>1, <2>4, <2>5, CapsuleNow DEF TurnAtHand, Turns
  <2>8. Done' => Done
    BY <2>3, <2>4, <2>5 DEF Done, Attends, None
  <2> QED BY <1>a, <2>4, <2>6, <2>7, <2>8, CapsuleKeeps
<1>2. CASE Answered
  <2>1. /\ UNCHANGED <<turn, cvars, Inside, toWorker, toParent>> /\ user' = "between" /\ outcome[turn] # None
        /\ \/ outcome' = outcome
           \/ outcome' = [outcome EXCEPT ![turn] = "deadline"]
    BY <1>2 DEF Answered
  <2>2. /\ outcome' \in [Turns -> Outcomes] /\ (outcome'[turn] = "completed" => outcome[turn] = "completed" \/ turn = 0)
        /\ \A t \in Turns : t # turn => outcome'[t] = outcome[t]
    BY <1>0, <2>1, CapsuleNow DEF Outcomes
  <2>3. TurnTypeOK'
    BY <1>0, <2>1, <2>2, CapsuleNow, CapsuleTypes DEF cvars, Users
  <2>4. TurnAtHand' /\ (Done' => Done) /\ active' = active
    BY <1>0, <2>1, <2>2, CapsuleNow DEF TurnAtHand, Turns, Done, Attends, cvars
  <2> QED BY <1>a, <2>1, <2>3, <2>4, CapsuleKeeps DEF cvars
<1>3. CASE PolicyTakesEffect
  BY <1>0, <1>3, PolicyKeeps, CapsuleNow DEF PolicyTakesEffect, uvars
<1>4. CASE Told
  <2>1. CASE Fault /\ cancelAt' = "no" /\ UNCHANGED toWorker
    BY <1>0, <1>4, <1>a, <1>b, <2>1, SettleKeeps, CapsuleNow DEF Told, Fault
  <2>2. CASE ~(Fault /\ cancelAt' = "no" /\ UNCHANGED toWorker)
    <3>1. /\ UNCHANGED <<user, turn, outcome, active, phase, policy, pending, faulted, cleanup, accepted, sinkError, Inside, toParent>>
          /\ cancelAt' \in {"no", "writing", "grace"} /\ toWorker' \in {toWorker, Post("cancel", turn)}
          /\ (toWorker' # toWorker => turn # 0)
      BY <1>0, <1>4, <2>2 DEF Told, TurnAtHand
    <3>2. turn # 0 => [type |-> "cancel", turn |-> turn] \in ParentMessage
      BY <1>0, CapsuleNow DEF ParentMessage
    <3>3. AsksNothing
      BY <3>1, <3>2 DEF AsksNothing, Post
    <3>4. TurnTypeOK'
      BY <1>0, <3>1, <3>3, CapsuleNow, ToWorker, CapsuleTypes
    <3>5. TurnAtHand' /\ (Done' => Done)
      BY <1>0, <3>1 DEF TurnAtHand, Done, Attends
    <3> QED BY <3>1, <3>3, <3>4, <3>5, CapsuleKeeps
  <2> QED BY <2>1, <2>2
<1>5. CASE Close
  <2>1. /\ UNCHANGED <<turn, outcome, active, policy, cancelAt, pending, faulted, accepted, sinkError, Inside, toWorker, toParent>>
        /\ cleanup' = "marking" /\ phase' = "cleaning" /\ user' \in {user, "left"}
    BY <1>5 DEF Close
  <2>2. TurnTypeOK'
    BY <1>0, <2>1, CapsuleNow, CapsuleTypes DEF Users, Phases
  <2>3. TurnAtHand' /\ (Done' => Done)
    BY <1>0, <2>1 DEF TurnAtHand, Done, Attends
  <2> QED BY <1>a, <2>1, <2>2, <2>3, CapsuleKeeps
<1>6. CASE CancelOnClose
  BY <1>0, <1>6, PolicyKeeps, CapsuleNow, TurnAssumption DEF CancelOnClose, uvars, TurnAssumption
<1>7. CASE TellClose
  <2>1. /\ UNCHANGED <<user, turn, outcome, phase, active, policy, cancelAt, pending, faulted, accepted, sinkError, Inside, toParent>>
        /\ cleanup' = "told" /\ toWorker' = Append(toWorker, [type |-> "close", turn |-> 0])
    BY <1>7 DEF TellClose, Post, uvars
  <2>2. [type |-> "close", turn |-> 0] \in ParentMessage
    BY <1>0, CapsuleNow DEF ParentMessage
  <2>3. AsksNothing
    BY <2>1, <2>2 DEF AsksNothing
  <2>4. TurnTypeOK'
    BY <1>0, <2>1, <2>3, CapsuleNow, ToWorker, CapsuleTypes
  <2>5. TurnAtHand' /\ (Done' => Done)
    BY <1>0, <2>1 DEF TurnAtHand, Done, Attends
  <2> QED BY <2>1, <2>3, <2>4, <2>5, CapsuleKeeps
<1> QED BY <1>1, <1>2, <1>3, <1>4, <1>5, <1>6, <1>7

LEMMA ExitKeeps ==
  ASSUME TurnInv, ExitSeen
  PROVE  TurnInv'
<1>0. TurnTypeOK /\ TurnAtHand
  BY DEF TurnInv
<1>1. /\ UNCHANGED <<user, turn, policy, cancelAt, pending, faulted, cleanup, accepted, sinkError, Inside, toWorker, toParent>>
      /\ phase' = "closed"
  BY DEF ExitSeen
<1>2. Mapped("lost") \in Outcomes /\ Mapped("lost") # "completed"
  BY <1>0, MappedFacts DEF Kinds
<1>3. CASE active = 0
  <2>1. active' = active /\ outcome' = outcome
    BY <1>3 DEF ExitSeen
  <2>2. TurnTypeOK' /\ TurnAtHand' /\ (Done' => Done)
    BY <1>0, <1>1, <2>1, CapsuleNow, CapsuleTypes DEF Phases, TurnAtHand, Done, Attends
  <2> QED BY <1>1, <2>1, <2>2, CapsuleKeeps DEF AsksNothing
<1>4. CASE active # 0
  <2>1. active' = 0 /\ outcome' = [outcome EXCEPT ![turn] = Mapped("lost")] /\ turn \in Turns /\ pending = None
    BY <1>0, <1>4, CapsuleNow DEF ExitSeen, TurnAtHand
  <2>2. /\ outcome' \in [Turns -> Outcomes] /\ outcome'[turn] = Mapped("lost")
        /\ \A t \in Turns : t # turn => outcome'[t] = outcome[t]
    BY <1>0, <1>2, <2>1, CapsuleNow
  <2>3. TurnTypeOK'
    BY <1>0, <1>1, <2>1, <2>2, CapsuleNow, CapsuleTypes DEF Phases
  <2>4. TurnAtHand' /\ (Done' => Done)
    BY <1>0, <1>1, <1>2, <2>1, <2>2, CapsuleNow DEF TurnAtHand, Done, Attends, Turns
  <2> QED BY <1>1, <2>1, <2>3, <2>4, CapsuleKeeps DEF AsksNothing
<1> QED BY <1>3, <1>4

LEMMA StopTreeKeeps ==
  ASSUME TurnInv, StopTree
  PROVE  TurnInv'
<1>0. TurnTypeOK /\ TurnAtHand
  BY DEF TurnInv
<1>1. /\ UNCHANGED <<user, turn, policy, cancelAt, faulted, accepted, sinkError, pinned, processed, fence, count, spoken, toParent>>
      /\ cleanup' = "done" /\ SettleIf("lost")
  BY DEF StopTree
<1>2. "lost" \in Kinds
  BY DEF Kinds
<1>3. /\ active' = 0 /\ outcome' \in [Turns -> Outcomes] /\ pending' \in Kinds \union {None}
      /\ phase' \in {phase, "ready"} /\ TurnAtHand' /\ (Done' => Done)
  BY <1>0, <1>1, <1>2, SettleFacts
<1>4. CASE UNCHANGED <<loop, wactive, at, prompt, reply, updates, provider, toWorker, fromAgent>>
  <2>1. UNCHANGED Inside
    BY <1>1, <1>4 DEF Inside, wvars, session, transport, avars
  <2>2. TurnTypeOK'
    BY <1>0, <1>1, <1>3, <1>4, <2>1, CapsuleNow, CapsuleTypes DEF Phases
  <2> QED BY <1>1, <1>3, <1>4, <2>1, <2>2, CapsuleKeeps DEF AsksNothing
<1>5. CASE loop' = "gone" /\ Lost /\ provider' = "gone"
  <2>1. /\ wactive' = 0 /\ at' = "idle" /\ prompt' = 0 /\ reply' = None
        /\ updates' = <<>> /\ toWorker' = <<>> /\ fromAgent' = <<>>
    BY <1>5 DEF Lost
  <2>2. 0 \in 0 .. MaxTurns /\ active \in 0 .. MaxTurns
    BY <1>0, TurnAssumption DEF TurnTypeOK, TurnAssumption
  <2>3. /\ updates' \in Seq([of : 0 .. MaxTurns, seq : 0 .. MaxUpdates])
        /\ toWorker' \in Seq(ParentMessage)
        /\ fromAgent' \in Seq({"update", "completed", "stopped", "error"})
    BY <2>1, EmptySeq
  <2>4. phase' \in {"ready", "running", "cancelling", "cleaning", "closed"}
    BY <1>0, <1>3 DEF TurnTypeOK
  <2>5. TurnTypeOK'
    BY <1>0, <1>1, <1>3, <1>5, <2>1, <2>2, <2>3, <2>4 DEF TurnTypeOK
  <2> QED BY <1>1, <1>3, <1>5, <2>5, LostKeeps DEF SaysNothing
<1> QED BY <1>4, <1>5 DEF StopTree

LEMMA DispatchKeeps ==
  ASSUME TurnInv, Dispatch
  PROVE  TurnInv'
<1>0. /\ TurnTypeOK /\ TurnAtHand /\ NotBegun /\ Whole /\ AtTurn /\ Reported /\ Counted
      /\ user = "claiming" /\ user' = "waiting" /\ UNCHANGED <<turn, cleanup, accepted, sinkError, Inside, toParent>>
      /\ user' \in Users
  BY DEF TurnInv, Dispatch, Users
<1>1. CASE Policy("cancelled") /\ UNCHANGED <<active, outcome, pending, faulted>>
  BY <1>0, <1>1, PolicyKeeps, TurnAssumption DEF TurnAssumption
<1>2. CASE Fault /\ UNCHANGED <<policy, cancelAt, toWorker>>
  <2>1. "lost" \in Kinds \ {"completed"} /\ AsksNothing
    BY <1>2 DEF Kinds, AsksNothing
  <2> QED BY <1>0, <1>2, <2>1, SettleKeeps, CapsuleNow DEF Fault
<1>3. CASE /\ toWorker' = IF active = turn /\ policy = None THEN Post("run", turn) ELSE toWorker
           /\ UNCHANGED <<active, outcome, phase, policy, cancelAt, pending, faulted>>
  <2>1. TurnAtHand' /\ (Done' <=> Done)
    BY <1>0, <1>3 DEF TurnAtHand, Done, Attends
  <2>2. CASE toWorker' = toWorker
    <3>1. TurnTypeOK'
      BY <1>0, <1>3, <2>2, CapsuleNow, CapsuleTypes
    <3> QED BY <1>0, <1>3, <2>1, <2>2, <3>1, CapsuleKeeps DEF AsksNothing
  <2>3. CASE active = turn /\ toWorker' = Append(toWorker, [type |-> "run", turn |-> turn])
    <3> DEFINE m == [type |-> "run", turn |-> turn]
    <3>1. m \in ParentMessage /\ toWorker \in Seq(ParentMessage)
      BY <1>0, CapsuleNow DEF ParentMessage, NotBegun
    <3>2. /\ toWorker' \in Seq(ParentMessage)
          /\ \A i \in DOMAIN toWorker' : \/ (i \in DOMAIN toWorker /\ toWorker'[i] = toWorker[i])
                                         \/ (i = Len(toWorker) + 1 /\ toWorker'[i] = m)
      BY <2>3, <3>1, AppendFacts
    <3>3. TurnTypeOK'
      BY <1>0, <1>3, <3>2, CapsuleNow, CapsuleTypes
    <3>4. Quiet /\ turn # 0 /\ accepted[turn] = 0 /\ \A i \in DOMAIN toWorker : ~Asks(i)
      BY <1>0 DEF NotBegun
    <3>5. /\ UNCHANGED <<wactive, loop, at, pinned, processed, fence, prompt, count, reply, updates, spoken, fromAgent>>
          /\ Unheard' = Unheard /\ Quiet'
      BY <1>0, <3>4, ToParent DEF Inside, wvars, session, transport, avars, Quiet, NoneLeft, Reports, Closes
    <3>6. \A i \in DOMAIN toWorker' : Asks(i)' => i = Len(toWorker) + 1 /\ toWorker'[i] = m
      BY <3>2, <3>4 DEF Asks
    <3>7. NotBegun'
      BY <1>0, <3>4, <3>5, <3>6 DEF NotBegun
    <3>8. Whole'
      BY <1>0, <2>1, <2>3, <3>4 DEF TurnAtHand, Done, Attends, Whole, None
    <3>9. AtTurn'
      <4>1. \A b \in Nat : Window(b) => Window(b)'
        BY <3>5 DEF Window
      <4> QED BY <1>0, <3>5, <4>1 DEF AtTurn, NoneLeft, Reports
    <3>10. Reported'
      BY <1>0, <1>3, <3>5 DEF Reported, Reports, Closes, NoneLeft, Attends
    <3>11. Counted'
      BY <1>0, <1>3, <3>5 DEF Counted, Attends
    <3> QED BY <2>1, <3>3, <3>7, <3>8, <3>9, <3>10, <3>11 DEF TurnInv
  <2> QED BY <1>3, <2>2, <2>3 DEF Post
<1> QED BY <1>1, <1>2, <1>3 DEF Dispatch

LEMMA ClaimKeeps ==
  ASSUME TurnInv, Claim
  PROVE  TurnInv'
<1>0. /\ TurnTypeOK /\ TurnAtHand /\ NotBegun /\ Whole /\ AtTurn /\ Reported /\ Counted
      /\ turn < MaxTurns /\ turn' = turn + 1
      /\ UNCHANGED <<pending, faulted, cleanup, accepted, Inside, toWorker, toParent>>
  BY DEF TurnInv, Claim
<1>1. turn \in Nat /\ MaxTurns \in Nat /\ turn' \in Turns /\ turn' # 0 /\ turn' > turn /\ turn' # turn
  BY <1>0, TurnAssumption DEF TurnTypeOK, Turns, TurnAssumption
<1>2. Done /\ active = 0 /\ pending = None
  <2>1. turn = 0 \/ outcome[turn] = "completed"
    BY <1>0, <1>1 DEF Claim
  <2> QED BY <1>0, <2>1 DEF Done, Attends, TurnAtHand, None
<1>3. Quiet /\ \A i \in DOMAIN toWorker : ~Asks(i)
  BY <1>0, <1>2 DEF Whole
<1>4. accepted[turn'] = 0 /\ outcome[turn'] = None
  BY <1>0, <1>1 DEF TurnAtHand
<1>5. /\ user' \in {"claiming", "waiting"} /\ active' \in {0, turn'} /\ phase' \in {phase, "running"}
      /\ policy' \in {policy, None} /\ sinkError' \in {sinkError, FALSE} /\ cancelAt' \in {cancelAt, "no"}
      /\ \/ outcome' = outcome
         \/ active' = 0 /\ outcome' = [outcome EXCEPT ![turn'] = "lost"]
  BY <1>0, <1>2 DEF Claim
<1>6. /\ outcome' \in [Turns -> Outcomes] /\ (active' # 0 => outcome'[turn'] = None)
      /\ outcome'[turn'] # "completed" /\ \A t \in Turns : t # turn' => outcome'[t] = outcome[t]
  BY <1>0, <1>1, <1>4, <1>5, CapsuleNow DEF Outcomes, None
<1>7. TurnTypeOK'
  <2>1. turn' \in 0 .. MaxTurns /\ active' \in 0 .. MaxTurns
    BY <1>1, <1>5 DEF Turns
  <2>2. sinkError' \in BOOLEAN
    BY <1>0, <1>5, CapsuleNow
  <2> QED BY <1>0, <1>5, <1>6, <2>1, <2>2 DEF TurnTypeOK, Inside, wvars, session, transport, avars
<1>8. TurnAtHand'
  BY <1>0, <1>1, <1>2, <1>5, <1>6 DEF TurnAtHand, Turns
<1>9. /\ UNCHANGED <<wactive, loop, at, pinned, processed, fence, prompt, count, reply, updates, spoken, fromAgent>>
      /\ Unheard' = Unheard /\ Unheard = 0 /\ Quiet' /\ \A i \in DOMAIN toWorker' : ~Asks(i)'
  BY <1>0, <1>3, ToParent DEF Inside, wvars, session, transport, avars, Quiet, NoneLeft, Reports, Closes, Asks
<1>10. NotBegun' /\ Whole' /\ Reported'
  BY <1>0, <1>1, <1>2, <1>4, <1>6, <1>9 DEF NotBegun, Whole, Reported, Done, Attends, None, Quiet
<1>11. AtTurn'
  BY <1>0, <1>3, <1>9 DEF AtTurn, Quiet
<1>12. Counted'
  <2>1. processed \in Nat
    BY <1>0 DEF TurnTypeOK
  <2> QED BY <1>0, <1>3, <1>4, <1>9, <2>1 DEF Counted, Attends, Quiet
<1> QED BY <1>7, <1>8, <1>10, <1>11, <1>12 DEF TurnInv

-----------------------------------------------------------------------------
(* What the capsule hears                                                   *)

\* the numbers of the Turn
LEMMA Numbers ==
  ASSUME TurnTypeOK
  PROVE  /\ processed \in Nat /\ fence \in Nat /\ count \in Nat /\ spoken \in Nat /\ MaxUpdates \in Nat
         /\ MaxTurns \in Nat /\ turn \in Nat /\ wactive \in Nat /\ prompt \in Nat
         /\ (turn # 0 => accepted[turn] \in Nat)
<1>1. MaxUpdates \in Nat /\ MaxTurns \in Nat
  BY TurnAssumption DEF TurnAssumption
<1>2. /\ processed \in 0 .. MaxUpdates /\ fence \in 0 .. MaxUpdates /\ count \in 0 .. MaxUpdates
      /\ spoken \in 0 .. MaxUpdates /\ turn \in 0 .. MaxTurns /\ wactive \in 0 .. MaxTurns /\ prompt \in 0 .. MaxTurns
      /\ accepted \in [1 .. MaxTurns -> 0 .. MaxUpdates]
  BY DEF TurnTypeOK, Turns
<1> QED BY <1>1, <1>2

\* what is read was counted, or the Turn is settled
LEMMA HeardOrSettled ==
  ASSUME NEW a \in Nat, NEW b, NEW u \in Nat, NEW v \in Nat, NEW event \in BOOLEAN, NEW over \in BOOLEAN,
         event => u = v + 1, ~event => v = u,
         (b = a /\ (~event \/ over)) \/ (event /\ b = a + 1)
  PROVE  b + v <= a + u /\ (~over => b + v = a + u)
OBVIOUS

LEMMA HearKeeps ==
  ASSUME TurnInv, TurnTypeOK', TurnAtHand', toParent # <<>>, toParent' = Tail(toParent), AsksNothing,
         UNCHANGED <<user, turn, Inside>>, active' \in {active, 0},
         sinkError => sinkError',
         \/ accepted' = accepted /\ (Head(toParent).type # "event" \/ ~Attends')
         \/ Head(toParent).type = "event" /\ accepted'[turn] = accepted[turn] + 1,
         Done' => Done \/ (Head(toParent).type = "terminal" /\ Head(toParent).kind = "completed" /\ Attends)
  PROVE  TurnInv'
<1>0. TurnTypeOK /\ TurnAtHand /\ NotBegun /\ Whole /\ AtTurn /\ Reported /\ Counted
  BY DEF TurnInv
<1>1. UNCHANGED <<wactive, loop, at, pinned, processed, fence, prompt, count, reply, updates, spoken, fromAgent>>
  BY DEF Inside, wvars, session, transport, avars
<1>2. /\ 1 \in DOMAIN toParent /\ Head(toParent) = toParent[1] /\ Unheard \in Nat /\ Unheard' \in Nat
      /\ Head(toParent).type = "event" => Unheard = Unheard' + 1
      /\ Head(toParent).type # "event" => Unheard' = Unheard
      /\ \A i \in DOMAIN toParent' : i \in Nat /\ i >= 1 /\ i + 1 \in DOMAIN toParent /\ toParent'[i] = toParent[i + 1]
      /\ \A i \in DOMAIN toParent' : (Reports(i)' <=> Reports(i + 1)) /\ (Closes(i)' <=> Closes(i + 1))
  BY <1>0, ToParent, ToParentTail DEF Reports, Closes
<1>3. /\ turn # 0 => accepted[turn] \in Nat
      /\ processed \in Nat /\ fence \in Nat
  BY <1>0, Numbers
<1>4. /\ turn # 0 => accepted'[turn] + Unheard' <= accepted[turn] + Unheard
      /\ turn # 0 /\ Attends' => accepted'[turn] + Unheard' = accepted[turn] + Unheard
  <2> SUFFICES ASSUME turn # 0
               PROVE  /\ accepted'[turn] + Unheard' <= accepted[turn] + Unheard
                      /\ Attends' => accepted'[turn] + Unheard' = accepted[turn] + Unheard
    OBVIOUS
  <2> DEFINE a == accepted[turn]
             b == accepted'[turn]
             u == Unheard
             v == Unheard'
             event == Head(toParent).type = "event"
             over == ~Attends'
  <2>1. /\ a \in Nat /\ u \in Nat /\ v \in Nat /\ event \in BOOLEAN /\ over \in BOOLEAN
        /\ (event => u = v + 1) /\ (~event => v = u)
    BY <1>2, <1>3
  <2>2. (b = a /\ (~event \/ over)) \/ (event /\ b = a + 1)
    OBVIOUS
  <2> HIDE DEF a, b, u, v, event, over
  <2>3. b + v <= a + u /\ (~over => b + v = a + u)
    BY <2>1, <2>2, HeardOrSettled
  <2> QED BY <2>3 DEF a, b, u, v, over
<1>5. Quiet => Quiet' /\ accepted' = accepted
  BY <1>1, <1>2 DEF Quiet, NoneLeft, Reports
<1>6. PICK k \in {0, 1} : \A i \in DOMAIN toWorker' :
              Asks(i)' => i \in Nat /\ i + k \in DOMAIN toWorker /\ Asks(i + k) /\ toWorker'[i] = toWorker[i + k]
  BY <1>0, ToWorker
<1>7. (\A i \in DOMAIN toWorker : ~Asks(i)) => \A i \in DOMAIN toWorker' : ~Asks(i)'
  BY <1>0, ToWorker
<1>8. NotBegun'
  <2>1. ASSUME user' = "claiming"
        PROVE  Quiet' /\ turn' # 0 /\ accepted'[turn'] = 0 /\ \A i \in DOMAIN toWorker' : ~Asks(i)'
    BY <1>0, <1>5, <1>7, <2>1 DEF NotBegun
  <2>2. ASSUME NEW i \in DOMAIN toWorker', Asks(i)'
        PROVE  /\ Quiet' /\ toWorker'[i].turn = turn' /\ turn' # 0 /\ accepted'[turn'] = 0
               /\ \A j \in DOMAIN toWorker' : Asks(j)' => j = i
    <3>1. i + k \in DOMAIN toWorker /\ Asks(i + k) /\ toWorker'[i] = toWorker[i + k] /\ i \in Nat
      BY <1>6, <2>2
    <3>2. Quiet /\ toWorker'[i].turn = turn /\ turn # 0 /\ accepted[turn] = 0
      BY <1>0, <3>1 DEF NotBegun
    <3>3. ASSUME NEW j \in DOMAIN toWorker', Asks(j)' PROVE j = i
      <4>1. j + k = i + k /\ j \in Nat
        BY <1>0, <1>6, <3>1, <3>3 DEF NotBegun
      <4> QED BY <3>1, <4>1
    <3> QED BY <1>5, <3>2, <3>3
  <2> QED BY <2>1, <2>2 DEF NotBegun
<1>9. Whole'
  <2>1. CASE Done
    BY <1>0, <1>1, <1>5, <1>7, <2>1 DEF Whole
  <2>2. CASE Head(toParent).type = "terminal" /\ Head(toParent).kind = "completed" /\ Attends
    <3>1. Closes(1) /\ toParent[1].kind = "completed"
      BY <1>2, <2>2 DEF Closes
    <3>2. /\ wactive = 0 /\ prompt = 0 /\ at = "idle" /\ NoneLeft /\ accepted[turn] + Unheard = fence
          /\ \A j \in DOMAIN toParent : (Reports(j) => j < 1) /\ (Closes(j) => j = 1) /\ turn # 0
      BY <1>0, <1>2, <2>2, <3>1 DEF Reported
    <3>3. \A j \in DOMAIN toParent : j \in Nat /\ j >= 1
      BY <1>0, ToParent, LenProperties
    <3>4. \A j \in DOMAIN toParent : ~Reports(j)
      BY <3>2, <3>3
    <3>5. Unheard = 0 /\ accepted' = accepted
      BY <1>0, <2>2, <3>4, ToParent
    <3>6. Quiet'
      BY <1>1, <1>2, <3>2, <3>4 DEF Quiet, NoneLeft
    <3>7. \A i \in DOMAIN toWorker : ~Asks(i)
      BY <1>0, <1>2, <3>1 DEF NotBegun, Quiet
    <3> QED BY <1>1, <1>3, <1>7, <3>2, <3>5, <3>6, <3>7 DEF Whole
  <2> QED BY <2>1, <2>2 DEF Whole
<1>10. AtTurn'
  <2>1. \A b \in Nat : Window(b) => Window(b)'
    BY <1>1 DEF Window
  <2>2. at = "saving" => accepted' = accepted /\ \A i \in DOMAIN toParent' : ~Reports(i)'
    BY <1>0, <1>2 DEF AtTurn, Reports
  <2> QED BY <1>0, <1>1, <2>1, <2>2 DEF AtTurn, NoneLeft
<1>11. Reported'
  <2> SUFFICES ASSUME NEW i \in DOMAIN toParent', Reports(i)' \/ Closes(i)'
               PROVE  /\ toParent'[i].turn = turn' /\ turn' # 0
                      /\ Reports(i)' => toParent'[i].of = turn'
                      /\ Closes(i)' =>
                           /\ wactive' = 0 /\ prompt' = 0 /\ at' = "idle"
                           /\ \A j \in DOMAIN toParent' : (Reports(j)' => j < i) /\ (Closes(j)' => j = i)
                           /\ toParent'[i].kind = "completed" =>
                                NoneLeft' /\ (Attends' => accepted'[turn'] + Unheard' = fence')
    BY DEF Reported
  <2>1. i \in Nat /\ i + 1 \in DOMAIN toParent /\ toParent'[i] = toParent[i + 1]
        /\ (Reports(i)' <=> Reports(i + 1)) /\ (Closes(i)' <=> Closes(i + 1))
    BY <1>2
  <2>2. toParent'[i].turn = turn' /\ turn' # 0 /\ (Reports(i)' => toParent'[i].of = turn')
    BY <1>0, <2>1 DEF Reported
  <2>3. ASSUME Closes(i)'
        PROVE  /\ wactive' = 0 /\ prompt' = 0 /\ at' = "idle"
               /\ \A j \in DOMAIN toParent' : (Reports(j)' => j < i) /\ (Closes(j)' => j = i)
               /\ toParent'[i].kind = "completed" =>
                    NoneLeft' /\ (Attends' => accepted'[turn'] + Unheard' = fence')
    <3>1. /\ wactive = 0 /\ prompt = 0 /\ at = "idle"
          /\ \A j \in DOMAIN toParent : (Reports(j) => j < i + 1) /\ (Closes(j) => j = i + 1)
          /\ toParent'[i].kind = "completed" => NoneLeft /\ (Attends => accepted[turn] + Unheard = fence)
      BY <1>0, <2>1, <2>3 DEF Reported
    <3>2. \A j \in DOMAIN toParent' : (Reports(j)' => j < i) /\ (Closes(j)' => j = i)
      <4> TAKE j \in DOMAIN toParent'
      <4>1. /\ j \in Nat /\ (Reports(j)' => j + 1 < i + 1) /\ (Closes(j)' => j + 1 = i + 1)
        BY <1>2, <3>1
      <4> QED BY <2>1, <4>1
    <3>3. toParent'[i].kind = "completed" => NoneLeft' /\ (Attends' => accepted'[turn'] + Unheard' = fence')
      BY <1>1, <1>4, <2>2, <3>1 DEF NoneLeft, Attends
    <3> QED BY <1>1, <3>1, <3>2, <3>3
  <2> QED BY <2>2, <2>3
<1>12. Counted'
  <2>1. turn # 0 => accepted'[turn] + Unheard' <= processed
    <3> SUFFICES ASSUME turn # 0 PROVE accepted'[turn] + Unheard' <= processed
      OBVIOUS
    <3>1. accepted[turn] + Unheard <= processed /\ accepted[turn] + Unheard \in Nat /\ processed \in Nat
      BY <1>0, <1>2, <1>3 DEF Counted, Attends
    <3>2. accepted'[turn] + Unheard' <= accepted[turn] + Unheard /\ accepted'[turn] + Unheard' \in Int
      BY <1>2, <1>3, <1>4
    <3> QED BY <3>1, <3>2
  <2>2. at \in {"prompt", "fence"} /\ Attends' => accepted'[turn] + Unheard' = processed
    BY <1>0, <1>4 DEF Counted, Attends, TurnAtHand
  <2> QED BY <1>0, <1>1, <2>1, <2>2 DEF Counted, Attends
<1> QED BY <1>8, <1>9, <1>10, <1>11, <1>12 DEF TurnInv

LEMMA HearTypes ==
  ASSUME TurnTypeOK, UNCHANGED <<user, turn, cleanup, Inside>>, toParent # <<>>, toParent' = Tail(toParent),
         outcome' \in [Turns -> Outcomes], phase' \in Phases, active' \in {active, 0},
         policy' \in Policies \union {None}, sinkError' \in BOOLEAN, cancelAt' \in {"no", "writing", "grace"},
         pending' \in Kinds \union {None}, faulted' \in BOOLEAN,
         accepted' \in [Turns -> 0 .. MaxUpdates], toWorker' \in Seq(ParentMessage)
  PROVE  TurnTypeOK'
<1>1. active \in 0 .. MaxTurns /\ 0 \in 0 .. MaxTurns
  BY TurnAssumption DEF TurnTypeOK, TurnAssumption
<1>2. toParent' \in Seq(ChildMessage)
  BY ToParentTail
<1>3. /\ UNCHANGED <<loop, wactive, at, pinned, processed, fence, prompt, count, reply, updates, provider, spoken, fromAgent>>
      /\ user' = user /\ turn' = turn /\ cleanup' = cleanup
  BY DEF Inside, wvars, session, transport, avars
<1>4. /\ user' \in {"between", "claiming", "waiting", "left"} /\ turn' \in 0 .. MaxTurns
      /\ phase' \in {"ready", "running", "cancelling", "cleaning", "closed"} /\ active' \in 0 .. MaxTurns
      /\ cleanup' \in {"no", "marking", "told", "done"}
  BY <1>1, <1>3 DEF TurnTypeOK, Phases
<1>5. /\ loop' \in {"listening", "interrupting", "closing", "gone"} /\ wactive' \in 0 .. MaxTurns
      /\ at' \in {"idle", "saving", "prompt", "fence"}
      /\ pinned' \in 0 .. MaxTurns /\ processed' \in 0 .. MaxUpdates /\ fence' \in 0 .. MaxUpdates
      /\ prompt' \in 0 .. MaxTurns /\ count' \in 0 .. MaxUpdates
      /\ reply' \in {None, "completed", "stopped", "error"}
      /\ updates' \in Seq([of : 0 .. MaxTurns, seq : 0 .. MaxUpdates])
      /\ provider' \in {"idle", "busy", "gone"} /\ spoken' \in 0 .. MaxUpdates
      /\ fromAgent' \in Seq({"update", "completed", "stopped", "error"})
  BY <1>3 DEF TurnTypeOK
<1> QED BY <1>2, <1>4, <1>5 DEF TurnTypeOK

LEMMA EventKeeps ==
  ASSUME TurnInv, Event
  PROVE  TurnInv'
<1>0. TurnTypeOK /\ TurnAtHand /\ Counted
  BY DEF TurnInv
<1>1. /\ toParent # <<>> /\ toParent' = Tail(toParent) /\ Head(toParent).type = "event" /\ active # 0
      /\ UNCHANGED <<user, turn, outcome, active, pending, faulted, cleanup, Inside>>
  BY DEF Event, Receive, Listening, Stray, uvars
<1>2. turn \in Turns /\ turn # 0 /\ accepted \in [Turns -> 0 .. MaxUpdates]
  BY <1>0, <1>1, CapsuleNow DEF TurnAtHand, TurnTypeOK
<1>3. accepted[turn] + 1 \in 0 .. MaxUpdates
  <2>1. accepted[turn] \in Nat /\ processed \in 0 .. MaxUpdates /\ MaxUpdates \in Nat
    BY <1>0, <1>2, Numbers DEF TurnTypeOK
  <2>2. Unheard \in Nat /\ Unheard' \in Nat /\ Unheard = Unheard' + 1
    BY <1>0, <1>1, ToParent, ToParentTail
  <2>3. accepted[turn] + Unheard <= processed
    BY <1>0, <1>2 DEF Counted
  <2> QED BY <2>1, <2>2, <2>3
<1>4. /\ sinkError' \in BOOLEAN /\ (sinkError => sinkError')
      /\ \/ accepted' = accepted /\ sinkError'
         \/ accepted' = [accepted EXCEPT ![turn] = @ + 1]
  <2>1. CASE UNCHANGED <<policy, sinkError, phase, cancelAt, toWorker>>
                /\ accepted' = IF sinkError THEN accepted ELSE [accepted EXCEPT ![turn] = @ + 1]
    BY <1>0, <2>1, CapsuleNow
  <2>2. CASE ~sinkError /\ sinkError' = TRUE /\ UNCHANGED accepted
    BY <2>2
  <2> QED BY <2>1, <2>2 DEF Event
<1>5. /\ accepted' \in [Turns -> 0 .. MaxUpdates]
      /\ (accepted' = accepted /\ sinkError') \/ accepted'[turn] = accepted[turn] + 1
      /\ \A t \in Turns : t # turn => accepted'[t] = accepted[t]
  BY <1>2, <1>3, <1>4
<1>6. /\ policy' \in Policies \union {None} /\ phase' \in Phases /\ cancelAt' \in {"no", "writing", "grace"} /\ AsksNothing
  <2>1. CASE UNCHANGED <<policy, phase, cancelAt, toWorker>>
    BY <1>0, <2>1, CapsuleNow DEF AsksNothing
  <2>2. CASE "sink" \in Policies /\ Policy("sink")
    BY <1>0, <2>2, CapsuleNow, PolicyFacts DEF Phases
  <2> QED BY <2>1, <2>2 DEF Event
<1>7. TurnTypeOK'
  BY <1>0, <1>1, <1>4, <1>5, <1>6, CapsuleNow, ToWorker, HearTypes
<1>8. TurnAtHand' /\ (Done' => Done)
  BY <1>0, <1>1, <1>2, <1>4, <1>5, CapsuleNow DEF TurnAtHand, Done, Turns
<1>9. \/ accepted' = accepted /\ (Head(toParent).type # "event" \/ ~Attends')
      \/ Head(toParent).type = "event" /\ accepted'[turn] = accepted[turn] + 1
  BY <1>1, <1>5 DEF Attends
<1> QED BY <1>1, <1>4, <1>6, <1>7, <1>8, <1>9, HearKeeps

\* a message that settles the Turn there is, if there is one
LEMMA HearSettles ==
  ASSUME TurnInv, NEW kind \in Kinds \union {None}, SettleIf(kind), toParent # <<>>, toParent' = Tail(toParent),
         UNCHANGED <<user, turn, policy, cancelAt, cleanup, accepted, sinkError, Inside, toWorker>>, faulted' \in BOOLEAN,
         kind = "completed" /\ Attends => Head(toParent).type = "terminal" /\ Head(toParent).kind = kind
  PROVE  TurnInv'
<1>0. TurnTypeOK /\ TurnAtHand
  BY DEF TurnInv
<1>1. /\ active' = 0 /\ outcome' \in [Turns -> Outcomes] /\ pending' \in Kinds \union {None}
      /\ phase' \in {phase, "ready"} /\ TurnAtHand' /\ (Done' => Done \/ (Attends /\ kind = "completed"))
  BY <1>0, SettleFacts
<1>2. TurnTypeOK' /\ AsksNothing
  <2>1. phase' \in Phases /\ toWorker' \in Seq(ParentMessage) /\ accepted' \in [Turns -> 0 .. MaxUpdates]
    BY <1>0, <1>1, CapsuleNow DEF Phases, TurnTypeOK
  <2>2. policy' \in Policies \union {None} /\ sinkError' \in BOOLEAN /\ cancelAt' \in {"no", "writing", "grace"}
    BY <1>0, CapsuleNow
  <2> QED BY <1>0, <1>1, <2>1, <2>2, HearTypes DEF AsksNothing
<1>3. ~Attends'
  BY <1>1 DEF Attends
<1> QED BY <1>1, <1>2, <1>3, HearKeeps

LEMMA ReceiveKeeps ==
  ASSUME TurnInv, Terminal \/ OutOfTurn \/ Failed \/ WorkerCloses
  PROVE  TurnInv'
<1>0. TurnTypeOK /\ TurnAtHand /\ Reported
  BY DEF TurnInv
<1>a. /\ toParent # <<>> /\ toParent' = Tail(toParent)
      /\ UNCHANGED <<user, turn, policy, cancelAt, cleanup, accepted, sinkError, Inside, toWorker>>
  BY DEF Terminal, OutOfTurn, Failed, WorkerCloses, Receive, Listening, uvars
<1>b. /\ Head(toParent) \in ChildMessage /\ 1 \in DOMAIN toParent /\ Head(toParent) = toParent[1]
      /\ faulted \in BOOLEAN /\ "lost" \in Kinds /\ "lost" # "completed"
  BY <1>0, <1>a, ToParentTail, CapsuleNow DEF Kinds
<1>1. CASE Terminal
  <2>1. /\ SettleIf(Head(toParent).kind) /\ Head(toParent).kind \in Kinds \union {None}
        /\ Head(toParent).type = "terminal" /\ faulted' = faulted
    BY <1>1, <1>b DEF Terminal, Receive, Stray, SettleIf, ChildMessage
  <2> QED BY <1>a, <1>b, <2>1, HearSettles
<1>2. CASE OutOfTurn
  BY <1>2, <1>a, <1>b, HearSettles DEF OutOfTurn, Fault
<1>3. CASE Failed
  BY <1>3, <1>a, <1>b, HearSettles DEF Failed
<1>4. CASE WorkerCloses
  <2>1. /\ UNCHANGED <<user, turn, outcome, active, policy, cancelAt, pending, faulted, cleanup, accepted, sinkError, Inside, toWorker>>
        /\ phase' = "closed" /\ Head(toParent).type # "event"
    BY <1>4 DEF WorkerCloses, Receive, uvars
  <2>2. /\ outcome' \in [Turns -> Outcomes] /\ phase' \in Phases /\ policy' \in Policies \union {None}
        /\ cancelAt' \in {"no", "writing", "grace"} /\ pending' \in Kinds \union {None} /\ faulted' \in BOOLEAN
        /\ sinkError' \in BOOLEAN /\ accepted' \in [Turns -> 0 .. MaxUpdates] /\ toWorker' \in Seq(ParentMessage)
    BY <1>0, <2>1, CapsuleNow DEF Phases, TurnTypeOK
  <2>3. TurnTypeOK'
    BY <1>0, <1>a, <2>1, <2>2, HearTypes
  <2>4. TurnAtHand' /\ (Done' => Done)
    BY <1>0, <2>1 DEF TurnAtHand, Done, Attends
  <2> QED BY <1>a, <2>1, <2>3, <2>4, HearKeeps DEF AsksNothing
<1> QED BY <1>1, <1>2, <1>3, <1>4

-----------------------------------------------------------------------------
(* The worker, its session and the provider                                 *)

LEMMA WorkTypes ==
  ASSUME TurnTypeOK, UNCHANGED Outside,
         loop' \in {"listening", "interrupting", "closing", "gone"}, wactive' \in 0 .. MaxTurns,
         at' \in {"idle", "saving", "prompt", "fence"},
         pinned' \in 0 .. MaxTurns, processed' \in 0 .. MaxUpdates, fence' \in 0 .. MaxUpdates,
         prompt' \in 0 .. MaxTurns, count' \in 0 .. MaxUpdates, reply' \in {None, "completed", "stopped", "error"},
         updates' \in Seq([of : 0 .. MaxTurns, seq : 0 .. MaxUpdates]),
         provider' \in {"idle", "busy", "gone"}, spoken' \in 0 .. MaxUpdates,
         toWorker' \in Seq(ParentMessage), toParent' \in Seq(ChildMessage),
         fromAgent' \in Seq({"update", "completed", "stopped", "error"})
  PROVE  TurnTypeOK'
<1>1. UNCHANGED <<user, turn, outcome, phase, active, policy, cancelAt, pending, faulted, cleanup, accepted, sinkError>>
  BY DEF Outside, uvars, cvars
<1>2. /\ user' \in {"between", "claiming", "waiting", "left"} /\ turn' \in 0 .. MaxTurns
      /\ outcome' \in [Turns -> Outcomes]
      /\ phase' \in {"ready", "running", "cancelling", "cleaning", "closed"}
  BY <1>1 DEF TurnTypeOK
<1>3. /\ active' \in 0 .. MaxTurns /\ policy' \in Policies \union {None} /\ sinkError' \in BOOLEAN
      /\ cancelAt' \in {"no", "writing", "grace"} /\ pending' \in Kinds \union {None}
      /\ faulted' \in BOOLEAN /\ cleanup' \in {"no", "marking", "told", "done"}
      /\ accepted' \in [Turns -> 0 .. MaxUpdates]
  BY <1>1 DEF TurnTypeOK
<1> QED BY <1>2, <1>3 DEF TurnTypeOK

LEMMA WorkNow ==
  ASSUME TurnTypeOK
  PROVE  /\ loop \in {"listening", "interrupting", "closing", "gone"} /\ wactive \in 0 .. MaxTurns
         /\ at \in {"idle", "saving", "prompt", "fence"}
         /\ pinned \in 0 .. MaxTurns /\ processed \in 0 .. MaxUpdates /\ fence \in 0 .. MaxUpdates
         /\ prompt \in 0 .. MaxTurns /\ count \in 0 .. MaxUpdates /\ reply \in {None, "completed", "stopped", "error"}
         /\ updates \in Seq([of : 0 .. MaxTurns, seq : 0 .. MaxUpdates])
         /\ provider \in {"idle", "busy", "gone"} /\ spoken \in 0 .. MaxUpdates
         /\ toWorker \in Seq(ParentMessage) /\ toParent \in Seq(ChildMessage)
         /\ fromAgent \in Seq({"update", "completed", "stopped", "error"})
         /\ 0 \in 0 .. MaxTurns /\ 0 \in 0 .. MaxUpdates
BY TurnAssumption DEF TurnTypeOK, TurnAssumption

\* a step of the worker that says no more of the Turn
LEMMA WorkFrame ==
  ASSUME TurnInv, UNCHANGED Outside, AsksNothing, SaysNothing, Still
  PROVE  /\ NotBegun' /\ Whole' /\ Reported' /\ TurnAtHand'
         /\ Unheard' = Unheard /\ UNCHANGED <<turn, active, accepted, sinkError>>
         /\ toWorker' \in Seq(ParentMessage) /\ toParent' \in Seq(ChildMessage)
<1>0. TurnTypeOK /\ TurnAtHand
  BY DEF TurnInv
<1>1. UNCHANGED <<user, turn, outcome, active, pending, accepted, sinkError>>
  BY DEF Outside, uvars, cvars
<1>2. TurnAtHand' /\ (Done' => Done)
  BY <1>0, <1>1 DEF TurnAtHand, Done, Attends
<1>3. Unheard' = Unheard /\ toWorker' \in Seq(ParentMessage) /\ toParent' \in Seq(ChildMessage)
  BY <1>0, NothingSaid, ToWorker
<1> QED BY <1>1, <1>2, <1>3, Frame

\* what the worker may say
LEMMA Said ==
  ASSUME TurnTypeOK, NEW type \in {"event", "terminal", "failed", "closed"},
         NEW kind \in Kinds \union {None}, NEW of \in 0 .. MaxTurns, toParent' = Say(type, kind, of)
  PROVE  /\ toParent' \in Seq(ChildMessage)
         /\ Unheard' = IF type = "event" THEN Unheard + 1 ELSE Unheard
         /\ type \notin {"event", "terminal"} => SaysNothing
         /\ \A i \in DOMAIN toParent' :
              \/ i \in DOMAIN toParent /\ toParent'[i] = toParent[i]
              \/ /\ i = Len(toParent) + 1 /\ toParent'[i].type = type /\ toParent'[i].turn = wactive
                 /\ toParent'[i].kind = kind /\ toParent'[i].of = of
         /\ \A i \in DOMAIN toParent : i \in Nat /\ i <= Len(toParent)
         /\ Len(toParent) \in Nat
<1> DEFINE m == [type |-> type, turn |-> wactive, kind |-> kind, of |-> of]
<1>1. m \in ChildMessage
  BY WorkNow DEF ChildMessage
<1>2. m.type = type /\ m.turn = wactive /\ m.kind = kind /\ m.of = of
  OBVIOUS
<1>3. toParent' = Append(toParent, m)
  BY DEF Say
<1> HIDE DEF m
<1>4. /\ toParent' \in Seq(ChildMessage)
      /\ m.type = "event" => Unheard' = Unheard + 1
      /\ m.type # "event" => Unheard' = Unheard
      /\ \A i \in DOMAIN toParent' : \/ (i \in DOMAIN toParent /\ toParent'[i] = toParent[i])
                                     \/ (i = Len(toParent) + 1 /\ toParent'[i] = m)
      /\ \A i \in DOMAIN toParent : i \in Nat /\ i <= Len(toParent)
      /\ Len(toParent) \in Nat
  BY <1>1, <1>3, ToParentAppend
<1>5. type \notin {"event", "terminal"} => SaysNothing
  BY <1>1, <1>2, <1>3 DEF SaysNothing
<1> QED BY <1>2, <1>4, <1>5

\* a step that leaves the Turn in the worker alone
LEMMA WorkKeeps ==
  ASSUME TurnInv, UNCHANGED <<Outside, wactive, session, transport>>, AsksNothing, SaysNothing,
         loop' \in {"listening", "interrupting", "closing", "gone"}, loop' = "interrupting" => wactive # 0,
         provider' \in {"idle", "busy", "gone"}, spoken' \in 0 .. MaxUpdates,
         fromAgent' \in Seq({"update", "completed", "stopped", "error"}),
         count + Number(fromAgent', {"update"}) <= spoken'
  PROVE  TurnInv'
<1>0. TurnTypeOK /\ AtTurn /\ Counted
  BY DEF TurnInv
<1>1. UNCHANGED <<wactive, at, pinned, processed, fence, prompt, count, reply, updates>>
  BY DEF session, transport
<1>2. /\ NotBegun' /\ Whole' /\ Reported' /\ TurnAtHand' /\ Unheard' = Unheard /\ UNCHANGED <<turn, active, accepted, sinkError>>
      /\ toWorker' \in Seq(ParentMessage) /\ toParent' \in Seq(ChildMessage)
  BY <1>1, WorkFrame DEF Still, NoneLeft
<1>3. TurnTypeOK'
  BY <1>0, <1>1, <1>2, WorkNow, WorkTypes
<1>4. AtTurn'
  <2>1. \A b \in Nat : Window(b) => Window(b)'
    BY <1>1 DEF Window
  <2>2. at = "saving" => \A i \in DOMAIN toParent' : ~Reports(i)'
    BY <1>0, NothingSaid DEF AtTurn
  <2> QED BY <1>0, <1>1, <1>2, <2>1, <2>2 DEF AtTurn, NoneLeft
<1>5. Counted'
  BY <1>0, <1>1, <1>2 DEF Counted, Attends
<1> QED BY <1>2, <1>3, <1>4, <1>5 DEF TurnInv

LEMMA HearsWork ==
  ASSUME TurnTypeOK, NEW type, Hears(type)
  PROVE  /\ AsksNothing /\ Head(toWorker) \in ParentMessage /\ Head(toWorker).type = type
         /\ 1 \in DOMAIN toWorker /\ Head(toWorker) = toWorker[1] /\ toWorker' \in Seq(ParentMessage)
         /\ \A i \in DOMAIN toWorker' : i \in Nat /\ i >= 1 /\ i + 1 \in DOMAIN toWorker /\ toWorker'[i] = toWorker[i + 1]
<1>1. toWorker # <<>> /\ Head(toWorker).type = type /\ toWorker' = Tail(toWorker)
  BY DEF Hears
<1> QED BY <1>1, WorkNow, TailFacts DEF AsksNothing

LEMMA SmallStepsKeep ==
  ASSUME TurnInv, Cancel \/ CloseHeard \/ ProviderDies \/ Update \/ Respond
  PROVE  TurnInv'
<1>0. /\ TurnTypeOK /\ AtTurn /\ Counted
      /\ fromAgent \in Seq({"update", "completed", "stopped", "error"})
      /\ Number(fromAgent, {"update"}) \in Nat /\ count \in Nat /\ spoken \in Nat /\ MaxUpdates \in Nat
  BY WorkNow, NumberIsNat, Numbers DEF TurnInv
<1>1. CASE Cancel
  <2>1. /\ Head(toWorker) \in ParentMessage /\ Head(toWorker).type = "cancel" /\ AsksNothing
        /\ UNCHANGED <<Outside, wactive, session, transport, provider, spoken, toParent, fromAgent>>
        /\ loop' \in {loop, "interrupting"} /\ (loop' = "interrupting" => loop' = loop \/ wactive = Head(toWorker).turn)
    BY <1>0, <1>1, HearsWork DEF Cancel, avars
  <2>2. loop' = "interrupting" => wactive # 0
    BY <1>0, <2>1 DEF ParentMessage, AtTurn
  <2> QED BY <1>0, <2>1, <2>2, WorkNow, WorkKeeps DEF SaysNothing, Counted
<1>2. CASE CloseHeard
  <2>1. /\ AsksNothing /\ UNCHANGED <<Outside, wactive, session, transport, provider, spoken, toParent, fromAgent>>
        /\ loop' = "closing"
    BY <1>0, <1>2, HearsWork DEF CloseHeard, avars
  <2> QED BY <1>0, <2>1, WorkNow, WorkKeeps DEF SaysNothing, Counted
<1>3. CASE ProviderDies
  <2>1. /\ UNCHANGED <<Outside, wactive, session, transport, loop, spoken, toWorker, toParent, fromAgent>>
        /\ provider' = "gone"
    BY <1>3 DEF ProviderDies, wvars
  <2>2. loop' = "interrupting" => wactive # 0
    BY <1>0, <2>1 DEF AtTurn
  <2> QED BY <1>0, <2>1, <2>2, WorkNow, WorkKeeps DEF SaysNothing, AsksNothing, Counted
<1>4. CASE Update
  <2>1. /\ UNCHANGED <<Outside, wactive, session, transport, loop, provider, toWorker, toParent>>
        /\ spoken < MaxUpdates /\ spoken' = spoken + 1 /\ fromAgent' = Append(fromAgent, "update")
    BY <1>4 DEF Update, wvars
  <2>2. /\ fromAgent' \in Seq({"update", "completed", "stopped", "error"})
        /\ Number(fromAgent', {"update"}) = Number(fromAgent, {"update"}) + 1
    BY <1>0, <2>1, AppendFacts, NumberAppend
  <2>3. spoken' \in 0 .. MaxUpdates /\ count + Number(fromAgent', {"update"}) <= spoken'
    BY <1>0, <2>1, <2>2 DEF Counted, Attends
  <2>4. loop' = "interrupting" => wactive # 0
    BY <1>0, <2>1 DEF AtTurn
  <2> QED BY <1>0, <2>1, <2>2, <2>3, <2>4, WorkNow, WorkKeeps DEF SaysNothing, AsksNothing
<1>5. CASE Respond
  <2>1. PICK kind \in {"completed", "stopped", "error"} : fromAgent' = Append(fromAgent, kind)
    BY <1>5 DEF Respond
  <2>2. /\ UNCHANGED <<Outside, wactive, session, transport, loop, spoken, toWorker, toParent>> /\ provider' = "idle"
    BY <1>5 DEF Respond, wvars
  <2>3. kind \in {"update", "completed", "stopped", "error"} /\ kind \notin {"update"}
    OBVIOUS
  <2>4. /\ fromAgent' \in Seq({"update", "completed", "stopped", "error"})
        /\ Number(fromAgent', {"update"}) = Number(fromAgent, {"update"})
    BY <1>0, <2>1, <2>3, AppendFacts, NumberAppend
  <2>5. loop' = "interrupting" => wactive # 0
    BY <1>0, <2>2 DEF AtTurn
  <2> QED BY <1>0, <2>2, <2>4, <2>5, WorkNow, WorkKeeps DEF SaysNothing, AsksNothing, Counted
<1> QED BY <1>1, <1>2, <1>3, <1>4, <1>5

LEMMA WorkerEndsKeeps ==
  ASSUME TurnInv, CloseWorker \/ WorkerDies
  PROVE  TurnInv'
<1>0. TurnTypeOK /\ TurnAtHand
  BY DEF TurnInv
<1>1. /\ Lost /\ loop' = "gone" /\ provider' \in {provider, "gone"}
      /\ UNCHANGED <<user, turn, outcome, phase, active, policy, cancelAt, pending, faulted, cleanup, accepted, sinkError,
                     pinned, processed, fence, count, spoken>>
      /\ UNCHANGED Outside
  BY DEF CloseWorker, WorkerDies, Outside, uvars, cvars, avars
<1>2. SaysNothing /\ toParent' \in Seq(ChildMessage)
  <2>1. CASE CloseWorker
    <3>1. toParent' = Say("closed", None, 0) /\ None \in Kinds \union {None} /\ 0 \in 0 .. MaxTurns
      BY <1>0, <2>1, WorkNow DEF CloseWorker
    <3> QED BY <1>0, <3>1, Said
  <2>2. CASE WorkerDies
    BY <1>0, <2>2, WorkNow DEF WorkerDies, SaysNothing
  <2> QED BY <2>1, <2>2
<1>3. TurnTypeOK'
  <2>1. /\ updates' \in Seq([of : 0 .. MaxTurns, seq : 0 .. MaxUpdates]) /\ toWorker' \in Seq(ParentMessage)
        /\ fromAgent' \in Seq({"update", "completed", "stopped", "error"})
        /\ wactive' = 0 /\ at' = "idle" /\ prompt' = 0 /\ reply' = None
    BY <1>1, EmptySeq DEF Lost
  <2> QED BY <1>0, <1>1, <1>2, <2>1, WorkNow, WorkTypes
<1>4. TurnAtHand' /\ (Done' => Done)
  BY <1>0, <1>1 DEF TurnAtHand, Done, Attends
<1> QED BY <1>1, <1>2, <1>3, <1>4, LostKeeps

LEMMA RunKeeps ==
  ASSUME TurnInv, Run
  PROVE  TurnInv'
<1>0. TurnTypeOK /\ TurnAtHand /\ NotBegun /\ Whole /\ AtTurn /\ Reported /\ Counted
  BY DEF TurnInv
<1>1. /\ AsksNothing /\ Head(toWorker).type = "run" /\ 1 \in DOMAIN toWorker /\ Head(toWorker) = toWorker[1]
      /\ toWorker' \in Seq(ParentMessage)
      /\ \A i \in DOMAIN toWorker' : i \in Nat /\ i >= 1 /\ i + 1 \in DOMAIN toWorker /\ toWorker'[i] = toWorker[i + 1]
  BY <1>0, HearsWork DEF Run
<1>2. /\ Quiet /\ Head(toWorker).turn = turn /\ turn # 0 /\ accepted[turn] = 0 /\ user # "claiming"
      /\ \A j \in DOMAIN toWorker : Asks(j) => j = 1
      /\ ~Done
  BY <1>0, <1>1 DEF NotBegun, Whole, Asks
<1>3. /\ UNCHANGED <<user, turn, outcome, active, pending, accepted, sinkError, loop, prompt, count, reply, updates, toParent, spoken, fromAgent, provider>>
      /\ wactive' = turn /\ at' = "saving" /\ pinned' = 0 /\ processed' = 0 /\ fence' = 0 /\ UNCHANGED Outside
  BY <1>2 DEF Run, Quiet, Outside, uvars, cvars, transport, avars
<1>4. TurnTypeOK'
  BY <1>0, <1>1, <1>3, WorkNow, CapsuleNow, WorkTypes
<1>5. /\ TurnAtHand' /\ Whole'
  BY <1>0, <1>2, <1>3 DEF TurnAtHand, Whole, Done, Attends
<1>6. NotBegun'
  <2>1. \A j \in DOMAIN toWorker' : ~Asks(j)'
    BY <1>1, <1>2 DEF Asks
  <2> QED BY <1>2, <1>3, <2>1 DEF NotBegun
<1>7. AtTurn'
  <2>1. loop' # "interrupting"
    BY <1>3 DEF Run, Hears
  <2> QED BY <1>2, <1>3, <2>1 DEF AtTurn, Quiet, NoneLeft, Reports
<1>8. Reported'
  BY <1>2, <1>3 DEF Reported, Quiet, Reports, Closes
<1>9. Counted'
  <2>1. Unheard = 0 /\ Unheard' = Unheard
    BY <1>0, <1>2, <1>3, ToParent DEF Quiet
  <2> QED BY <1>0, <1>2, <1>3, <2>1 DEF Counted, Attends
<1> QED BY <1>4, <1>5, <1>6, <1>7, <1>8, <1>9 DEF TurnInv

\* the end of a Turn, which is the last thing said of it
LEMMA EndsKeeps ==
  ASSUME TurnInv, wactive # 0, NEW kind \in {"stopped", "error", "completed"}, Ends(kind),
         loop' \in {"listening", "closing", "gone"},
         UNCHANGED <<Outside, pinned, processed, fence, count, updates, avars, toWorker, fromAgent>>,
         kind = "completed" => NoneLeft /\ (Attends => accepted[turn] + Unheard = fence)
  PROVE  TurnInv'
<1>0. TurnTypeOK /\ TurnAtHand /\ NotBegun /\ Whole /\ AtTurn /\ Reported /\ Counted
  BY DEF TurnInv
<1>1. /\ UNCHANGED <<user, turn, outcome, active, pending, accepted, sinkError, pinned, processed, fence, count, updates, provider, spoken, toWorker, fromAgent>>
      /\ wactive' = 0 /\ at' = "idle" /\ prompt' = 0 /\ reply' = None /\ toParent' = Say("terminal", kind, 0)
  BY DEF Ends, Outside, uvars, cvars, avars
<1>2. kind \in Kinds \union {None} /\ 0 \in 0 .. MaxTurns /\ wactive = turn /\ turn # 0
  BY <1>0, WorkNow DEF Kinds, AtTurn
<1>3. /\ toParent' \in Seq(ChildMessage) /\ Unheard' = Unheard
      /\ \A i \in DOMAIN toParent' :
              \/ i \in DOMAIN toParent /\ toParent'[i] = toParent[i]
              \/ /\ i = Len(toParent) + 1 /\ toParent'[i].type = "terminal" /\ toParent'[i].turn = wactive
                 /\ toParent'[i].kind = kind
      /\ \A i \in DOMAIN toParent : i \in Nat /\ i <= Len(toParent)
      /\ Len(toParent) \in Nat
  BY <1>0, <1>1, <1>2, Said
<1>4. TurnTypeOK'
  BY <1>0, <1>1, <1>2, <1>3, WorkNow, WorkTypes
<1>5. TurnAtHand' /\ Whole' /\ NotBegun'
  BY <1>0, <1>1, <1>2 DEF TurnAtHand, Whole, Done, Attends, NotBegun, Asks, Quiet
<1>6. AtTurn'
  BY <1>1 DEF AtTurn
<1>7. Reported'
  <2> SUFFICES ASSUME NEW i \in DOMAIN toParent', Reports(i)' \/ Closes(i)'
               PROVE  /\ toParent'[i].turn = turn' /\ turn' # 0
                      /\ Reports(i)' => toParent'[i].of = turn'
                      /\ Closes(i)' =>
                           /\ wactive' = 0 /\ prompt' = 0 /\ at' = "idle"
                           /\ \A j \in DOMAIN toParent' : (Reports(j)' => j < i) /\ (Closes(j)' => j = i)
                           /\ toParent'[i].kind = "completed" =>
                                NoneLeft' /\ (Attends' => accepted'[turn'] + Unheard' = fence')
    BY DEF Reported
  <2>1. \A j \in DOMAIN toParent : ~Closes(j)
    BY <1>0, <1>2 DEF Reported
  <2>2. CASE i \in DOMAIN toParent /\ toParent'[i] = toParent[i]
    BY <1>0, <1>1, <2>1, <2>2 DEF Reported, Reports, Closes
  <2>3. CASE i = Len(toParent) + 1 /\ toParent'[i].type = "terminal" /\ toParent'[i].turn = wactive /\ toParent'[i].kind = kind
    <3>1. ~Reports(i)' /\ toParent'[i].turn = turn' /\ turn' # 0
      BY <1>1, <1>2, <2>3 DEF Reports
    <3>2. \A j \in DOMAIN toParent' : (Reports(j)' => j < i) /\ (Closes(j)' => j = i)
      BY <1>3, <2>1, <2>3 DEF Reports, Closes
    <3>3. toParent'[i].kind = "completed" => NoneLeft' /\ (Attends' => accepted'[turn'] + Unheard' = fence')
      BY <1>1, <1>3, <2>3 DEF NoneLeft, Attends
    <3> QED BY <1>1, <3>1, <3>2, <3>3
  <2> QED BY <1>3, <2>2, <2>3
<1>8. Counted'
  BY <1>0, <1>1, <1>3 DEF Counted, Attends
<1> QED BY <1>4, <1>5, <1>6, <1>7, <1>8 DEF TurnInv

LEMMA FencedIsWhole ==
  ASSUME TurnInv, at = "fence", processed >= fence
  PROVE  NoneLeft /\ (Attends => accepted[turn] + Unheard = fence) /\ reply \in {"completed", "stopped"}
<1>0. TurnTypeOK /\ AtTurn /\ Counted
  BY DEF TurnInv
<1>1. fence = count /\ processed <= count /\ reply \in {"completed", "stopped"}
  BY <1>0 DEF AtTurn
<1>2. count \in Nat /\ processed \in Nat
  BY <1>0, Numbers
<1>3. processed = count /\ count - processed = 0
  BY <1>1, <1>2
<1>4. PICK b \in Nat : Window(b)
  BY <1>0 DEF AtTurn
<1>5. DOMAIN updates \subseteq Nat
  BY <1>0, WorkNow, LenProperties
<1>6. \A i \in DOMAIN updates : ~(b < i /\ i <= b + (count - processed))
  BY <1>3, <1>5
<1>7. NoneLeft
  BY <1>4, <1>6 DEF Window, NoneLeft
<1> QED BY <1>0, <1>1, <1>3, <1>7 DEF Counted, Attends

LEMMA TurnEndsKeep ==
  ASSUME TurnInv, TurnFails \/ Fenced \/ Interrupted
  PROVE  TurnInv'
<1>0. TurnTypeOK /\ AtTurn /\ Counted
  BY DEF TurnInv
<1>1. CASE TurnFails
  <2>1. wactive # 0 /\ loop' \in {"listening", "closing", "gone"}
    BY <1>0, <1>1 DEF TurnFails, Going, AtTurn
  <2> QED BY <1>1, <2>1, EndsKeeps DEF TurnFails
<1>2. CASE Fenced
  <2>1. wactive # 0 /\ loop' \in {"listening", "closing", "gone"} /\ at = "fence" /\ processed >= fence
    BY <1>0, <1>2 DEF Fenced, Going, AtTurn
  <2>2. NoneLeft /\ (Attends => accepted[turn] + Unheard = fence) /\ reply \in {"stopped", "error", "completed"}
    BY <2>1, FencedIsWhole
  <2> QED BY <1>2, <2>1, <2>2, EndsKeeps DEF Fenced
<1>3. CASE Interrupted
  <2>1. wactive # 0 /\ UNCHANGED <<Outside, pinned, processed, fence, count, updates, avars, toWorker, fromAgent>>
    BY <1>0, <1>3 DEF Interrupted, AtTurn
  <2>2. CASE loop' = "listening" /\ Ends("stopped")
    BY <2>1, <2>2, EndsKeeps
  <2>3. CASE /\ at' = "idle" /\ prompt' = 0 /\ reply' = None
             /\ \/ loop' = "listening" /\ UNCHANGED <<wactive, toParent>>
                \/ loop' = "closing" /\ wactive' = 0 /\ toParent' = Say("failed", None, 0)
    <3>1. SaysNothing /\ loop' \in {"listening", "closing"} /\ wactive' \in {wactive, 0}
      <4>1. None \in Kinds \union {None} /\ 0 \in 0 .. MaxTurns
        BY <1>0, WorkNow
      <4> QED BY <1>0, <2>3, <4>1, Said DEF SaysNothing
    <3>2. /\ NotBegun' /\ Whole' /\ Reported' /\ TurnAtHand' /\ Unheard' = Unheard /\ UNCHANGED <<turn, active, accepted, sinkError>>
          /\ toWorker' \in Seq(ParentMessage) /\ toParent' \in Seq(ChildMessage)
      BY <2>1, <3>1, WorkFrame DEF AsksNothing, Still
    <3>3. TurnTypeOK'
      BY <1>0, <2>1, <2>3, <3>1, <3>2, WorkNow, WorkTypes DEF avars
    <3>4. AtTurn'
      BY <1>0, <2>3, <3>1, <3>2 DEF AtTurn
    <3>5. Counted'
      BY <1>0, <2>1, <2>3, <3>2 DEF Counted, Attends, avars
    <3> QED BY <3>2, <3>3, <3>4, <3>5 DEF TurnInv
  <2> QED BY <1>3, <2>2, <2>3 DEF Interrupted
<1> QED BY <1>1, <1>2, <1>3

LEMMA PromptKeeps ==
  ASSUME TurnInv, Prompt
  PROVE  TurnInv'
<1>0. TurnTypeOK /\ AtTurn /\ Counted
  BY DEF TurnInv
<1>1. /\ UNCHANGED <<Outside, loop, wactive, pinned, processed, fence, updates, spoken, toWorker, toParent, fromAgent>>
      /\ loop = "listening" /\ at = "saving" /\ at' = "prompt" /\ prompt' = wactive /\ count' = 0 /\ reply' = None
      /\ provider' \in {provider, "busy"}
  BY DEF Prompt, Going, wvars
<1>2. /\ NotBegun' /\ Whole' /\ Reported' /\ TurnAtHand' /\ Unheard' = Unheard /\ UNCHANGED <<turn, active, accepted, sinkError>>
      /\ toWorker' \in Seq(ParentMessage) /\ toParent' \in Seq(ChildMessage)
  BY <1>1, WorkFrame DEF AsksNothing, SaysNothing, Still
<1>3. /\ wactive = turn /\ wactive # 0 /\ pinned = 0 /\ processed = 0 /\ accepted[turn] = 0 /\ NoneLeft
      /\ Unheard = 0
  BY <1>0, <1>1, ToParent DEF AtTurn
<1>4. TurnTypeOK'
  BY <1>0, <1>1, <1>2, WorkNow, WorkTypes
<1>5. Window(Len(updates))' /\ Len(updates) \in Nat
  <2>1. Len(updates) \in Nat /\ \A i \in DOMAIN updates : i \in Nat /\ i <= Len(updates)
    BY <1>0, WorkNow, LenProperties
  <2>2. count' - processed' = 0 /\ Len(updates') = Len(updates)
    BY <1>1, <1>3
  <2>3. Len(updates) + 0 = Len(updates)
    BY <2>1
  <2> QED BY <1>1, <1>3, <2>1, <2>2, <2>3 DEF Window, NoneLeft
<1>6. AtTurn'
  <2>1. \E b \in Nat : Window(b)'
    BY <1>1, <1>5
  <2> QED BY <1>0, <1>1, <1>2, <1>3, <2>1 DEF AtTurn
<1>7. Counted'
  <2>1. Number(fromAgent, {"update"}) \in Nat /\ count \in Nat /\ spoken \in Nat
    BY <1>0, WorkNow, NumberIsNat, Numbers
  <2>2. 0 + Number(fromAgent, {"update"}) <= spoken
    BY <1>0, <2>1 DEF Counted, Attends
  <2> QED BY <1>1, <1>2, <1>3, <2>2 DEF Counted, Attends
<1> QED BY <1>2, <1>4, <1>6, <1>7 DEF TurnInv

LEMMA RespondedKeeps ==
  ASSUME TurnInv, Responded
  PROVE  TurnInv'
<1>0. TurnTypeOK /\ AtTurn /\ Counted
  BY DEF TurnInv
<1>1. pinned \in {0, wactive} /\ wactive # 0 /\ wactive \in {0, turn}
  BY <1>0 DEF Responded, AtTurn
<1>2. /\ UNCHANGED <<Outside, loop, wactive, processed, prompt, count, reply, updates, provider, spoken, toWorker, toParent, fromAgent>>
      /\ loop = "listening" /\ at = "prompt" /\ at' = "fence" /\ pinned' = wactive /\ fence' = count
      /\ reply \in {"completed", "stopped"}
  BY <1>1 DEF Responded, Going, avars
<1>3. /\ NotBegun' /\ Whole' /\ Reported' /\ TurnAtHand' /\ Unheard' = Unheard /\ UNCHANGED <<turn, active, accepted, sinkError>>
      /\ toWorker' \in Seq(ParentMessage) /\ toParent' \in Seq(ChildMessage)
  BY <1>2, WorkFrame DEF AsksNothing, SaysNothing, Still
<1>4. TurnTypeOK'
  BY <1>0, <1>2, <1>3, WorkNow, WorkTypes
<1>5. prompt = 0
  BY <1>0, <1>2 DEF AtTurn, None
<1>6. AtTurn'
  <2>1. \A b \in Nat : Window(b) => Window(b)'
    BY <1>2 DEF Window
  <2> QED BY <1>0, <1>1, <1>2, <1>3, <1>5, <2>1 DEF AtTurn
<1>7. Counted'
  BY <1>0, <1>2, <1>3 DEF Counted, Attends
<1> QED BY <1>3, <1>4, <1>6, <1>7 DEF TurnInv

\* arithmetic of the window
LEMMA Shifts ==
  ASSUME NEW b \in Nat, NEW n \in Nat, NEW p \in Nat, NEW q \in Int, q = p - 1
  PROVE  /\ b >= 1 => b - 1 \in Nat
         /\ b + n <= p => (b - 1) + n <= q /\ b + (n - 1) <= q
         /\ b + n = p => (b - 1) + n = q /\ b + (n - 1) = q
OBVIOUS

LEMMA OneMore ==
  ASSUME NEW a \in Nat, NEW u \in Nat, NEW p \in Nat
  PROVE  /\ a + u <= p => a + (u + 1) <= p + 1
         /\ a + u = p => a + (u + 1) = p + 1
OBVIOUS

LEMMA NextPlace ==
  ASSUME NEW i \in Nat, i >= 1, NEW n \in Nat, NEW p \in Nat
  PROVE  /\ 0 < i /\ 0 < i + 1 /\ (i + 1 <= 0 + n <=> i <= 0 + (n - 1))
         /\ p + ((i + 1) - 0) = (p + 1) + (i - 0)
OBVIOUS

\* an update that is dropped is not in the window
LEMMA DroppedKeeps ==
  ASSUME TurnInv, updates # <<>>, updates' = Tail(updates),
         UNCHANGED <<Outside, wvars, session, prompt, count, reply, avars, toWorker, toParent, fromAgent>>,
         at = "idle" \/ Head(updates).of = 0 \/ pinned \notin {0, Head(updates).of}
  PROVE  TurnInv'
<1>0. TurnTypeOK /\ AtTurn /\ Counted
  BY DEF TurnInv
<1>1. UNCHANGED <<loop, wactive, at, pinned, processed, fence, prompt, count, reply, provider, spoken, toWorker, toParent, fromAgent>>
  BY DEF wvars, session, avars
<1>2. /\ updates' \in Seq([of : 0 .. MaxTurns, seq : 0 .. MaxUpdates]) /\ 1 \in DOMAIN updates /\ Head(updates) = updates[1]
      /\ \A i \in DOMAIN updates' : i \in Nat /\ i >= 1 /\ i + 1 \in DOMAIN updates /\ updates'[i] = updates[i + 1]
      /\ Len(updates) \in Nat /\ Len(updates') = Len(updates) - 1 /\ DOMAIN updates = 1 .. Len(updates)
  BY <1>0, WorkNow, TailFacts
<1>3. NoneLeft => NoneLeft'
  BY <1>2 DEF NoneLeft
<1>4. /\ NotBegun' /\ Whole' /\ Reported' /\ TurnAtHand' /\ Unheard' = Unheard /\ UNCHANGED <<turn, active, accepted, sinkError>>
      /\ toWorker' \in Seq(ParentMessage) /\ toParent' \in Seq(ChildMessage)
  BY <1>1, <1>3, WorkFrame DEF AsksNothing, SaysNothing, Still
<1>5. TurnTypeOK'
  BY <1>0, <1>1, <1>2, <1>4, WorkNow, WorkTypes
<1>6. AtTurn'
  <2>1. ASSUME at \in {"prompt", "fence"} PROVE \E b \in Nat : Window(b)'
    <3>1. PICK b \in Nat : Window(b)
      BY <1>0, <2>1 DEF AtTurn
    <3> DEFINE n == count - processed
    <3>2. n \in Nat
      BY <1>0, <2>1, Numbers DEF AtTurn
    <3>3. /\ b + n <= Len(updates) /\ (prompt # 0 => b + n = Len(updates))
          /\ \A i \in DOMAIN updates :
               /\ b < i /\ i <= b + n => updates[i].of = wactive /\ updates[i].seq = processed + (i - b)
               /\ ~(b < i /\ i <= b + n) => updates[i].of = 0
      BY <3>1 DEF Window
    <3>4. n = 0 \/ b >= 1
      <4> SUFFICES ASSUME n # 0, b = 0 PROVE FALSE
        BY <3>2
      <4> HIDE DEF n
      <4>0. b < 1 /\ 1 <= b + n
        BY <3>2
      <4>1. updates[1].of = wactive
        BY <1>2, <3>3, <4>0
      <4>2. wactive # 0 /\ pinned \in {0, wactive}
        BY <1>0, <2>1 DEF AtTurn
      <4> QED BY <1>2, <2>1, <4>1, <4>2
    <3> HIDE DEF n
    <3>5. CASE b >= 1
      <4>1. b - 1 \in Nat /\ (b - 1) + n <= Len(updates') /\ (prompt # 0 => (b - 1) + n = Len(updates'))
        <5>1. Len(updates') \in Int /\ Len(updates') = Len(updates) - 1 /\ Len(updates) \in Nat
          BY <1>2
        <5> QED BY <3>2, <3>3, <3>5, <5>1, Shifts
      <4>2. ASSUME NEW i \in DOMAIN updates'
            PROVE  /\ b - 1 < i /\ i <= (b - 1) + n => updates'[i].of = wactive /\ updates'[i].seq = processed + (i - (b - 1))
                   /\ ~(b - 1 < i /\ i <= (b - 1) + n) => updates'[i].of = 0
        <5>1. i \in Nat /\ i + 1 \in DOMAIN updates /\ updates'[i] = updates[i + 1]
          BY <1>2
        <5>2. /\ b < i + 1 /\ i + 1 <= b + n => updates'[i].of = wactive /\ updates'[i].seq = processed + ((i + 1) - b)
              /\ ~(b < i + 1 /\ i + 1 <= b + n) => updates'[i].of = 0
          BY <3>3, <5>1
        <5>3. (i + 1) - b = i - (b - 1)
          BY <5>1
        <5>4. b < i + 1 <=> b - 1 < i
          BY <5>1
        <5>5. i + 1 <= b + n <=> i <= (b - 1) + n
          BY <3>2, <5>1
        <5> QED BY <5>2, <5>3, <5>4, <5>5
      <4>3. Window(b - 1)'
        BY <1>1, <4>1, <4>2 DEF Window, n
      <4>4. \E c \in Nat : Window(c)'
        BY <4>1, <4>3
      <4> QED BY <4>4
    <3>6. CASE n = 0 /\ b = 0
      <4>1. prompt = 0 /\ 0 + n <= Len(updates')
        BY <1>2, <3>3, <3>6
      <4>2. \A i \in DOMAIN updates' : ~(0 < i /\ i <= 0 + n) /\ updates'[i].of = 0
        BY <1>2, <3>3, <3>6
      <4>3. Window(0)'
        BY <1>1, <4>1, <4>2 DEF Window, n
      <4> QED BY <4>3
    <3> QED BY <3>4, <3>5, <3>6
  <2>2. at = "saving" => NoneLeft' /\ \A i \in DOMAIN toParent' : ~Reports(i)'
    BY <1>0, <1>1, <1>3 DEF AtTurn, Reports
  <2> QED BY <1>0, <1>1, <1>4, <2>1, <2>2 DEF AtTurn
<1>7. Counted'
  BY <1>0, <1>1, <1>4 DEF Counted, Attends
<1> QED BY <1>4, <1>5, <1>6, <1>7 DEF TurnInv

\* the next update of the prompt is reported as an event of the Turn
LEMMA HandledKeeps ==
  ASSUME TurnInv, updates # <<>>, updates' = Tail(updates), at # "idle", Head(updates).of # 0,
         pinned' = Head(updates).of, pinned \in {0, Head(updates).of},
         processed' = IF Head(updates).seq > processed THEN Head(updates).seq ELSE processed,
         toParent' = IF at = "saving" THEN toParent ELSE Say("event", None, Head(updates).of),
         UNCHANGED <<Outside, wvars, at, fence, prompt, count, reply, avars, toWorker, fromAgent>>
  PROVE  TurnInv'
<1>0. TurnTypeOK /\ TurnAtHand /\ NotBegun /\ Whole /\ AtTurn /\ Reported /\ Counted
  BY DEF TurnInv
<1>1. UNCHANGED <<user, turn, outcome, active, pending, accepted, sinkError, loop, wactive, at, fence, prompt, count, reply, provider, spoken, toWorker, fromAgent>>
  BY DEF wvars, avars, Outside, uvars, cvars
<1>2. /\ updates' \in Seq([of : 0 .. MaxTurns, seq : 0 .. MaxUpdates]) /\ 1 \in DOMAIN updates /\ Head(updates) = updates[1]
      /\ \A i \in DOMAIN updates' : i \in Nat /\ i >= 1 /\ i + 1 \in DOMAIN updates /\ updates'[i] = updates[i + 1]
      /\ Len(updates) \in Nat /\ Len(updates') = Len(updates) - 1 /\ DOMAIN updates = 1 .. Len(updates)
  BY <1>0, WorkNow, TailFacts
<1>3. at \in {"prompt", "fence"}
  <2>1. at # "saving"
    BY <1>0, <1>2 DEF AtTurn, NoneLeft
  <2> QED BY <1>0, <2>1, WorkNow
<1>4. PICK b \in Nat : Window(b)
  BY <1>0, <1>3 DEF AtTurn
<1> DEFINE n == count - processed
<1>5. n \in Nat /\ processed \in Nat /\ count \in Nat /\ MaxUpdates \in Nat /\ count \in 0 .. MaxUpdates
  <2>1. processed \in Nat /\ count \in Nat /\ MaxUpdates \in Nat /\ count \in 0 .. MaxUpdates
    BY <1>0, Numbers, WorkNow
  <2>2. processed <= count
    BY <1>0, <1>3 DEF AtTurn
  <2> QED BY <2>1, <2>2
<1>6. /\ b + n <= Len(updates) /\ (prompt # 0 => b + n = Len(updates))
      /\ \A i \in DOMAIN updates :
           /\ b < i /\ i <= b + n => updates[i].of = wactive /\ updates[i].seq = processed + (i - b)
           /\ ~(b < i /\ i <= b + n) => updates[i].of = 0
  BY <1>4 DEF Window
<1>7. b = 0 /\ n >= 1 /\ Head(updates).of = wactive /\ Head(updates).seq = processed + 1
  <2>1. b < 1 /\ 1 <= b + n
    BY <1>2, <1>6
  <2>2. b = 0 /\ n >= 1
    BY <1>5, <2>1
  <2>3. updates[1].of = wactive /\ updates[1].seq = processed + (1 - 0)
    BY <1>2, <1>6, <2>1, <2>2
  <2> QED BY <1>2, <1>5, <2>2, <2>3
<1>8. /\ processed' = processed + 1 /\ processed' <= count /\ processed' \in 0 .. MaxUpdates /\ pinned' = wactive
      /\ count - processed' = n - 1
  BY <1>5, <1>7
<1>9. /\ wactive = turn /\ turn # 0 /\ wactive \in 0 .. MaxTurns /\ pinned' \in {0, wactive}
      /\ toParent' = Say("event", None, wactive) /\ None \in Kinds \union {None}
  BY <1>0, <1>3, <1>7, WorkNow DEF AtTurn
<1>10. /\ toParent' \in Seq(ChildMessage) /\ Unheard' = Unheard + 1
       /\ \A i \in DOMAIN toParent' :
              \/ i \in DOMAIN toParent /\ toParent'[i] = toParent[i]
              \/ toParent'[i].type = "event" /\ toParent'[i].turn = wactive /\ toParent'[i].of = wactive
  <2>1. "event" \in {"event", "terminal", "failed", "closed"}
    OBVIOUS
  <2>2. Unheard' = IF "event" = "event" THEN Unheard + 1 ELSE Unheard
    BY <1>0, <1>9, <2>1, Said
  <2>3. toParent' \in Seq(ChildMessage)
    BY <1>0, <1>9, <2>1, Said
  <2>4. \A i \in DOMAIN toParent' :
              \/ i \in DOMAIN toParent /\ toParent'[i] = toParent[i]
              \/ /\ i = Len(toParent) + 1 /\ toParent'[i].type = "event" /\ toParent'[i].turn = wactive
                 /\ toParent'[i].kind = None /\ toParent'[i].of = wactive
    <3>1. TurnTypeOK /\ wactive \in 0 .. MaxTurns /\ toParent' = Say("event", None, wactive) /\ None \in Kinds \union {None}
      BY <1>0, <1>9
    <3> QED BY <2>1, <3>1, Said, ZenonT(60)
  <2> QED BY <2>2, <2>3, <2>4
<1>11. TurnTypeOK'
  BY <1>0, <1>1, <1>2, <1>8, <1>9, <1>10, WorkNow, WorkTypes
<1>12. TurnAtHand' /\ Whole' /\ NotBegun'
  BY <1>0, <1>1, <1>9 DEF TurnAtHand, Whole, Done, Attends, NotBegun, Asks, Quiet
<1>13. Window(0)'
  <2> HIDE DEF n
  <2>1. 0 + (n - 1) <= Len(updates') /\ (prompt # 0 => 0 + (n - 1) = Len(updates'))
    <3>1. Len(updates') \in Int /\ Len(updates') = Len(updates) - 1 /\ Len(updates) \in Nat
      BY <1>2
    <3>2. b \in Nat /\ n \in Nat
      BY <1>5
    <3>3. /\ b + (n - 1) <= Len(updates') /\ (prompt # 0 => b + (n - 1) = Len(updates'))
      BY <1>6, <3>1, <3>2, Shifts
    <3> QED BY <1>7, <3>3
  <2>2. ASSUME NEW i \in DOMAIN updates'
        PROVE  /\ 0 < i /\ i <= 0 + (n - 1) => updates'[i].of = wactive /\ updates'[i].seq = processed' + (i - 0)
               /\ ~(0 < i /\ i <= 0 + (n - 1)) => updates'[i].of = 0
    <3>1. i \in Nat /\ i >= 1 /\ i + 1 \in DOMAIN updates /\ updates'[i] = updates[i + 1]
      BY <1>2
    <3>2. /\ 0 < i + 1 /\ i + 1 <= 0 + n => updates'[i].of = wactive /\ updates'[i].seq = processed + ((i + 1) - 0)
          /\ ~(0 < i + 1 /\ i + 1 <= 0 + n) => updates'[i].of = 0
      BY <1>6, <1>7, <3>1
    <3>3. /\ 0 < i /\ 0 < i + 1 /\ (i + 1 <= 0 + n <=> i <= 0 + (n - 1))
          /\ processed + ((i + 1) - 0) = processed' + (i - 0)
      <4>1. n \in Nat /\ processed \in Nat /\ processed' = processed + 1
        BY <1>5, <1>8
      <4> QED BY <3>1, <4>1, NextPlace
    <3> QED BY <3>2, <3>3
  <2> QED BY <1>1, <1>8, <2>1, <2>2 DEF Window
<1>14. AtTurn'
  <2>1. \E c \in Nat : Window(c)'
    BY <1>13
  <2> QED BY <1>0, <1>1, <1>3, <1>8, <1>9, <2>1 DEF AtTurn
<1>15. Reported'
  BY <1>0, <1>1, <1>9, <1>10 DEF Reported, Reports, Closes
<1>16. Counted'
  <2>1. accepted[turn] \in Nat /\ Unheard \in Nat
    BY <1>0, <1>9, Numbers, ToParent
  <2>2. /\ accepted[turn] + Unheard <= processed /\ (Attends => accepted[turn] + Unheard = processed)
        /\ count + Number(fromAgent, {"update"}) <= spoken
    BY <1>0, <1>3, <1>9 DEF Counted, Attends
  <2>3. accepted[turn] + Unheard' <= processed' /\ (Attends => accepted[turn] + Unheard' = processed')
    <3>1. processed \in Nat /\ processed' = processed + 1 /\ Unheard' = Unheard + 1
      BY <1>5, <1>8, <1>10
    <3> QED BY <2>1, <2>2, <3>1, OneMore
  <2> QED BY <1>1, <2>2, <2>3 DEF Counted, Attends
<1> QED BY <1>11, <1>12, <1>14, <1>15, <1>16 DEF TurnInv

LEMMA HandleKeeps ==
  ASSUME TurnInv, HandleUpdate
  PROVE  TurnInv'
<1>1. CASE at = "idle" \/ Head(updates).of = 0 \/ pinned \notin {0, Head(updates).of}
  BY <1>1, DroppedKeeps DEF HandleUpdate, session
<1>2. CASE ~(at = "idle" \/ Head(updates).of = 0 \/ pinned \notin {0, Head(updates).of})
  BY <1>2, HandledKeeps DEF HandleUpdate
<1> QED BY <1>1, <1>2

\* what is read from the pipe under no prompt is of none
LEMMA PullKeeps ==
  ASSUME TurnInv, Pull
  PROVE  TurnInv'
<1>0. TurnTypeOK /\ AtTurn /\ Counted
  BY DEF TurnInv
<1> DEFINE Heard == {"update", "completed", "stopped", "error"}
<1>1. /\ UNCHANGED <<Outside, loop, wactive, at, pinned, processed, fence, provider, spoken, toWorker, toParent>>
      /\ fromAgent # <<>> /\ fromAgent' = Tail(fromAgent)
  BY DEF Pull, wvars, session, avars
<1>2. /\ fromAgent' \in Seq(Heard) /\ Head(fromAgent) \in Heard /\ Number(fromAgent, {"update"}) \in Nat /\ Number(fromAgent', {"update"}) \in Nat
      /\ Head(fromAgent) = "update" => Number(fromAgent, {"update"}) = Number(fromAgent', {"update"}) + 1
      /\ Head(fromAgent) # "update" => Number(fromAgent', {"update"}) = Number(fromAgent, {"update"})
  <2>1. fromAgent \in Seq(Heard)
    BY <1>0, WorkNow
  <2> HIDE DEF Heard
  <2>2. fromAgent' \in Seq(Heard) /\ Head(fromAgent) \in Heard
    BY <1>1, <2>1, TailFacts
  <2>3. Number(fromAgent, {"update"}) \in Nat /\ Number(fromAgent', {"update"}) \in Nat
    BY <2>1, <2>2, NumberIsNat
  <2>4. /\ Head(fromAgent) \in {"update"} => Number(fromAgent, {"update"}) = Number(Tail(fromAgent), {"update"}) + 1
        /\ Head(fromAgent) \notin {"update"} => Number(Tail(fromAgent), {"update"}) = Number(fromAgent, {"update"})
    BY <1>1, <2>1, NumberTail
  <2>5. /\ Head(fromAgent) = "update" => Number(fromAgent, {"update"}) = Number(fromAgent', {"update"}) + 1
        /\ Head(fromAgent) # "update" => Number(fromAgent', {"update"}) = Number(fromAgent, {"update"})
    BY <1>1, <2>4
  <2> QED BY <2>2, <2>3, <2>5
<1>3. /\ count \in Nat /\ processed \in Nat /\ spoken \in 0 .. MaxUpdates /\ MaxUpdates \in Nat /\ spoken \in Nat /\ count \in 0 .. MaxUpdates
      /\ count + Number(fromAgent, {"update"}) <= spoken
      /\ updates \in Seq([of : 0 .. MaxTurns, seq : 0 .. MaxUpdates]) /\ Len(updates) \in Nat
      /\ \A i \in DOMAIN updates : i \in Nat /\ i <= Len(updates)
  <2>1. count \in Nat /\ processed \in Nat /\ spoken \in Nat /\ MaxUpdates \in Nat
    BY <1>0, Numbers
  <2>2. /\ spoken \in 0 .. MaxUpdates /\ count \in 0 .. MaxUpdates
        /\ updates \in Seq([of : 0 .. MaxTurns, seq : 0 .. MaxUpdates])
    BY <1>0, WorkNow
  <2>3. Len(updates) \in Nat /\ \A i \in DOMAIN updates : i \in Nat /\ i <= Len(updates)
    BY <2>2, LenProperties
  <2>4. count + Number(fromAgent, {"update"}) <= spoken
    BY <1>0 DEF Counted, Attends
  <2> QED BY <2>1, <2>2, <2>3, <2>4
<1>4. CASE Head(fromAgent) # "update"
  <2>1. /\ prompt' = 0 /\ UNCHANGED <<count, updates>> /\ reply' = IF prompt = 0 THEN reply ELSE Head(fromAgent)
    BY <1>4 DEF Pull
  <2>2. /\ NotBegun' /\ Whole' /\ Reported' /\ TurnAtHand' /\ Unheard' = Unheard /\ UNCHANGED <<turn, active, accepted, sinkError>>
        /\ toWorker' \in Seq(ParentMessage) /\ toParent' \in Seq(ChildMessage)
    BY <1>1, <2>1, WorkFrame DEF AsksNothing, SaysNothing, Still, NoneLeft
  <2>3. reply' \in {None, "completed", "stopped", "error"}
    BY <1>0, <1>2, <1>4, <2>1, WorkNow
  <2>4. TurnTypeOK'
    BY <1>0, <1>1, <1>2, <2>1, <2>2, <2>3, WorkNow, WorkTypes
  <2>5. AtTurn'
    <3>1. \A b \in Nat : Window(b) => Window(b)'
      BY <1>1, <2>1 DEF Window
    <3>2. at = "fence" => reply' = reply
      BY <1>0, <2>1 DEF AtTurn
    <3>3. at = "saving" => NoneLeft' /\ \A i \in DOMAIN toParent' : ~Reports(i)'
      BY <1>0, <1>1, <2>1 DEF AtTurn, NoneLeft, Reports
    <3> QED BY <1>0, <1>1, <2>1, <2>2, <3>1, <3>2, <3>3 DEF AtTurn
  <2>6. Counted'
    BY <1>0, <1>1, <1>2, <1>4, <2>1, <2>2 DEF Counted, Attends
  <2> QED BY <2>2, <2>4, <2>5, <2>6 DEF TurnInv
<1>5. CASE Head(fromAgent) = "update" /\ prompt = 0
  <2> DEFINE u == [of |-> 0, seq |-> 0]
  <2>1. /\ UNCHANGED <<prompt, count, reply>> /\ updates' = Append(updates, u)
    BY <1>5 DEF Pull
  <2>2. u \in [of : 0 .. MaxTurns, seq : 0 .. MaxUpdates] /\ u.of = 0
    BY <1>0, WorkNow
  <2> HIDE DEF u
  <2>3. /\ updates' \in Seq([of : 0 .. MaxTurns, seq : 0 .. MaxUpdates]) /\ Len(updates') = Len(updates) + 1
        /\ \A i \in DOMAIN updates' : \/ i \in DOMAIN updates /\ updates'[i] = updates[i]
                                      \/ i = Len(updates) + 1 /\ updates'[i] = u
    BY <1>3, <2>1, <2>2, AppendFacts
  <2>4. NoneLeft => NoneLeft'
    BY <2>2, <2>3 DEF NoneLeft
  <2>5. /\ NotBegun' /\ Whole' /\ Reported' /\ TurnAtHand' /\ Unheard' = Unheard /\ UNCHANGED <<turn, active, accepted, sinkError>>
        /\ toWorker' \in Seq(ParentMessage) /\ toParent' \in Seq(ChildMessage)
    BY <1>1, <2>1, <2>4, WorkFrame DEF AsksNothing, SaysNothing, Still
  <2>6. TurnTypeOK'
    BY <1>0, <1>1, <1>2, <2>1, <2>3, <2>5, WorkNow, WorkTypes
  <2>7. AtTurn'
    <3>1. ASSUME at \in {"prompt", "fence"} PROVE \E b \in Nat : Window(b)'
      <4>1. PICK b \in Nat : Window(b)
        BY <1>0, <3>1 DEF AtTurn
      <4> DEFINE n == count - processed
      <4>2. n \in Nat
        BY <1>0, <1>3, <3>1 DEF AtTurn
      <4>3. /\ b + n <= Len(updates)
            /\ \A i \in DOMAIN updates :
                 /\ b < i /\ i <= b + n => updates[i].of = wactive /\ updates[i].seq = processed + (i - b)
                 /\ ~(b < i /\ i <= b + n) => updates[i].of = 0
        BY <4>1 DEF Window
      <4> HIDE DEF n
      <4>4. b + n <= Len(updates') /\ ~(Len(updates) + 1 <= b + n)
        BY <1>3, <2>3, <4>2, <4>3
      <4>5. \A i \in DOMAIN updates' :
                 /\ b < i /\ i <= b + n => updates'[i].of = wactive /\ updates'[i].seq = processed + (i - b)
                 /\ ~(b < i /\ i <= b + n) => updates'[i].of = 0
        BY <2>2, <2>3, <4>3, <4>4
      <4>6. Window(b)'
        BY <1>1, <1>5, <2>1, <4>4, <4>5 DEF Window, n
      <4> QED BY <4>6
    <3>2. at = "saving" => NoneLeft' /\ \A i \in DOMAIN toParent' : ~Reports(i)'
      BY <1>0, <1>1, <2>4 DEF AtTurn, Reports
    <3> QED BY <1>0, <1>1, <1>5, <2>1, <2>5, <3>1, <3>2 DEF AtTurn
  <2>8. Counted'
    <3>1. count + Number(fromAgent', {"update"}) <= spoken
      BY <1>2, <1>3, <1>5
    <3> QED BY <1>0, <1>1, <2>1, <2>5, <3>1 DEF Counted, Attends
  <2> QED BY <2>5, <2>6, <2>7, <2>8 DEF TurnInv
<1>6. CASE Head(fromAgent) = "update" /\ prompt # 0
  <2> DEFINE u == [of |-> prompt, seq |-> count + 1]
  <2>1. /\ UNCHANGED <<prompt, reply>> /\ count' = count + 1 /\ updates' = Append(updates, u)
    BY <1>6 DEF Pull
  <2>2. count + 1 + Number(fromAgent', {"update"}) <= spoken /\ count + 1 \in 0 .. MaxUpdates
    BY <1>2, <1>3, <1>6
  <2>3. prompt = wactive /\ wactive # 0 /\ wactive = turn /\ at = "prompt" /\ reply = None /\ processed <= count
    BY <1>0, <1>6 DEF AtTurn
  <2>4. u \in [of : 0 .. MaxTurns, seq : 0 .. MaxUpdates] /\ u.of = wactive /\ u.seq = count + 1
    BY <1>0, <2>2, <2>3, WorkNow
  <2> HIDE DEF u
  <2>5. /\ updates' \in Seq([of : 0 .. MaxTurns, seq : 0 .. MaxUpdates]) /\ Len(updates') = Len(updates) + 1
        /\ \A i \in DOMAIN updates' : \/ i \in DOMAIN updates /\ updates'[i] = updates[i]
                                      \/ i = Len(updates) + 1 /\ updates'[i] = u
    BY <1>3, <2>1, <2>4, AppendFacts
  <2>6. /\ NotBegun' /\ Whole' /\ Reported' /\ TurnAtHand' /\ Unheard' = Unheard /\ UNCHANGED <<turn, active, accepted, sinkError>>
        /\ toWorker' \in Seq(ParentMessage) /\ toParent' \in Seq(ChildMessage)
    BY <1>1, <2>1, <2>3, WorkFrame DEF AsksNothing, SaysNothing, Still
  <2>7. TurnTypeOK'
    BY <1>0, <1>1, <1>2, <2>1, <2>2, <2>5, <2>6, WorkNow, WorkTypes
  <2>8. AtTurn'
    <3>1. PICK b \in Nat : Window(b)
      BY <1>0, <2>3 DEF AtTurn
    <3> DEFINE n == count - processed
    <3>2. n \in Nat /\ count' - processed' = n + 1
      BY <1>1, <1>3, <2>1, <2>3
    <3>3. /\ b + n = Len(updates)
          /\ \A i \in DOMAIN updates :
               /\ b < i /\ i <= b + n => updates[i].of = wactive /\ updates[i].seq = processed + (i - b)
               /\ ~(b < i /\ i <= b + n) => updates[i].of = 0
      BY <1>6, <3>1 DEF Window
    <3>4. count = processed + n
      BY <1>3
    <3> HIDE DEF n
    <3>5. b + (n + 1) = Len(updates')
      BY <1>3, <2>5, <3>2, <3>3
    <3>6. ASSUME NEW i \in DOMAIN updates'
          PROVE  /\ b < i /\ i <= b + (n + 1) => updates'[i].of = wactive /\ updates'[i].seq = processed + (i - b)
                 /\ ~(b < i /\ i <= b + (n + 1)) => updates'[i].of = 0
      <4>1. CASE i \in DOMAIN updates /\ updates'[i] = updates[i]
        <5>1. i \in Nat /\ i <= b + n /\ i <= b + (n + 1)
          BY <1>3, <3>2, <3>3, <4>1
        <5> QED BY <3>3, <4>1, <5>1
      <4>2. CASE i = Len(updates) + 1 /\ updates'[i] = u
        <5>1. i = b + n + 1 /\ b < i /\ i <= b + (n + 1)
          BY <3>2, <3>3, <4>2
        <5>2. processed + (i - b) = count + 1
          BY <1>3, <3>2, <3>4, <5>1
        <5> QED BY <2>4, <4>2, <5>1, <5>2
      <4> QED BY <2>5, <4>1, <4>2
    <3>7. Window(b)'
      BY <1>1, <2>1, <3>2, <3>5, <3>6 DEF Window
    <3>8. processed' <= count'
      BY <1>1, <1>3, <2>1, <2>3
    <3>9. \E c \in Nat : Window(c)'
      BY <3>7
    <3> QED BY <1>0, <1>1, <2>1, <2>3, <2>6, <3>8, <3>9 DEF AtTurn
  <2>9. Counted'
    BY <1>0, <1>1, <2>1, <2>2, <2>6 DEF Counted, Attends
  <2> QED BY <2>6, <2>7, <2>8, <2>9 DEF TurnInv
<1> QED BY <1>4, <1>5, <1>6

-----------------------------------------------------------------------------
(* Theorems                                                                 *)

LEMMA TurnInitInv == TurnInit => TurnInv
<1> SUFFICES ASSUME TurnInit PROVE TurnInv
  OBVIOUS
<1>1. MaxTurns \in Nat /\ MaxUpdates \in Nat
  BY TurnAssumption DEF TurnAssumption
<1>2. DOMAIN toWorker = {} /\ DOMAIN toParent = {} /\ DOMAIN updates = {}
  BY DEF TurnInit
<1>3. TurnTypeOK
  <2>1. outcome \in [Turns -> Outcomes] /\ accepted \in [Turns -> 0 .. MaxUpdates]
    BY <1>1 DEF TurnInit, Outcomes
  <2>2. /\ updates \in Seq([of : 0 .. MaxTurns, seq : 0 .. MaxUpdates])
        /\ toWorker \in Seq(ParentMessage) /\ toParent \in Seq(ChildMessage)
        /\ fromAgent \in Seq({"update", "completed", "stopped", "error"})
    BY EmptySeq DEF TurnInit
  <2>3. 0 \in 0 .. MaxTurns /\ 0 \in 0 .. MaxUpdates
    BY <1>1
  <2>4. /\ user \in {"between", "claiming", "waiting", "left"} /\ turn \in 0 .. MaxTurns
        /\ phase \in {"ready", "running", "cancelling", "cleaning", "closed"}
        /\ active \in 0 .. MaxTurns /\ policy \in Policies \union {None} /\ sinkError \in BOOLEAN
        /\ cancelAt \in {"no", "writing", "grace"} /\ pending \in Kinds \union {None}
        /\ faulted \in BOOLEAN /\ cleanup \in {"no", "marking", "told", "done"}
    BY <2>3 DEF TurnInit
  <2>5. /\ loop \in {"listening", "interrupting", "closing", "gone"} /\ wactive \in 0 .. MaxTurns
        /\ at \in {"idle", "saving", "prompt", "fence"}
        /\ pinned \in 0 .. MaxTurns /\ processed \in 0 .. MaxUpdates /\ fence \in 0 .. MaxUpdates
        /\ prompt \in 0 .. MaxTurns /\ count \in 0 .. MaxUpdates
        /\ reply \in {None, "completed", "stopped", "error"}
        /\ provider \in {"idle", "busy", "gone"} /\ spoken \in 0 .. MaxUpdates
    BY <2>3 DEF TurnInit
  <2> QED BY <2>1, <2>2, <2>4, <2>5 DEF TurnTypeOK
<1>4. TurnAtHand
  BY DEF TurnInit, TurnAtHand
<1>5. Quiet /\ NotBegun /\ Whole /\ Reported
  BY <1>2 DEF TurnInit, Quiet, NoneLeft, NotBegun, Whole, Reported
<1>6. AtTurn
  BY DEF TurnInit, AtTurn
<1>7. Counted
  <2>1. Number(fromAgent, {"update"}) = 0
    BY <1>3, WorkNow, NumberIsNat DEF TurnInit
  <2> QED BY <1>1, <2>1 DEF TurnInit, Counted
<1> QED BY <1>3, <1>4, <1>5, <1>6, <1>7 DEF TurnInv

LEMMA TurnStepInv == TurnInv /\ [TurnNext]_vars => TurnInv'
<1> SUFFICES ASSUME TurnInv, [TurnNext]_vars PROVE TurnInv'
  OBVIOUS
<1>1. CASE CapsuleStep \/ Claim \/ Answered \/ PolicyTakesEffect \/ Close \/ ExitSeen
  BY <1>1, CapsuleStepKeeps, DispatchKeeps, StopTreeKeeps, ClaimKeeps, ExitKeeps DEF CapsuleStep
<1>2. CASE Event \/ Terminal \/ OutOfTurn \/ Failed \/ WorkerCloses
  BY <1>2, EventKeeps, ReceiveKeeps
<1>3. CASE Run \/ Cancel \/ Interrupted \/ CloseHeard \/ CloseWorker \/ WorkerDies
  BY <1>3, RunKeeps, SmallStepsKeep, TurnEndsKeep, WorkerEndsKeeps
<1>4. CASE Prompt \/ TurnFails \/ Responded \/ Fenced \/ HandleUpdate \/ Pull
  BY <1>4, PromptKeeps, TurnEndsKeep, RespondedKeeps, HandleKeeps, PullKeeps
<1>5. CASE Update \/ Respond \/ ProviderDies
  BY <1>5, SmallStepsKeep
<1>6. CASE UNCHANGED vars
  <2>1. TurnTypeOK /\ TurnAtHand
    BY DEF TurnInv
  <2>2. /\ UNCHANGED <<turn, accepted, sinkError, Inside, toParent>> /\ UNCHANGED <<user, outcome, phase, active, policy, cancelAt, pending, sinkError, faulted, cleanup, toWorker>>
    BY <1>6 DEF vars, uvars, cvars, wvars, session, transport, avars, Inside
  <2>3. TurnTypeOK'
    BY <2>1, <2>2, CapsuleNow, CapsuleTypes
  <2>4. TurnAtHand' /\ (Done' => Done)
    BY <2>1, <2>2 DEF TurnAtHand, Done, Attends
  <2> QED BY <2>2, <2>3, <2>4, CapsuleKeeps DEF AsksNothing
<1> QED BY <1>1, <1>2, <1>3, <1>4, <1>5, <1>6 DEF TurnNext

LEMMA TurnInvHolds == TurnSpec => []TurnInv
BY TurnInitInv, TurnStepInv, PTL DEF TurnSpec

\* For any number of Turns and updates, whatever a policy, a closing capsule, a dying
\* worker or a talkative provider does in between: the observer of a Turn is told of
\* the updates of its own prompt only, the worker is never asked for a Turn while it
\* has one, and a Turn is reported as completed only when every update that came
\* before the response of the provider was accepted.
THEOREM TurnAgrees == TurnSpec => []TurnConsistent
<1>1. TurnInv => TurnConsistent
  <2> SUFFICES ASSUME TurnInv PROVE TurnConsistent
    OBVIOUS
  <2>0. TurnTypeOK /\ NotBegun /\ Whole /\ AtTurn /\ Reported
    BY DEF TurnInv
  <2>1. EventsInTheirTurn
    <3>1. DOMAIN toParent = 1 .. Len(toParent)
      BY <2>0, WorkNow, LenProperties
    <3> QED BY <2>0, <3>1 DEF EventsInTheirTurn, Reported, Reports
  <2>2. OneTurnAtATime
    <3>1. toWorker # <<>> => 1 \in DOMAIN toWorker /\ Head(toWorker) = toWorker[1]
      BY <2>0, WorkNow, TailFacts
    <3> QED BY <2>0, <3>1 DEF OneTurnAtATime, NotBegun, AtTurn, Asks, Quiet
  <2>3. CompletedIsWhole
    <3>1. \A t \in Turns : t # 0
      BY DEF Turns
    <3> QED BY <2>0, <3>1 DEF CompletedIsWhole, Whole, Done, Attends
  <2> QED BY <2>0, <2>1, <2>2, <2>3 DEF TurnConsistent
<1> QED BY <1>1, TurnInvHolds, PTL

\* what a step may do to the outcomes there are, and to the one the last Turn has not
Decided ==
  \A t \in Turns :
    /\ outcome[t] # None =>
         outcome'[t] \in {outcome[t]} \union (IF outcome[t] = "completed" THEN {"deadline"} ELSE {})
    /\ outcome[t] = None /\ outcome'[t] # None /\ t = turn =>
         IF sinkError THEN outcome'[t] = "sink" ELSE policy # None => outcome'[t] = policy

\* and to what decides it
Kept ==
  /\ turn' = turn => (policy # None => policy' = policy) /\ (sinkError => sinkError')
  /\ Decided

LEMMA OutcomeStays ==
  ASSUME TurnInv, active # 0 \/ pending # None, NEW kind \in Kinds \union {None},
         outcome' = [outcome EXCEPT ![turn] = Mapped(kind)]
  PROVE  Decided
<1>1. TurnTypeOK /\ outcome[turn] = None /\ outcome \in [Turns -> Outcomes]
  BY CapsuleNow DEF TurnInv, TurnAtHand
<1>2. /\ sinkError => Mapped(kind) = "sink"
      /\ ~sinkError /\ policy # None => Mapped(kind) = policy
      /\ sinkError \in BOOLEAN
  BY <1>1, MappedFacts, CapsuleNow
<1>3. \A t \in Turns : outcome'[t] = IF t = turn THEN Mapped(kind) ELSE outcome[t]
  BY <1>1
<1> QED BY <1>1, <1>2, <1>3 DEF Decided

LEMMA SettlesOnce ==
  ASSUME TurnInv, NEW kind \in Kinds \union {None}, SettleIf(kind)
  PROVE  Decided
<1>1. CASE active # 0 /\ phase \in {"cleaning", "closed"}
  BY <1>1, OutcomeStays DEF SettleIf, Settle
<1>2. CASE ~(active # 0 /\ phase \in {"cleaning", "closed"})
  BY <1>2 DEF SettleIf, Settle, Decided
<1> QED BY <1>1, <1>2

LEMMA StepKeeps == TurnInv /\ [TurnNext]_vars => Kept
<1> SUFFICES ASSUME TurnInv, [TurnNext]_vars PROVE Kept
  OBVIOUS
<1>0. TurnTypeOK /\ turn \in Nat
  BY Numbers DEF TurnInv
<1>a. "lost" \in Kinds
  BY DEF Kinds
<1>1. CASE UNCHANGED <<policy, sinkError, outcome>>
  BY <1>1 DEF Kept, Decided
<1>2. ASSUME UNCHANGED <<policy, sinkError>>, NEW kind \in Kinds \union {None}, SettleIf(kind) PROVE Kept
  BY <1>2, SettlesOnce DEF Kept
<1>3. ASSUME UNCHANGED outcome, sinkError => sinkError', NEW p, Policy(p) PROVE Kept
  BY <1>3 DEF Kept, Decided, Policy
<1>4. CASE Settled
  <2>1. PICK kind \in Kinds : outcome' = [outcome EXCEPT ![turn] = Mapped(kind)]
    BY <1>0, <1>4, <1>a, CapsuleNow DEF Settled
  <2>2. pending # None /\ UNCHANGED <<policy, sinkError>>
    BY <1>4 DEF Settled
  <2> QED BY <2>1, <2>2, OutcomeStays DEF Kept
<1>5. CASE Dispatch
  <2>1. CASE UNCHANGED <<active, outcome, phase, policy, cancelAt, pending, faulted>>
    BY <1>1, <1>5, <2>1 DEF Dispatch
  <2>2. CASE Policy("cancelled") /\ UNCHANGED <<active, outcome, pending, faulted>>
    BY <1>3, <1>5, <2>2 DEF Dispatch
  <2>3. CASE Fault /\ UNCHANGED <<policy, cancelAt, toWorker>>
    BY <1>2, <1>5, <1>a, <2>3 DEF Dispatch, Fault
  <2> QED BY <1>5, <2>1, <2>2, <2>3 DEF Dispatch
<1>6. CASE Told
  <2>1. CASE UNCHANGED <<active, outcome, phase, pending, faulted>>
    BY <1>1, <1>6, <2>1 DEF Told
  <2>2. CASE Fault /\ cancelAt' = "no" /\ UNCHANGED toWorker
    BY <1>2, <1>6, <1>a, <2>2 DEF Told, Fault
  <2> QED BY <1>6, <2>1, <2>2 DEF Told
<1>7. CASE StopTree
  BY <1>2, <1>7, <1>a DEF StopTree
<1>8. CASE Close \/ TellClose \/ WorkerCloses
  BY <1>1, <1>8 DEF Close, TellClose, WorkerCloses, uvars
<1>9. CASE CancelOnClose \/ PolicyTakesEffect
  BY <1>3, <1>9 DEF CancelOnClose, PolicyTakesEffect, uvars
<1>10. CASE Claim
  <2>1. turn' # turn /\ turn' \in Turns /\ outcome[turn'] = None
    BY <1>0, <1>10, TurnAssumption DEF Claim, TurnInv, TurnAtHand, Turns, TurnAssumption
  <2>2. outcome' = outcome \/ outcome' = [outcome EXCEPT ![turn'] = "lost"]
    BY <1>10 DEF Claim
  <2>3. outcome \in [Turns -> Outcomes]
    BY <1>0, CapsuleNow
  <2> QED BY <1>0, <2>1, <2>2, <2>3 DEF Kept, Decided
<1>11. CASE Answered
  <2>1. UNCHANGED <<policy, sinkError>>
    BY <1>11 DEF Answered, cvars
  <2>2. outcome' = outcome \/ (outcome[turn] = "completed" /\ outcome' = [outcome EXCEPT ![turn] = "deadline"])
    BY <1>11 DEF Answered
  <2>3. outcome \in [Turns -> Outcomes] /\ "completed" # None
    BY <1>0, CapsuleNow DEF None
  <2> QED BY <2>1, <2>2, <2>3 DEF Kept, Decided
<1>12. CASE Event
  <2>0. UNCHANGED outcome /\ (sinkError => sinkError')
    BY <1>12 DEF Event, uvars
  <2>1. CASE UNCHANGED <<policy, phase, cancelAt, toWorker>>
    BY <2>0, <2>1 DEF Kept, Decided
  <2>2. CASE Policy("sink")
    BY <1>3, <2>0, <2>2
  <2> QED BY <1>12, <2>1, <2>2 DEF Event
<1>13. CASE Terminal
  <2>1. SettleIf(Head(toParent).kind) /\ UNCHANGED <<policy, sinkError>>
    BY <1>13 DEF Terminal, Stray, SettleIf
  <2>2. Head(toParent).kind \in Kinds \union {None}
    <3>1. toParent \in Seq(ChildMessage) /\ toParent # <<>>
      BY <1>0, <1>13, WorkNow DEF Terminal, Receive, Listening
    <3>2. Head(toParent) \in ChildMessage
      BY <3>1, TailFacts
    <3> QED BY <3>2 DEF ChildMessage
  <2> QED BY <1>2, <2>1, <2>2
<1>14. CASE OutOfTurn \/ Failed
  BY <1>2, <1>14, <1>a DEF OutOfTurn, Failed, Fault
<1>15. CASE ExitSeen
  <2>1. UNCHANGED <<policy, sinkError>>
    BY <1>15 DEF ExitSeen
  <2>2. CASE active = 0
    BY <1>15, <1>1, <2>1, <2>2 DEF ExitSeen
  <2>3. CASE active # 0
    BY <1>15, <1>a, <2>1, <2>3, OutcomeStays DEF ExitSeen, Kept
  <2> QED BY <2>2, <2>3
<1>16. CASE Run \/ Cancel \/ Interrupted \/ CloseHeard \/ CloseWorker \/ WorkerDies \/ Prompt \/ TurnFails
            \/ Responded \/ Fenced \/ HandleUpdate \/ Pull \/ Update \/ Respond \/ ProviderDies
  <2>1. UNCHANGED Outside
    BY <1>16 DEF Run, Cancel, Interrupted, CloseHeard, CloseWorker, WorkerDies, Prompt, TurnFails, Responded,
                 Fenced, HandleUpdate, Pull, Update, Respond, ProviderDies
  <2> QED BY <1>1, <2>1 DEF Outside, uvars, cvars
<1>17. CASE UNCHANGED vars
  BY <1>1, <1>17 DEF vars, uvars, cvars
<1> QED BY <1>4, <1>5, <1>6, <1>7, <1>8, <1>9, <1>10, <1>11, <1>12, <1>13, <1>14, <1>15, <1>16, <1>17
        DEF TurnNext, CapsuleStep

\* For any number of Turns and any policies: of the policies that compete for a Turn
\* the first to take effect stays, and so does the refusal of an event by the observer;
\* the Turn ends by the refusal if there was one, though another policy came first, and
\* otherwise by the policy, whatever the worker says; and an outcome, once there, is
\* never replaced (a completed one may still turn into a passed deadline, which it was
\* while the answer was on its way).
THEOREM FirstPolicyTakesEffect == TurnSpec => FirstPolicyWins
<1>1. TurnInv /\ [TurnNext]_vars => [Kept]_vars
  BY StepKeeps
<1> QED BY <1>1, TurnInvHolds, PTL DEF TurnSpec, FirstPolicyWins, Kept, Decided

=============================================================================
