------------------------------- MODULE RunProofs -------------------------------
(***************************************************************************)
(* What holds of RunStore, and of RunPump over it, for every workflow tree, *)
(* strategy and bound: the store's types and invariant IInv, fencing, the   *)
(* refinement of ExclusiveWork, retries; the coherence CInv of the tree and *)
(* what it gives; then the pump's invariants PInv and KInv.                 *)
(***************************************************************************)
EXTENDS RunPump, FiniteSetTheorems, WellFoundedInduction, TLAPS

-----------------------------------------------------------------------------
(* Facts about the data                                                     *)

\* A number given to each element of a finite set has a largest value.
LEMMA LargestValue ==
  ASSUME NEW S, IsFiniteSet(S), S # {}, NEW f \in [S -> Nat]
  PROVE  \E x \in S : \A y \in S : f[y] <= f[x]
<1> DEFINE Above(x) == {y \in S : f[y] > f[x]}
           T == {Above(x) : x \in S}
<1>1. FiniteSubsetsOf(S) = SUBSET S
  BY FS_FiniteSubsetsOfFinite
<1>2. IsWellFoundedOn(StrictSubsetOrdering(S), SUBSET S)
  BY <1>1, FS_StrictSubsetOrderingWellFounded
<1>3. T \subseteq SUBSET S /\ T # {}
  <2>1. PICK x \in S : TRUE
    OBVIOUS
  <2>2. Above(x) \in T
    OBVIOUS
  <2> QED BY <2>2
<1>4. PICK U \in T : \A V \in T : <<V, U>> \notin StrictSubsetOrdering(S)
  <2> HIDE DEF T
  <2> QED BY <1>2, <1>3, WFMin
<1>5. PICK x \in S : U = Above(x)
  BY <1>4
<1>6. ASSUME NEW y \in S, f[y] > f[x] PROVE FALSE
  <2>1. Above(y) \subseteq Above(x) /\ y \in Above(x) /\ y \notin Above(y)
    BY <1>6
  <2>2. <<Above(y), Above(x)>> \in StrictSubsetOrdering(S)
    BY <2>1 DEF StrictSubsetOrdering
  <2> QED BY <2>2, <1>4, <1>5
<1> QED BY <1>6

\* The nodes of the workflow are finitely many, and so are its group members.
LEMMA TreeFacts ==
  /\ Leaves \subseteq Members /\ Members \subseteq Nodes
  /\ IsFiniteSet(Nodes) /\ IsFiniteSet(Members)
  /\ Members = Leaves \union (Groups \ {Root})
<1>1. IsFiniteSet(Nodes)
  BY TreeAssumption, FS_Union DEF Nodes
<1>2. IsFiniteSet(Members)
  BY <1>1, FS_Subset DEF Members
<1> QED BY <1>1, <1>2, TreeAssumption DEF Nodes, Members

\* What holds of Root, and of a node whenever of its parent, holds of the whole tree.
LEMMA DownTheTree ==
  ASSUME NEW S, Root \in S, \A n \in Members : Parent[n] \in S => n \in S
  PROVE  Nodes \subseteq S
<1> SUFFICES ASSUME NEW x \in Nodes, x \notin S PROVE FALSE
  OBVIOUS
<1> DEFINE T == {Path[n] : n \in Nodes \ S}
<1>1. FiniteSubsetsOf(Nodes) = SUBSET Nodes
  BY TreeFacts, FS_FiniteSubsetsOfFinite
<1>2. IsWellFoundedOn(StrictSubsetOrdering(Nodes), SUBSET Nodes)
  BY <1>1, FS_StrictSubsetOrderingWellFounded
<1>3. T \subseteq SUBSET Nodes /\ T # {}
  <2>1. Path[x] \in T
    OBVIOUS
  <2>2. T \subseteq SUBSET Nodes
    BY TreeAssumption
  <2> QED BY <2>1, <2>2
<1>4. PICK U \in T : \A V \in T : <<V, U>> \notin StrictSubsetOrdering(Nodes)
  <2> HIDE DEF T
  <2> QED BY <1>2, <1>3, WFMin
<1>5. PICK n \in Nodes \ S : U = Path[n]
  BY <1>4
<1>6. n \in Members /\ Parent[n] \in Nodes \ S
  BY TreeAssumption DEF Members, Nodes
<1>7. Path[Parent[n]] \subseteq Path[n] /\ Path[Parent[n]] # Path[n] /\ Path[n] \subseteq Nodes
  BY <1>6, TreeAssumption
<1>8. <<Path[Parent[n]], Path[n]>> \in StrictSubsetOrdering(Nodes)
  BY <1>7 DEF StrictSubsetOrdering
<1> QED BY <1>4, <1>5, <1>6, <1>8

\* The path of a node: it ends at Root, and the path of every group on it is part of it.
LEMMA PathFacts ==
  ASSUME NEW n \in Nodes
  PROVE  /\ n \in Path[n] /\ Root \in Path[n] /\ Path[n] \subseteq Nodes
         /\ \A g \in Path[n] : Path[g] \subseteq Path[n]
<1> DEFINE S == {x \in Nodes : Root \in Path[x] /\ \A g \in Path[x] : Path[g] \subseteq Path[x]}
<1>1. Root \in S
  BY TreeAssumption DEF Nodes
<1>2. ASSUME NEW x \in Members, Parent[x] \in S PROVE x \in S
  BY <1>2, TreeAssumption, TreeFacts
<1>3. Nodes \subseteq S
  <2> HIDE DEF S
  <2> QED BY <1>1, <1>2, DownTheTree
<1>4. n \in Path[n]
  BY TreeAssumption DEF Members
<1> QED BY <1>3, <1>4, TreeAssumption

\* On the way from Root to a node there is one member of each group.
LEMMA OneMemberOfEach ==
  ASSUME NEW l \in Nodes, NEW m \in Line(l), NEW n \in Line(l), Parent[m] = Parent[n]
  PROVE  m = n
<1> DEFINE S == {x \in Nodes : \A y, z \in Line(x) : Parent[y] = Parent[z] => y = z}
<1>1. Root \in S
  BY TreeAssumption DEF Line, Nodes
<1>2. ASSUME NEW x \in Members, Parent[x] \in S PROVE x \in S
  <2> SUFFICES ASSUME NEW y \in Line(x), NEW z \in Line(x), Parent[y] = Parent[z] PROVE y = z
    BY TreeFacts
  <2>1. Line(x) = {x} \union Line(Parent[x])
    BY TreeAssumption DEF Line, Members
  <2>2. ASSUME NEW w \in Line(Parent[x]), Parent[w] = Parent[x] PROVE FALSE
    <3>1. Parent[x] \in Nodes /\ w \in Path[Parent[x]] /\ w # Root
      BY TreeAssumption DEF Nodes, Line
    <3>2. w \in Members
      BY <3>1, TreeAssumption DEF Members
    <3>3. Path[w] \subseteq Path[Parent[x]]
      BY <3>1, PathFacts
    <3> QED BY <3>2, <3>3, <2>2, TreeAssumption, <3>1
  <2> QED BY <2>1, <2>2, <1>2
<1>3. Nodes \subseteq S
  <2> HIDE DEF S
  <2> QED BY <1>1, <1>2, DownTheTree
<1> QED BY <1>3

\* The way to a node consists of group members.
LEMMA LineFacts ==
  ASSUME NEW l \in Nodes
  PROVE  Line(l) \subseteq Members
  BY PathFacts DEF Line, Members

\* The size of a finite set that is put together from disjoint parts.
LEMMA TwoParts ==
  ASSUME NEW A, NEW B, IsFiniteSet(A), IsFiniteSet(B), A \intersect B = {}
  PROVE  /\ IsFiniteSet(A \union B)
         /\ Cardinality(A \union B) = Cardinality(A) + Cardinality(B)
         /\ Cardinality(A) \in Nat /\ Cardinality(B) \in Nat
<1>1. Cardinality(A \intersect B) = 0
  BY FS_EmptySet
<1>2. Cardinality(A) \in Nat /\ Cardinality(B) \in Nat
  BY FS_CardinalityType
<1>3. /\ IsFiniteSet(A \union B)
      /\ Cardinality(A \union B) = Cardinality(A) + Cardinality(B) - Cardinality(A \intersect B)
  BY FS_Union
<1> QED BY <1>1, <1>2, <1>3

LEMMA FourParts ==
  ASSUME NEW A, NEW B, NEW C, NEW x, IsFiniteSet(A), IsFiniteSet(B), IsFiniteSet(C),
         A \intersect B = {}, A \intersect C = {}, B \intersect C = {},
         x \notin A, x \notin B, x \notin C
  PROVE  /\ Cardinality(A \union B \union C \union {x})
              = Cardinality(A) + Cardinality(B) + Cardinality(C) + 1
         /\ Cardinality(A) \in Nat /\ Cardinality(B) \in Nat /\ Cardinality(C) \in Nat
<1>1. /\ IsFiniteSet(A \union B) /\ Cardinality(A) \in Nat /\ Cardinality(B) \in Nat
      /\ Cardinality(A \union B) = Cardinality(A) + Cardinality(B)
  BY TwoParts
<1>2. (A \union B) \intersect C = {}
  OBVIOUS
<1>3. /\ IsFiniteSet((A \union B) \union C) /\ Cardinality(C) \in Nat
      /\ Cardinality((A \union B) \union C) = Cardinality(A \union B) + Cardinality(C)
  BY <1>1, <1>2, TwoParts
<1>4. Cardinality((A \union B \union C) \union {x}) = Cardinality(A \union B \union C) + 1
  BY <1>3, FS_AddElement
<1> QED BY <1>1, <1>3, <1>4

\* nextCompletionSequence always finds a number above the ones in use.
LEMMA NextSequenceFact ==
  ASSUME seq \in [Members -> Nat]
  PROVE  NextSequence \in Nat /\ \A n \in Members : seq[n] < NextSequence
<1> DEFINE Used1 == {0} \union {seq[n] : n \in Members}
<1>1. \E t \in Used1 : \A n \in Members : seq[n] <= t
  <2>1. CASE Members = {}
    BY <2>1
  <2>2. CASE Members # {}
    <3>1. PICK m \in Members : \A n \in Members : seq[n] <= seq[m]
      BY <2>2, TreeFacts, LargestValue
    <3> QED BY <3>1
  <2> QED BY <2>1, <2>2
<1>2. Used1 \subseteq Nat
  OBVIOUS
<1> QED BY <1>1, <1>2 DEF NextSequence

-----------------------------------------------------------------------------
(* Types                                                                    *)

LEMMA InitType == Init => TypeOK
  BY BoundAssumption
  DEF Init, TypeOK, Status, Open, OpenWait, Settled, Reasons, Terminal, Running, Closed, Epochs,
      Tries

LEMMA ClosingKeepsTypes ==
  ASSUME TypeOK, NEW L, NEW st \in Closed
  PROVE  CloseAttempts(L, st) \in [Leaves -> [Tries -> {"none"} \union Running \union Closed]]
  BY DEF TypeOK, CloseAttempts

LEMMA NextType ==
  ASSUME TypeOK, [Next]_vars
  PROVE  TypeOK'
<1> USE DEF TypeOK, Status, Open, OpenWait, Settled, Reasons, Terminal, Running, Closed, Epochs,
            owner, proj
<1>1. CASE ClaimRun
  BY <1>1, BoundAssumption DEF ClaimRun
<1>2. CASE ReleaseRun
  BY <1>2 DEF ReleaseRun
<1>3. CASE LeaseExpires
  BY <1>3 DEF LeaseExpires
<1>4. ASSUME NEW e \in Epochs, SupersedeExpired(e) PROVE TypeOK'
  BY <1>4 DEF SupersedeExpired
<1>5. CASE CompleteGroups
  <2> DEFINE losers == {n \in Members : Parent[n] \in Batch /\ member[n] \in Open}
             Why(n) == LoserReason(CHOOSE g \in Batch : g \in Path[n])
             Cancel(f) == [n \in DOMAIN f |->
               IF n \in Under(losers) /\ f[n] \in Open THEN Why(n) ELSE f[n]]
  <2>1. \A n : Why(n) \in Reasons
    BY DEF LoserReason
  <2>2. \A g \in Groups : Outcome(g) \in {"running", "completed", "failed"}
    BY BoundAssumption DEF Outcome
  <2>3. \A g \in Groups : WinnerSet(g) \subseteq Members
    BY BoundAssumption DEF WinnerSet, Winners, Kids
  <2>4. /\ group' = [g \in Groups |-> IF g \in Batch THEN Outcome(g) ELSE Cancel(group)[g]]
        /\ accepted' = [g \in Groups |->
              IF g \in Batch /\ Outcome(g) = "completed" THEN WinnerSet(g) ELSE accepted[g]]
        /\ member' = Cancel(member) /\ branch' = Cancel(branch)
        /\ gframe' = Cancel(gframe) /\ inst' = Cancel(inst)
        /\ att' = CloseAttempts(Leaves \intersect Under(losers), "cancelled")
        /\ wait' = [l \in Signals |->
             IF l \in Under(losers) /\ wait[l] \in OpenWait THEN Why(l) ELSE wait[l]]
        /\ UNCHANGED <<run, own, seq, owner>>
    BY <1>5 DEF CompleteGroups
  <2> HIDE DEF losers, Why
  <2>5. /\ group' \in [Groups -> Status \ {"ready"}]
        /\ accepted' \in [Groups -> SUBSET Members]
    BY <2>1, <2>2, <2>3, <2>4
  <2>6. /\ member' \in [Members -> Status] /\ branch' \in [Members -> Status \ {"ready"}]
        /\ gframe' \in [Groups -> Status \ {"ready"}] /\ inst' \in [Leaves -> Status]
    BY <2>1, <2>4
  <2>7. att' \in [Leaves -> [Tries -> {"none"} \union Running \union Closed]]
    BY <2>4, ClosingKeepsTypes
  <2>8. wait' \in [Signals -> {"none", "consumed", "timed_out"} \union OpenWait \union Reasons]
    BY <2>1, <2>4
  <2> QED BY <2>4, <2>5, <2>6, <2>7, <2>8
<1>6. ASSUME NEW n \in Members, ContinueBranch(n) PROVE TypeOK'
  BY <1>6, TreeFacts, NextSequenceFact DEF ContinueBranch, BranchTurn, BranchReady, Child
<1>7. ASSUME NEW g \in Groups, ContinueGroup(g) PROVE TypeOK'
  BY <1>7 DEF ContinueGroup, GroupTurn, GroupReady
<1>8. CASE ContinueRoot
  BY <1>8 DEF ContinueRoot
<1>9. CASE TimeoutAttempts
  BY <1>9 DEF TimeoutAttempts
<1>10. ASSUME NEW l \in Leaves, StartAttempt(l) PROVE TypeOK'
  BY <1>10 DEF StartAttempt, StartLine
<1>11. ASSUME NEW l \in Leaves, NEW k \in Tries, NEW e \in Epochs,
              NEW res \in {"completed", "failed"}, CommitResult(l, k, e, res)
       PROVE  TypeOK'
  BY <1>11 DEF CommitResult, StartLine
<1>12. ASSUME NEW l \in Leaves, NEW k \in Tries, DeadlinePasses(l, k) PROVE TypeOK'
  BY <1>12 DEF DeadlinePasses
<1>13. CASE Pause
  BY <1>13, ClosingKeepsTypes DEF Pause, Freeze
<1>14. CASE Resume
  BY <1>14 DEF Resume, Thaw
<1>15. CASE CancelRun
  BY <1>15, TreeFacts, ClosingKeepsTypes DEF CancelRun, CancelTree, CancelIn, CancelWaits
<1>16. ASSUME NEW l \in Leaves, CancelLeaf(l) PROVE TypeOK'
  BY <1>16, TreeFacts, ClosingKeepsTypes DEF CancelLeaf, CancelTree, CancelIn, CancelWaits
<1>17. ASSUME NEW g \in Groups, CancelGroup(g) PROVE TypeOK'
  BY <1>17, TreeFacts, ClosingKeepsTypes DEF CancelGroup, CancelIn, CancelWaits
<1>18. ASSUME NEW l \in Leaves, RetryLeaf(l) PROVE TypeOK'
  BY <1>18 DEF RetryLeaf, Reopen
<1>19. CASE UNCHANGED vars
  BY <1>19 DEF vars
<1>20. CASE TimeoutSignals \/ DrainSignals
  BY <1>20 DEF TimeoutSignals, DrainSignals, ExpireWaits
<1>21. ASSUME NEW l \in Signals, AwaitSignal(l) \/ ConsumeSignal(l) PROVE TypeOK'
  <2>1. member' \in [Members -> Status]
    BY <1>21 DEF AwaitSignal, ConsumeSignal, StartLine
  <2>2. inst' \in [Leaves -> Status]
    BY <1>21 DEF AwaitSignal, ConsumeSignal
  <2>3. wait' \in [Signals -> {"none", "consumed", "timed_out"} \union OpenWait \union Reasons]
    BY <1>21 DEF AwaitSignal, ConsumeSignal
  <2> QED BY <1>21, <2>1, <2>2, <2>3 DEF AwaitSignal, ConsumeSignal
<1>22. ASSUME NEW l \in Signals, WaitExpires(l) PROVE TypeOK'
  BY <1>22 DEF WaitExpires
<1> QED BY <1>1, <1>2, <1>3, <1>4, <1>5, <1>6, <1>7, <1>8, <1>9, <1>10, <1>11, <1>12,
           <1>13, <1>14, <1>15, <1>16, <1>17, <1>18, <1>19, <1>20, <1>21, <1>22
        DEF Next, Derive, Ownership, Execution, Waiting, Control

\* Every reachable state is well typed: the statuses, owner epochs and completion
\* numbers that any mix of transactions writes stay in their domains.
THEOREM TypeCorrect == Spec => []TypeOK
  BY InitType, NextType, PTL DEF Spec

-----------------------------------------------------------------------------
(* One leaf: what a transaction can do to its attempts                      *)

\* attempts are numbered without gaps, so the next number is unused
Numbered == \A l \in Leaves : \E m \in 0 .. MaxAttempts : Used(l) = 1 .. m
\* a started attempt belongs to the present owner or to an earlier one
OwnedSoFar ==
  /\ lease = "held" => epoch > 0
  /\ \A l \in Leaves, k \in Tries : Started(l, k) => own[l][k] \in 1 .. epoch

IInv ==
  TypeOK /\ OneStartedAttempt /\ WaitsAgree /\ Numbered /\ PausedRunIsIdle /\ OwnedSoFar

Keeps(l) ==
  /\ att'[l] = att[l] /\ own'[l] = own[l]
  /\ inst'[l] = "running" <=> inst[l] = "running"
Closes(l) ==
  /\ own'[l] = own[l] /\ inst'[l] # "running"
  /\ \A k \in Tries : IF Started(l, k) THEN att'[l][k] \in Closed ELSE att'[l][k] = att[l][k]
Starts(l) ==
  /\ lease = "held" /\ run = "active" /\ run' = run
  /\ inst[l] = "ready" /\ inst'[l] = "running"
  /\ \E k \in Tries : /\ k = Cardinality(Used(l)) + 1
                      /\ att' = [att EXCEPT ![l][k] = "started"]
                      /\ own' = [own EXCEPT ![l][k] = epoch]
Overruns(l) ==
  /\ own'[l] = own[l] /\ inst'[l] = inst[l] /\ run' = run
  /\ \E k \in Tries : att[l][k] = "started" /\ att' = [att EXCEPT ![l][k] = "overdue"]

\* The number the next attempt gets is not in use.
LEMMA NextNumberIsUnused ==
  ASSUME TypeOK, Numbered, NEW l \in Leaves
  PROVE  /\ Cardinality(Used(l)) \in Nat
         /\ Used(l) = 1 .. Cardinality(Used(l))
         /\ \A k \in Tries : k = Cardinality(Used(l)) + 1 => att[l][k] = "none"
<1>1. PICK m \in 0 .. MaxAttempts : Used(l) = 1 .. m
  BY DEF Numbered
<1>2. Cardinality(1 .. m) = m
  BY FS_Interval, BoundAssumption
<1>3. Cardinality(Used(l)) = m
  BY <1>1, <1>2
<1>4. \A k \in Tries : k = m + 1 => k \notin Used(l)
  BY <1>1, BoundAssumption
<1>5. \A k \in Tries : k \notin Used(l) => att[l][k] = "none"
  BY DEF Used
<1>6. m \in Nat
  BY BoundAssumption
<1> QED BY <1>1, <1>3, <1>4, <1>5, <1>6

\* Every transaction leaves a leaf alone, closes all it has started, starts one
\* attempt, or lets the deadline of one pass.
LEMMA LeafStep ==
  ASSUME TypeOK, OneStartedAttempt, WaitsAgree, [Next]_vars, NEW l \in Leaves
  PROVE  Keeps(l) \/ Closes(l) \/ Starts(l) \/ Overruns(l)
<1> USE DEF TypeOK, owner, proj, Started, Running, Closed
<1>a. \A k \in Tries : Started(l, k) => inst[l] = "running"
  BY DEF OneStartedAttempt
<1>b. \A j, k \in Tries : Started(l, j) /\ Started(l, k) => j = k
  BY DEF OneStartedAttempt
<1>1. CASE ClaimRun
  BY <1>1 DEF ClaimRun, Keeps
<1>2. CASE ReleaseRun
  BY <1>2 DEF ReleaseRun, Keeps
<1>3. CASE LeaseExpires
  BY <1>3 DEF LeaseExpires, Keeps
<1>4. ASSUME NEW e \in Epochs, SupersedeExpired(e) PROVE Keeps(l) \/ Closes(l)
  <2>1. CASE \E k \in Tries : Started(l, k) /\ own[l][k] = e
    BY <1>4, <1>a, <1>b, <2>1 DEF SupersedeExpired, Closes
  <2>2. CASE ~ \E k \in Tries : Started(l, k) /\ own[l][k] = e
    BY <1>4, <2>2 DEF SupersedeExpired, Keeps
  <2> QED BY <2>1, <2>2
<1>5. CASE CompleteGroups
  <2> DEFINE losers == {n \in Members : Parent[n] \in Batch /\ member[n] \in Open}
             Why == LoserReason(CHOOSE g \in Batch : g \in Path[l])
  <2>1. Why \in Reasons
    BY DEF LoserReason, Reasons
  <2>2. /\ inst'[l] = IF l \in Under(losers) /\ inst[l] \in Open THEN Why ELSE inst[l]
        /\ att' = CloseAttempts(Leaves \intersect Under(losers), "cancelled")
        /\ own' = own
    BY <1>5 DEF CompleteGroups
  <2> HIDE DEF losers, Why
  <2>3. CASE l \in Under(losers)
    BY <2>1, <2>2, <2>3, <1>a DEF CloseAttempts, Closes, Open, Reasons
  <2>4. CASE l \notin Under(losers)
    BY <2>2, <2>4 DEF CloseAttempts, Keeps
  <2> QED BY <2>3, <2>4
<1>6. ASSUME NEW n \in Members, ContinueBranch(n) PROVE Keeps(l)
  BY <1>6 DEF ContinueBranch, Keeps
<1>7. ASSUME NEW g \in Groups, ContinueGroup(g) PROVE Keeps(l)
  BY <1>7 DEF ContinueGroup, Keeps
<1>8. CASE ContinueRoot
  BY <1>8 DEF ContinueRoot, Keeps
<1>9. CASE TimeoutAttempts
  <2>1. CASE \E k \in Tries : <<l, k>> \in DueNow
    BY <1>9, <1>a, <1>b, <2>1 DEF TimeoutAttempts, DueNow, Closes
  <2>2. CASE ~ \E k \in Tries : <<l, k>> \in DueNow
    BY <1>9, <2>2 DEF TimeoutAttempts, Keeps
  <2> QED BY <2>1, <2>2
<1>10. ASSUME NEW x \in Leaves, StartAttempt(x) PROVE Keeps(l) \/ Starts(l)
  <2>1. CASE x = l
    BY <1>10, <2>1 DEF StartAttempt, Admits, Owned, Starts
  <2>2. CASE x # l
    BY <1>10, <2>2 DEF StartAttempt, Keeps
  <2> QED BY <2>1, <2>2
<1>11. ASSUME NEW x \in Leaves, NEW k \in Tries, NEW e \in Epochs,
              NEW res \in {"completed", "failed"}, CommitResult(x, k, e, res)
       PROVE  Keeps(l) \/ Closes(l)
  <2>1. CASE x = l
    BY <1>11, <1>b, <2>1 DEF CommitResult, Closes
  <2>2. CASE x # l
    BY <1>11, <2>2 DEF CommitResult, Keeps
  <2> QED BY <2>1, <2>2
<1>12. ASSUME NEW x \in Leaves, NEW k \in Tries, DeadlinePasses(x, k)
       PROVE  Keeps(l) \/ Overruns(l)
  <2>1. CASE x = l
    BY <1>12, <2>1 DEF DeadlinePasses, Overruns
  <2>2. CASE x # l
    BY <1>12, <2>2 DEF DeadlinePasses, Keeps
  <2> QED BY <2>1, <2>2
<1>13. CASE Pause
  <2>1. CASE \E k \in Tries : Started(l, k)
    BY <1>13, <1>a, <2>1 DEF Pause, CloseAttempts, Closes
  <2>2. CASE ~ \E k \in Tries : Started(l, k)
    BY <1>13, <2>2 DEF Pause, CloseAttempts, Keeps
  <2> QED BY <2>1, <2>2
<1>14. CASE Resume
  BY <1>14 DEF Resume, Keeps
<1>15. ASSUME NEW S, inst' = CancelIn(inst, S, "operator_cancelled"), own' = own,
              att' = CloseAttempts(Leaves \intersect Under(S), "cancelled")
       PROVE  Keeps(l) \/ Closes(l)
  <2>1. CASE l \in Under(S)
    BY <1>15, <1>a, <2>1 DEF CancelIn, CloseAttempts, Closes, Open
  <2>2. CASE l \notin Under(S)
    BY <1>15, <2>2 DEF CancelIn, CloseAttempts, Keeps
  <2> QED BY <2>1, <2>2
<1>16. CASE CancelRun
  BY <1>15, <1>16 DEF CancelRun, CancelTree
<1>17. ASSUME NEW x \in Leaves, CancelLeaf(x) PROVE Keeps(l) \/ Closes(l)
  BY <1>15, <1>17 DEF CancelLeaf, CancelTree
<1>18. ASSUME NEW g \in Groups, CancelGroup(g) PROVE Keeps(l) \/ Closes(l)
  BY <1>15, <1>18 DEF CancelGroup
<1>19. ASSUME NEW x \in Leaves, RetryLeaf(x) PROVE Keeps(l)
  BY <1>19 DEF RetryLeaf, RetryEligible, Reopen, Keeps
<1>20. CASE UNCHANGED vars
  BY <1>20 DEF vars, Keeps
<1>21. CASE TimeoutSignals \/ DrainSignals
  BY <1>21 DEF TimeoutSignals, DrainSignals, ExpireWaits, Keeps
<1>22. ASSUME NEW x \in Signals, AwaitSignal(x) \/ ConsumeSignal(x) \/ WaitExpires(x)
       PROVE  Keeps(l)
  <2>1. WaitsAgree
    OBVIOUS
  <2>2. wait[x] = "awaiting" => inst[x] # "running"
    BY <1>22, <2>1 DEF WaitsAgree, OpenWait
  <2> QED BY <1>22, <2>2 DEF AwaitSignal, Admits, ConsumeSignal, WaitExpires, Keeps
<1> QED BY <1>1, <1>2, <1>3, <1>4, <1>5, <1>6, <1>7, <1>8, <1>9, <1>10, <1>11, <1>12,
           <1>13, <1>14, <1>16, <1>17, <1>18, <1>19, <1>20, <1>21, <1>22
        DEF Next, Derive, Ownership, Execution, Waiting, Control

-----------------------------------------------------------------------------
(* The invariant                                                            *)

LEMMA InitIInv == Init => IInv
<1> SUFFICES ASSUME Init PROVE IInv
  OBVIOUS
<1>1. TypeOK
  BY InitType
<1>2. OneStartedAttempt /\ WaitsAgree /\ PausedRunIsIdle /\ OwnedSoFar
  BY BoundAssumption DEF Init, OneStartedAttempt, WaitsAgree, OpenWait, PausedRunIsIdle, OwnedSoFar,
                         Started, Running
<1>3. \A l \in Leaves : Used(l) = 1 .. 0
  BY DEF Init, Used
<1>4. 0 \in 0 .. MaxAttempts
  BY BoundAssumption
<1> QED BY <1>1, <1>2, <1>3, <1>4 DEF IInv, Numbered

LEMMA NextOneStarted ==
  ASSUME IInv, [Next]_vars
  PROVE  OneStartedAttempt'
<1> USE DEF IInv, TypeOK, Started, Running, Closed
<1> SUFFICES ASSUME NEW l \in Leaves
             PROVE  /\ inst'[l] = "running" <=> \E k \in Tries : Started(l, k)'
                    /\ \A j, k \in Tries : Started(l, j)' /\ Started(l, k)' => j = k
  BY DEF OneStartedAttempt
<1>a. /\ inst[l] = "running" <=> \E k \in Tries : Started(l, k)
      /\ \A j, k \in Tries : Started(l, j) /\ Started(l, k) => j = k
  BY DEF OneStartedAttempt
<1>1. CASE Keeps(l)
  BY <1>1, <1>a DEF Keeps
<1>2. CASE Closes(l)
  BY <1>2 DEF Closes
<1>3. CASE Starts(l)
  BY <1>3, <1>a DEF Starts
<1>4. CASE Overruns(l)
  BY <1>4, <1>a DEF Overruns
<1> QED BY <1>1, <1>2, <1>3, <1>4, LeafStep

\* Each record of a Signal's work follows the other: what moves the instance moves
\* the wait, and an attempt is never the work of a Signal.
LEMMA NextWaitsAgree ==
  ASSUME IInv, [Next]_vars
  PROVE  WaitsAgree'
<1> USE DEF IInv, TypeOK, OpenWait, Open, Reasons, Status, Settled, owner, proj
<1> DEFINE Agrees(l) ==
             CASE wait[l] \in OpenWait  -> inst[l] = "awaiting"
               [] wait[l] = "none"      -> inst[l] \in {"ready"} \union Reasons
               [] wait[l] = "consumed"  -> inst[l] = "completed"
               [] wait[l] = "timed_out" -> inst[l] = "failed"
               [] OTHER                 -> inst[l] = wait[l]
<1> SUFFICES ASSUME NEW l \in Signals
             PROVE  Agrees(l)'
  BY DEF WaitsAgree
<1>a. Agrees(l) /\ l \in Leaves /\ inst[l] # "running"
  BY BoundAssumption DEF WaitsAgree
<1>b. \A k \in Tries : ~ Started(l, k)
  BY <1>a DEF OneStartedAttempt
<1>c. ASSUME wait'[l] = wait[l], inst'[l] = inst[l] PROVE Agrees(l)'
  BY <1>a, <1>c
<1>1. CASE Ownership
  BY <1>1, <1>a, <1>c DEF Ownership, ClaimRun, ReleaseRun, LeaseExpires, SupersedeExpired
<1>2. CASE CompleteGroups
  <2> DEFINE losers == {n \in Members : Parent[n] \in Batch /\ member[n] \in Open}
             Why == LoserReason(CHOOSE g \in Batch : g \in Path[l])
  <2>1. Why \in Reasons
    BY DEF LoserReason
  <2>2. /\ inst'[l] = IF l \in Under(losers) /\ inst[l] \in Open THEN Why ELSE inst[l]
        /\ wait'[l] = IF l \in Under(losers) /\ wait[l] \in OpenWait THEN Why ELSE wait[l]
    BY <1>2, <1>a DEF CompleteGroups
  <2> HIDE DEF losers, Why
  <2> QED BY <1>a, <2>1, <2>2
<1>3. ASSUME \/ ContinueRoot
             \/ \E n \in Members : ContinueBranch(n)
             \/ \E g \in Groups : ContinueGroup(g)
      PROVE  Agrees(l)'
  BY <1>3, <1>c DEF ContinueRoot, ContinueBranch, ContinueGroup
<1>4. CASE TimeoutAttempts
  BY <1>4, <1>a, <1>c DEF TimeoutAttempts
<1>5. CASE TimeoutSignals \/ DrainSignals
  BY <1>5, <1>a DEF TimeoutSignals, DrainSignals, ExpireWaits, DueWaits
<1>6. ASSUME NEW x \in Leaves, StartAttempt(x) PROVE Agrees(l)'
  BY <1>6, <1>c DEF StartAttempt
<1>7. ASSUME NEW x \in Leaves, NEW k \in Tries, NEW e \in Epochs,
             NEW res \in {"completed", "failed"}, CommitResult(x, k, e, res)
      PROVE  Agrees(l)'
  <2>1. x # l
    BY <1>7, <1>b DEF CommitResult
  <2> QED BY <1>7, <1>c, <2>1 DEF CommitResult
<1>8. ASSUME NEW x \in Leaves, NEW k \in Tries, DeadlinePasses(x, k) PROVE Agrees(l)'
  BY <1>8, <1>c DEF DeadlinePasses
<1>9. ASSUME NEW x \in Signals, AwaitSignal(x) PROVE Agrees(l)'
  <2>1. CASE x = l
    BY <1>9, <1>a, <2>1 DEF AwaitSignal
  <2>2. CASE x # l
    BY <1>9, <1>c, <2>2 DEF AwaitSignal
  <2> QED BY <2>1, <2>2
<1>10. ASSUME NEW x \in Signals, ConsumeSignal(x) PROVE Agrees(l)'
  <2>1. CASE x = l
    BY <1>10, <1>a, <2>1 DEF ConsumeSignal
  <2>2. CASE x # l
    BY <1>10, <1>c, <2>2 DEF ConsumeSignal
  <2> QED BY <2>1, <2>2
<1>11. ASSUME NEW x \in Signals, WaitExpires(x) PROVE Agrees(l)'
  BY <1>11, <1>a DEF WaitExpires
<1>12. CASE Pause
  BY <1>12, <1>a DEF Pause, Freeze
<1>13. CASE Resume
  BY <1>13, <1>a DEF Resume, Thaw
<1>14. ASSUME NEW S, inst' = CancelIn(inst, S, "operator_cancelled"),
              wait' = CancelWaits(S, "operator_cancelled")
       PROVE  Agrees(l)'
  BY <1>14, <1>a DEF CancelIn, CancelWaits
<1>15. CASE CancelRun
  BY <1>14, <1>15 DEF CancelRun, CancelTree
<1>16. ASSUME NEW x \in Leaves, CancelLeaf(x) PROVE Agrees(l)'
  BY <1>14, <1>16 DEF CancelLeaf, CancelTree
<1>17. ASSUME NEW g \in Groups, CancelGroup(g) PROVE Agrees(l)'
  BY <1>14, <1>17 DEF CancelGroup
<1>18. ASSUME NEW x \in Leaves, RetryLeaf(x) PROVE Agrees(l)'
  <2> DEFINE deps == Under(UNION {Dependencies(g) : g \in {Parent[n] : n \in Line(x)}})
  <2>1. /\ inst'[l] = IF x = l \/ (l \in deps /\ inst[l] = "parent_failed") THEN "ready" ELSE inst[l]
        /\ wait'[l] = IF l = x \/ (l \in deps /\ inst[l] = "parent_failed" /\ wait[l] = "parent_failed")
                      THEN "none" ELSE wait[l]
    BY <1>18, <1>a DEF RetryLeaf, Reopen
  <2> HIDE DEF deps
  <2> QED BY <2>1, <1>a
<1>19. CASE UNCHANGED vars
  BY <1>19, <1>c DEF vars
<1> QED BY <1>1, <1>2, <1>3, <1>4, <1>5, <1>6, <1>7, <1>8, <1>9, <1>10, <1>11, <1>12, <1>13,
           <1>15, <1>16, <1>17, <1>18, <1>19
        DEF Next, Derive, Execution, Waiting, Control

LEMMA NextNumbered ==
  ASSUME IInv, [Next]_vars
  PROVE  Numbered'
<1> USE DEF IInv, TypeOK
<1> SUFFICES ASSUME NEW l \in Leaves
             PROVE  \E m \in 0 .. MaxAttempts : Used(l)' = 1 .. m
  BY DEF Numbered
<1>a. PICK m \in 0 .. MaxAttempts : Used(l) = 1 .. m
  BY DEF Numbered
<1>1. CASE Keeps(l)
  BY <1>1, <1>a DEF Keeps, Used
<1>2. CASE Closes(l)
  <2>1. Used(l)' = Used(l)
    BY <1>2 DEF Closes, Used, Started, Running, Closed
  <2> QED BY <2>1, <1>a
<1>3. CASE Starts(l)
  <2>1. PICK k \in Tries : k = Cardinality(Used(l)) + 1 /\ att' = [att EXCEPT ![l][k] = "started"]
    BY <1>3 DEF Starts
  <2>2. Used(l)' = Used(l) \union {k}
    BY <2>1 DEF Used
  <2>3. Cardinality(Used(l)) \in Nat /\ Used(l) = 1 .. Cardinality(Used(l))
    BY NextNumberIsUnused
  <2>4. Used(l)' = 1 .. k
    BY <2>1, <2>2, <2>3
  <2> QED BY <2>4, BoundAssumption DEF Tries
<1>4. CASE Overruns(l)
  <2>1. Used(l)' = Used(l)
    BY <1>4 DEF Overruns, Used
  <2> QED BY <2>1, <1>a
<1> QED BY <1>1, <1>2, <1>3, <1>4, LeafStep

\* Only a claim moves the epoch, up by one, and only Pause makes a Run paused.
LEMMA OwnerAndRunStep ==
  ASSUME TypeOK, [Next]_vars
  PROVE  /\ \/ epoch' = epoch /\ (lease' = "held" => lease = "held")
            \/ epoch' = epoch + 1 /\ lease # "held" /\ lease' = "held" /\ UNCHANGED proj
         /\ run' = "paused" => run = "paused" \/ Pause
<1> USE DEF owner
<1>1. CASE ClaimRun
  BY <1>1 DEF ClaimRun, proj
<1>2. CASE ReleaseRun \/ LeaseExpires
  BY <1>2 DEF ReleaseRun, LeaseExpires, proj
<1>3. CASE Derive
  BY <1>3 DEF Derive, CompleteGroups, ContinueBranch, ContinueGroup, ContinueRoot, TimeoutAttempts,
              TimeoutSignals, ExpireWaits
<1>4. CASE \E e \in Epochs : SupersedeExpired(e)
  BY <1>4 DEF SupersedeExpired
<1>5. CASE Execution
  BY <1>5 DEF Execution, StartAttempt, CommitResult, DeadlinePasses
<1>6. CASE Control
  BY <1>6 DEF Control, Pause, Resume, CancelRun, CancelLeaf, CancelGroup, RetryLeaf
<1>7. CASE UNCHANGED vars
  BY <1>7 DEF vars
<1>8. CASE Waiting
  BY <1>8 DEF Waiting, AwaitSignal, ConsumeSignal, WaitExpires, DrainSignals, ExpireWaits
<1> QED BY <1>1, <1>2, <1>3, <1>4, <1>5, <1>6, <1>7, <1>8 DEF Next, Ownership

\* While a Run stays paused the clock of no timed Signal starts.
LEMMA PausedClocks ==
  ASSUME IInv, [Next]_vars, run' = "paused", NEW l \in Signals \intersect Timed
  PROVE  wait'[l] \notin {"awaiting", "due"}
<1> USE DEF IInv, TypeOK, Reasons, owner, proj
<1>a. run = "paused" => wait[l] \notin {"awaiting", "due"}
  BY DEF PausedRunIsIdle
<1>1. CASE Pause
  BY <1>1 DEF Pause, Freeze, DueWaits
<1>2. CASE run = "paused" /\ Derive
  <2>1. CASE CompleteGroups
    <3>1. PICK w \in Reasons : wait'[l] = w \/ wait'[l] = wait[l]
      BY <2>1 DEF CompleteGroups, LoserReason
    <3> QED BY <1>2, <1>a, <3>1
  <2>2. CASE ContinueRoot \/ TimeoutAttempts \/ TimeoutSignals
    BY <1>2, <1>a, <2>2 DEF ContinueRoot, TimeoutAttempts, TimeoutSignals, ExpireWaits
  <2>3. CASE \/ \E n \in Members : ContinueBranch(n)
             \/ \E g \in Groups : ContinueGroup(g)
    BY <1>2, <1>a, <2>3 DEF ContinueBranch, ContinueGroup
  <2> QED BY <1>2, <2>1, <2>2, <2>3 DEF Derive
<1>3. CASE run = "paused" /\ (Ownership \/ Execution \/ UNCHANGED vars)
  BY <1>3, <1>a DEF Ownership, ClaimRun, ReleaseRun, LeaseExpires, SupersedeExpired,
                    Execution, StartAttempt, CommitResult, DeadlinePasses, vars
<1>4. CASE run = "paused" /\ Waiting
  BY <1>4, <1>a DEF Waiting, AwaitSignal, Admits, ConsumeSignal, WaitExpires, DrainSignals, ExpireWaits
<1>5. CASE run = "paused" /\ Control
  <2>1. CASE Resume \/ CancelRun
    BY <2>1 DEF Resume, CancelRun
  <2>2. CASE \/ \E x \in Leaves : CancelLeaf(x) \/ RetryLeaf(x)
             \/ \E g \in Groups : CancelGroup(g)
    BY <1>5, <1>a, <2>2 DEF CancelLeaf, CancelGroup, CancelTree, CancelWaits, RetryLeaf
  <2> QED BY <1>1, <1>5, <2>1, <2>2 DEF Control
<1> QED BY <1>1, <1>2, <1>3, <1>4, <1>5, OwnerAndRunStep DEF Next

LEMMA NextPausedIdle ==
  ASSUME IInv, [Next]_vars
  PROVE  PausedRunIsIdle'
<1> USE DEF IInv, TypeOK, Started, Running, Closed
<1> SUFFICES ASSUME run' = "paused", NEW l \in Leaves, NEW k \in Tries
             PROVE  ~Started(l, k)'
  BY PausedClocks DEF PausedRunIsIdle, AllStarted
<1>1. CASE Pause
  BY <1>1 DEF Pause, CloseAttempts
<1>2. CASE run = "paused"
  <2>1. \A j \in Tries : ~Started(l, j)
    <3> SUFFICES ASSUME NEW j \in Tries, Started(l, j) PROVE FALSE
      OBVIOUS
    <3>1. <<l, j>> \in AllStarted
      BY DEF AllStarted
    <3> QED BY <1>2, <3>1 DEF PausedRunIsIdle
  <2>2. CASE Keeps(l)
    BY <2>1, <2>2 DEF Keeps
  <2>3. CASE Closes(l)
    BY <2>1, <2>3 DEF Closes
  <2>4. CASE Starts(l)
    BY <1>2, <2>4 DEF Starts
  <2>5. CASE Overruns(l)
    BY <2>1, <2>5 DEF Overruns
  <2> QED BY <2>2, <2>3, <2>4, <2>5, LeafStep
<1> QED BY <1>1, <1>2, OwnerAndRunStep

LEMMA NextOwnedSoFar ==
  ASSUME IInv, [Next]_vars
  PROVE  OwnedSoFar'
<1> USE DEF IInv, TypeOK, Started, Running, Closed, Epochs
<1>1. epoch \in Nat /\ epoch' \in Nat /\ epoch' >= epoch /\ (lease' = "held" => epoch' > 0)
  BY OwnerAndRunStep, BoundAssumption DEF OwnedSoFar
<1>2. ASSUME NEW l \in Leaves, NEW k \in Tries, Started(l, k)'
      PROVE  own'[l][k] \in 1 .. epoch'
  <2>a. Started(l, k) => own[l][k] \in 1 .. epoch
    BY DEF OwnedSoFar
  <2>1. CASE Keeps(l)
    BY <1>1, <1>2, <2>1, <2>a DEF Keeps
  <2>2. CASE Closes(l)
    BY <1>1, <1>2, <2>2, <2>a DEF Closes
  <2>3. CASE Starts(l)
    <3>1. PICK j \in Tries : /\ att' = [att EXCEPT ![l][j] = "started"]
                             /\ own' = [own EXCEPT ![l][j] = epoch]
      BY <2>3 DEF Starts
    <3>2. epoch > 0
      BY <2>3 DEF Starts, OwnedSoFar
    <3>3. CASE k = j
      BY <1>1, <3>1, <3>2, <3>3
    <3>4. CASE k # j
      BY <1>1, <1>2, <3>1, <3>4, <2>a
    <3> QED BY <3>3, <3>4
  <2>4. CASE Overruns(l)
    BY <1>1, <1>2, <2>4, <2>a DEF Overruns
  <2> QED BY <2>1, <2>2, <2>3, <2>4, LeafStep
<1> QED BY <1>1, <1>2 DEF OwnedSoFar

THEOREM Invariance == Spec => []IInv
<1>1. IInv /\ [Next]_vars => IInv'
  BY NextType, NextOneStarted, NextWaitsAgree, NextNumbered, NextPausedIdle, NextOwnedSoFar DEF IInv
<1> QED BY <1>1, InitIInv, PTL DEF Spec

\* A leaf never has two started attempts, and has one exactly while its instance
\* is running (startAttempt, markExpiredOwnerAttemptsSuperseded, pauseRun); a Signal
\* waits exactly while its instance is awaiting, and what ended its wait is what ended
\* the instance (consumeSignal, signalTimeoutEvents, cancellationEventsForSubtree).
THEOREM OneRecord == Spec => []OneRecordOfWork
<1>1. IInv => OneRecordOfWork
  BY DEF IInv, OneRecordOfWork
<1> QED BY <1>1, Invariance, PTL

\* While the Run is paused no attempt is started and no clock of a Signal runs
\* (pauseRun, selectNextAdmission).
THEOREM PausedIdle == Spec => []PausedRunIsIdle
<1>1. IInv => PausedRunIsIdle
  BY DEF IInv
<1> QED BY <1>1, Invariance, PTL

-----------------------------------------------------------------------------
(* Fencing                                                                  *)

\* Only a commit records a result, and it records its own epoch's.
LEMMA ResultStep ==
  ASSUME TypeOK, [Next]_vars, NEW l \in Leaves, NEW k \in Tries,
         att'[l][k] # att[l][k], att'[l][k] \in {"completed", "failed"}
  PROVE  own[l][k] = epoch /\ lease = "held"
<1> USE DEF TypeOK, owner, proj
<1>1. ~ Ownership /\ ~ UNCHANGED vars
  BY DEF Ownership, ClaimRun, ReleaseRun, LeaseExpires, SupersedeExpired, vars
<1>a. ASSUME NEW L, att' = CloseAttempts(L, "cancelled") PROVE FALSE
  BY <1>a DEF CloseAttempts
<1>b. att' # att
  OBVIOUS
<1>2. ~ Derive
  <2>1. ~ CompleteGroups
    BY <1>a DEF CompleteGroups
  <2>2. TimeoutAttempts => att'[l][k] \in {"timed_out", att[l][k]}
    BY DEF TimeoutAttempts
  <2>3. /\ ~ ContinueRoot
        /\ \A n \in Members : ~ ContinueBranch(n)
        /\ \A g \in Groups : ~ ContinueGroup(g)
    BY <1>b DEF ContinueBranch, ContinueGroup, ContinueRoot
  <2>4. ~ TimeoutSignals
    BY <1>b DEF TimeoutSignals, ExpireWaits
  <2> QED BY <2>1, <2>2, <2>3, <2>4 DEF Derive
<1>3. ~ Control
  <2>1. ~ Pause /\ ~ CancelRun
    BY <1>a DEF Pause, CancelRun, CancelTree
  <2>2. \A x \in Leaves : ~ CancelLeaf(x)
    BY <1>a DEF CancelLeaf, CancelTree
  <2>3. \A g \in Groups : ~ CancelGroup(g)
    BY <1>a DEF CancelGroup
  <2>4. ~ Resume /\ \A x \in Leaves : ~ RetryLeaf(x)
    BY <1>b DEF Resume, RetryLeaf
  <2> QED BY <2>1, <2>2, <2>3, <2>4 DEF Control
<1>4. CASE Execution
  <2>1. ASSUME NEW x \in Leaves, StartAttempt(x) PROVE FALSE
    BY <2>1 DEF StartAttempt
  <2>2. ASSUME NEW x \in Leaves, NEW j \in Tries, DeadlinePasses(x, j) PROVE FALSE
    BY <2>2 DEF DeadlinePasses
  <2>3. ASSUME NEW x \in Leaves, NEW j \in Tries, NEW e \in Epochs,
               NEW res \in {"completed", "failed"}, CommitResult(x, j, e, res)
        PROVE  own[l][k] = epoch /\ lease = "held"
    BY <2>3 DEF CommitResult, Owned
  <2> QED BY <1>4, <2>1, <2>2, <2>3 DEF Execution
<1>5. ~ Waiting
  BY <1>b DEF Waiting, AwaitSignal, ConsumeSignal, WaitExpires, DrainSignals, ExpireWaits
<1> QED BY <1>1, <1>2, <1>3, <1>4, <1>5 DEF Next

\* A closed attempt never changes again.
LEMMA ClosedStaysClosed ==
  ASSUME IInv, [Next]_vars, NEW l \in Leaves, NEW k \in Tries, att[l][k] \in Closed
  PROVE  att'[l][k] = att[l][k]
<1> USE DEF IInv, TypeOK, Started, Running, Closed
<1>1. CASE Keeps(l)
  BY <1>1 DEF Keeps
<1>2. CASE Closes(l)
  BY <1>2 DEF Closes
<1>3. CASE Starts(l)
  <2>1. PICK j \in Tries : j = Cardinality(Used(l)) + 1 /\ att' = [att EXCEPT ![l][j] = "started"]
    BY <1>3 DEF Starts
  <2>2. att[l][j] = "none"
    BY <2>1, NextNumberIsUnused
  <2> QED BY <2>1, <2>2
<1>4. CASE Overruns(l)
  BY <1>4 DEF Overruns
<1> QED BY <1>1, <1>2, <1>3, <1>4, LeafStep

\* A late or superseded owner cannot write a result, and no result is written over
\* a closed attempt (commitAttemptResult, requireActiveOwnerEpoch).
THEOREM Fenced == Spec => FencedResults
<1>1. IInv /\ [Next]_vars =>
        [\A l \in Leaves, k \in Tries :
           /\ att[l][k] \in Closed => att'[l][k] = att[l][k]
           /\ att'[l][k] # att[l][k] /\ att'[l][k] \in {"completed", "failed"} =>
                own[l][k] = epoch /\ lease = "held"]_vars
  BY ClosedStaysClosed, ResultStep DEF IInv
<1> QED BY <1>1, Invariance, PTL DEF Spec, FencedResults

-----------------------------------------------------------------------------
(* The end of a wait                                                        *)

\* A transaction leaves a wait alone, opens it, lets its time pass, stops or starts
\* its clock, answers it, or ends it together with its instance.
WaitKeeps(l)  == wait'[l] = wait[l]
WaitOpens(l)  == wait[l] = "none" /\ wait'[l] = "awaiting"
WaitPasses(l) == wait[l] = "awaiting" /\ wait'[l] = "due"
WaitStops(l)  ==
  \/ wait[l] = "awaiting" /\ wait'[l] = "frozen"
  \/ wait[l] = "frozen" /\ wait'[l] = "awaiting"
WaitAnswered(l) ==
  wait[l] = "awaiting" /\ wait'[l] = "consumed" /\ DueWaits = {} /\ run # "paused"
WaitEnds(l) == wait[l] \in OpenWait /\ wait'[l] \in {"timed_out"} \union Reasons
WaitAnew(l) == wait[l] \in {"timed_out"} \union Reasons /\ wait'[l] = "none" /\ inst'[l] = "ready"

LEMMA WaitStep ==
  ASSUME IInv, [Next]_vars, NEW l \in Signals
  PROVE  \/ WaitKeeps(l) \/ WaitOpens(l) \/ WaitPasses(l) \/ WaitStops(l)
         \/ WaitAnswered(l) \/ WaitEnds(l) \/ WaitAnew(l)
<1> USE DEF IInv, TypeOK, OpenWait, Reasons, owner, proj
<1>a. /\ l \in Leaves
      /\ inst[l] \in {"ready", "failed", "parent_failed"} =>
           wait[l] \in {"none", "timed_out"} \union Reasons
      /\ inst[l] = "ready" => wait[l] = "none"
      /\ inst[l] = "failed" => wait[l] = "timed_out"
  BY BoundAssumption DEF WaitsAgree
<1>1. CASE Ownership \/ Execution \/ UNCHANGED vars
  BY <1>1 DEF Ownership, ClaimRun, ReleaseRun, LeaseExpires, SupersedeExpired,
              Execution, StartAttempt, CommitResult, DeadlinePasses, vars, WaitKeeps
<1>2. CASE Derive
  <2>1. CASE CompleteGroups
    <3>1. PICK w \in Reasons : wait'[l] = wait[l] \/ (wait[l] \in OpenWait /\ wait'[l] = w)
      BY <2>1 DEF CompleteGroups, LoserReason
    <3> QED BY <3>1 DEF WaitKeeps, WaitEnds
  <2>2. CASE ContinueRoot \/ TimeoutAttempts
    BY <2>2 DEF ContinueRoot, TimeoutAttempts, WaitKeeps
  <2>3. CASE \/ \E n \in Members : ContinueBranch(n)
             \/ \E g \in Groups : ContinueGroup(g)
    BY <2>3 DEF ContinueBranch, ContinueGroup, WaitKeeps
  <2>4. CASE TimeoutSignals
    BY <2>4 DEF TimeoutSignals, ExpireWaits, DueWaits, WaitKeeps, WaitEnds
  <2> QED BY <1>2, <2>1, <2>2, <2>3, <2>4 DEF Derive
<1>3. CASE Waiting
  <2>1. ASSUME NEW x \in Signals, AwaitSignal(x) PROVE WaitKeeps(l) \/ WaitOpens(l)
    BY <1>a, <2>1 DEF AwaitSignal, Admits, WaitKeeps, WaitOpens
  <2>2. ASSUME NEW x \in Signals, ConsumeSignal(x) PROVE WaitKeeps(l) \/ WaitAnswered(l)
    BY <2>2 DEF ConsumeSignal, WaitKeeps, WaitAnswered
  <2>3. ASSUME NEW x \in Signals, WaitExpires(x) PROVE WaitKeeps(l) \/ WaitPasses(l)
    BY <2>3 DEF WaitExpires, WaitKeeps, WaitPasses
  <2>4. CASE DrainSignals
    BY <2>4 DEF DrainSignals, ExpireWaits, DueWaits, WaitKeeps, WaitEnds
  <2> QED BY <1>3, <2>1, <2>2, <2>3, <2>4 DEF Waiting
<1>4. CASE Control
  <2>1. CASE Pause \/ Resume
    <3>1. wait' = Freeze \/ wait' = Thaw
      BY <2>1 DEF Pause, Resume
    <3> QED BY <3>1 DEF Freeze, Thaw, WaitKeeps, WaitStops
  <2>2. CASE CancelRun \/ (\E x \in Leaves : CancelLeaf(x)) \/ (\E g \in Groups : CancelGroup(g))
    BY <2>2 DEF CancelRun, CancelLeaf, CancelGroup, CancelTree, CancelWaits, WaitKeeps, WaitEnds
  <2>3. ASSUME NEW x \in Leaves, RetryLeaf(x) PROVE WaitKeeps(l) \/ WaitAnew(l)
    <3> DEFINE deps == Under(UNION {Dependencies(g) : g \in {Parent[n] : n \in Line(x)}})
    <3>1. /\ inst[x] = "failed"
          /\ inst'[l] = IF x = l \/ (l \in deps /\ inst[l] = "parent_failed") THEN "ready" ELSE inst[l]
          /\ wait'[l] = IF l = x \/ (l \in deps /\ inst[l] = "parent_failed" /\ wait[l] = "parent_failed")
                        THEN "none" ELSE wait[l]
      BY <2>3, <1>a DEF RetryLeaf, RetryEligible, Reopen
    <3> HIDE DEF deps
    <3> QED BY <3>1, <1>a DEF WaitKeeps, WaitAnew
  <2> QED BY <1>4, <2>1, <2>2, <2>3 DEF Control
<1> QED BY <1>1, <1>2, <1>3, <1>4 DEF Next

\* An answer to a Signal is final, a wait whose deadline has passed is never saved by
\* an answer or a pause, and nothing but a leaf made ready anew opens it again
\* (drainDueSignalTimeouts, assertSignalOpen, reopenRetryDependencies).
THEOREM WaitsEnd == Spec => WaitsEndOnce
<1> DEFINE Ends ==
      /\ \A l \in Signals :
          /\ wait[l] = "consumed" => wait'[l] = "consumed"
          /\ wait[l] = "due" => wait'[l] \in {"due", "timed_out"} \union Reasons
          /\ wait[l] \in {"timed_out"} \union Reasons /\ wait'[l] # wait[l] =>
               wait'[l] = "none" /\ inst'[l] = "ready"
      /\ (\E l \in Signals : wait[l] # "consumed" /\ wait'[l] = "consumed") =>
          DueWaits = {} /\ run # "paused"
<1>1. IInv /\ [Next]_vars => [Ends]_vars
  <2> SUFFICES ASSUME IInv, [Next]_vars PROVE Ends
    OBVIOUS
  <2>1. ASSUME NEW l \in Signals
        PROVE  /\ wait[l] = "consumed" => wait'[l] = "consumed"
               /\ wait[l] = "due" => wait'[l] \in {"due", "timed_out"} \union Reasons
               /\ wait[l] \in {"timed_out"} \union Reasons /\ wait'[l] # wait[l] =>
                    wait'[l] = "none" /\ inst'[l] = "ready"
               /\ wait[l] # "consumed" /\ wait'[l] = "consumed" => DueWaits = {} /\ run # "paused"
    BY WaitStep DEF WaitKeeps, WaitOpens, WaitPasses, WaitStops, WaitAnswered, WaitEnds, WaitAnew,
                    OpenWait, Reasons
  <2> QED BY <2>1
<1> QED BY <1>1, Invariance, PTL DEF Spec, WaitsEndOnce

-----------------------------------------------------------------------------
(* The store implements ExclusiveWork                                       *)

\* The holder of a leaf is the owner of its started attempt.
LEMMA HolderIs ==
  ASSUME OneStartedAttempt, NEW l \in Leaves
  PROVE  /\ \A k \in Tries : Started(l, k) => Holder(l) = own[l][k]
         /\ (\A k \in Tries : ~Started(l, k)) => Holder(l) = 0
  BY DEF OneStartedAttempt, Holder

\* What a transaction does to the holder of one leaf.
LEMMA HolderStep ==
  ASSUME IInv, IInv', [Next]_vars, NEW l \in Leaves
  PROVE  \/ Holder(l)' = Holder(l)
         \/ Holder(l)' = 0 /\ \E k \in Tries : Started(l, k)
         \/ Starts(l) /\ Holder(l) = 0 /\ Holder(l)' = epoch
<1> USE DEF IInv, TypeOK
<1>a. OneStartedAttempt /\ OneStartedAttempt'
  OBVIOUS
<1>b. /\ \A k \in Tries : Started(l, k)' => Holder(l)' = own'[l][k]
      /\ (\A k \in Tries : ~Started(l, k)') => Holder(l)' = 0
  BY <1>a DEF OneStartedAttempt, Holder
<1>1. CASE Keeps(l)
  <2>1. \A k \in Tries : (Started(l, k)' <=> Started(l, k)) /\ own'[l][k] = own[l][k]
    BY <1>1 DEF Keeps, Started
  <2> QED BY <2>1, <1>a, <1>b, HolderIs
<1>2. CASE Closes(l)
  <2>1. \A k \in Tries : ~ Started(l, k)'
    BY <1>2 DEF Closes, Started, Running, Closed
  <2>2. Holder(l)' = 0
    BY <2>1, <1>b
  <2> QED BY <2>2, <1>a, HolderIs
<1>3. CASE Starts(l)
  <2>1. PICK k \in Tries : /\ att' = [att EXCEPT ![l][k] = "started"]
                           /\ own' = [own EXCEPT ![l][k] = epoch]
    BY <1>3 DEF Starts
  <2>2. Started(l, k)' /\ own'[l][k] = epoch
    BY <2>1 DEF Started, Running
  <2>3. \A j \in Tries : ~ Started(l, j)
    BY <1>3, <1>a DEF Starts, OneStartedAttempt
  <2> QED BY <1>3, <2>2, <2>3, <1>a, <1>b, HolderIs
<1>4. CASE Overruns(l)
  <2>1. \A k \in Tries : (Started(l, k)' <=> Started(l, k)) /\ own'[l][k] = own[l][k]
    BY <1>4 DEF Overruns, Started, Running
  <2> QED BY <2>1, <1>a, <1>b, HolderIs
<1> QED BY <1>1, <1>2, <1>3, <1>4, LeafStep

\* Derived transitions, controls and recovery hand nothing out and accept nothing.
LEMMA TakingBackStep ==
  ASSUME TypeOK, Derive \/ Control \/ (\E e \in Epochs : SupersedeExpired(e))
  PROVE  /\ lease = "held" /\ UNCHANGED owner
         /\ \A l \in Leaves : /\ inst'[l] = "completed" <=> inst[l] = "completed"
                              /\ inst'[l] = "running" => inst[l] = "running"
<1> USE DEF TypeOK, Owned, Open, Reasons
<1>1. ASSUME NEW e \in Epochs, SupersedeExpired(e)
      PROVE  /\ lease = "held" /\ UNCHANGED owner
             /\ \A l \in Leaves : /\ inst'[l] = "completed" <=> inst[l] = "completed"
                                  /\ inst'[l] = "running" => inst[l] = "running"
  BY <1>1 DEF SupersedeExpired
<1>2. ASSUME Derive
      PROVE  /\ lease = "held" /\ UNCHANGED owner
             /\ \A l \in Leaves : /\ inst'[l] = "completed" <=> inst[l] = "completed"
                                  /\ inst'[l] = "running" => inst[l] = "running"
  <2>1. CASE CompleteGroups
    BY <2>1 DEF CompleteGroups, LoserReason
  <2>2. CASE TimeoutAttempts
    BY <2>2 DEF TimeoutAttempts
  <2>3. CASE \/ ContinueRoot
             \/ \E n \in Members : ContinueBranch(n)
             \/ \E g \in Groups : ContinueGroup(g)
    BY <2>3 DEF ContinueRoot, ContinueBranch, ContinueGroup
  <2>4. CASE TimeoutSignals
    BY <2>4 DEF TimeoutSignals, ExpireWaits
  <2> QED BY <1>2, <2>1, <2>2, <2>3, <2>4 DEF Derive
<1>3. ASSUME Control
      PROVE  /\ lease = "held" /\ UNCHANGED owner
             /\ \A l \in Leaves : /\ inst'[l] = "completed" <=> inst[l] = "completed"
                                  /\ inst'[l] = "running" => inst[l] = "running"
  <2>1. CASE Pause \/ Resume
    BY <2>1 DEF Pause, Resume
  <2>2. CASE CancelRun
    BY <2>2 DEF CancelRun, CancelTree, CancelIn
  <2>3. ASSUME NEW x \in Leaves, CancelLeaf(x)
        PROVE  /\ lease = "held" /\ UNCHANGED owner
               /\ \A l \in Leaves : /\ inst'[l] = "completed" <=> inst[l] = "completed"
                                    /\ inst'[l] = "running" => inst[l] = "running"
    BY <2>3 DEF CancelLeaf, CancelTree, CancelIn
  <2>4. ASSUME NEW g \in Groups, CancelGroup(g)
        PROVE  /\ lease = "held" /\ UNCHANGED owner
               /\ \A l \in Leaves : /\ inst'[l] = "completed" <=> inst[l] = "completed"
                                    /\ inst'[l] = "running" => inst[l] = "running"
    BY <2>4 DEF CancelGroup, CancelIn
  <2>5. ASSUME NEW x \in Leaves, RetryLeaf(x)
        PROVE  /\ lease = "held" /\ UNCHANGED owner
               /\ \A l \in Leaves : /\ inst'[l] = "completed" <=> inst[l] = "completed"
                                    /\ inst'[l] = "running" => inst[l] = "running"
    BY <2>5 DEF RetryLeaf, RetryEligible, Reopen
  <2> QED BY <1>3, <2>1, <2>2, <2>3, <2>4, <2>5 DEF Control
<1> QED BY <1>1, <1>2, <1>3

THEOREM InitAbstract == Init => Abstract!Init
<1> SUFFICES ASSUME Init PROVE Abstract!Init
  OBVIOUS
<1>1. \A l \in Leaves : Holder(l) = 0
  BY DEF Init, Holder, Started, Running
<1>2. epoch = 0 /\ (lease = "held") = FALSE /\ {l \in Leaves \ Signals : inst[l] = "completed"} = {}
  BY DEF Init
<1> QED BY <1>1, <1>2 DEF Abstract!Init

LEMMA NextAbstract ==
  ASSUME IInv, IInv', [Next]_vars
  PROVE  [Abstract!Next]_(Abstract!vars)
<1> DEFINE held == [l \in Leaves \ Signals |-> Holder(l)]
           finished == {l \in Leaves \ Signals : inst[l] = "completed"}
<1> USE DEF IInv, TypeOK
<1>a. ASSUME UNCHANGED <<att, own, inst>>
      PROVE  held' = held /\ finished' = finished
  BY <1>a DEF Holder, Started
<1>1. CASE ClaimRun
  <2>1. held' = held /\ finished' = finished
    BY <1>1, <1>a DEF ClaimRun, proj
  <2>2. Abstract!Elect
    BY <1>1, <2>1 DEF ClaimRun, Abstract!Elect
  <2> QED BY <2>2 DEF Abstract!Next
<1>2. CASE ReleaseRun \/ LeaseExpires
  <2>1. held' = held /\ finished' = finished
    BY <1>2, <1>a DEF ReleaseRun, LeaseExpires, proj
  <2>2. epoch' = epoch /\ lease' # "held"
    BY <1>2 DEF ReleaseRun, LeaseExpires
  <2>3. CASE lease = "held"
    <3>1. Abstract!Lapse
      BY <2>1, <2>2, <2>3 DEF Abstract!Lapse
    <3> QED BY <3>1 DEF Abstract!Next
  <2>4. CASE lease # "held"
    BY <2>1, <2>2, <2>4 DEF Abstract!vars
  <2> QED BY <2>3, <2>4
<1>3. ASSUME lease = "held", UNCHANGED owner, finished' = finished,
             \A l \in Leaves : Holder(l)' = Holder(l) \/ Holder(l)' = 0
      PROVE  Abstract!Next
  <2> DEFINE S == {l \in Leaves \ Signals : Holder(l)' = 0}
  <2>1. held' = [l \in Leaves \ Signals |-> IF l \in S THEN 0 ELSE held[l]]
    BY <1>3
  <2>2. Abstract!TakeBack(S)
    BY <1>3, <2>1 DEF Abstract!TakeBack, owner
  <2> QED BY <2>2 DEF Abstract!Next
<1>4. CASE Derive \/ Control \/ \E e \in Epochs : SupersedeExpired(e)
  <2>1. /\ lease = "held" /\ UNCHANGED owner
        /\ \A l \in Leaves : /\ inst'[l] = "completed" <=> inst[l] = "completed"
                             /\ inst'[l] = "running" => inst[l] = "running"
    BY <1>4, TakingBackStep
  <2>2. finished' = finished
    BY <2>1
  <2>3. \A l \in Leaves : Holder(l)' = Holder(l) \/ Holder(l)' = 0
    BY <2>1, HolderStep DEF Starts
  <2> QED BY <1>3, <2>1, <2>2, <2>3
<1>b. ASSUME NEW x \in Leaves, att'[x] = att[x], own'[x] = own[x]
      PROVE  Holder(x)' = Holder(x)
  BY <1>b DEF Holder, Started
<1>5. ASSUME NEW l \in Leaves, StartAttempt(l) PROVE Abstract!Next
  <2>1. \E k \in Tries : /\ att' = [att EXCEPT ![l][k] = "started"]
                         /\ own' = [own EXCEPT ![l][k] = epoch]
    BY <1>5 DEF StartAttempt
  <2>2. \A x \in Leaves \ {l} : Holder(x)' = Holder(x)
    BY <2>1, <1>b
  <2>3. /\ lease = "held" /\ UNCHANGED owner /\ run = "active" /\ run' = run
        /\ inst[l] = "ready" /\ inst' = [inst EXCEPT ![l] = "running"] /\ l \notin Signals
    BY <1>5 DEF StartAttempt, Admits, Owned
  <2>4. Starts(l)
    BY <1>5 DEF StartAttempt, Admits, Owned, Starts
  <2>5. Holder(l) = 0 /\ Holder(l)' = epoch
    <3>1. \A k \in Tries : ~ Started(l, k)
      BY <2>3 DEF OneStartedAttempt
    <3>2. PICK k \in Tries : /\ att' = [att EXCEPT ![l][k] = "started"]
                             /\ own' = [own EXCEPT ![l][k] = epoch]
      BY <2>1
    <3>3. Started(l, k)' /\ own'[l][k] = epoch
      BY <3>2 DEF Started, Running
    <3>4. Holder(l)' = own'[l][k]
      BY <3>3 DEF OneStartedAttempt, Holder
    <3> QED BY <3>1, <3>3, <3>4, HolderIs
  <2>6. held' = [held EXCEPT ![l] = epoch]
    BY <2>2, <2>3, <2>5
  <2>7. finished' = finished
    BY <2>3
  <2>8. Abstract!Take(l)
    BY <2>3, <2>5, <2>6, <2>7 DEF Abstract!Take, owner
  <2> QED BY <2>3, <2>8 DEF Abstract!Next
<1>6. ASSUME NEW l \in Leaves, NEW k \in Tries, NEW e \in Epochs,
             NEW res \in {"completed", "failed"}, CommitResult(l, k, e, res)
      PROVE  Abstract!Next
  <2>1. /\ lease = "held" /\ UNCHANGED owner /\ Started(l, k) /\ own[l][k] = epoch /\ own' = own
        /\ att' = [att EXCEPT ![l][k] = res] /\ inst' = [inst EXCEPT ![l] = res]
    BY <1>6 DEF CommitResult, Owned
  <2>2. \A x \in Leaves \ {l} : Holder(x)' = Holder(x)
    BY <2>1, <1>b
  <2>3. Holder(l) = epoch
    BY <2>1, HolderIs
  <2>4. Holder(l)' = 0
    <3>1. \A j \in Tries : ~ Started(l, j)'
      BY <2>1 DEF OneStartedAttempt
    <3> QED BY <3>1 DEF Holder
  <2>a. l \notin Signals
    BY <2>1 DEF OneStartedAttempt, WaitsAgree, OpenWait, Reasons
  <2>5. CASE res = "completed"
    <3>1. held' = [held EXCEPT ![l] = 0]
      BY <2>2, <2>4, <2>a
    <3>2. finished' = finished \union {l}
      BY <2>1, <2>5, <2>a
    <3>3. Abstract!Finish(l)
      BY <2>1, <2>3, <2>a, <3>1, <3>2 DEF Abstract!Finish, owner
    <3> QED BY <2>a, <3>3 DEF Abstract!Next
  <2>6. CASE res = "failed"
    <3>1. inst[l] # "completed"
      BY <1>6 DEF CommitResult, Open
    <3>2. finished' = finished
      BY <2>1, <2>6, <3>1
    <3>3. \A x \in Leaves : Holder(x)' = Holder(x) \/ Holder(x)' = 0
      BY <2>2, <2>4
    <3> QED BY <1>3, <2>1, <3>2, <3>3
  <2> QED BY <2>5, <2>6
<1>7. ASSUME NEW l \in Leaves, NEW k \in Tries, DeadlinePasses(l, k)
      PROVE  UNCHANGED Abstract!vars
  <2>1. /\ UNCHANGED <<own, inst, epoch, lease>>
        /\ att[l][k] = "started" /\ att' = [att EXCEPT ![l][k] = "overdue"]
    BY <1>7 DEF DeadlinePasses, owner
  <2>2. \A x \in Leaves \ {l} : Holder(x)' = Holder(x)
    BY <2>1, <1>b
  <2>3. Started(l, k) /\ Started(l, k)'
    BY <2>1 DEF Started, Running
  <2>4. Holder(l)' = own'[l][k]
    BY <2>3 DEF OneStartedAttempt, Holder
  <2>5. Holder(l)' = Holder(l)
    BY <2>1, <2>3, <2>4, HolderIs
  <2>6. held' = held /\ finished' = finished
    BY <2>1, <2>2, <2>5
  <2> QED BY <2>1, <2>6 DEF Abstract!vars
<1>8. CASE UNCHANGED vars
  <2>1. held' = held /\ finished' = finished
    BY <1>8, <1>a DEF vars
  <2> QED BY <1>8, <2>1 DEF vars, Abstract!vars
<1>9. CASE Waiting
  <2>1. /\ UNCHANGED <<att, own, owner>>
        /\ \A l \in Leaves \ Signals : inst'[l] = inst[l]
    BY <1>9 DEF Waiting, AwaitSignal, ConsumeSignal, WaitExpires, DrainSignals, ExpireWaits, DueWaits
  <2>2. held' = held /\ finished' = finished
    BY <2>1, <1>b
  <2> QED BY <2>1, <2>2 DEF Abstract!vars, owner
<1> QED BY <1>1, <1>2, <1>4, <1>5, <1>6, <1>7, <1>8, <1>9 DEF Next, Ownership, Execution

\* The store implements exclusive work: for every workflow and every interleaving
\* of owners and controls, the lease, the epochs on the attempts and the instance
\* statuses hand each leaf to one owner at a time and accept one result.
THEOREM Exclusive == Spec => WorkIsExclusive
<1>1. Init => Abstract!Init
  BY InitAbstract
<1>2. IInv /\ IInv' /\ [Next]_vars => [Abstract!Next]_(Abstract!vars)
  BY NextAbstract
<1> QED BY <1>1, <1>2, Invariance, PTL DEF Spec, WorkIsExclusive, Abstract!Spec

-----------------------------------------------------------------------------
(* Accepted success                                                         *)

LeafSuccess == \A l \in Leaves : inst[l] = "completed" => inst'[l] = "completed"
GroupSuccess ==
  \A g \in Groups : group[g] = "completed" =>
    group'[g] = "completed" /\ accepted'[g] = accepted[g]
RunSuccess == run \in {"completed", "canceled"} => run' = run

LEMMA LeafSuccessStep ==
  ASSUME TypeOK, [Next]_vars
  PROVE  LeafSuccess
<1> USE DEF TypeOK, LeafSuccess, proj
<1>1. CASE Derive \/ Control \/ \E e \in Epochs : SupersedeExpired(e)
  BY <1>1, TakingBackStep
<1>2. CASE ClaimRun \/ ReleaseRun \/ LeaseExpires
  BY <1>2 DEF ClaimRun, ReleaseRun, LeaseExpires
<1>3. ASSUME NEW l \in Leaves, StartAttempt(l) PROVE LeafSuccess
  BY <1>3 DEF StartAttempt, Admits
<1>4. ASSUME NEW l \in Leaves, NEW k \in Tries, NEW e \in Epochs,
             NEW res \in {"completed", "failed"}, CommitResult(l, k, e, res)
      PROVE  LeafSuccess
  BY <1>4 DEF CommitResult, Open
<1>5. ASSUME NEW l \in Leaves, NEW k \in Tries, DeadlinePasses(l, k) PROVE LeafSuccess
  BY <1>5 DEF DeadlinePasses
<1>6. CASE UNCHANGED vars
  BY <1>6 DEF vars
<1>7. CASE Waiting
  <2>1. ASSUME NEW l \in Signals, AwaitSignal(l) \/ ConsumeSignal(l) \/ WaitExpires(l)
        PROVE  LeafSuccess
    BY <2>1 DEF AwaitSignal, Admits, ConsumeSignal, WaitExpires
  <2>2. CASE DrainSignals
    BY <2>2 DEF DrainSignals, ExpireWaits
  <2> QED BY <1>7, <2>1, <2>2 DEF Waiting
<1> QED BY <1>1, <1>2, <1>3, <1>4, <1>5, <1>6, <1>7 DEF Next, Ownership, Execution

LEMMA GroupSuccessStep ==
  ASSUME TypeOK, [Next]_vars
  PROVE  GroupSuccess
<1> USE DEF TypeOK, GroupSuccess, proj
<1>1. CASE CompleteGroups
  <2>1. \A g \in Groups : group[g] = "completed" => g \notin Batch
    BY DEF Batch, Decided
  <2> QED BY <1>1, <2>1 DEF CompleteGroups, Open
<1>2. CASE \/ ContinueRoot \/ TimeoutAttempts \/ Pause \/ Resume
           \/ ClaimRun \/ ReleaseRun \/ LeaseExpires \/ UNCHANGED vars
  BY <1>2 DEF ContinueRoot, TimeoutAttempts, Pause, Resume, ClaimRun, ReleaseRun, LeaseExpires, vars
<1>3. CASE \/ \E n \in Members : ContinueBranch(n)
           \/ \E g \in Groups : ContinueGroup(g)
           \/ \E e \in Epochs : SupersedeExpired(e)
  BY <1>3 DEF ContinueBranch, ContinueGroup, SupersedeExpired
<1>4. CASE Execution
  BY <1>4 DEF Execution, StartAttempt, CommitResult, DeadlinePasses
<1>5. CASE CancelRun
  BY <1>5 DEF CancelRun, CancelTree, CancelIn, Open
<1>6. ASSUME NEW l \in Leaves, CancelLeaf(l) PROVE GroupSuccess
  BY <1>6 DEF CancelLeaf, CancelTree, CancelIn, Open
<1>7. ASSUME NEW g \in Groups, CancelGroup(g) PROVE GroupSuccess
  BY <1>7 DEF CancelGroup, CancelIn, Open
<1>8. ASSUME NEW l \in Leaves, RetryLeaf(l) PROVE GroupSuccess
  BY <1>8 DEF RetryLeaf, Reopen
<1>9. CASE TimeoutSignals \/ Waiting
  BY <1>9 DEF TimeoutSignals, Waiting, AwaitSignal, ConsumeSignal, WaitExpires, DrainSignals, ExpireWaits
<1> QED BY <1>1, <1>2, <1>3, <1>4, <1>5, <1>6, <1>7, <1>8, <1>9
        DEF Next, Derive, Ownership, Control

LEMMA RunSuccessStep ==
  ASSUME TypeOK, [Next]_vars
  PROVE  RunSuccess
<1> USE DEF TypeOK, RunSuccess, proj, Terminal
<1>1. CASE Derive
  BY <1>1 DEF Derive, CompleteGroups, ContinueBranch, ContinueGroup, ContinueRoot, RootReady,
              TimeoutAttempts, TimeoutSignals, ExpireWaits
<1>2. CASE Ownership \/ UNCHANGED vars
  BY <1>2 DEF Ownership, ClaimRun, ReleaseRun, LeaseExpires, SupersedeExpired, vars
<1>3. CASE Execution
  BY <1>3 DEF Execution, StartAttempt, CommitResult, DeadlinePasses
<1>4. CASE Control
  BY <1>4 DEF Control, Pause, Resume, CancelRun, CancelLeaf, CancelGroup, CancelTree, RetryLeaf,
              RetryEligible
<1>5. CASE Waiting
  BY <1>5 DEF Waiting, AwaitSignal, ConsumeSignal, WaitExpires, DrainSignals, ExpireWaits
<1> QED BY <1>1, <1>2, <1>3, <1>4, <1>5 DEF Next

\* No transaction takes back a success: retries reopen only failed work and the
\* closure it needs (applyFrameRetryEvent, reopenRetryDependencies), and cascades
\* close only what is open (cancellationEventsForSubtree).
THEOREM SuccessKept == Spec => SuccessIsFinal
<1>1. TypeOK /\ [Next]_vars =>
        [/\ \A l \in Leaves : inst[l] = "completed" => inst'[l] = "completed"
         /\ \A g \in Groups : group[g] = "completed" =>
              group'[g] = "completed" /\ accepted'[g] = accepted[g]
         /\ run \in {"completed", "canceled"} => run' = run]_vars
  BY LeafSuccessStep, GroupSuccessStep, RunSuccessStep DEF LeafSuccess, GroupSuccess, RunSuccess
<1> QED BY <1>1, TypeCorrect, PTL DEF Spec, SuccessIsFinal

-----------------------------------------------------------------------------
(* A retry                                                                  *)

\* Only a retry makes a failed Run active again.
LEMMA OnlyRetryRevives ==
  ASSUME TypeOK, [Next]_vars, run = "failed", run' = "active"
  PROVE  \E l \in Leaves : RetryLeaf(l)
<1> USE DEF owner, proj
<1>1. CASE Ownership
  BY <1>1 DEF Ownership, ClaimRun, ReleaseRun, LeaseExpires, SupersedeExpired
<1>2. CASE Derive
  <2>1. CASE ContinueRoot
    BY <2>1 DEF ContinueRoot
  <2> QED BY <1>2, <2>1 DEF Derive, CompleteGroups, ContinueBranch, ContinueGroup,
             TimeoutAttempts, TimeoutSignals, ExpireWaits
<1>3. CASE Execution
  BY <1>3 DEF Execution, StartAttempt, CommitResult, DeadlinePasses
<1>4. CASE Waiting
  BY <1>4 DEF Waiting, AwaitSignal, ConsumeSignal, WaitExpires, DrainSignals, ExpireWaits
<1>5. CASE Control
  BY <1>5 DEF Control, Pause, Resume, CancelRun, CancelLeaf, CancelGroup
<1>6. CASE UNCHANGED vars
  BY <1>6 DEF vars
<1> QED BY <1>1, <1>2, <1>3, <1>4, <1>5, <1>6 DEF Next

\* What a retry leaves of the members of a group around the leaf: the one on the way to
\* the leaf and those that failed with the group are ready, the others as they were.
LEMMA RetriedMembers ==
  ASSUME TypeOK, NEW l \in Leaves, RetryLeaf(l), NEW n \in Line(l)
  PROVE  /\ group'[Parent[n]] = "running" /\ member[n] = "failed"
         /\ member'[n] = "ready" /\ n \in Kids(Parent[n])
         /\ \A m \in Kids(Parent[n]) :
              IF m = n \/ m \in Dependencies(Parent[n])
              THEN member'[m] = "ready" ELSE member'[m] = member[m]
<1> DEFINE line == Line(l)
           over == {Parent[m] : m \in line}
           deps == Under(UNION {Dependencies(g) : g \in over})
           g    == Parent[n]
<1>1. l \in Nodes /\ line \subseteq Members /\ n \in Members /\ g \in Groups
  BY LineFacts, TreeAssumption DEF Nodes
<1>2. /\ group' = Reopen(Reopen(group, over, "failed", "running"), deps, "parent_failed", "running")
      /\ member' = Reopen(Reopen(member, line, "failed", "ready"), deps, "parent_failed", "ready")
  BY DEF RetryLeaf
<1>3. member[n] = "failed" /\ group[g] \in {"running", "failed"}
  BY DEF RetryLeaf, RetryEligible
<1>4. g \in over
  OBVIOUS
<1>5. \A m \in Dependencies(g) : m \in deps /\ m \in Members /\ member[m] = "parent_failed"
  <2> SUFFICES ASSUME NEW m \in Dependencies(g) PROVE m \in deps /\ m \in Members /\ member[m] = "parent_failed"
    OBVIOUS
  <2>1. m \in Members /\ m \in Nodes /\ member[m] = "parent_failed"
    BY TreeFacts DEF Dependencies, Kids
  <2>2. m \in UNION {Dependencies(h) : h \in over}
    BY <1>4
  <2> QED BY <2>1, <2>2, PathFacts DEF Under
<1>6. ASSUME NEW m \in Kids(g), m # n PROVE m \notin line /\ m \in Members /\ Parent[m] = g
  <2>1. m \in Members /\ Parent[m] = g
    BY DEF Kids
  <2>2. m \notin line
    BY <1>1, <1>6, <2>1, OneMemberOfEach
  <2> QED BY <2>1, <2>2
<1>7. \A m \in Kids(g) : m \in Dependencies(g) <=> member[m] = "parent_failed"
  BY DEF Dependencies
<1>8. n \in Kids(g)
  BY <1>1 DEF Kids
<1> HIDE DEF deps, over, line
<1>9. group'[g] = "running"
  BY <1>1, <1>2, <1>3, <1>4 DEF Reopen, TypeOK
<1>10. n \in line
  BY DEF line
<1>11. member'[n] = "ready"
  BY <1>1, <1>2, <1>3, <1>10 DEF Reopen, TypeOK
<1>12. ASSUME NEW m \in Kids(g), m # n
       PROVE  IF m \in Dependencies(g) THEN member'[m] = "ready" ELSE member'[m] = member[m]
  <2>1. m \notin line /\ m \in Members
    BY <1>6, <1>12
  <2>2. CASE m \in Dependencies(g)
    BY <1>2, <1>5, <2>1, <2>2 DEF Reopen, TypeOK
  <2>3. CASE m \notin Dependencies(g)
    BY <1>2, <1>7, <2>1, <2>3 DEF Reopen, TypeOK
  <2> QED BY <2>2, <2>3
<1> QED BY <1>3, <1>8, <1>9, <1>11, <1>12

\* No group around a retried leaf is decided again by what the retry left of it.
LEMMA RetriedUndecided ==
  ASSUME TypeOK, NEW l \in Leaves, RetryLeaf(l), NEW n \in Line(l), TypeOK'
  PROVE  Outcome(Parent[n])' = "running"
<1> DEFINE g == Parent[n]
           K == Kids(g)
           D == Dependencies(g)
           Was(S) == {m \in K \ D : member[m] \in S}
           Now(S) == {m \in K : member'[m] \in S}
<1>1. n \in Members /\ g \in Groups /\ IsFiniteSet(K) /\ D \subseteq K /\ K \subseteq Members
  <2>1. n \in Members
    BY LineFacts DEF Nodes
  <2>2. IsFiniteSet(K)
    BY TreeFacts, FS_Subset DEF Kids
  <2> QED BY <2>1, <2>2, TreeAssumption DEF Kids, Dependencies
<1>2. /\ member[n] = "failed" /\ member'[n] = "ready" /\ n \in K
      /\ \A m \in K : IF m = n \/ m \in D THEN member'[m] = "ready"
                      ELSE member'[m] = member[m]
  BY RetriedMembers
<1>3. GroupUnblocked(g, n)
  BY DEF RetryLeaf, RetryEligible
<1>4. \A m \in D : member[m] = "parent_failed"
  BY DEF Dependencies
<1>5. \A m \in K : member[m] \in Status /\ member'[m] \in Status
  BY <1>1 DEF TypeOK
<1>6. Kids(g)' = K
  BY DEF Kids
<1>7. Strategy[g] \in {"all", "race", "quorum"} /\ Quorum[g] \in Nat \ {0}
  BY <1>1, BoundAssumption
<1>8. Now({"completed"}) = Was({"completed"})
  BY <1>2, <1>4
<1>9. CASE Strategy[g] = "all"
  <2>1. Was({"failed"} \union Reasons) \subseteq {n}
    BY <1>3, <1>9 DEF GroupUnblocked
  <2>2. Now({"failed"} \union Reasons) = {}
    BY <1>2, <2>1 DEF Reasons
  <2>3. Now({"completed"}) # K
    BY <1>2
  <2> QED BY <1>6, <1>9, <2>2, <2>3 DEF Outcome
<1>10. CASE Strategy[g] = "race"
  <2>1. Cardinality(Was({"completed"})) = 0
    BY <1>3, <1>10 DEF GroupUnblocked
  <2>2. IsFiniteSet(Was({"completed"}))
    BY <1>1, FS_Subset
  <2>3. Was({"completed"}) = {}
    BY <2>1, <2>2, FS_EmptySet
  <2>4. n \in Now(Open)
    BY <1>2 DEF Open
  <2> QED BY <1>6, <1>8, <1>10, <2>3, <2>4 DEF Outcome
<1>11. CASE Strategy[g] = "quorum"
  <2>1. /\ Cardinality(Was({"completed"})) < Quorum[g]
        /\ Cardinality(Was({"completed"})) + Cardinality(Was(Open)) + Cardinality(D) + 1 >= Quorum[g]
    BY <1>3, <1>11 DEF GroupUnblocked
  <2>2. IsFiniteSet(Was({"completed"})) /\ IsFiniteSet(Was(Open)) /\ IsFiniteSet(D)
    BY <1>1, FS_Subset
  <2>3. Now({"completed"} \union Open) = Was({"completed"}) \union Was(Open) \union D \union {n}
    BY <1>1, <1>2, <1>4 DEF Open
  <2>4. /\ Was({"completed"}) \intersect Was(Open) = {}
        /\ Was({"completed"}) \intersect D = {} /\ Was(Open) \intersect D = {}
        /\ n \notin Was({"completed"}) /\ n \notin Was(Open) /\ n \notin D
    BY <1>2, <1>4 DEF Open
  <2>5. /\ Cardinality(Now({"completed"} \union Open))
             = Cardinality(Was({"completed"})) + Cardinality(Was(Open)) + Cardinality(D) + 1
        /\ Cardinality(Was({"completed"})) \in Nat /\ Cardinality(Was(Open)) \in Nat
        /\ Cardinality(D) \in Nat
    <3> HIDE DEF D, Was, Now
    <3>1. /\ Cardinality(Was({"completed"}) \union Was(Open) \union D \union {n})
               = Cardinality(Was({"completed"})) + Cardinality(Was(Open)) + Cardinality(D) + 1
          /\ Cardinality(Was({"completed"})) \in Nat /\ Cardinality(Was(Open)) \in Nat
          /\ Cardinality(D) \in Nat
      BY <2>2, <2>4, FourParts, ZenonT(30)
    <3> QED BY <2>3, <3>1
  <2>6. /\ ~ (Cardinality(Now({"completed"})) >= Quorum[g])
        /\ ~ (Cardinality(Now({"completed"} \union Open)) < Quorum[g])
    <3> HIDE DEF D, Was, Now, g
    <3> QED BY <1>7, <1>8, <2>1, <2>5
  <2> QED BY <1>6, <1>11, <2>6 DEF Outcome
<1> QED BY <1>7, <1>9, <1>10, <1>11

\* What a retry leaves, put together.
LEMMA RetryStep ==
  ASSUME TypeOK, [Next]_vars
  PROVE  run = "failed" /\ run' = "active" =>
           \E l \in Leaves : inst'[l] = "ready" /\
             \A n \in Line(l) : /\ member'[n] \in Open /\ group'[Parent[n]] = "running"
                                /\ Outcome(Parent[n])' = "running"
<1> SUFFICES ASSUME run = "failed", run' = "active"
             PROVE  \E l \in Leaves : inst'[l] = "ready" /\
                      \A n \in Line(l) : /\ member'[n] \in Open /\ group'[Parent[n]] = "running"
                                         /\ Outcome(Parent[n])' = "running"
  OBVIOUS
<1>1. PICK l \in Leaves : RetryLeaf(l)
  BY OnlyRetryRevives
<1>2. TypeOK'
  BY NextType
<1>3. inst'[l] = "ready"
  BY <1>1 DEF RetryLeaf, Reopen, TypeOK
<1>4. \A n \in Line(l) : member'[n] = "ready" /\ group'[Parent[n]] = "running"
  BY <1>1, RetriedMembers
<1>5. \A n \in Line(l) : Outcome(Parent[n])' = "running"
  BY <1>1, <1>2, RetriedUndecided
<1> QED BY <1>3, <1>4, <1>5 DEF Open

\* A retried Run has something to do: the groups around the retried leaf are open again
\* and undecided whatever their strategies, so the Run does not end again before it is
\* tried (targetedRetryGroupAssessment, reopenForControlNodeRetry).
THEOREM RetryProgresses == Spec => RetryMakesProgress
<1>1. TypeOK /\ [Next]_vars =>
        [run = "failed" /\ run' = "active" =>
           \E l \in Leaves : inst'[l] = "ready" /\
             \A n \in Line(l) : /\ member'[n] \in Open /\ group'[Parent[n]] = "running"
                                /\ Outcome(Parent[n])' = "running"]_vars
  BY RetryStep
<1> QED BY <1>1, TypeCorrect, PTL DEF Spec, RetryMakesProgress

-----------------------------------------------------------------------------
(* Paths and depths                                                         *)

\* Above a member there are groups only, so a leaf is on no way but its own.
LEMMA GroupsAbove ==
  ASSUME NEW n \in Members
  PROVE  /\ Parent[n] \in Groups /\ Path[Parent[n]] \subseteq Groups
         /\ Path[n] = {n} \union Path[Parent[n]] /\ n \notin Path[Parent[n]]
         /\ Line(n) \subseteq Members /\ n \in Line(n)
<1> DEFINE S == {x \in Nodes : x \in Groups => Path[x] \subseteq Groups}
<1>1. Root \in S
  BY TreeAssumption DEF Nodes
<1>2. ASSUME NEW x \in Members, Parent[x] \in S PROVE x \in S
  BY <1>2, TreeAssumption, TreeFacts
<1>3. Nodes \subseteq S
  <2> HIDE DEF S
  <2> QED BY <1>1, <1>2, DownTheTree
<1>4. Parent[n] \in Groups /\ Parent[n] \in Nodes
  BY TreeAssumption DEF Nodes
<1>5. Line(n) \subseteq Members /\ n \in Line(n)
  BY LineFacts, PathFacts, TreeFacts DEF Line, Members
<1> QED BY <1>3, <1>4, <1>5, TreeAssumption

\* A leaf is on no way to the root but its own.
LEMMA LeafOnPath ==
  ASSUME NEW n \in Nodes, NEW l \in Leaves, l \in Path[n]
  PROVE  n = l
<1>1. CASE n = Root
  BY <1>1, TreeAssumption
<1>2. CASE n \in Members
  BY <1>2, GroupsAbove, TreeAssumption
<1> QED BY <1>1, <1>2 DEF Members

\* The way from Root to a node passes through a member of each group on it.
LEMMA KidTowards ==
  ASSUME NEW n \in Nodes, NEW g \in Path[n], g # n
  PROVE  \E k \in Kids(g) : k \in Path[n] /\ g \in Groups /\ (k = n \/ k \in Groups)
<1> DEFINE S == {x \in Nodes : \A y \in Path[x] : y # x => \E k \in Kids(y) : k \in Path[x]}
<1>1. Root \in S
  BY TreeAssumption DEF Nodes
<1>2. ASSUME NEW x \in Members, Parent[x] \in S PROVE x \in S
  <2> SUFFICES ASSUME NEW y \in Path[x], y # x PROVE \E k \in Kids(y) : k \in Path[x]
    BY TreeFacts
  <2>1. y \in Path[Parent[x]] /\ Path[x] = {x} \union Path[Parent[x]]
    BY GroupsAbove
  <2>2. CASE y = Parent[x]
    BY <2>1, <2>2 DEF Kids
  <2>3. CASE y # Parent[x]
    BY <1>2, <2>1, <2>3
  <2> QED BY <2>2, <2>3
<1>3. Nodes \subseteq S
  <2> HIDE DEF S
  <2> QED BY <1>1, <1>2, DownTheTree
<1>4. PICK k \in Kids(g) : k \in Path[n]
  BY <1>3
<1>5. n \in Members
  BY TreeAssumption DEF Members
<1> QED BY <1>4, <1>5, GroupsAbove

\* A group around a node is less deep than the node, and of two groups on one way one is
\* around the other.
LEMMA Deeper ==
  ASSUME NEW n \in Nodes, NEW g \in Path[n], g # n
  PROVE  Depth(g) < Depth(n) /\ Depth(g) \in Nat /\ Depth(n) \in Nat
<1>1. n \in Members
  BY TreeAssumption DEF Members
<1>2. g \in Path[Parent[n]] /\ g \in Nodes
  BY <1>1, GroupsAbove, PathFacts
<1>3. Path[g] \subseteq Path[n] /\ n \notin Path[g] /\ n \in Path[n]
  <2>1. Parent[n] \in Nodes
    BY <1>1, GroupsAbove DEF Nodes
  <2>2. Path[g] \subseteq Path[Parent[n]]
    BY <1>2, <2>1, PathFacts
  <2> QED BY <1>1, <2>2, GroupsAbove
<1>4. IsFiniteSet(Path[n])
  BY TreeFacts, PathFacts, FS_Subset
<1>5. /\ IsFiniteSet(Path[g]) /\ Cardinality(Path[g]) \in Nat /\ Cardinality(Path[n]) \in Nat
      /\ Cardinality(Path[g]) < Cardinality(Path[n])
  BY <1>3, <1>4, FS_Subset, FS_CardinalityType
<1> QED BY <1>5 DEF Depth

\* Of two nodes on the way to the root, one is above the other.
LEMMA OneWay ==
  ASSUME NEW n \in Nodes, NEW g \in Path[n], NEW h \in Path[n]
  PROVE  g \in Path[h] \/ h \in Path[g]
<1> DEFINE S == {x \in Nodes : \A y, z \in Path[x] : y \in Path[z] \/ z \in Path[y]}
<1>1. Root \in S
  BY TreeAssumption DEF Nodes
<1>2. ASSUME NEW x \in Members, Parent[x] \in S PROVE x \in S
  <2>1. Path[x] = {x} \union Path[Parent[x]]
    BY GroupsAbove
  <2> QED BY <1>2, <2>1, TreeFacts
<1>3. Nodes \subseteq S
  <2> HIDE DEF S
  <2> QED BY <1>1, <1>2, DownTheTree
<1> QED BY <1>3

\* Two nodes on the way to the root at one depth are the same node.
LEMMA SameDepth ==
  ASSUME NEW n \in Nodes, NEW g \in Path[n], NEW h \in Path[n], Depth(g) <= Depth(h), Depth(h) <= Depth(g)
  PROVE  g = h
<1>1. g \in Nodes /\ h \in Nodes
  BY PathFacts
<1>2. ASSUME g # h, g \in Path[h] PROVE FALSE
  BY <1>1, <1>2, Deeper
<1>3. ASSUME g # h, h \in Path[g] PROVE FALSE
  BY <1>1, <1>3, Deeper
<1> QED BY <1>2, <1>3, OneWay

\* The groups of the members on the way to a member are the groups around it.
LEMMA GroupsOfLine ==
  ASSUME NEW n \in Members
  PROVE  {Parent[m] : m \in Line(n)} = Path[Parent[n]]
<1> DEFINE S == {x \in Nodes : x = Root \/ {Parent[m] : m \in Line(x)} = Path[Parent[x]]}
<1>1. Root \in S
  BY TreeAssumption DEF Nodes
<1>2. ASSUME NEW x \in Members, Parent[x] \in S PROVE x \in S
  <2>1. /\ Path[x] = {x} \union Path[Parent[x]] /\ x # Root /\ x \in Nodes
        /\ Line(x) = {x} \union Line(Parent[x])
    BY GroupsAbove, TreeFacts DEF Members, Line
  <2>2. {Parent[m] : m \in Line(x)} = {Parent[x]} \union {Parent[m] : m \in Line(Parent[x])}
    BY <2>1
  <2>3. CASE Parent[x] = Root
    <3>1. Line(Parent[x]) = {} /\ Path[Parent[x]] = {Root}
      BY <2>3, TreeAssumption DEF Line
    <3> QED BY <2>1, <2>2, <2>3, <3>1
  <2>4. CASE Parent[x] # Root
    <3>1. Parent[x] \in Members
      BY <2>4, GroupsAbove DEF Members, Nodes
    <3>2. Path[Parent[x]] = {Parent[x]} \union Path[Parent[Parent[x]]]
      BY <3>1, GroupsAbove
    <3> QED BY <1>2, <2>1, <2>2, <2>4, <3>2
  <2> QED BY <2>3, <2>4
<1>3. Nodes \subseteq S
  <2> HIDE DEF S
  <2> QED BY <1>1, <1>2, DownTheTree
<1> QED BY <1>3, TreeFacts DEF Members

-----------------------------------------------------------------------------
(* Coherence: what one transaction leaves agreeing, the next finds agreeing *)

\* an "all" group that a member has already failed
FailedKid(h) ==
  Strategy[h] = "all" /\ \E k \in Kids(h) : member[k] \in {"failed"} \union Reasons

\* only the instance of a Signal is ever awaiting
Statuses ==
  /\ \A n \in Members : branch[n] # "awaiting" /\ member[n] # "awaiting"
  /\ \A g \in Groups : group[g] # "awaiting" /\ gframe[g] # "awaiting"
  /\ \A l \in Leaves : inst[l] = "awaiting" => l \in Signals
\* only work with a deadline is ever late
OnlyTimed ==
  /\ \A l \in Leaves, k \in Tries : att[l][k] = "overdue" => l \in Timed
  /\ \A l \in Signals : wait[l] = "due" => l \in Timed

\* what is open lies in what is running
LeafOpen  == \A l \in Leaves : inst[l] \in Open => member[l] \in Open
GroupOpen ==
  \A h \in Groups \ {Root} : group[h] = "running" =>
    group[Parent[h]] = "running" /\ (member[h] \in Open \/ FailedKid(h))

\* what was cancelled was cancelled with everything that stands for it
Cancelled ==
  /\ \A g \in Groups : group[g] \in Reasons => gframe[g] = group[g]
  /\ \A n \in Members : member[n] \in Reasons => branch[n] = member[n]
  /\ \A l \in Leaves : inst[l] \in Reasons => member[l] = inst[l]
LostGroup ==
  /\ group[Root] # "parent_failed"
  /\ \A h \in Groups \ {Root} :
       /\ group[h] = "parent_failed" => member[h] = "parent_failed"
       /\ gframe[h] = "parent_failed" => branch[h] # "running"
NoneLost ==
  \A n \in Members : group[Parent[n]] = "running" => member[n] # "parent_failed"

\* a completed member completed its group, and no work was lost below a completed group
MemberDone == \A h \in Groups \ {Root} : member[h] = "completed" => group[h] = "completed"
DoneBelow  ==
  \A n \in Members : member[n] = "parent_failed" =>
    \A g \in Path[Parent[n]] \ {Root} : group[g] # "completed"

\* work that has begun has begun in every group around it
Begun ==
  \A l \in Leaves : inst[l] \in {"running", "awaiting"} =>
    \A n \in Line(l) : member[n] # "ready"

\* no two members completed at the same place in the order
Distinct ==
  \A m, n \in Members :
    member[m] = "completed" /\ member[n] = "completed" /\ m # n => seq[m] # seq[n]
\* a Run that has ended has a decided root
RootEnd == run \in Terminal => group[Root] # "running"

\* What the counts of a group say of it.
LEMMA OutcomeValues ==
  ASSUME NEW g \in Groups
  PROVE  Outcome(g) \in {"running", "completed", "failed"}
  BY BoundAssumption DEF Outcome

\* A group that a member has failed is decided.
LEMMA FailedKidDecides ==
  ASSUME NEW h \in Groups, group[h] = "running", FailedKid(h)
  PROVE  h \in Decided /\ Outcome(h) = "failed"
<1>1. Outcome(h) = "failed"
  BY DEF FailedKid, Outcome
<1> QED BY <1>1 DEF Decided

\* Depths are numbers, and a set of nodes has a deepest one.
LEMMA DepthFacts ==
  /\ \A n \in Nodes : Depth(n) \in Nat
  /\ \A S : S \subseteq Nodes /\ S # {} => \E x \in S : \A y \in S : Depth(y) <= Depth(x)
<1>1. ASSUME NEW n \in Nodes PROVE Depth(n) \in Nat
  <2>1. IsFiniteSet(Path[n])
    BY TreeFacts, PathFacts, FS_Subset
  <2> QED BY <2>1, FS_CardinalityType DEF Depth
<1>2. ASSUME NEW S, S \subseteq Nodes, S # {}
      PROVE  \E x \in S : \A y \in S : Depth(y) <= Depth(x)
  <2> DEFINE f == [x \in S |-> Depth(x)]
  <2>1. IsFiniteSet(S)
    BY <1>2, TreeFacts, FS_Subset
  <2>2. f \in [S -> Nat]
    BY <1>1, <1>2
  <2>3. \E x \in S : \A y \in S : f[y] <= f[x]
    <3> HIDE DEF f
    <3> QED BY <1>2, <2>1, <2>2, LargestValue
  <2> QED BY <2>3
<1> QED BY <1>1, <1>2

\* Some decided group is in the next batch.
LEMMA BatchOfDecided ==
  ASSUME Decided # {}
  PROVE  Batch # {}
<1>1. Decided \subseteq Nodes
  BY DEF Decided, Nodes
<1> QED BY <1>1, DepthFacts DEF Batch

\* Around a running group every group is running.
LEMMA GroupChain ==
  ASSUME GroupOpen, NEW h \in Groups, group[h] = "running"
  PROVE  \A g \in Path[h] : group[g] = "running"
<1> DEFINE S == {x \in Nodes : x \in Groups /\ group[x] = "running" =>
                                 \A g \in Path[x] : group[g] = "running"}
<1>1. Root \in S
  BY TreeAssumption DEF Nodes
<1>2. ASSUME NEW x \in Members, Parent[x] \in S PROVE x \in S
  <2> SUFFICES ASSUME x \in Groups, group[x] = "running" PROVE \A g \in Path[x] : group[g] = "running"
    BY TreeFacts
  <2>1. x # Root /\ Path[x] = {x} \union Path[Parent[x]] /\ Parent[x] \in Groups
    BY GroupsAbove DEF Members
  <2>2. group[Parent[x]] = "running"
    BY <2>1 DEF GroupOpen
  <2> QED BY <1>2, <2>1, <2>2
<1>3. Nodes \subseteq S
  <2> HIDE DEF S
  <2> QED BY <1>1, <1>2, DownTheTree
<1> QED BY <1>3 DEF Nodes

\* Around an open member, and so around an open leaf, every group is running.
LEMMA MemberChain ==
  ASSUME GroupOpen, FramesAgree, NEW n \in Members, member[n] \in Open
  PROVE  \A g \in Path[Parent[n]] : group[g] = "running" /\ g \in Groups
<1>1. group[Parent[n]] = "running" /\ Parent[n] \in Groups /\ Path[Parent[n]] \subseteq Groups
  BY GroupsAbove DEF FramesAgree
<1> QED BY <1>1, GroupChain

\* Every group above open work is running.
LEMMA LeafChain ==
  ASSUME GroupOpen, FramesAgree, LeafOpen, NEW l \in Leaves, inst[l] \in Open
  PROVE  \A g \in Path[Parent[l]] : group[g] = "running" /\ g \in Groups
<1>1. l \in Members /\ member[l] \in Open
  BY TreeFacts DEF LeafOpen
<1> QED BY <1>1, MemberChain

\* While no group is to be decided, every member around an open member is open.
LEMMA QuietLine ==
  ASSUME GroupOpen, FramesAgree, Batch = {}, NEW n \in Members, member[n] \in Open
  PROVE  \A m \in Line(n) : m \in Members /\ member[m] \in Open
<1> SUFFICES ASSUME NEW m \in Line(n) PROVE m \in Members /\ member[m] \in Open
  OBVIOUS
<1>1. m \in Members /\ m # Root /\ m \in Path[n]
  BY GroupsAbove DEF Line
<1>2. CASE m = n
  BY <1>1, <1>2
<1>3. CASE m # n
  <2>1. m \in Path[Parent[n]]
    BY <1>1, <1>3, GroupsAbove
  <2>2. m \in Groups /\ group[m] = "running"
    BY <2>1, MemberChain
  <2>3. member[m] \in Open \/ FailedKid(m)
    BY <1>1, <2>2 DEF GroupOpen
  <2>4. ~ FailedKid(m)
    BY <2>2, FailedKidDecides, BatchOfDecided
  <2> QED BY <1>1, <2>3, <2>4
<1> QED BY <1>2, <1>3

\* A member that failed or was cancelled stays so as far as its group can tell.
LEMMA FailedKidStays ==
  ASSUME NEW h \in Groups, FailedKid(h),
         \A k \in Members : member[k] \in {"failed"} \union Reasons =>
                              member'[k] \in {"failed"} \union Reasons
  PROVE  FailedKid(h)'
  BY DEF FailedKid, Kids

\* members, frames, groups and instances agree
CoherentTree ==
  /\ FramesAgree /\ Statuses /\ LeafOpen /\ GroupOpen
  /\ Cancelled /\ LostGroup /\ NoneLost /\ MemberDone /\ DoneBelow /\ Begun
  /\ Distinct /\ RootEnd

\* a transaction that only requeues or ends instances
Rests ==
  /\ UNCHANGED <<member, branch, group, gframe, seq>>
  /\ \A l \in Leaves : \/ inst'[l] = inst[l]
                       \/ /\ inst[l] \in {"running", "awaiting"}
                          /\ inst'[l] \in {"ready", "completed", "failed"}
  /\ run' \in Terminal => run' = run \/ group[Root] # "running"

\* A transaction that only requeues or ends instances leaves the tree coherent.
LEMMA RestsStep ==
  ASSUME CoherentTree, Rests
  PROVE  CoherentTree'
<1> USE DEF Rests
<1>1. FramesAgree'
  BY DEF CoherentTree, FramesAgree
<1>2. Statuses' /\ LeafOpen'
  BY DEF CoherentTree, Statuses, LeafOpen, Open
<1>3. GroupOpen'
  BY DEF CoherentTree, GroupOpen, FailedKid, Kids
<1>4. Cancelled'
  BY DEF CoherentTree, Cancelled, Reasons
<1>5. LostGroup' /\ NoneLost' /\ MemberDone' /\ DoneBelow'
  BY DEF CoherentTree, LostGroup, NoneLost, MemberDone, DoneBelow
<1>6. Begun'
  BY DEF CoherentTree, Begun, Line
<1>7. Distinct' /\ RootEnd'
  BY DEF CoherentTree, Distinct, RootEnd
<1> QED BY <1>1, <1>2, <1>3, <1>4, <1>5, <1>6, <1>7 DEF CoherentTree

\* a transaction with which the work of leaf l begins
Begins(l) ==
  /\ UNCHANGED <<run, branch, group, gframe, seq>>
  /\ inst[l] = "ready" /\ member' = StartLine(l)
  /\ \E i \in {"running", "awaiting"} :
       /\ i = "awaiting" => l \in Signals
       /\ inst' = [inst EXCEPT ![l] = i]
  /\ \A n \in Line(l) : member[n] \in Open

\* So does one that begins the work of a leaf.
LEMMA BeginsStep ==
  ASSUME TypeOK, CoherentTree, NEW l \in Leaves, Begins(l)
  PROVE  CoherentTree'
<1>1. UNCHANGED <<run, branch, group, gframe, seq>>
  BY DEF Begins
<1>2. \A n \in Members : \/ member'[n] = member[n]
                         \/ member[n] = "ready" /\ member'[n] = "running"
  BY DEF Begins, StartLine
<1>3. \A n \in Line(l) : n \in Members /\ member'[n] \in Open /\ member'[n] # "ready"
  <2>1. Line(l) \subseteq Members
    BY TreeFacts, GroupsAbove
  <2> QED BY <2>1 DEF Begins, StartLine, Open
<1>4. /\ \A x \in Leaves : x # l => inst'[x] = inst[x]
      /\ inst'[l] \in {"running", "awaiting"}
      /\ inst'[l] = "awaiting" => l \in Signals
  BY DEF Begins, TypeOK
<1>5. l \in Members /\ member'[l] \in Open
  BY <1>3, TreeFacts, GroupsAbove
<1>6. \A n \in Members : member'[n] \in Open <=> member[n] \in Open
  BY <1>2 DEF Open
<1>7. FramesAgree'
  BY <1>1, <1>6 DEF CoherentTree, FramesAgree
<1>8. Statuses'
  BY <1>1, <1>2, <1>4 DEF CoherentTree, Statuses
<1>9. LeafOpen'
  BY <1>4, <1>5, <1>6, TreeFacts DEF CoherentTree, LeafOpen
<1>10. GroupOpen'
  <2>1. \A h \in Groups : FailedKid(h) => FailedKid(h)'
    BY <1>2, FailedKidStays DEF Reasons
  <2>2. \A h \in Groups \ {Root} : h \in Members
    BY TreeFacts
  <2> QED BY <1>1, <1>6, <2>1, <2>2 DEF CoherentTree, GroupOpen
<1>11. Cancelled'
  BY <1>1, <1>2, <1>4, TreeFacts DEF CoherentTree, Cancelled, Reasons
<1>12. LostGroup' /\ NoneLost' /\ MemberDone' /\ DoneBelow'
  BY <1>1, <1>2, TreeFacts DEF CoherentTree, LostGroup, NoneLost, MemberDone, DoneBelow
<1>13. Begun'
  <2> SUFFICES ASSUME NEW x \in Leaves, inst'[x] \in {"running", "awaiting"}, NEW n \in Line(x)
               PROVE  member'[n] # "ready"
    BY DEF Begun, Line
  <2>1. CASE x = l
    BY <1>3, <2>1
  <2>2. CASE x # l
    <3>1. n \in Members
      BY TreeFacts, GroupsAbove
    <3>2. member[n] # "ready"
      BY <1>4, <2>2 DEF CoherentTree, Begun
    <3> QED BY <1>2, <3>1, <3>2
  <2> QED BY <2>1, <2>2
<1>14. Distinct' /\ RootEnd'
  BY <1>1, <1>2 DEF CoherentTree, Distinct, RootEnd
<1> QED BY <1>7, <1>8, <1>9, <1>10, <1>11, <1>12, <1>13, <1>14 DEF CoherentTree

\* a transaction with which the late work of the leaves in D ends
TimesOut(D) ==
  /\ D \subseteq Timed /\ \A x \in D : inst[x] \in {"running", "awaiting"}
  /\ UNCHANGED <<run, branch, group, gframe, seq>>
  /\ inst' = [l \in Leaves |-> IF l \in D THEN "failed" ELSE inst[l]]
  /\ member' = [n \in Members |->
                 IF \E x \in D : n \in RunningLine(x) THEN "failed" ELSE member[n]]

\* So does one that fails leaves at their deadlines, in a plain tree.
LEMMA TimesOutStep ==
  ASSUME TypeOK, NestedPlain, CoherentTree, NEW D, TimesOut(D)
  PROVE  CoherentTree'
<1>1. /\ UNCHANGED <<run, branch, group, gframe, seq>> /\ D \subseteq Leaves
      /\ D \subseteq Timed /\ \A x \in D : inst[x] \in {"running", "awaiting"}
  BY BoundAssumption DEF TimesOut
<1>2. \A n \in Members : \/ member'[n] = member[n]
                         \/ member[n] = "running" /\ member'[n] = "failed"
  BY DEF TimesOut, RunningLine
<1>3. \A l \in Leaves : inst'[l] = IF l \in D THEN "failed" ELSE inst[l]
  BY DEF TimesOut
<1>4. \A l \in Leaves : l \notin D => member'[l] = member[l]
  <2> SUFFICES ASSUME NEW l \in Leaves, NEW x \in D, l \in RunningLine(x) PROVE l \in D
    BY TreeFacts DEF TimesOut
  <2>1. x \in Nodes /\ l \in Path[x]
    BY <1>1 DEF RunningLine, Line, Nodes
  <2> QED BY <2>1, LeafOnPath
<1>5. FramesAgree'
  BY <1>1, <1>2 DEF CoherentTree, FramesAgree, Open
<1>6. Statuses' /\ LeafOpen'
  BY <1>1, <1>2, <1>3, <1>4 DEF CoherentTree, Statuses, LeafOpen, Open
<1>7. GroupOpen'
  <2> SUFFICES ASSUME NEW h \in Groups \ {Root}, group'[h] = "running"
               PROVE  group'[Parent[h]] = "running" /\ (member'[h] \in Open \/ FailedKid(h)')
    BY DEF GroupOpen
  <2>1. h \in Members /\ h \in Nodes
    BY TreeFacts
  <2>2. group[h] = "running" /\ group'[Parent[h]] = "running" /\ (member[h] \in Open \/ FailedKid(h))
    BY <1>1 DEF CoherentTree, GroupOpen
  <2>3. FailedKid(h) => FailedKid(h)'
    BY <1>2, FailedKidStays DEF Reasons
  <2>4. ASSUME member[h] = "running", member'[h] # member[h] PROVE FailedKid(h)'
    <3>1. PICK x \in D : h \in RunningLine(x)
      BY <2>1, <2>4 DEF TimesOut
    <3>2. x \in Leaves /\ x \in Nodes /\ h \in Path[x] /\ h # x /\ x \in Members
      BY <1>1, <3>1, TreeFacts, TreeAssumption DEF RunningLine, Line, Nodes
    <3>3. PICK k \in Kids(h) : k \in Path[x] /\ (k = x \/ k \in Groups)
      BY <3>2, KidTowards
    <3>4. k \in Members /\ Parent[k] = h
      BY DEF Kids
    <3>5. k \in Line(x) /\ member[k] # "ready"
      BY <1>1, <3>2, <3>3, <3>4 DEF CoherentTree, Begun, Line, Members
    <3>6. Strategy[h] = "all"
      <4> SUFFICES ASSUME Strategy[h] # "all" PROVE FALSE
        OBVIOUS
      <4>1. k \in Leaves /\ k \notin Timed
        BY DEF NestedPlain, Plain
      <4>2. x = k
        BY <3>2, <3>3, <4>1, LeafOnPath
      <4> QED BY <1>1, <4>1, <4>2
    <3>7. member[k] # "completed"
      <4>1. inst[x] \in {"running", "awaiting"}
        BY <1>1, <3>1
      <4>2. CASE k = x
        <5>1. member[x] \in Open
          BY <3>2, <4>1 DEF CoherentTree, LeafOpen, Open
        <5> QED BY <4>2, <5>1 DEF Open
      <4>3. CASE k # x
        <5>1. k \in Path[Parent[x]] /\ k # Root
          BY <3>2, <3>3, <3>4, <4>3, GroupsAbove DEF Members
        <5>2. group[k] = "running" /\ k \in Groups
          BY <3>2, <4>1, <5>1, LeafChain DEF CoherentTree, Open
        <5>3. k \in Groups \ {Root}
          BY <5>1, <5>2
        <5> QED BY <5>2, <5>3 DEF CoherentTree, MemberDone
      <4> QED BY <4>2, <4>3
    <3>8. member[k] = "running" \/ member[k] \in {"failed"} \union Reasons
      <4>1. member[k] \in Status /\ member[k] # "awaiting" /\ member[k] # "ready"
        BY <3>4, <3>5 DEF CoherentTree, Statuses, TypeOK
      <4> QED BY <3>7, <4>1 DEF Status, Open, Settled
    <3>9. member'[k] \in {"failed"} \union Reasons
      <4>1. CASE member[k] = "running"
        BY <3>4, <3>5, <4>1 DEF TimesOut, RunningLine
      <4>2. CASE member[k] \in {"failed"} \union Reasons
        BY <1>2, <3>4, <4>2 DEF Reasons
      <4> QED BY <3>8, <4>1, <4>2
    <3> QED BY <3>6, <3>9 DEF FailedKid, Kids
  <2> QED BY <1>2, <2>1, <2>2, <2>3, <2>4 DEF Open
<1>8. Cancelled'
  BY <1>1, <1>2, <1>3, TreeFacts DEF CoherentTree, Cancelled, Reasons
<1>9. LostGroup' /\ NoneLost' /\ MemberDone' /\ DoneBelow'
  BY <1>1, <1>2, TreeFacts DEF CoherentTree, LostGroup, NoneLost, MemberDone, DoneBelow
<1>10. Begun'
  <2> SUFFICES ASSUME NEW x \in Leaves, inst'[x] \in {"running", "awaiting"}, NEW n \in Line(x)
               PROVE  member'[n] # "ready"
    BY DEF Begun, Line
  <2>1. n \in Members /\ member[n] # "ready"
    BY <1>3, TreeFacts, GroupsAbove DEF CoherentTree, Begun
  <2> QED BY <1>2, <2>1
<1>11. Distinct' /\ RootEnd'
  BY <1>1, <1>2 DEF CoherentTree, Distinct, RootEnd
<1> QED BY <1>5, <1>6, <1>7, <1>8, <1>9, <1>10, <1>11 DEF CoherentTree

\* What the continuation of a branch frame is: its one node has ended, not as lost work.
LEMMA BranchEnd ==
  ASSUME TypeOK, CoherentTree, NEW n \in Members, ContinueBranch(n)
  PROVE  /\ UNCHANGED <<run, group, gframe, inst>>
         /\ branch[n] = "running" /\ member[n] \notin Reasons
         /\ Child(n) \in Settled \ {"parent_failed"}
         /\ branch' = [branch EXCEPT ![n] = Child(n)]
         /\ member' = IF member[n] \in Open THEN [member EXCEPT ![n] = Child(n)] ELSE member
         /\ seq' = IF member[n] \in Open /\ Child(n) = "completed"
                   THEN [seq EXCEPT ![n] = NextSequence] ELSE seq
<1>1. BranchReady(n) /\ branch[n] = "running"
  BY DEF ContinueBranch, BranchTurn, BranchReady
<1>2. member[n] \notin Reasons
  BY <1>1 DEF CoherentTree, Cancelled, Reasons
<1>3. Child(n) \in Settled
  BY <1>1, <1>2 DEF BranchReady
<1>4. Child(n) # "parent_failed"
  <2>1. CASE n \in Leaves
    BY <1>2, <2>1 DEF CoherentTree, Cancelled, Child, Reasons
  <2>2. CASE n \notin Leaves
    <3>1. n \in Groups \ {Root}
      BY <2>2, TreeFacts
    <3> QED BY <1>1, <2>2, <3>1 DEF CoherentTree, LostGroup, Child
  <2> QED BY <2>1, <2>2
<1> QED BY <1>1, <1>2, <1>3, <1>4 DEF ContinueBranch

\* The continuation of a branch leaves the tree coherent.
LEMMA ContinueBranchStep ==
  ASSUME TypeOK, CoherentTree, NEW n \in Members, ContinueBranch(n)
  PROVE  CoherentTree'
<1> DEFINE end == Child(n)
<1>1. /\ UNCHANGED <<run, group, gframe, inst>> /\ branch[n] = "running"
      /\ member[n] \notin Reasons /\ end \in Settled /\ end # "parent_failed"
      /\ branch' = [branch EXCEPT ![n] = end]
      /\ member' = IF member[n] \in Open THEN [member EXCEPT ![n] = end] ELSE member
      /\ seq' = IF member[n] \in Open /\ end = "completed"
                THEN [seq EXCEPT ![n] = NextSequence] ELSE seq
  BY BranchEnd
<1>2. n \in Leaves => inst[n] \in Settled
  BY <1>1 DEF Child
<1>3. n \in Groups => gframe[n] = end /\ group[n] # "running" /\ n \in Groups \ {Root}
  <2> SUFFICES ASSUME n \in Groups PROVE gframe[n] = end /\ group[n] # "running" /\ n # Root
    OBVIOUS
  <2>1. n \notin Leaves /\ n # Root
    BY TreeAssumption DEF Members
  <2>2. gframe[n] = end
    BY <2>1 DEF Child
  <2> QED BY <1>1, <2>1, <2>2 DEF CoherentTree, FramesAgree, Settled, Reasons
<1> HIDE DEF end
<1>4. \A m \in Members : m # n => member'[m] = member[m] /\ branch'[m] = branch[m] /\ seq'[m] = seq[m]
  BY <1>1 DEF TypeOK
<1>5. /\ branch'[n] = end /\ end \notin Open
      /\ member'[n] = IF member[n] \in Open THEN end ELSE member[n]
  BY <1>1 DEF TypeOK, Settled, Reasons, Open
<1>6. \A m \in Members : member'[m] \in Open => member[m] \in Open /\ m # n
  BY <1>4, <1>5
<1>7. FramesAgree'
  <2>1. \A m \in Members : member'[m] \in Open => branch'[m] = "running" /\ group'[Parent[m]] = "running"
    BY <1>1, <1>4, <1>6 DEF CoherentTree, FramesAgree
  <2> QED BY <1>1, <2>1 DEF CoherentTree, FramesAgree
<1>8. Statuses'
  <2>1. \A m \in Members : branch'[m] # "awaiting" /\ member'[m] # "awaiting"
    BY <1>4, <1>5 DEF CoherentTree, Statuses, Open
  <2> QED BY <1>1, <2>1 DEF CoherentTree, Statuses
<1>9. LeafOpen'
  BY <1>1, <1>2, <1>4, TreeFacts DEF CoherentTree, LeafOpen, Open, Settled, Reasons
<1>10. GroupOpen'
  <2>1. \A m \in Members : member[m] \in {"failed"} \union Reasons =>
                             member'[m] \in {"failed"} \union Reasons
    BY <1>4, <1>5 DEF Open, Reasons
  <2>2. \A h \in Groups : FailedKid(h) => FailedKid(h)'
    BY <2>1, FailedKidStays
  <2> SUFFICES ASSUME NEW h \in Groups \ {Root}, group'[h] = "running"
               PROVE  group'[Parent[h]] = "running" /\ (member'[h] \in Open \/ FailedKid(h)')
    BY DEF GroupOpen
  <2>3. group[Parent[h]] = "running" /\ (member[h] \in Open \/ FailedKid(h))
    BY <1>1 DEF CoherentTree, GroupOpen
  <2>4. h # n /\ h \in Members
    BY <1>1, <1>3, TreeFacts
  <2> QED BY <1>1, <1>4, <2>2, <2>3, <2>4
<1>11. Cancelled'
  <2>1. \A m \in Members : member'[m] \in Reasons => branch'[m] = member'[m]
    BY <1>1, <1>4, <1>5 DEF CoherentTree, Cancelled
  <2>2. \A l \in Leaves : inst'[l] \in Reasons => member'[l] = inst'[l]
    <3> SUFFICES ASSUME NEW l \in Leaves, inst'[l] \in Reasons PROVE member'[l] = inst'[l]
      OBVIOUS
    <3>1. member[l] = inst[l] /\ member[l] \in Reasons
      BY <1>1 DEF CoherentTree, Cancelled
    <3> QED BY <1>1, <1>4, <3>1, TreeFacts
  <2> QED BY <1>1, <2>1, <2>2 DEF CoherentTree, Cancelled
<1>12. \A m \in Members : member'[m] = "parent_failed" <=> member[m] = "parent_failed"
  BY <1>1, <1>4, <1>5 DEF Open
<1>13. LostGroup'
  <2> SUFFICES ASSUME NEW h \in Groups \ {Root}
               PROVE  /\ group'[h] = "parent_failed" => member'[h] = "parent_failed"
                      /\ gframe'[h] = "parent_failed" => branch'[h] # "running"
    BY <1>1 DEF CoherentTree, LostGroup
  <2>1. h \in Members
    BY TreeFacts
  <2>2. group'[h] = "parent_failed" => member'[h] = "parent_failed"
    BY <1>1, <1>12, <2>1 DEF CoherentTree, LostGroup
  <2>3. gframe'[h] = "parent_failed" => branch'[h] # "running"
    BY <1>1, <1>4, <1>5, <2>1 DEF CoherentTree, LostGroup, Open
  <2> QED BY <2>2, <2>3
<1>14. NoneLost' /\ DoneBelow'
  BY <1>1, <1>12 DEF CoherentTree, NoneLost, DoneBelow
<1>15. MemberDone'
  <2> SUFFICES ASSUME NEW h \in Groups \ {Root}, member'[h] = "completed" PROVE group'[h] = "completed"
    BY DEF MemberDone
  <2>1. h \in Members
    BY TreeFacts
  <2>2. CASE h # n \/ member[h] = "completed"
    BY <1>1, <1>4, <2>1, <2>2 DEF CoherentTree, MemberDone
  <2>3. CASE h = n /\ member[h] # "completed"
    <3>1. gframe[n] = "completed"
      BY <1>3, <1>5, <2>3
    <3>2. n \in Groups
      BY <2>3
    <3> QED BY <1>1, <2>3, <3>1, <3>2 DEF CoherentTree, FramesAgree, Reasons
  <2> QED BY <2>2, <2>3
<1>16. Begun'
  <2> SUFFICES ASSUME NEW x \in Leaves, inst'[x] \in {"running", "awaiting"}, NEW m \in Line(x)
               PROVE  member'[m] # "ready"
    BY DEF Begun, Line
  <2>1. m \in Members /\ member[m] # "ready"
    BY <1>1, TreeFacts, GroupsAbove DEF CoherentTree, Begun
  <2> QED BY <1>4, <1>5, <2>1 DEF Open
<1>17. Distinct'
  <2>1. NextSequence \in Nat /\ \A m \in Members : seq[m] < NextSequence /\ seq[m] \in Nat
    BY NextSequenceFact DEF TypeOK
  <2>2. CASE member[n] \in Open /\ end = "completed"
    <3>1. seq'[n] = NextSequence
      BY <1>1, <2>2 DEF TypeOK
    <3>2. \A m \in Members : m # n => seq'[m] # NextSequence
      BY <1>4, <2>1
    <3> QED BY <1>4, <3>1, <3>2 DEF CoherentTree, Distinct
  <2>3. CASE ~ (member[n] \in Open /\ end = "completed")
    <3>1. seq' = seq /\ (member'[n] = "completed" => member[n] = "completed")
      BY <1>1, <1>5, <2>3
    <3> QED BY <1>4, <3>1 DEF CoherentTree, Distinct
  <2> QED BY <2>2, <2>3
<1>18. RootEnd'
  BY <1>1 DEF CoherentTree, RootEnd
<1> QED BY <1>7, <1>8, <1>9, <1>10, <1>11, <1>13, <1>14, <1>15, <1>16, <1>17, <1>18
        DEF CoherentTree

\* The continuation of a group frame leaves the tree coherent.
LEMMA ContinueGroupStep ==
  ASSUME TypeOK, CoherentTree, NEW g \in Groups, ContinueGroup(g)
  PROVE  CoherentTree'
<1>1. UNCHANGED <<run, member, branch, group, inst, seq>>
  BY DEF ContinueGroup
<1>2. gframe[g] = "running" /\ group[g] \in Settled
  BY DEF ContinueGroup, GroupTurn, GroupReady
<1>3. group[g] \notin Reasons
  BY <1>2 DEF CoherentTree, Cancelled, Reasons
<1>4. group[g] \in {"completed", "failed"} /\ gframe' = [gframe EXCEPT ![g] = group[g]]
  BY <1>2, <1>3 DEF ContinueGroup, Settled
<1>5. \A h \in Groups : gframe'[h] = IF h = g THEN group[g] ELSE gframe[h]
  BY <1>4 DEF TypeOK
<1>6. FramesAgree'
  <2>1. \A n \in Members : member'[n] \in Open => branch'[n] = "running" /\ group'[Parent[n]] = "running"
    BY <1>1 DEF CoherentTree, FramesAgree
  <2>2. ASSUME NEW h \in Groups
        PROVE  CASE group'[h] = "running"   -> gframe'[h] = "running"
                 [] group'[h] = "completed" -> gframe'[h] \in {"running", "completed"} \union Reasons
                 [] group'[h] = "failed"    -> gframe'[h] \in {"running", "failed"} \union Reasons
                 [] OTHER                   -> gframe'[h] \in {"running"} \union Reasons
    <3>1. CASE h = g
      BY <1>1, <1>4, <1>5, <3>1
    <3>2. CASE h # g
      BY <1>1, <1>5, <3>2 DEF CoherentTree, FramesAgree
    <3> QED BY <3>1, <3>2
  <2> QED BY <2>1, <2>2 DEF FramesAgree
<1>7. Statuses'
  BY <1>1, <1>4, <1>5 DEF CoherentTree, Statuses
<1>8. LeafOpen' /\ NoneLost' /\ MemberDone' /\ DoneBelow' /\ Distinct' /\ RootEnd'
  BY <1>1 DEF CoherentTree, LeafOpen, NoneLost, MemberDone, DoneBelow, Distinct, RootEnd
<1>9. GroupOpen' /\ Begun'
  BY <1>1 DEF CoherentTree, GroupOpen, FailedKid, Kids, Begun, Line
<1>10. Cancelled'
  BY <1>1, <1>3, <1>5 DEF CoherentTree, Cancelled
<1>11. LostGroup'
  BY <1>1, <1>4, <1>5 DEF CoherentTree, LostGroup
<1> QED BY <1>6, <1>7, <1>8, <1>9, <1>10, <1>11 DEF CoherentTree

\* a transaction that cancels, for the reasons W, what is open: the instances, groups and
\* frames of the nodes in X, the members and branches of those in Y, and decides the
\* groups in Z
Cascades(X, Y, Z, W) ==
  /\ member' = [n \in Members |-> IF n \in Y /\ member[n] \in Open THEN W[n] ELSE member[n]]
  /\ branch' = [n \in Members |-> IF n \in Y /\ branch[n] \in Open THEN W[n] ELSE branch[n]]
  /\ inst' = [l \in Leaves |-> IF l \in X /\ inst[l] \in Open THEN W[l] ELSE inst[l]]
  /\ gframe' = [g \in Groups |-> IF g \in X /\ gframe[g] \in Open THEN W[g] ELSE gframe[g]]
  /\ group' = [g \in Groups |-> IF g \in Z THEN Outcome(g)
                                ELSE IF g \in X /\ group[g] \in Open THEN W[g] ELSE group[g]]
  /\ seq' = seq
  /\ run' \in Terminal => run' = run \/ Root \in X

\* such a transaction goes down the tree, and what it cancels as lost is lost with a
\* group that failed
CascadeShape(X, Y, Z, W) ==
  /\ W \in [Nodes -> Reasons] /\ Y \subseteq X \intersect Members /\ X \intersect Leaves \subseteq Y
  /\ Z \subseteq Decided /\ \A h \in Decided, g \in Z : Depth(h) <= Depth(g)
  /\ \A n \in Members : /\ Parent[n] \in X => n \in Y
                        /\ Parent[n] \in Z /\ member[n] \in Open => n \in Y
  /\ \A n \in X \intersect Nodes : W[n] = "parent_failed" =>
       /\ n \in Y /\ Parent[n] \in X \union Z /\ n \notin Decided
       /\ \A g \in Z \intersect Path[n] : Outcome(g) # "completed"

\* A transaction of that shape leaves a plain tree coherent.
LEMMA CascadeStep ==
  ASSUME TypeOK, NestedPlain, CoherentTree, NEW X, NEW Y, NEW Z, NEW W,
         Cascades(X, Y, Z, W), CascadeShape(X, Y, Z, W)
  PROVE  CoherentTree'
<1>1. /\ W \in [Nodes -> Reasons] /\ Y \subseteq X /\ Y \subseteq Members
      /\ \A l \in Leaves : l \in X => l \in Y
      /\ Z \subseteq Decided /\ Z \subseteq Groups /\ \A g \in Z : group[g] = "running"
      /\ \A h \in Decided, g \in Z : Depth(h) <= Depth(g)
  BY DEF CascadeShape, Decided
<1>2. \A n \in Members : /\ Parent[n] \in X => n \in Y
                         /\ Parent[n] \in Z /\ member[n] \in Open => n \in Y
  BY DEF CascadeShape
<1>3. \A n \in Nodes : n \in X /\ W[n] = "parent_failed" =>
        /\ n \in Y /\ Parent[n] \in X \union Z /\ n \notin Decided
        /\ \A g \in Z \intersect Path[n] : Outcome(g) # "completed"
  BY DEF CascadeShape
<1>4. \A n \in Members :
        /\ n \in Nodes
        /\ member'[n] = IF n \in Y /\ member[n] \in Open THEN W[n] ELSE member[n]
        /\ branch'[n] = IF n \in Y /\ branch[n] \in Open THEN W[n] ELSE branch[n]
  BY TreeFacts DEF Cascades
<1>5. \A l \in Leaves :
        /\ l \in Nodes /\ l \in Members
        /\ inst'[l] = IF l \in X /\ inst[l] \in Open THEN W[l] ELSE inst[l]
  BY TreeFacts DEF Cascades
<1>6. \A g \in Groups :
        /\ g \in Nodes
        /\ gframe'[g] = IF g \in X /\ gframe[g] \in Open THEN W[g] ELSE gframe[g]
        /\ group'[g] = IF g \in Z THEN Outcome(g)
                       ELSE IF g \in X /\ group[g] \in Open THEN W[g] ELSE group[g]
  BY DEF Cascades, Nodes
<1>7. \A n \in Nodes : W[n] \in Reasons /\ W[n] \notin Open
  BY <1>1 DEF Reasons, Open
<1>8. \A g \in Z : Outcome(g) \in {"completed", "failed"}
  BY <1>1, OutcomeValues DEF Decided
<1>9. \A h \in Groups \ {Root} : h \in Members
  BY TreeFacts
\* what stays open, and what stays running
<1>10. \A n \in Members : member'[n] \in Open =>
         /\ member[n] \in Open /\ n \notin Y /\ member'[n] = member[n] /\ branch'[n] = branch[n]
         /\ Parent[n] \notin X /\ Parent[n] \notin Z
  BY <1>2, <1>4, <1>7
<1>11. \A g \in Groups : group'[g] = "running" =>
         group[g] = "running" /\ g \notin X /\ g \notin Z /\ gframe'[g] = gframe[g]
  BY <1>6, <1>7, <1>8 DEF Open
<1>12. \A g \in Groups : g \notin Z /\ g \notin X => group'[g] = group[g]
  BY <1>6
<1>13. \A n \in Members : Parent[n] \in Groups
  BY GroupsAbove
\* nothing that has settled changes
<1>14. \A n \in Members : member[n] \notin Open => member'[n] = member[n]
  BY <1>4
<1>15. \A h \in Groups : FailedKid(h) => FailedKid(h)'
  BY <1>14, FailedKidStays DEF Reasons, Open
<1>16. \A h \in Groups : group[h] # "running" => group'[h] = group[h]
  BY <1>1, <1>6 DEF CoherentTree, Statuses, TypeOK, Status, Open
<1>17. \A g \in Groups : gframe[g] \in Open => gframe[g] = "running"
  BY DEF CoherentTree, Statuses, TypeOK, Status, Open
<1> HIDE DEF CascadeShape, Cascades
<1>21. FramesAgree'
  <2>1. \A n \in Members : member'[n] \in Open =>
          branch'[n] = "running" /\ group'[Parent[n]] = "running"
    BY <1>10, <1>12, <1>13 DEF CoherentTree, FramesAgree
  <2>2. ASSUME NEW g \in Groups
        PROVE  CASE group'[g] = "running"   -> gframe'[g] = "running"
                 [] group'[g] = "completed" -> gframe'[g] \in {"running", "completed"} \union Reasons
                 [] group'[g] = "failed"    -> gframe'[g] \in {"running", "failed"} \union Reasons
                 [] OTHER                   -> gframe'[g] \in {"running"} \union Reasons
    <3>1. CASE group'[g] = group[g]
      <4>1. CASE gframe'[g] = gframe[g]
        BY <3>1, <4>1 DEF CoherentTree, FramesAgree
      <4>2. CASE gframe'[g] # gframe[g]
        <5>1. g \in X /\ gframe'[g] \in Reasons
          BY <1>6, <1>7, <4>2
        <5>2. group'[g] # "running"
          BY <1>11, <5>1
        <5> QED BY <5>1, <5>2
      <4> QED BY <4>1, <4>2
    <3>2. CASE group'[g] # group[g]
      <4>1. group[g] = "running"
        BY <1>16, <3>2
      <4>2. gframe[g] = "running"
        BY <4>1 DEF CoherentTree, FramesAgree
      <4>3. gframe'[g] = "running" \/ gframe'[g] \in Reasons
        BY <1>6, <1>7, <4>2
      <4>4. group'[g] # "running"
        BY <3>2, <4>1
      <4> QED BY <4>3, <4>4
    <3> QED BY <3>1, <3>2
  <2> QED BY <2>1, <2>2 DEF FramesAgree
<1>22. Statuses'
  <2>1. \A n \in Members : branch'[n] # "awaiting" /\ member'[n] # "awaiting"
    BY <1>4, <1>7 DEF CoherentTree, Statuses, Open
  <2>2. \A g \in Groups : group'[g] # "awaiting" /\ gframe'[g] # "awaiting"
    BY <1>6, <1>7, <1>8 DEF CoherentTree, Statuses, Open
  <2>3. \A l \in Leaves : inst'[l] = "awaiting" => l \in Signals
    BY <1>5, <1>7 DEF CoherentTree, Statuses, Open
  <2> QED BY <2>1, <2>2, <2>3 DEF Statuses
<1>23. LeafOpen'
  <2> SUFFICES ASSUME NEW l \in Leaves, inst'[l] \in Open PROVE member'[l] \in Open
    BY DEF LeafOpen
  <2>1. inst[l] \in Open /\ l \notin X
    BY <1>5, <1>7
  <2> QED BY <1>1, <1>4, <1>5, <2>1 DEF CoherentTree, LeafOpen
<1>24. GroupOpen'
  <2> SUFFICES ASSUME NEW h \in Groups \ {Root}, group'[h] = "running"
               PROVE  group'[Parent[h]] = "running" /\ (member'[h] \in Open \/ FailedKid(h)')
    BY DEF GroupOpen
  <2>1. group[h] = "running" /\ h \notin X /\ h \notin Z /\ h \in Members /\ h \notin Y
    BY <1>1, <1>9, <1>11
  <2>2. group[Parent[h]] = "running" /\ (member[h] \in Open \/ FailedKid(h))
    BY <2>1 DEF CoherentTree, GroupOpen
  <2>3. Parent[h] \notin X /\ Parent[h] \in Groups
    BY <1>2, <1>13, <2>1
  <2>4. Parent[h] \notin Z
    <3> SUFFICES ASSUME Parent[h] \in Z PROVE FALSE
      OBVIOUS
    <3>1. FailedKid(h)
      BY <1>2, <2>1, <2>2
    <3>2. h \in Decided
      BY <2>1, <3>1, FailedKidDecides
    <3>3. Depth(h) <= Depth(Parent[h])
      BY <1>1, <3>2
    <3>4. Parent[h] \in Path[h] /\ Parent[h] # h /\ h \in Nodes
      BY <2>1, <2>3, GroupsAbove, PathFacts, TreeFacts DEF Nodes
    <3> QED BY <3>3, <3>4, Deeper
  <2>5. group'[Parent[h]] = "running"
    BY <1>12, <2>2, <2>3, <2>4
  <2> QED BY <1>4, <1>15, <2>1, <2>2, <2>5
<1>25. Cancelled'
  <2>1. ASSUME NEW g \in Groups, group'[g] \in Reasons PROVE gframe'[g] = group'[g]
    <3>1. CASE group'[g] = group[g]
      <4>1. gframe[g] = group[g]
        BY <2>1, <3>1 DEF CoherentTree, Cancelled
      <4> QED BY <1>6, <2>1, <3>1, <4>1 DEF Reasons, Open
    <3>2. CASE group'[g] # group[g]
      <4>1. group[g] = "running"
        BY <1>16, <3>2
      <4>2. g \notin Z
        BY <1>6, <1>8, <2>1 DEF Reasons
      <4>3. gframe[g] = "running"
        BY <4>1 DEF CoherentTree, FramesAgree
      <4> QED BY <1>6, <3>2, <4>1, <4>2, <4>3
    <3> QED BY <3>1, <3>2
  <2>2. ASSUME NEW n \in Members, member'[n] \in Reasons PROVE branch'[n] = member'[n]
    <3>1. CASE member[n] \in Open
      <4>1. branch[n] = "running"
        BY <3>1 DEF CoherentTree, FramesAgree
      <4> QED BY <1>4, <2>2, <3>1, <4>1 DEF Reasons, Open
    <3>2. CASE member[n] \notin Open
      <4>1. branch[n] = member[n] /\ member'[n] = member[n]
        BY <1>14, <2>2, <3>2 DEF CoherentTree, Cancelled
      <4> QED BY <1>4, <3>2, <4>1
    <3> QED BY <3>1, <3>2
  <2>3. ASSUME NEW l \in Leaves, inst'[l] \in Reasons PROVE member'[l] = inst'[l]
    <3>1. CASE inst[l] \in Open
      <4>1. member[l] \in Open
        BY <3>1 DEF CoherentTree, LeafOpen
      <4>2. l \in X
        BY <1>5, <2>3, <3>1 DEF Reasons, Open
      <4> QED BY <1>1, <1>4, <1>5, <3>1, <4>1, <4>2
    <3>2. CASE inst[l] \notin Open
      <4>1. inst'[l] = inst[l] /\ member[l] = inst[l]
        BY <1>5, <2>3, <3>2 DEF CoherentTree, Cancelled
      <4> QED BY <1>5, <1>14, <3>2, <4>1
    <3> QED BY <3>1, <3>2
  <2> QED BY <2>1, <2>2, <2>3 DEF Cancelled
<1>26. LostGroup'
  <2>1. ASSUME NEW h \in Groups, group'[h] = "parent_failed", group[h] # "parent_failed"
        PROVE  h \in X /\ h \notin Z /\ group[h] = "running" /\ W[h] = "parent_failed"
    BY <1>6, <1>8, <1>16, <2>1
  <2>2. group'[Root] # "parent_failed"
    <3>1. Root \in Groups /\ Root \notin Members
      BY TreeAssumption DEF Members
    <3>2. group[Root] # "parent_failed"
      BY DEF CoherentTree, LostGroup
    <3> QED BY <1>1, <1>3, <1>6, <2>1, <3>1, <3>2
  <2>3. ASSUME NEW h \in Groups \ {Root}, group'[h] = "parent_failed"
        PROVE  member'[h] = "parent_failed"
    <3>1. CASE group[h] = "parent_failed"
      <4>1. member[h] = "parent_failed"
        BY <3>1 DEF CoherentTree, LostGroup
      <4> QED BY <1>9, <1>14, <4>1 DEF Open
    <3>2. CASE group[h] # "parent_failed"
      <4>1. h \in X /\ group[h] = "running" /\ W[h] = "parent_failed" /\ h \in Members /\ h \in Nodes
        BY <1>6, <1>9, <2>1, <2>3, <3>2
      <4>2. h \in Y /\ h \notin Decided
        BY <1>3, <4>1
      <4>3. member[h] \in Open
        BY <4>1, <4>2, FailedKidDecides DEF CoherentTree, GroupOpen
      <4> QED BY <1>4, <4>1, <4>2, <4>3
    <3> QED BY <3>1, <3>2
  <2>4. ASSUME NEW h \in Groups \ {Root}, gframe'[h] = "parent_failed"
        PROVE  branch'[h] # "running"
    <3>1. CASE gframe[h] = "parent_failed"
      <4>1. branch[h] # "running"
        BY <3>1 DEF CoherentTree, LostGroup
      <4> QED BY <1>4, <1>7, <1>9, <4>1 DEF Open
    <3>2. CASE gframe[h] # "parent_failed"
      <4>1. h \in X /\ W[h] = "parent_failed" /\ h \in Members /\ h \in Nodes
        BY <1>6, <1>9, <2>4, <3>2
      <4>2. h \in Y
        BY <1>3, <4>1
      <4> QED BY <1>4, <1>7, <4>1, <4>2 DEF Open
    <3> QED BY <3>1, <3>2
  <2> QED BY <2>2, <2>3, <2>4 DEF LostGroup
\* what is newly lost
<1>27. ASSUME NEW n \in Members, member'[n] = "parent_failed", member[n] # "parent_failed"
       PROVE  member[n] \in Open /\ n \in Y /\ n \in X /\ n \in Nodes /\ W[n] = "parent_failed"
  BY <1>1, <1>4, <1>27
<1>28. NoneLost'
  <2> SUFFICES ASSUME NEW n \in Members, group'[Parent[n]] = "running", member'[n] = "parent_failed"
               PROVE  FALSE
    BY DEF NoneLost
  <2>1. group[Parent[n]] = "running" /\ Parent[n] \notin X /\ Parent[n] \notin Z
    BY <1>11, <1>13
  <2>2. member[n] # "parent_failed"
    BY <2>1 DEF CoherentTree, NoneLost
  <2> QED BY <1>3, <1>27, <2>1, <2>2
<1>29. MemberDone'
  <2> SUFFICES ASSUME NEW h \in Groups \ {Root}, member'[h] = "completed" PROVE group'[h] = "completed"
    BY DEF MemberDone
  <2>1. member[h] = "completed"
    BY <1>4, <1>7, <1>9 DEF Reasons
  <2>2. group[h] = "completed"
    BY <2>1 DEF CoherentTree, MemberDone
  <2> QED BY <1>16, <2>2
<1>30. DoneBelow'
  <2> SUFFICES ASSUME NEW n \in Members, member'[n] = "parent_failed",
                      NEW g \in Path[Parent[n]] \ {Root}, group'[g] = "completed"
               PROVE  FALSE
    BY DEF DoneBelow
  <2>1. g \in Groups /\ g \in Path[n] /\ g # n /\ n \in Nodes /\ g \in Groups \ {Root}
    BY GroupsAbove, TreeFacts
  <2>2. CASE member[n] = "parent_failed"
    <3>1. group[g] # "completed"
      BY <2>2 DEF CoherentTree, DoneBelow
    <3>2. g \in Z /\ Outcome(g) = "completed"
      BY <1>6, <1>7, <2>1, <3>1 DEF Reasons
    <3>3. PICK k \in Kids(g) : k \in Path[n] /\ (k = n \/ k \in Groups)
      BY <2>1, KidTowards
    <3>4. k \in Members /\ Parent[k] = g /\ group[g] = "running"
      BY <1>1, <3>2 DEF Kids
    <3>5. CASE k = n
      BY <2>2, <3>4, <3>5 DEF CoherentTree, NoneLost
    <3>6. CASE k # n
      <4>1. k \in Groups /\ k \in Path[Parent[n]] \ {Root} /\ k \in Groups \ {Root}
        BY <3>3, <3>4, <3>6, GroupsAbove DEF Members
      <4>2. Strategy[g] = "all"
        BY <2>1, <3>3, <4>1, TreeAssumption DEF NestedPlain, Plain
      <4>3. \A m \in Kids(g) : member[m] = "completed"
        BY <3>2, <4>2 DEF Outcome
      <4>4. group[k] = "completed"
        BY <3>3, <4>1, <4>3 DEF CoherentTree, MemberDone
      <4> QED BY <2>2, <4>1, <4>4 DEF CoherentTree, DoneBelow
    <3> QED BY <3>5, <3>6
  <2>3. CASE member[n] # "parent_failed"
    <3>1. member[n] \in Open /\ n \in X /\ W[n] = "parent_failed"
      BY <1>27, <2>3
    <3>2. group[g] = "running"
      BY <3>1, MemberChain DEF CoherentTree
    <3>3. g \in Z /\ Outcome(g) = "completed"
      BY <1>6, <1>7, <2>1, <3>2 DEF Reasons
    <3> QED BY <1>3, <2>1, <3>1, <3>3
  <2> QED BY <2>2, <2>3
<1>31. Begun'
  <2> SUFFICES ASSUME NEW x \in Leaves, inst'[x] \in {"running", "awaiting"}, NEW n \in Line(x)
               PROVE  member'[n] # "ready"
    BY DEF Begun, Line
  <2>1. inst[x] \in {"running", "awaiting"}
    BY <1>5, <1>7 DEF Open
  <2>2. n \in Members /\ member[n] # "ready"
    BY <2>1, TreeFacts, GroupsAbove DEF CoherentTree, Begun
  <2> QED BY <1>4, <1>7, <2>2 DEF Open
<1>32. Distinct'
  <2>1. \A n \in Members : member'[n] = "completed" => member[n] = "completed"
    BY <1>4, <1>7 DEF Reasons
  <2> QED BY <2>1 DEF CoherentTree, Distinct, Cascades
<1>33. RootEnd'
  <2>1. Root \in Groups
    BY TreeAssumption
  <2>2. run' \in Terminal => run' = run \/ Root \in X
    BY DEF Cascades
  <2> QED BY <1>11, <2>1, <2>2 DEF CoherentTree, RootEnd
<1> QED BY <1>21, <1>22, <1>23, <1>24, <1>25, <1>26, <1>28, <1>29, <1>30, <1>31, <1>32, <1>33
        DEF CoherentTree

\* What is under a set of nodes goes down the tree.
LEMMA UnderFacts ==
  ASSUME NEW S
  PROVE  /\ Under(S) \subseteq Nodes
         /\ \A n \in Members : Parent[n] \in Under(S) => n \in Under(S)
         /\ \A n \in Nodes : n \in S => n \in Under(S)
         /\ \A n \in Members : n \in Under(S) => n \in S \/ Parent[n] \in Under(S)
         /\ Root \in Under(S) => Root \in S
<1>1. \A n \in Members : Path[n] = {n} \union Path[Parent[n]] /\ n \in Nodes /\ Parent[n] \in Nodes
  BY GroupsAbove, TreeFacts DEF Nodes
<1>2. \A n \in Nodes : n \in Path[n]
  BY PathFacts
<1>3. Path[Root] = {Root}
  BY TreeAssumption
<1> QED BY <1>1, <1>2, <1>3 DEF Under

\* The completion of a batch of groups is a cascade from its losers.
LEMMA CompleteGroupsStep ==
  ASSUME TypeOK, NestedPlain, CoherentTree, CompleteGroups
  PROVE  CoherentTree'
<1> DEFINE losers == {n \in Members : Parent[n] \in Batch /\ member[n] \in Open}
           Why(n) == LoserReason(CHOOSE g \in Batch : g \in Path[n])
           W == [n \in Nodes |-> Why(n)]
           X == Under(losers)
           Cancel(f) == [n \in DOMAIN f |->
             IF n \in Under(losers) /\ f[n] \in Open THEN Why(n) ELSE f[n]]
<1>1. /\ group' = [g \in Groups |-> IF g \in Batch THEN Outcome(g) ELSE Cancel(group)[g]]
      /\ member' = Cancel(member) /\ branch' = Cancel(branch)
      /\ gframe' = Cancel(gframe) /\ inst' = Cancel(inst)
      /\ UNCHANGED <<run, seq>>
  BY DEF CompleteGroups
<1>2. W \in [Nodes -> Reasons]
  BY DEF LoserReason, Reasons
<1>3. /\ X \subseteq Nodes /\ Root \notin X /\ X \subseteq Members
      /\ \A n \in Members : Parent[n] \in X => n \in X
      /\ losers \subseteq X /\ losers \subseteq Members
      /\ \A n \in X : n \in losers \/ Parent[n] \in X
  <2>1. losers \subseteq Members /\ losers \subseteq Nodes /\ Root \notin losers
    BY TreeFacts DEF Members
  <2> HIDE DEF losers
  <2>2. Root \notin X /\ X \subseteq Nodes
    BY <2>1, UnderFacts
  <2>3. X \subseteq Members
    BY <2>2 DEF Members
  <2> QED BY <2>1, <2>2, <2>3, UnderFacts
<1>4. /\ Batch \subseteq Decided /\ Batch \subseteq Groups
      /\ \A h \in Decided, g \in Batch : Depth(h) <= Depth(g)
  BY DEF Batch, Decided
<1>5. ASSUME NEW n \in X
      PROVE  \E g \in Batch : g \in Path[n] /\ g # n
  <2>1. PICK m \in losers : m \in Path[n]
    BY DEF Under
  <2>2. n \in Nodes /\ Path[m] \subseteq Path[n] /\ m \in Members
    BY <1>3, <2>1, PathFacts
  <2>3. Parent[m] \in Batch /\ Parent[m] \in Path[m] /\ Parent[m] # m
    BY <2>2, GroupsAbove, PathFacts DEF Nodes
  <2>4. Parent[m] # n
    <3> SUFFICES ASSUME Parent[m] = n PROVE FALSE
      OBVIOUS
    <3>1. m \in Path[Parent[m]]
      BY <2>1
    <3> QED BY <2>2, <3>1, GroupsAbove
  <2> QED BY <2>2, <2>3, <2>4
<1>6. ASSUME NEW n \in X, NEW g \in Batch, g \in Path[n] PROVE W[n] = LoserReason(g)
  <2>1. \A h \in Batch : h \in Path[n] => h = g
    BY <1>3, <1>4, <1>6, SameDepth
  <2>2. (CHOOSE h \in Batch : h \in Path[n]) = g
    BY <1>6, <2>1
  <2> QED BY <1>3, <2>2
<1>7. ASSUME NEW n \in X, n \in Decided PROVE FALSE
  <2>1. PICK g \in Batch : g \in Path[n] /\ g # n
    BY <1>5
  <2>2. Depth(n) <= Depth(g)
    BY <1>4, <1>7
  <2> QED BY <1>3, <2>1, <2>2, Deeper
<1>8. ASSUME NEW n \in X, W[n] = "parent_failed", NEW g \in Batch, g \in Path[n]
      PROVE  Outcome(g) # "completed"
  <2>1. LoserReason(g) = "parent_failed"
    BY <1>6, <1>8
  <2> QED BY <2>1 DEF LoserReason
<1>9. \A n \in Members : Parent[n] \in Batch /\ member[n] \in Open => n \in X
  BY <1>3
<1>10. \A n \in X : Parent[n] \in X \union Batch
  BY <1>3
<1> HIDE DEF X, Why
<1>11. CascadeShape(X, X, Batch, W)
  <2> HIDE DEF losers, W
  <2> QED BY <1>2, <1>3, <1>4, <1>7, <1>8, <1>9, <1>10 DEF CascadeShape
<1>12. Cascades(X, X, Batch, W)
  <2>1. \A n \in Nodes : W[n] = Why(n)
    OBVIOUS
  <2>2. X = Under(losers)
    BY DEF X
  <2> HIDE DEF losers, W
  <2>3. \A n \in Members : W[n] = Why(n)
    BY <2>1, TreeFacts
  <2>4. \A n \in Leaves : W[n] = Why(n)
    BY <2>1 DEF Nodes
  <2>5. \A n \in Groups : W[n] = Why(n)
    BY <2>1 DEF Nodes
  <2>6. /\ DOMAIN member = Members /\ DOMAIN branch = Members /\ DOMAIN inst = Leaves
        /\ DOMAIN group = Groups /\ DOMAIN gframe = Groups
    BY DEF TypeOK
  <2>7. member' = [n \in Members |-> IF n \in X /\ member[n] \in Open THEN W[n] ELSE member[n]]
    BY <1>1, <2>2, <2>3, <2>6
  <2>8. branch' = [n \in Members |-> IF n \in X /\ branch[n] \in Open THEN W[n] ELSE branch[n]]
    BY <1>1, <2>2, <2>3, <2>6
  <2>9. inst' = [l \in Leaves |-> IF l \in X /\ inst[l] \in Open THEN W[l] ELSE inst[l]]
    BY <1>1, <2>2, <2>4, <2>6
  <2>10. gframe' = [g \in Groups |-> IF g \in X /\ gframe[g] \in Open THEN W[g] ELSE gframe[g]]
    BY <1>1, <2>2, <2>5, <2>6
  <2>11. group' = [g \in Groups |-> IF g \in Batch THEN Outcome(g)
                     ELSE IF g \in X /\ group[g] \in Open THEN W[g] ELSE group[g]]
    BY <1>1, <2>2, <2>5, <2>6
  <2> QED BY <1>1, <2>7, <2>8, <2>9, <2>10, <2>11 DEF Cascades
<1> HIDE DEF W
<1> QED BY <1>11, <1>12, CascadeStep

\* A cancellation is a cascade from the node that it names.
LEMMA CancelStep ==
  ASSUME TypeOK, NestedPlain, CoherentTree,
         \/ CancelRun
         \/ \E l \in Leaves : CancelLeaf(l)
         \/ \E g \in Groups : CancelGroup(g)
  PROVE  CoherentTree'
<1> DEFINE W == [n \in Nodes |-> "operator_cancelled"]
<1>1. /\ DOMAIN member = Members /\ DOMAIN branch = Members /\ DOMAIN inst = Leaves
      /\ DOMAIN group = Groups /\ DOMAIN gframe = Groups
  BY DEF TypeOK
<1>2. ASSUME NEW S, NEW T, seq' = seq, run' \in Terminal => run' = run \/ Root \in Under(S),
             member' = CancelIn(member, T, "operator_cancelled"),
             branch' = CancelIn(branch, T, "operator_cancelled"),
             inst' = CancelIn(inst, S, "operator_cancelled"),
             group' = CancelIn(group, S, "operator_cancelled"),
             gframe' = CancelIn(gframe, S, "operator_cancelled"),
             Under(T) \intersect Members = Under(S) \intersect Members \/
               (\E g \in Groups : S = {g} /\ T = Kids(g))
      PROVE  CoherentTree'
  <2> DEFINE X == Under(S)
             Y == Under(T) \intersect Members
  <2>1. /\ Y \subseteq X /\ X \intersect Leaves \subseteq Y
        /\ \A n \in Members : Parent[n] \in X => n \in Y
    <3>1. CASE Y = X \intersect Members
      BY <3>1, UnderFacts, TreeFacts
    <3>2. CASE \E g \in Groups : S = {g} /\ T = Kids(g)
      <4> PICK g \in Groups : S = {g} /\ T = Kids(g)
        BY <3>2
      <4>1. ASSUME NEW n \in Y PROVE n \in X
        <5>1. PICK k \in Kids(g) : k \in Path[n]
          BY DEF Under
        <5>2. k \in Members /\ Parent[k] = g /\ n \in Nodes
          BY TreeFacts DEF Kids
        <5>3. g \in Path[n]
          BY <5>1, <5>2, GroupsAbove, PathFacts DEF Nodes
        <5> QED BY <5>2, <5>3 DEF Under
      <4>2. ASSUME NEW n \in X, n # g, n \in Members PROVE n \in Y
        <5>1. g \in Path[n] /\ n \in Nodes
          BY DEF Under
        <5>2. \E k \in Kids(g) : k \in Path[n]
          BY <4>2, <5>1, KidTowards
        <5> QED BY <4>2, <5>1, <5>2 DEF Under
      <4>3. ASSUME NEW n \in Members, Parent[n] \in X PROVE n \in Y
        <5>1. n \in X /\ n \notin Path[Parent[n]] /\ g \in Path[Parent[n]]
          BY <4>3, UnderFacts, GroupsAbove DEF Under
        <5> QED BY <4>2, <5>1
      <4>4. X \intersect Leaves \subseteq Y
        BY <4>2, TreeFacts, TreeAssumption
      <4> QED BY <4>1, <4>3, <4>4
    <3> QED BY <1>2, <3>1, <3>2
  <2>2. X \subseteq Nodes
    BY UnderFacts
  <2>3. CascadeShape(X, Y, {}, W)
    <3> HIDE DEF X
    <3>1. W \in [Nodes -> Reasons] /\ \A n \in Nodes : W[n] # "parent_failed"
      BY DEF Reasons
    <3>2. Y \subseteq X \intersect Members
      BY <2>1
    <3> HIDE DEF W, Y
    <3> QED BY <2>1, <3>1, <3>2 DEF CascadeShape
  <2>4. Cascades(X, Y, {}, W)
    <3>1. \A n \in Members : n \in Under(T) <=> n \in Y
      OBVIOUS
    <3>2. \A n \in Nodes : W[n] = "operator_cancelled"
      OBVIOUS
    <3>3. Members \subseteq Nodes /\ Leaves \subseteq Nodes /\ Groups \subseteq Nodes
      BY TreeFacts DEF Nodes
    <3> HIDE DEF W, Y
    <3>4. member' = [n \in Members |-> IF n \in Y /\ member[n] \in Open THEN W[n] ELSE member[n]]
      BY <1>1, <1>2, <3>1, <3>2, <3>3 DEF CancelIn
    <3>5. branch' = [n \in Members |-> IF n \in Y /\ branch[n] \in Open THEN W[n] ELSE branch[n]]
      BY <1>1, <1>2, <3>1, <3>2, <3>3 DEF CancelIn
    <3>6. inst' = [l \in Leaves |-> IF l \in X /\ inst[l] \in Open THEN W[l] ELSE inst[l]]
      BY <1>1, <1>2, <3>2, <3>3 DEF CancelIn
    <3>7. gframe' = [g \in Groups |-> IF g \in X /\ gframe[g] \in Open THEN W[g] ELSE gframe[g]]
      BY <1>1, <1>2, <3>2, <3>3 DEF CancelIn
    <3>8. group' = [g \in Groups |-> IF g \in {} THEN Outcome(g)
                     ELSE IF g \in X /\ group[g] \in Open THEN W[g] ELSE group[g]]
      BY <1>1, <1>2, <3>2, <3>3 DEF CancelIn
    <3> QED BY <1>2, <3>4, <3>5, <3>6, <3>7, <3>8 DEF Cascades
  <2> HIDE DEF X, Y, W
  <2> QED BY <2>3, <2>4, CascadeStep
<1>3. CASE CancelRun
  <2>1. Root \in Under({Root})
    BY UnderFacts, TreeAssumption DEF Nodes
  <2> QED BY <1>2, <1>3, <2>1 DEF CancelRun, CancelTree
<1>4. ASSUME NEW l \in Leaves, CancelLeaf(l) PROVE CoherentTree'
  BY <1>2, <1>4 DEF CancelLeaf, CancelTree
<1>5. ASSUME NEW g \in Groups, CancelGroup(g) PROVE CoherentTree'
  <2>1. seq' = seq /\ run' = run
    BY <1>5 DEF CancelGroup
  <2>2. /\ member' = CancelIn(member, Kids(g), "operator_cancelled")
        /\ branch' = CancelIn(branch, Kids(g), "operator_cancelled")
        /\ inst' = CancelIn(inst, {g}, "operator_cancelled")
        /\ group' = CancelIn(group, {g}, "operator_cancelled")
        /\ gframe' = CancelIn(gframe, {g}, "operator_cancelled")
    BY <1>5 DEF CancelGroup
  <2> QED BY <1>2, <2>1, <2>2
<1> QED BY <1>3, <1>4, <1>5

-----------------------------------------------------------------------------
(* The assessment of a tree that a retry asks for                           *)

\* the assessment of a node by that of its members' nodes f, as NodeOutcome recurs on it
MemberOutcome(f, m) ==
  IF Recover(member[m]) # "work" THEN Recover(member[m])
  ELSE IF Recover(branch[m]) # "work" THEN Recover(branch[m])
  ELSE IF f[m] = "blocked" THEN "blocked" ELSE "work"
\* the members so assessed, and how many a group needs
Having(f, n, S) == {m \in Kids(n) : MemberOutcome(f, m) \in S}
Need(n) == CASE Strategy[n] = "all"    -> Cardinality(Kids(n))
             [] Strategy[n] = "race"   -> 1
             [] Strategy[n] = "quorum" -> Quorum[n]
\* the assessment of a node
OutcomeOf(f, n) ==
  IF n \in Leaves THEN Recover(inst[n])
  ELSE IF Recover(gframe[n]) # "work" THEN Recover(gframe[n])
  ELSE IF Recover(group[n]) # "work" THEN Recover(group[n])
  ELSE IF Cardinality(Having(f, n, {"complete"})) >= Need(n) THEN "complete"
  ELSE IF Cardinality(Having(f, n, {"complete", "work"})) >= Need(n) THEN "work"
  ELSE "blocked"
Outcomes == {"work", "complete", "blocked"}

\* It depends on the node's own members only.
LEMMA OutcomeByKids ==
  ASSUME NEW f, NEW e, NEW n \in Nodes, \A k \in Kids(n) : f[k] = e[k]
  PROVE  OutcomeOf(f, n) = OutcomeOf(e, n) /\ OutcomeOf(f, n) \in Outcomes
<1>1. ASSUME NEW S PROVE Having(f, n, S) = Having(e, n, S)
  <2>1. \A k \in Kids(n) : MemberOutcome(f, k) = MemberOutcome(e, k)
    BY DEF MemberOutcome
  <2> QED BY <2>1 DEF Having
<1>2. OutcomeOf(f, n) = OutcomeOf(e, n)
  BY <1>1 DEF OutcomeOf
<1>3. OutcomeOf(f, n) \in Outcomes
  BY DEF OutcomeOf, Outcomes, Recover
<1> QED BY <1>2, <1>3

\* The recursion is sound: the tree is finite, so there is an assessment of all of it.
LEMMA OutcomeExists ==
  \E f : f = [n \in Nodes |-> OutcomeOf(f, n)]
<1> DEFINE Fits(U, f) == \A n \in U : f[n] = OutcomeOf(f, n) /\ Kids(n) \subseteq U
           Good == {U \in SUBSET Nodes : \E f \in [Nodes -> Outcomes] : Fits(U, f)}
           size == [U \in Good |-> Cardinality(U)]
<1>1. \A U \in SUBSET Nodes : IsFiniteSet(U) /\ Cardinality(U) \in Nat
  BY TreeFacts, FS_Subset, FS_CardinalityType
<1>2. IsFiniteSet(Good) /\ Good # {}
  <2>1. IsFiniteSet(SUBSET Nodes)
    BY TreeFacts, FS_SUBSET
  <2>2. IsFiniteSet(Good)
    BY <2>1, FS_Subset
  <2>3. {} \in Good
    <3>1. [n \in Nodes |-> "work"] \in [Nodes -> Outcomes]
      BY DEF Outcomes
    <3>2. Fits({}, [n \in Nodes |-> "work"])
      OBVIOUS
    <3> QED BY <3>1, <3>2
  <2> QED BY <2>2, <2>3
<1>3. PICK U \in Good : \A V \in Good : Cardinality(V) <= Cardinality(U)
  <2>1. size \in [Good -> Nat]
    BY <1>1
  <2>2. \E U \in Good : \A V \in Good : size[V] <= size[U]
    <3> HIDE DEF size, Good
    <3> QED BY <1>2, <2>1, LargestValue
  <2> QED BY <2>2
<1>4. PICK f \in [Nodes -> Outcomes] : Fits(U, f)
  BY <1>3
<1>5. U = Nodes
  <2> SUFFICES ASSUME U # Nodes PROVE FALSE
    OBVIOUS
  <2>1. U \subseteq Nodes /\ Nodes \ U # {}
    BY <1>3
  <2>2. PICK n \in Nodes \ U : \A m \in Nodes \ U : Depth(m) <= Depth(n)
    <3>1. Nodes \ U \subseteq Nodes
      OBVIOUS
    <3> QED BY <2>1, <3>1, DepthFacts
  <2>3. Kids(n) \subseteq U
    <3> SUFFICES ASSUME NEW k \in Kids(n), k \notin U PROVE FALSE
      OBVIOUS
    <3>1. k \in Members /\ Parent[k] = n /\ k \in Nodes
      BY TreeFacts DEF Kids
    <3>2. n \in Path[k] /\ n # k
      BY <3>1, GroupsAbove, PathFacts
    <3>3. Depth(k) <= Depth(n)
      BY <2>2, <3>1
    <3> QED BY <3>1, <3>2, <3>3, Deeper
  <2> DEFINE e == [f EXCEPT ![n] = OutcomeOf(f, n)]
             V == U \union {n}
  <2>4. OutcomeOf(f, n) \in Outcomes
    BY OutcomeByKids
  <2>5. e \in [Nodes -> Outcomes] /\ e[n] = OutcomeOf(f, n) /\ \A m \in U : e[m] = f[m]
    BY <2>1, <2>2, <2>4
  <2> HIDE DEF e
  <2>6. ASSUME NEW m \in V PROVE e[m] = OutcomeOf(e, m) /\ Kids(m) \subseteq V
    <3>1. Kids(m) \subseteq U /\ m \in Nodes
      BY <1>4, <2>1, <2>3, <2>6
    <3>2. \A k \in Kids(m) : e[k] = f[k]
      BY <2>5, <3>1
    <3>3. OutcomeOf(e, m) = OutcomeOf(f, m)
      BY <3>1, <3>2, OutcomeByKids
    <3>4. e[m] = OutcomeOf(f, m)
      BY <1>4, <2>5, <2>6
    <3> QED BY <3>1, <3>3, <3>4
  <2>7. V \in Good
    BY <2>1, <2>5, <2>6
  <2>8. Cardinality(V) = Cardinality(U) + 1
    BY <1>1, <2>1, FS_AddElement
  <2> QED BY <1>1, <1>3, <2>1, <2>7, <2>8
<1>6. f = [n \in Nodes |-> OutcomeOf(f, n)]
  BY <1>4, <1>5
<1> QED BY <1>6

\* NodeOutcome is the assessment of each node by its own values: the tree is finite.
LEMMA OutcomeUnfolds ==
  ASSUME NEW n \in Nodes
  PROVE  NodeOutcome[n] = OutcomeOf(NodeOutcome, n)
<1>1. NodeOutcome = CHOOSE f : f = [m \in Nodes |-> OutcomeOf(f, m)]
  BY DEF NodeOutcome, OutcomeOf, Having, Need, MemberOutcome
<1>2. NodeOutcome = [m \in Nodes |-> OutcomeOf(NodeOutcome, m)]
  <2> HIDE DEF NodeOutcome
  <2> QED BY <1>1, OutcomeExists
<1> QED BY <1>2

\* A subset of a finite set that is as large as the set is all of it.
LEMMA AllOfIt ==
  ASSUME NEW A, IsFiniteSet(A), NEW B, B \subseteq A, Cardinality(B) >= Cardinality(A)
  PROVE  B = A
<1>1. IsFiniteSet(B) /\ Cardinality(B) \in Nat /\ Cardinality(A) \in Nat
  BY FS_Subset, FS_CardinalityType
<1>2. Cardinality(B) <= Cardinality(A) /\ (Cardinality(A) = Cardinality(B) => A = B)
  BY FS_Subset
<1> QED BY <1>1, <1>2

\* What the retry of a leaf reopens below a lost sibling it reopens down to its own
\* group: no group in between has failed or completed.
LEMMA RetryReaches ==
  ASSUME TypeOK, NestedPlain, CoherentTree, NEW g \in Groups, NEW d \in Dependencies(g),
         Recover(branch[d]) = "work" => NodeOutcome[d] # "blocked",
         NEW n \in Members, d \in Path[Parent[n]], member[n] = "parent_failed"
  PROVE  group[Parent[n]] \in {"running", "parent_failed"}
<1> DEFINE Reached(x) == /\ x \in Groups \ {Root} /\ NodeOutcome[x] # "blocked"
                         /\ gframe[x] \in {"running", "parent_failed"}
                         /\ group[x] \in {"running", "parent_failed"}
           S == {x \in Nodes : x \in Path[Parent[n]] /\ d \in Path[x] => Reached(x)}
<1>1. d \in Members /\ member[d] = "parent_failed" /\ branch[d] = "parent_failed"
  BY DEF Dependencies, Kids, CoherentTree, Cancelled, Reasons
<1>2. Path[Parent[n]] \subseteq Groups /\ Parent[n] \in Groups /\ Parent[n] \in Nodes
  BY GroupsAbove DEF Nodes
<1>3. Root \in S
  BY <1>1, TreeAssumption DEF Members, Nodes
<1>4. ASSUME NEW x \in Members, x \in Path[Parent[n]], d \in Path[x], NodeOutcome[x] # "blocked"
      PROVE  Reached(x)
  <2>1. x \in Groups \ {Root} /\ x \in Nodes /\ x \notin Leaves
    BY <1>2, <1>4, TreeFacts, TreeAssumption DEF Members
  <2>2. group[x] # "completed"
    BY <1>4, <2>1 DEF CoherentTree, DoneBelow
  <2>3. gframe[x] # "completed"
    BY <2>1, <2>2 DEF CoherentTree, FramesAgree, Reasons
  <2>4. OutcomeOf(NodeOutcome, x) # "blocked"
    BY <1>4, <2>1, OutcomeUnfolds
  <2>5. Recover(gframe[x]) = "work"
    BY <2>1, <2>3, <2>4 DEF OutcomeOf, Recover
  <2>6. Recover(group[x]) = "work"
    BY <2>1, <2>2, <2>4, <2>5 DEF OutcomeOf, Recover
  <2>7. \A s : Recover(s) = "work" => s \in {"parent_failed"} \union Open
    BY DEF Recover
  <2>8. gframe[x] # "ready" /\ gframe[x] # "awaiting" /\ group[x] # "ready" /\ group[x] # "awaiting"
    BY <2>1 DEF CoherentTree, Statuses, TypeOK
  <2>9. gframe[x] \in {"running", "parent_failed"} /\ group[x] \in {"running", "parent_failed"}
    BY <2>5, <2>6, <2>7, <2>8 DEF Open
  <2> QED BY <1>4, <2>1, <2>9
<1>5. ASSUME NEW x \in Members, Parent[x] \in S PROVE x \in S
  <2> SUFFICES ASSUME x \in Path[Parent[n]], d \in Path[x] PROVE NodeOutcome[x] # "blocked"
    BY <1>4, TreeFacts
  <2>1. CASE x = d
    BY <1>1, <2>1 DEF Recover
  <2>2. CASE x # d
    <3> DEFINE p == Parent[x]
    <3>1. d \in Path[p] /\ p \in Groups /\ p \in Nodes /\ p \notin Leaves /\ Path[x] = {x} \union Path[p]
      BY <2>2, GroupsAbove, TreeAssumption DEF Nodes
    <3>2. Path[x] \subseteq Path[Parent[n]]
      BY <1>2, PathFacts
    <3>3. p \in Path[Parent[n]]
      BY <3>1, <3>2, PathFacts
    <3>4. Reached(p)
      BY <1>5, <3>1, <3>3
    <3>5. x \in Groups \ {Root} /\ x \notin Leaves /\ x \in Kids(p)
      BY <1>2, TreeFacts, TreeAssumption DEF Members, Kids
    <3>6. Strategy[p] = "all"
      BY <3>4, <3>5 DEF NestedPlain, Plain
    <3>7. OutcomeOf(NodeOutcome, p) # "blocked" /\ Recover(gframe[p]) = "work" /\ Recover(group[p]) = "work"
      BY <3>1, <3>4, OutcomeUnfolds DEF Recover, Open
    <3>8. \/ Cardinality(Having(NodeOutcome, p, {"complete"})) >= Cardinality(Kids(p))
          \/ Cardinality(Having(NodeOutcome, p, {"complete", "work"})) >= Cardinality(Kids(p))
      BY <3>1, <3>6, <3>7 DEF OutcomeOf, Need
    <3>9. IsFiniteSet(Kids(p))
      BY TreeFacts, FS_Subset DEF Kids
    <3>10. \/ Having(NodeOutcome, p, {"complete"}) = Kids(p)
           \/ Having(NodeOutcome, p, {"complete", "work"}) = Kids(p)
      <4>1. \A T : Having(NodeOutcome, p, T) \subseteq Kids(p)
        BY DEF Having
      <4> HIDE DEF p
      <4> QED BY <3>8, <3>9, <4>1, AllOfIt
    <3>11. MemberOutcome(NodeOutcome, x) # "blocked"
      BY <3>5, <3>10 DEF Having
    <3>12. member[x] # "completed"
      <4>1. group[x] # "completed"
        BY <3>5 DEF CoherentTree, DoneBelow
      <4> QED BY <3>5, <4>1 DEF CoherentTree, MemberDone
    <3>13. Recover(member[x]) = "work"
      BY <3>11, <3>12 DEF MemberOutcome, Recover
    <3>14. branch[x] \in {"running", "parent_failed"}
      <4>1. CASE member[x] = "parent_failed"
        BY <4>1 DEF CoherentTree, Cancelled, Reasons
      <4>2. CASE member[x] \in Open
        BY <4>2 DEF CoherentTree, FramesAgree
      <4> QED BY <3>13, <4>1, <4>2 DEF Recover
    <3> QED BY <3>11, <3>13, <3>14 DEF MemberOutcome, Recover, Open
  <2> QED BY <2>1, <2>2
<1>6. Nodes \subseteq S
  <2> HIDE DEF S
  <2> QED BY <1>3, <1>5, DownTheTree
<1>7. Parent[n] \in Path[Parent[n]]
  BY <1>2, PathFacts
<1> QED BY <1>2, <1>6, <1>7

\* A retry leaves a plain tree coherent.
LEMMA RetryStoreStep ==
  ASSUME TypeOK, NestedPlain, CoherentTree, NEW l \in Leaves, RetryLeaf(l)
  PROVE  CoherentTree'
<1> DEFINE line == Line(l)
           over == {Parent[n] : n \in line}
           losses == UNION {Dependencies(g) : g \in over}
           deps == Under(losses)
<1>1. /\ run' = IF run = "failed" THEN "active" ELSE run
      /\ inst' = [Reopen(inst, deps, "parent_failed", "ready") EXCEPT ![l] = "ready"]
      /\ branch' = Reopen(Reopen(branch, line, "failed", "running"), deps, "parent_failed", "running")
      /\ gframe' = Reopen(Reopen(gframe, over, "failed", "running"), deps, "parent_failed", "running")
      /\ group' = Reopen(Reopen(group, over, "failed", "running"), deps, "parent_failed", "running")
      /\ member' = Reopen(Reopen(member, line, "failed", "ready"), deps, "parent_failed", "ready")
      /\ seq' = [n \in Members |->
                  IF n \in line \/ (n \in deps /\ member[n] = "parent_failed") THEN 0 ELSE seq[n]]
      /\ run \in {"active", "failed"} /\ inst[l] = "failed" /\ Batch = {}
  BY DEF RetryLeaf, RetryEligible, Quiet
<1>2. \A n \in line :
        /\ branch[n] \in {"running", "failed"} /\ gframe[Parent[n]] \in {"running", "failed"}
        /\ member[n] = "failed" /\ group[Parent[n]] \in {"running", "failed"}
        /\ \A d \in Dependencies(Parent[n]) : Recover(branch[d]) = "work" => NodeOutcome[d] # "blocked"
  BY DEF RetryLeaf, RetryEligible
<1>3. /\ line \subseteq Members /\ l \in Members /\ l \in line
      /\ over = Path[Parent[l]] /\ over \subseteq Groups
      /\ \A g \in over : g # Root => g \in line
      /\ \A h \in line : h \in Groups => h \in over
  <2>1. l \in Members
    BY TreeFacts
  <2>2. over = Path[Parent[l]] /\ Path[l] = {l} \union Path[Parent[l]] /\ Path[Parent[l]] \subseteq Groups
    BY <2>1, GroupsOfLine, GroupsAbove
  <2> QED BY <2>1, <2>2, GroupsAbove, TreeAssumption DEF Line
<1>4. \A g \in over : group[g] \in {"running", "failed"} /\ gframe[g] \in {"running", "failed"}
  BY <1>2
<1>5. ASSUME NEW g \in over, NEW d \in Dependencies(g)
      PROVE  /\ d \in Members /\ d \in deps /\ Parent[d] = g
             /\ Recover(branch[d]) = "work" => NodeOutcome[d] # "blocked"
  <2>1. PICK n \in line : g = Parent[n]
    BY <1>5
  <2>2. d \in Members /\ Parent[d] = g
    BY DEF Dependencies, Kids
  <2>3. d \in losses
    BY <1>5
  <2>4. d \in deps
    BY <2>2, <2>3, UnderFacts, TreeFacts
  <2> QED BY <1>2, <2>1, <2>2, <2>4
<1>6. \A n \in Members : Parent[n] \in deps => n \in deps
  BY UnderFacts
\* the groups of what is reopened
<1>7. ASSUME NEW n \in Members, n \in deps, member[n] = "parent_failed"
      PROVE  /\ Parent[n] \in Groups
             /\ Parent[n] \in over \/ (Parent[n] \in deps /\ group[Parent[n]] \in {"running", "parent_failed"})
  <2>1. PICK d \in losses : d \in Path[n]
    BY <1>7 DEF Under
  <2>2. PICK g \in over : d \in Dependencies(g)
    BY <2>1
  <2>3. d \in Members /\ Parent[d] = g /\ (Recover(branch[d]) = "work" => NodeOutcome[d] # "blocked")
    BY <1>5, <2>2
  <2>4. Parent[n] \in Groups
    BY GroupsAbove
  <2>5. CASE d = n
    BY <2>2, <2>3, <2>4, <2>5
  <2>6. CASE d # n
    <3>1. d \in Path[Parent[n]] /\ g \in Groups
      BY <1>3, <2>1, <2>2, <2>6, GroupsAbove
    <3>2. group[Parent[n]] \in {"running", "parent_failed"}
      BY <1>7, <2>2, <2>3, <3>1, RetryReaches
    <3>3. Parent[n] \in deps
      BY <2>1, <2>4, <3>1 DEF Under, Nodes
    <3> QED BY <2>4, <3>2, <3>3
  <2> QED BY <2>5, <2>6
<1> HIDE DEF line, over, losses, deps
<1>8. \A n \in Members :
        /\ member'[n] = IF n \in line /\ member[n] = "failed" THEN "ready"
                        ELSE IF n \in deps /\ member[n] = "parent_failed" THEN "ready" ELSE member[n]
        /\ branch'[n] = IF n \in line /\ branch[n] = "failed" THEN "running"
                        ELSE IF n \in deps /\ branch[n] = "parent_failed" THEN "running" ELSE branch[n]
  BY <1>1 DEF Reopen, TypeOK
<1>9. \A g \in Groups :
        /\ group'[g] = IF g \in over /\ group[g] = "failed" THEN "running"
                       ELSE IF g \in deps /\ group[g] = "parent_failed" THEN "running" ELSE group[g]
        /\ gframe'[g] = IF g \in over /\ gframe[g] = "failed" THEN "running"
                        ELSE IF g \in deps /\ gframe[g] = "parent_failed" THEN "running" ELSE gframe[g]
  BY <1>1 DEF Reopen, TypeOK
<1>10. \A x \in Leaves :
         /\ inst'[x] = IF x = l THEN "ready"
                       ELSE IF x \in deps /\ inst[x] = "parent_failed" THEN "ready" ELSE inst[x]
         /\ x \in Members
  BY <1>1, TreeFacts DEF Reopen, TypeOK
<1>11. \A h \in Groups \ {Root} : h \in Members
  BY TreeFacts
\* running groups stay, and so do open members, none of which is on the way to the leaf
<1>12. \A g \in Groups : group[g] = "running" => group'[g] = "running"
  BY <1>9
<1>13. \A n \in Members : member[n] \in Open => member'[n] = member[n] /\ branch'[n] = "running"
  BY <1>8 DEF CoherentTree, FramesAgree, Open
<1>14. \A g \in over : group'[g] = "running" /\ gframe'[g] = "running"
  BY <1>3, <1>4, <1>9
<1>15. \A n \in line : member'[n] = "ready" /\ branch'[n] = "running" /\ group'[Parent[n]] = "running"
  <2>1. \A n \in line : Parent[n] \in over
    BY DEF over
  <2> QED BY <1>2, <1>3, <1>8, <1>14, <2>1
<1>16. ASSUME NEW n \in Members, n \in deps, member[n] = "parent_failed"
       PROVE  member'[n] = "ready" /\ branch'[n] = "running" /\ group'[Parent[n]] = "running"
  <2>1. branch[n] = "parent_failed"
    BY <1>16 DEF CoherentTree, Cancelled, Reasons
  <2>2. group'[Parent[n]] = "running"
    BY <1>7, <1>9, <1>14, <1>16
  <2> QED BY <1>8, <1>16, <2>1, <2>2
<1>17. \A n \in Members : \/ member'[n] = member[n] /\ n \notin line
                          \/ n \in line
                          \/ n \in deps /\ member[n] = "parent_failed"
  BY <1>8
<1>18. \A n \in Members : member'[n] \notin Open => member'[n] = member[n] /\ n \notin line
                            /\ ~ (n \in deps /\ member[n] = "parent_failed")
  BY <1>15, <1>16, <1>17 DEF Open
<1>21. FramesAgree'
  <2>1. \A n \in Members : member'[n] \in Open =>
          branch'[n] = "running" /\ group'[Parent[n]] = "running"
    <3>1. \A n \in Members : Parent[n] \in Groups
      BY GroupsAbove
    <3> QED BY <1>12, <1>13, <1>15, <1>16, <1>17, <3>1 DEF CoherentTree, FramesAgree
  <2>2. ASSUME NEW g \in Groups
        PROVE  CASE group'[g] = "running"   -> gframe'[g] = "running"
                 [] group'[g] = "completed" -> gframe'[g] \in {"running", "completed"} \union Reasons
                 [] group'[g] = "failed"    -> gframe'[g] \in {"running", "failed"} \union Reasons
                 [] OTHER                   -> gframe'[g] \in {"running"} \union Reasons
    <3>1. CASE g \in over
      BY <1>14, <3>1
    <3>2. CASE g \notin over /\ group[g] \in Reasons
      <4>1. gframe[g] = group[g]
        BY <3>2 DEF CoherentTree, Cancelled
      <4> QED BY <1>9, <3>2, <4>1 DEF Reasons
    <3>3. CASE g \notin over /\ group[g] \notin Reasons
      <4>1. group'[g] = group[g] /\ (gframe'[g] = gframe[g] \/ gframe'[g] = "running")
        BY <1>9, <3>3 DEF Reasons
      <4> QED BY <4>1 DEF CoherentTree, FramesAgree
    <3> QED BY <3>1, <3>2, <3>3
  <2> QED BY <2>1, <2>2 DEF FramesAgree
<1>22. Statuses'
  <2>1. \A n \in Members : branch'[n] # "awaiting" /\ member'[n] # "awaiting"
    BY <1>8 DEF CoherentTree, Statuses
  <2>2. \A g \in Groups : group'[g] # "awaiting" /\ gframe'[g] # "awaiting"
    BY <1>9 DEF CoherentTree, Statuses
  <2>3. \A x \in Leaves : inst'[x] = "awaiting" => x \in Signals
    BY <1>10 DEF CoherentTree, Statuses
  <2> QED BY <2>1, <2>2, <2>3 DEF Statuses
<1>23. LeafOpen'
  <2> SUFFICES ASSUME NEW x \in Leaves, inst'[x] \in Open PROVE member'[x] \in Open
    BY DEF LeafOpen
  <2>1. CASE x = l
    BY <1>3, <1>15, <2>1 DEF Open
  <2>2. CASE x # l /\ inst[x] \in Open
    BY <1>10, <1>13, <2>2 DEF CoherentTree, LeafOpen
  <2>3. CASE x # l /\ inst[x] \notin Open
    <3>1. x \in deps /\ inst[x] = "parent_failed"
      BY <1>10, <2>3
    <3>2. member[x] = "parent_failed"
      BY <3>1 DEF CoherentTree, Cancelled, Reasons
    <3> QED BY <1>10, <1>16, <3>1, <3>2 DEF Open
  <2> QED BY <2>1, <2>2, <2>3
<1>24. GroupOpen'
  <2> SUFFICES ASSUME NEW h \in Groups \ {Root}, group'[h] = "running"
               PROVE  group'[Parent[h]] = "running" /\ member'[h] \in Open
    BY DEF GroupOpen
  <2>1. h \in Members /\ Parent[h] \in Groups
    BY <1>11, GroupsAbove
  <2>2. CASE group[h] = "running"
    <3>1. group[Parent[h]] = "running" /\ (member[h] \in Open \/ FailedKid(h))
      BY <2>2 DEF CoherentTree, GroupOpen
    <3>2. ~ FailedKid(h)
      BY <1>1, <2>2, FailedKidDecides, BatchOfDecided
    <3> QED BY <1>12, <1>13, <2>1, <3>1, <3>2
  <2>3. CASE h \in over
    BY <1>3, <1>15, <2>3 DEF Open
  <2>4. CASE group[h] # "running" /\ h \notin over
    <3>1. h \in deps /\ group[h] = "parent_failed"
      BY <1>9, <2>4
    <3>2. member[h] = "parent_failed"
      BY <3>1 DEF CoherentTree, LostGroup
    <3> QED BY <1>16, <2>1, <3>1, <3>2 DEF Open
  <2> QED BY <2>2, <2>3, <2>4
<1>25. Cancelled'
  <2>1. ASSUME NEW g \in Groups, group'[g] \in Reasons PROVE gframe'[g] = group'[g]
    <3>1. group'[g] = group[g] /\ g \notin over /\ ~ (g \in deps /\ group[g] = "parent_failed")
      BY <1>9, <1>14, <2>1 DEF Reasons
    <3>2. gframe[g] = group[g]
      BY <2>1, <3>1 DEF CoherentTree, Cancelled
    <3> QED BY <1>9, <3>1, <3>2
  <2>2. ASSUME NEW n \in Members, member'[n] \in Reasons PROVE branch'[n] = member'[n]
    <3>1. member'[n] = member[n] /\ n \notin line /\ ~ (n \in deps /\ member[n] = "parent_failed")
      BY <1>18, <2>2 DEF Reasons, Open
    <3>2. branch[n] = member[n]
      BY <2>2, <3>1 DEF CoherentTree, Cancelled
    <3> QED BY <1>8, <3>1, <3>2
  <2>3. ASSUME NEW x \in Leaves, inst'[x] \in Reasons PROVE member'[x] = inst'[x]
    <3>1. inst'[x] = inst[x] /\ x # l /\ ~ (x \in deps /\ inst[x] = "parent_failed")
      BY <1>10, <2>3 DEF Reasons
    <3>2. member[x] = inst[x]
      BY <2>3, <3>1 DEF CoherentTree, Cancelled
    <3>3. x \notin line
      BY <1>2, <2>3, <3>1, <3>2 DEF Reasons
    <3> QED BY <1>8, <1>10, <3>1, <3>2, <3>3
  <2> QED BY <2>1, <2>2, <2>3 DEF Cancelled
<1>26. LostGroup'
  <2>1. group'[Root] # "parent_failed"
    BY <1>9, TreeAssumption DEF CoherentTree, LostGroup
  <2>2. ASSUME NEW h \in Groups \ {Root}, group'[h] = "parent_failed" PROVE member'[h] = "parent_failed"
    <3>1. group[h] = "parent_failed" /\ h \notin deps /\ h \notin over
      BY <1>9, <1>14, <2>2
    <3>2. member[h] = "parent_failed" /\ h \in Members
      BY <1>11, <3>1 DEF CoherentTree, LostGroup
    <3> QED BY <1>2, <1>8, <3>1, <3>2
  <2>3. ASSUME NEW h \in Groups \ {Root}, gframe'[h] = "parent_failed" PROVE branch'[h] # "running"
    <3>1. gframe[h] = "parent_failed" /\ h \notin deps /\ h \notin over
      BY <1>9, <1>14, <2>3
    <3>2. h \notin line
      BY <1>3, <3>1
    <3>3. branch[h] # "running" /\ h \in Members
      BY <1>11, <3>1 DEF CoherentTree, LostGroup
    <3> QED BY <1>8, <3>1, <3>2, <3>3
  <2> QED BY <2>1, <2>2, <2>3 DEF LostGroup
<1>27. NoneLost'
  <2> SUFFICES ASSUME NEW n \in Members, group'[Parent[n]] = "running", member'[n] = "parent_failed"
               PROVE  FALSE
    BY DEF NoneLost
  <2>1. member[n] = "parent_failed" /\ n \notin deps /\ Parent[n] \in Groups /\ n \in Kids(Parent[n])
    BY <1>18, GroupsAbove DEF Open, Kids
  <2>2. Parent[n] \notin over
    BY <1>5, <2>1 DEF Dependencies
  <2>3. Parent[n] \notin deps
    BY <1>6, <2>1
  <2>4. group[Parent[n]] = "running"
    BY <1>9, <2>1, <2>2, <2>3
  <2> QED BY <2>1, <2>4 DEF CoherentTree, NoneLost
<1>28. MemberDone'
  <2> SUFFICES ASSUME NEW h \in Groups \ {Root}, member'[h] = "completed" PROVE group'[h] = "completed"
    BY DEF MemberDone
  <2>1. member[h] = "completed" /\ h \in Members
    BY <1>11, <1>18 DEF Open
  <2>2. group[h] = "completed"
    BY <2>1 DEF CoherentTree, MemberDone
  <2> QED BY <1>4, <1>9, <2>2
<1>29. DoneBelow'
  <2> SUFFICES ASSUME NEW n \in Members, member'[n] = "parent_failed",
                      NEW g \in Path[Parent[n]] \ {Root}, group'[g] = "completed"
               PROVE  FALSE
    BY DEF DoneBelow
  <2>1. member[n] = "parent_failed" /\ g \in Groups
    BY <1>18, GroupsAbove DEF Open
  <2>2. group[g] = "completed"
    BY <1>9, <2>1
  <2> QED BY <2>1, <2>2 DEF CoherentTree, DoneBelow
<1>30. Begun'
  <2> SUFFICES ASSUME NEW x \in Leaves, inst'[x] \in {"running", "awaiting"}, NEW n \in Line(x)
               PROVE  member'[n] # "ready"
    BY DEF Begun, Line
  <2>1. inst[x] \in {"running", "awaiting"} /\ x \in Members
    BY <1>10
  <2>2. n \in Members /\ member[n] # "ready"
    BY <2>1, GroupsAbove DEF CoherentTree, Begun
  <2>3. member[x] \in Open
    BY <2>1 DEF CoherentTree, LeafOpen, Open
  <2>4. member[n] \in Open
    BY <1>1, <2>1, <2>3, QuietLine DEF CoherentTree
  <2> QED BY <1>13, <2>2, <2>4
<1>31. Distinct'
  <2>1. \A n \in Members : member'[n] = "completed" => member[n] = "completed" /\ seq'[n] = seq[n]
    BY <1>1, <1>18 DEF Open
  <2> QED BY <2>1 DEF CoherentTree, Distinct
<1>32. RootEnd'
  BY <1>1 DEF RootEnd, Terminal
<1> QED BY <1>21, <1>22, <1>23, <1>24, <1>25, <1>26, <1>27, <1>28, <1>29, <1>30, <1>31, <1>32
        DEF CoherentTree

-----------------------------------------------------------------------------
(* Winners                                                                  *)

\* Of a finite set of different numbers, q have fewer than q below them.
LEMMA FirstOnes ==
  ASSUME NEW S, IsFiniteSet(S), NEW f \in [S -> Nat], \A x, y \in S : x # y => f[x] # f[y],
         NEW q \in Nat, q <= Cardinality(S)
  PROVE  Cardinality({x \in S : Cardinality({y \in S : f[y] < f[x]}) < q}) = q
<1> DEFINE Below(x) == {y \in S : f[y] < f[x]}
           n == Cardinality(S)
           rank == [x \in S |-> Cardinality(Below(x))]
           T == {x \in S : Cardinality(Below(x)) < q}
           first == [x \in T |-> rank[x]]
<1>1. n \in Nat
  BY FS_CardinalityType
<1>2. ASSUME NEW x \in S PROVE Cardinality(Below(x)) \in 0 .. n - 1 /\ IsFiniteSet(Below(x))
  <2>1. Below(x) \subseteq S /\ x \notin Below(x) /\ Below(x) # S
    OBVIOUS
  <2>2. /\ IsFiniteSet(Below(x)) /\ Cardinality(Below(x)) <= n
        /\ n = Cardinality(Below(x)) => S = Below(x)
    <3> HIDE DEF Below
    <3> QED BY <2>1, FS_Subset
  <2>3. Cardinality(Below(x)) \in Nat
    BY <2>2, FS_CardinalityType
  <2> HIDE DEF Below, n
  <2> QED BY <1>1, <2>1, <2>2, <2>3
<1>3. ASSUME NEW x \in S, NEW y \in S, f[x] < f[y] PROVE Cardinality(Below(x)) < Cardinality(Below(y))
  <2>1. Below(x) \subseteq Below(y) /\ x \in Below(y) /\ x \notin Below(x)
    BY <1>3
  <2>2. IsFiniteSet(Below(y)) /\ Cardinality(Below(y)) \in Nat /\ Cardinality(Below(x)) \in Nat
    BY <1>2
  <2>3. Cardinality(Below(x)) <= Cardinality(Below(y))
    /\ (Cardinality(Below(y)) = Cardinality(Below(x)) => Below(y) = Below(x))
    <3> HIDE DEF Below
    <3> QED BY <2>1, <2>2, FS_Subset
  <2> HIDE DEF Below
  <2> QED BY <2>1, <2>2, <2>3
<1>4. \A x, y \in S : rank[x] = rank[y] => x = y
  <2> SUFFICES ASSUME NEW x \in S, NEW y \in S, x # y PROVE rank[x] # rank[y]
    OBVIOUS
  <2>1. f[x] < f[y] \/ f[y] < f[x]
    OBVIOUS
  <2>2. rank[x] = Cardinality(Below(x)) /\ rank[y] = Cardinality(Below(y))
    OBVIOUS
  <2>3. Cardinality(Below(x)) \in Nat /\ Cardinality(Below(y)) \in Nat
    BY <1>1, <1>2
  <2> HIDE DEF Below, rank
  <2> QED BY <1>3, <2>1, <2>2, <2>3
<1>5. rank \in [S -> 0 .. n - 1]
  BY <1>2
<1>6. /\ IsFiniteSet(0 .. n - 1) /\ Cardinality(0 .. n - 1) = n
      /\ Cardinality(0 .. q - 1) = q
  <2>1. n - 1 \in Int /\ q - 1 \in Int /\ 0 \in Int
    BY <1>1
  <2>2. /\ IsFiniteSet(0 .. n - 1) /\ Cardinality(0 .. n - 1) = IF 0 > n - 1 THEN 0 ELSE n - 1 - 0 + 1
        /\ Cardinality(0 .. q - 1) = IF 0 > q - 1 THEN 0 ELSE q - 1 - 0 + 1
    BY <2>1, FS_Interval
  <2> HIDE DEF n
  <2> QED BY <1>1, <2>2
<1>7. \A k \in 0 .. n - 1 : \E x \in S : rank[x] = k
  <2> HIDE DEF rank
  <2>1. rank \in Injection(S, 0 .. n - 1)
    BY <1>4, <1>5 DEF Injection, IsInjective
  <2>2. rank \in Surjection(S, 0 .. n - 1)
    BY <1>6, <2>1, FS_Injection
  <2> QED BY <2>2 DEF Surjection
<1>8. first \in Bijection(T, 0 .. q - 1)
  <2>1. \A x \in T : x \in S /\ rank[x] \in 0 .. q - 1 /\ first[x] = rank[x]
    BY <1>1, <1>2
  <2>2. \A k \in 0 .. q - 1 : \E x \in T : rank[x] = k
    <3> SUFFICES ASSUME NEW k \in 0 .. q - 1 PROVE \E x \in T : rank[x] = k
      OBVIOUS
    <3>1. k \in 0 .. n - 1
      BY <1>1
    <3>2. PICK x \in S : rank[x] = k
      BY <1>7, <3>1
    <3>3. Cardinality(Below(x)) < q
      BY <3>2
    <3> QED BY <3>2, <3>3
  <2>3. first \in [T -> 0 .. q - 1]
    BY <2>1
  <2>4. \A x, y \in T : first[x] = first[y] => x = y
    BY <1>4, <2>1
  <2>5. \A k \in 0 .. q - 1 : \E x \in T : first[x] = k
    BY <2>1, <2>2
  <2> HIDE DEF first, T, rank
  <2> QED BY <2>3, <2>4, <2>5 DEF Bijection, Injection, Surjection, IsInjective
<1>9. IsFiniteSet(T)
  BY FS_Subset
<1> HIDE DEF first, T
<1>10. Cardinality(T) = Cardinality(0 .. q - 1)
  BY <1>8, <1>9, FS_Bijection DEF ExistsBijection
<1>11. T = {x \in S : Cardinality({y \in S : f[y] < f[x]}) < q}
  BY DEF T
<1> QED BY <1>6, <1>10, <1>11

\* Of the completed members of a group, as many as it needs were the first.
LEMMA WinnersCount ==
  ASSUME TypeOK, Distinct, NEW g \in Groups, NEW q \in Nat,
         q <= Cardinality({n \in Kids(g) : member[n] = "completed"})
  PROVE  Cardinality(Winners(g, q)) = q
<1> DEFINE S == {n \in Kids(g) : member[n] = "completed"}
           f == [n \in S |-> seq[n]]
<1>1. S \subseteq Members /\ IsFiniteSet(S)
  BY TreeFacts, FS_Subset DEF Kids
<1>2. f \in [S -> Nat] /\ (\A x, y \in S : x # y => f[x] # f[y]) /\ \A x \in S : f[x] = seq[x]
  BY <1>1 DEF TypeOK, Distinct
<1>3. \A n \in S : ByCompletion(g, n) = {m \in S : f[m] < f[n]}
  BY <1>2 DEF ByCompletion
<1>4. Winners(g, q) = {n \in S : Cardinality(ByCompletion(g, n)) < q}
  BY DEF Winners
<1>5. Winners(g, q) = {n \in S : Cardinality({m \in S : f[m] < f[n]}) < q}
  BY <1>3, <1>4
<1> HIDE DEF S, f
<1>6. q <= Cardinality(S)
  BY DEF S
<1> QED BY <1>1, <1>2, <1>5, <1>6, FirstOnes

-----------------------------------------------------------------------------
(* The coherence of a plain tree is invariant                               *)

\* The tree is coherent when the Run is created.
LEMMA InitCoherent ==
  ASSUME Init
  PROVE  CoherentTree /\ OnlyTimed
<1>1. CoherentTree
  BY TreeFacts, TreeAssumption
  DEF Init, CoherentTree, FramesAgree, Statuses, LeafOpen, GroupOpen, Cancelled, LostGroup,
      NoneLost, MemberDone, DoneBelow, Begun, Distinct, RootEnd, Open, Reasons, Terminal
<1>2. OnlyTimed
  BY BoundAssumption DEF Init, OnlyTimed
<1> QED BY <1>1, <1>2

\* No step makes work without a deadline late.
LEMMA NextOnlyTimed ==
  ASSUME TypeOK, OnlyTimed, [Next]_vars
  PROVE  OnlyTimed'
<1> USE DEF TypeOK, owner, proj
<1>1. CASE Ownership
  BY <1>1 DEF OnlyTimed, Ownership, ClaimRun, ReleaseRun, LeaseExpires, SupersedeExpired
<1>2. CASE CompleteGroups
  BY <1>2 DEF OnlyTimed, CompleteGroups, CloseAttempts, LoserReason
<1>3. ASSUME \/ ContinueRoot
             \/ \E n \in Members : ContinueBranch(n)
             \/ \E g \in Groups : ContinueGroup(g)
      PROVE  OnlyTimed'
  BY <1>3 DEF OnlyTimed, ContinueRoot, ContinueBranch, ContinueGroup
<1>4. CASE TimeoutAttempts
  BY <1>4 DEF OnlyTimed, TimeoutAttempts
<1>5. CASE TimeoutSignals \/ DrainSignals
  BY <1>5 DEF OnlyTimed, TimeoutSignals, DrainSignals, ExpireWaits
<1>6. CASE Execution
  <2>1. ASSUME NEW l \in Leaves, StartAttempt(l) PROVE OnlyTimed'
    BY <2>1 DEF OnlyTimed, StartAttempt
  <2>2. ASSUME NEW l \in Leaves, NEW k \in Tries, NEW e \in Epochs,
               NEW res \in {"completed", "failed"}, CommitResult(l, k, e, res)
        PROVE  OnlyTimed'
    BY <2>2 DEF OnlyTimed, CommitResult
  <2>3. ASSUME NEW l \in Leaves, NEW k \in Tries, DeadlinePasses(l, k) PROVE OnlyTimed'
    BY <2>3 DEF OnlyTimed, DeadlinePasses
  <2> QED BY <1>6, <2>1, <2>2, <2>3 DEF Execution
<1>7. ASSUME NEW l \in Signals, AwaitSignal(l) \/ ConsumeSignal(l) \/ WaitExpires(l)
      PROVE  OnlyTimed'
  BY <1>7 DEF OnlyTimed, AwaitSignal, ConsumeSignal, WaitExpires
<1>8. CASE Pause \/ Resume
  BY <1>8 DEF OnlyTimed, Pause, Resume, Freeze, Thaw, CloseAttempts
<1>9. ASSUME NEW S, att' = CloseAttempts(Leaves \intersect Under(S), "cancelled"),
             wait' = CancelWaits(S, "operator_cancelled")
      PROVE  OnlyTimed'
  BY <1>9 DEF OnlyTimed, CloseAttempts, CancelWaits
<1>10. CASE CancelRun
  BY <1>9, <1>10 DEF CancelRun, CancelTree
<1>11. ASSUME NEW l \in Leaves, CancelLeaf(l) PROVE OnlyTimed'
  BY <1>9, <1>11 DEF CancelLeaf, CancelTree
<1>12. ASSUME NEW g \in Groups, CancelGroup(g) PROVE OnlyTimed'
  BY <1>9, <1>12 DEF CancelGroup
<1>13. ASSUME NEW l \in Leaves, RetryLeaf(l) PROVE OnlyTimed'
  BY <1>13 DEF OnlyTimed, RetryLeaf
<1>14. CASE UNCHANGED vars
  BY <1>14 DEF OnlyTimed, vars
<1> QED BY <1>1, <1>2, <1>3, <1>4, <1>5, <1>6, <1>7, <1>8, <1>10, <1>11, <1>12, <1>13, <1>14
        DEF Next, Derive, Waiting, Control

\* Work that has begun finds no member on its way still to be started.
LEMMA NothingToStart ==
  ASSUME TypeOK, Begun, NEW l \in Leaves, inst[l] \in {"running", "awaiting"}
  PROVE  StartLine(l) = member
<1>1. \A n \in Line(l) : member[n] # "ready"
  BY DEF Begun
<1>2. StartLine(l) = [n \in Members |-> member[n]]
  BY <1>1 DEF StartLine
<1> QED BY <1>2 DEF TypeOK

\* Every transaction keeps the tree coherent.
LEMMA NextCoherent ==
  ASSUME NestedPlain, IInv, OnlyTimed, CoherentTree, [Next]_vars
  PROVE  CoherentTree'
<1>a. TypeOK /\ OneStartedAttempt /\ WaitsAgree
  BY DEF IInv
<1>b. Begun /\ FramesAgree
  BY DEF CoherentTree
<1>1. CASE Ownership \/ UNCHANGED vars
  <2>1. Rests
    BY <1>1, <1>a DEF Ownership, ClaimRun, ReleaseRun, LeaseExpires, SupersedeExpired, vars,
                      owner, proj, Rests, TypeOK
  <2> QED BY <2>1, RestsStep
<1>2. CASE CompleteGroups
  BY <1>2, <1>a, CompleteGroupsStep
<1>3. ASSUME NEW n \in Members, ContinueBranch(n) PROVE CoherentTree'
  BY <1>3, <1>a, ContinueBranchStep
<1>4. ASSUME NEW g \in Groups, ContinueGroup(g) PROVE CoherentTree'
  BY <1>4, <1>a, ContinueGroupStep
<1>5. CASE ContinueRoot
  <2>1. gframe[Root] \in Settled
    BY <1>5 DEF ContinueRoot, RootReady
  <2>2. group[Root] # "running"
    BY <1>b, <2>1, TreeAssumption DEF FramesAgree, Settled, Reasons
  <2>3. Rests
    BY <1>5, <2>2 DEF ContinueRoot, Rests
  <2> QED BY <2>3, RestsStep
<1>6. CASE TimeoutAttempts
  <2> DEFINE D == {l \in Leaves : \E k \in Tries : <<l, k>> \in DueNow}
  <2>1. \A l \in D : inst[l] = "running" /\ l \in Timed
    BY <1>a DEF DueNow, OnlyTimed, OneStartedAttempt, Started, Running
  <2>2. inst' = [l \in Leaves |-> IF l \in D THEN "failed" ELSE inst[l]]
    BY <1>6, <2>1 DEF TimeoutAttempts
  <2>3. member' = [n \in Members |->
                    IF \E x \in D : n \in RunningLine(x) THEN "failed" ELSE member[n]]
    <3>1. member' = [n \in Members |-> IF \E x \in DueNow : n \in Hit(x) THEN "failed" ELSE member[n]]
      BY <1>6 DEF TimeoutAttempts
    <3>2. \A n : (\E x \in DueNow : n \in Hit(x)) <=> (\E x \in D : n \in RunningLine(x))
      <4>1. ASSUME NEW n, NEW x \in DueNow, n \in Hit(x) PROVE \E y \in D : n \in RunningLine(y)
        <5>1. x[1] \in D
          BY DEF DueNow
        <5> QED BY <4>1, <5>1 DEF Hit
      <4>2. ASSUME NEW n, NEW y \in D, n \in RunningLine(y) PROVE \E x \in DueNow : n \in Hit(x)
        <5>1. PICK k \in Tries : <<y, k>> \in DueNow
          OBVIOUS
        <5> QED BY <4>2, <5>1 DEF Hit
      <4> QED BY <4>1, <4>2
    <3> HIDE DEF D
    <3> QED BY <3>1, <3>2
  <2>4. TimesOut(D)
    BY <1>6, <2>1, <2>2, <2>3 DEF TimesOut, TimeoutAttempts
  <2> HIDE DEF D
  <2> QED BY <1>a, <2>4, TimesOutStep
<1>7. CASE TimeoutSignals \/ DrainSignals
  <2>1. ExpireWaits
    BY <1>7 DEF TimeoutSignals, DrainSignals
  <2>2. \A l \in DueWaits : l \in Leaves /\ inst[l] = "awaiting" /\ l \in Timed
    BY <1>a, BoundAssumption DEF DueWaits, OnlyTimed, WaitsAgree, OpenWait
  <2>3. TimesOut(DueWaits)
    <3>1. inst' = [l \in Leaves |-> IF l \in DueWaits THEN "failed" ELSE inst[l]]
      BY <2>1, <2>2 DEF ExpireWaits
    <3> QED BY <2>1, <2>2, <3>1 DEF ExpireWaits, TimesOut
  <2> QED BY <1>a, <2>3, TimesOutStep
<1>8. ASSUME NEW l \in Leaves, StartAttempt(l) PROVE CoherentTree'
  <2>1. Begins(l)
    BY <1>8 DEF StartAttempt, Admits, GroupsAdmit, Begins
  <2> QED BY <1>a, <2>1, BeginsStep
<1>9. ASSUME NEW l \in Leaves, NEW k \in Tries, NEW e \in Epochs,
             NEW res \in {"completed", "failed"}, CommitResult(l, k, e, res)
      PROVE  CoherentTree'
  <2>1. inst[l] = "running"
    BY <1>9, <1>a DEF CommitResult, OneStartedAttempt
  <2>2. StartLine(l) = member
    BY <1>a, <1>b, <2>1, NothingToStart
  <2>3. Rests
    BY <1>9, <1>a, <2>1, <2>2 DEF CommitResult, Rests, TypeOK
  <2> QED BY <2>3, RestsStep
<1>10. ASSUME NEW l \in Leaves, NEW k \in Tries, DeadlinePasses(l, k) PROVE CoherentTree'
  <2>1. Rests
    BY <1>10 DEF DeadlinePasses, Rests
  <2> QED BY <2>1, RestsStep
<1>11. ASSUME NEW l \in Signals, AwaitSignal(l) PROVE CoherentTree'
  <2>1. l \in Leaves
    BY BoundAssumption
  <2>2. Begins(l)
    BY <1>11 DEF AwaitSignal, Admits, GroupsAdmit, Begins
  <2> QED BY <1>a, <2>1, <2>2, BeginsStep
<1>12. ASSUME NEW l \in Signals, ConsumeSignal(l) PROVE CoherentTree'
  <2>1. l \in Leaves /\ inst[l] = "awaiting"
    BY <1>12, <1>a, BoundAssumption DEF ConsumeSignal, WaitsAgree, OpenWait
  <2>2. StartLine(l) = member
    BY <1>a, <1>b, <2>1, NothingToStart
  <2>3. Rests
    BY <1>12, <1>a, <2>1, <2>2 DEF ConsumeSignal, Rests, TypeOK
  <2> QED BY <2>3, RestsStep
<1>13. ASSUME NEW l \in Signals, WaitExpires(l) PROVE CoherentTree'
  <2>1. Rests
    BY <1>13 DEF WaitExpires, Rests
  <2> QED BY <2>1, RestsStep
<1>14. CASE Pause \/ Resume
  <2>1. Rests
    BY <1>14 DEF Pause, Resume, Rests, Terminal
  <2> QED BY <2>1, RestsStep
<1>15. ASSUME \/ CancelRun
              \/ \E l \in Leaves : CancelLeaf(l)
              \/ \E g \in Groups : CancelGroup(g)
       PROVE  CoherentTree'
  BY <1>15, <1>a, CancelStep
<1>16. ASSUME NEW l \in Leaves, RetryLeaf(l) PROVE CoherentTree'
  BY <1>16, <1>a, RetryStoreStep
<1> QED BY <1>1, <1>2, <1>3, <1>4, <1>5, <1>6, <1>7, <1>8, <1>9, <1>10, <1>11, <1>12, <1>13,
           <1>14, <1>15, <1>16
        DEF Next, Derive, Execution, Waiting, Control

\* the inductive invariant of a plain tree
CInv == NestedPlain /\ IInv /\ OnlyTimed /\ CoherentTree

\* The store's own invariant, as one step.
LEMMA InvarianceStep ==
  ASSUME IInv, [Next]_vars
  PROVE  IInv'
  BY NextType, NextOneStarted, NextWaitsAgree, NextNumbered, NextPausedIdle, NextOwnedSoFar DEF IInv

\* The invariant of a plain tree is inductive.
LEMMA NextCInv ==
  ASSUME CInv, [Next]_vars
  PROVE  CInv'
<1>1. IInv' /\ OnlyTimed'
  BY InvarianceStep, NextOnlyTimed DEF CInv, IInv
<1>2. CoherentTree'
  BY NextCoherent DEF CInv
<1>3. NestedPlain'
  BY DEF CInv, NestedPlain, Plain, Kids
<1> QED BY <1>1, <1>2, <1>3 DEF CInv

\* Frames, groups, members and instances of a plain tree agree in every reachable state.
THEOREM Coherence == NestedPlain /\ Spec => []CInv
<1>1. NestedPlain /\ Init => CInv
  BY InitIInv, InitCoherent DEF CInv
<1>2. CInv /\ [Next]_vars => CInv'
  BY NextCInv
<1> QED BY <1>1, <1>2, PTL DEF Spec

-----------------------------------------------------------------------------
(* Limits                                                                   *)

\* the members of a group that run
RunningKids(g) == {m \in Kids(g) : member[m] = "running"}

\* A set with at most one new element has at most one element more.
LEMMA OneMore ==
  ASSUME NEW A, IsFiniteSet(A), NEW x, NEW B, B \subseteq A \union {x}
  PROVE  /\ Cardinality(A) \in Nat /\ Cardinality(B) \in Nat
         /\ Cardinality(B) <= Cardinality(A) + 1
<1>1. /\ IsFiniteSet(A \union {x}) /\ Cardinality(A) \in Nat
      /\ Cardinality(A \union {x}) = IF x \in A THEN Cardinality(A) ELSE Cardinality(A) + 1
  BY FS_AddElement, FS_CardinalityType
<1>2. Cardinality(B) <= Cardinality(A \union {x}) /\ IsFiniteSet(B)
  BY <1>1, FS_Subset
<1>3. Cardinality(B) \in Nat
  BY <1>2, FS_CardinalityType
<1> QED BY <1>1, <1>2, <1>3

\* Nothing runs when the Run is created.
LEMMA InitLimits ==
  ASSUME Init
  PROVE  WithinLimits
<1>1. AllStarted = {}
  BY DEF Init, AllStarted, Started, Running
<1>2. \A g \in Groups : {m \in Kids(g) : member[m] = "running"} = {}
  BY DEF Init, Kids
<1>3. Cardinality({}) = 0
  BY FS_EmptySet
<1>4. MaxLeaf >= 0 /\ \A g \in Groups : Cap[g] >= 0
  BY BoundAssumption
<1> QED BY <1>1, <1>2, <1>3, <1>4 DEF WithinLimits

\* The started attempts can be counted.
LEMMA StartedFinite ==
  IsFiniteSet(AllStarted) /\ Cardinality(AllStarted) \in Nat
<1>1. IsFiniteSet(Tries)
  BY FS_Interval, BoundAssumption DEF Tries
<1>2. IsFiniteSet(Leaves \X Tries)
  BY <1>1, TreeAssumption, FS_Product
<1>3. AllStarted \subseteq Leaves \X Tries
  BY DEF AllStarted
<1> QED BY <1>2, <1>3, FS_Subset, FS_CardinalityType

\* a transaction that is not the start of an attempt
StartsNothing ==
  \/ Derive \/ Ownership \/ Waiting \/ Control \/ UNCHANGED vars
  \/ \E l \in Leaves, k \in Tries, e \in Epochs, res \in {"completed", "failed"} :
       CommitResult(l, k, e, res)
  \/ \E l \in Leaves, k \in Tries : DeadlinePasses(l, k)

\* Such a transaction adds no started attempt and changes no owner of one.
LEMMA NothingStarts ==
  ASSUME TypeOK, StartsNothing
  PROVE  own' = own /\ \A l \in Leaves, k \in Tries : Started(l, k)' => Started(l, k)
<1> USE DEF TypeOK, owner, proj, Started, Running, CloseAttempts
<1> DEFINE Same == own' = own /\ \A l \in Leaves, k \in Tries : Started(l, k)' => Started(l, k)
<1>1. CASE Ownership
  BY <1>1 DEF Ownership, ClaimRun, ReleaseRun, LeaseExpires, SupersedeExpired
<1>2. CASE CompleteGroups
  BY <1>2 DEF CompleteGroups
<1>3. ASSUME \/ ContinueRoot \/ TimeoutSignals
             \/ \E n \in Members : ContinueBranch(n)
             \/ \E g \in Groups : ContinueGroup(g)
      PROVE  Same
  BY <1>3 DEF ContinueRoot, ContinueBranch, ContinueGroup, TimeoutSignals, ExpireWaits
<1>4. CASE TimeoutAttempts
  BY <1>4 DEF TimeoutAttempts
<1>5. ASSUME NEW x \in Leaves, NEW j \in Tries, NEW e \in Epochs,
             NEW res \in {"completed", "failed"}, CommitResult(x, j, e, res)
      PROVE  Same
  BY <1>5 DEF CommitResult
<1>6. ASSUME NEW x \in Leaves, NEW j \in Tries, DeadlinePasses(x, j) PROVE Same
  BY <1>6 DEF DeadlinePasses
<1>7. CASE Waiting
  BY <1>7 DEF Waiting, AwaitSignal, ConsumeSignal, WaitExpires, DrainSignals, ExpireWaits
<1>8. CASE Pause \/ Resume \/ CancelRun
  BY <1>8 DEF Pause, Resume, CancelRun, CancelTree
<1>9. ASSUME NEW x \in Leaves, CancelLeaf(x) \/ RetryLeaf(x) PROVE Same
  BY <1>9 DEF CancelLeaf, CancelTree, RetryLeaf
<1>10. ASSUME NEW g \in Groups, CancelGroup(g) PROVE Same
  BY <1>10 DEF CancelGroup
<1>11. CASE UNCHANGED vars
  BY <1>11 DEF vars
<1> QED BY <1>1, <1>2, <1>3, <1>4, <1>5, <1>6, <1>7, <1>8, <1>9, <1>10, <1>11
        DEF StartsNothing, Derive, Control

\* Only the start of an attempt adds a started one, and only if there is room.
LEMMA NextStarted ==
  ASSUME IInv, [Next]_vars, Cardinality(AllStarted) <= MaxLeaf
  PROVE  Cardinality(AllStarted') <= MaxLeaf
<1>a. TypeOK
  BY DEF IInv
<1>b. IsFiniteSet(AllStarted) /\ Cardinality(AllStarted) \in Nat /\ MaxLeaf \in Nat
  BY StartedFinite, BoundAssumption
<1>1. ASSUME AllStarted' \subseteq AllStarted
      PROVE  Cardinality(AllStarted') <= MaxLeaf
  <2>1. Cardinality(AllStarted') <= Cardinality(AllStarted)
    BY <1>b, <1>1, FS_Subset
  <2>2. Cardinality(AllStarted') \in Nat
    BY <1>b, <1>1, FS_Subset, FS_CardinalityType
  <2> QED BY <1>b, <2>1, <2>2
<1>2. ASSUME NEW x \in Leaves, NEW k \in Tries, AllStarted' \subseteq AllStarted \union {<<x, k>>},
             Cardinality(AllStarted) < MaxLeaf
      PROVE  Cardinality(AllStarted') <= MaxLeaf
  <2>1. Cardinality(AllStarted') \in Nat /\ Cardinality(AllStarted') <= Cardinality(AllStarted) + 1
    BY <1>b, <1>2, OneMore
  <2> QED BY <1>b, <1>2, <2>1
<1>3. CASE \E l \in Leaves : StartAttempt(l)
  <2>1. PICK l \in Leaves : StartAttempt(l)
    BY <1>3
  <2>2. PICK k \in Tries : att' = [att EXCEPT ![l][k] = "started"]
    BY <2>1 DEF StartAttempt
  <2>3. AllStarted' \subseteq AllStarted \union {<<l, k>>}
    BY <1>a, <2>2 DEF AllStarted, Started, TypeOK
  <2>4. Cardinality(AllStarted) < MaxLeaf
    BY <2>1 DEF StartAttempt, Admits
  <2> QED BY <1>2, <2>3, <2>4
<1>4. CASE StartsNothing
  <2>1. ASSUME NEW l \in Leaves, NEW k \in Tries, Started(l, k)' PROVE Started(l, k)
    BY <1>a, <1>4, <2>1, NothingStarts
  <2>2. AllStarted' \subseteq AllStarted
    <3> SUFFICES ASSUME NEW x \in AllStarted' PROVE x \in AllStarted
      OBVIOUS
    <3>1. x \in Leaves \X Tries /\ Started(x[1], x[2])'
      BY DEF AllStarted
    <3> QED BY <2>1, <3>1 DEF AllStarted
  <2> QED BY <1>1, <2>2
<1> QED BY <1>3, <1>4 DEF Next, Execution, StartsNothing

\* Members become running only where the work of a leaf below them begins.
LEMMA RunningBefore ==
  ASSUME CInv, [Next]_vars
  PROVE  \/ \A n \in Members : member'[n] = "running" => member[n] = "running"
         \/ \E l \in Leaves : GroupsAdmit(l) /\ member' = StartLine(l)
<1> DEFINE Same == \A n \in Members : member'[n] = "running" => member[n] = "running"
<1>a. TypeOK /\ OneStartedAttempt /\ WaitsAgree /\ Begun
  BY DEF CInv, IInv, CoherentTree
<1> USE DEF owner, proj
<1>1. CASE Ownership \/ UNCHANGED vars
  BY <1>1 DEF Ownership, ClaimRun, ReleaseRun, LeaseExpires, SupersedeExpired, vars
<1>2. CASE CompleteGroups
  <2>1. \A g : LoserReason(g) # "running"
    BY DEF LoserReason
  <2>2. \A n \in Members : member'[n] = member[n]
                           \/ member'[n] = LoserReason(CHOOSE g \in Batch : g \in Path[n])
    BY <1>2, <1>a DEF CompleteGroups, TypeOK
  <2> QED BY <2>1, <2>2
<1>3. ASSUME NEW n \in Members, ContinueBranch(n) PROVE Same
  <2>1. branch'[n] # "running"
    BY <1>3, <1>a DEF ContinueBranch, BranchTurn, BranchReady, Reasons, Settled, TypeOK
  <2>2. member' = member \/ member' = [member EXCEPT ![n] = branch'[n]]
    BY <1>3, <1>a DEF ContinueBranch, TypeOK
  <2> QED BY <1>a, <2>1, <2>2 DEF TypeOK
<1>4. ASSUME \/ ContinueRoot \/ Pause \/ Resume
             \/ \E g \in Groups : ContinueGroup(g)
             \/ \E l \in Leaves, k \in Tries : DeadlinePasses(l, k)
             \/ \E l \in Signals : WaitExpires(l)
      PROVE  Same
  BY <1>4 DEF ContinueRoot, ContinueGroup, Pause, Resume, DeadlinePasses, WaitExpires
<1>5. CASE TimeoutAttempts \/ TimeoutSignals \/ DrainSignals
  BY <1>5 DEF TimeoutAttempts, TimeoutSignals, DrainSignals, ExpireWaits
<1>6. ASSUME NEW l \in Leaves, StartAttempt(l) PROVE GroupsAdmit(l) /\ member' = StartLine(l)
  BY <1>6 DEF StartAttempt, Admits
<1>7. ASSUME NEW l \in Leaves, NEW k \in Tries, NEW e \in Epochs,
             NEW res \in {"completed", "failed"}, CommitResult(l, k, e, res)
      PROVE  Same
  <2>1. inst[l] = "running"
    BY <1>7, <1>a DEF CommitResult, OneStartedAttempt
  <2>2. StartLine(l) = member
    BY <1>a, <2>1, NothingToStart
  <2> QED BY <1>7, <2>2 DEF CommitResult
<1>8. ASSUME NEW l \in Signals, AwaitSignal(l)
      PROVE  l \in Leaves /\ GroupsAdmit(l) /\ member' = StartLine(l)
  BY <1>8, BoundAssumption DEF AwaitSignal, Admits
<1>9. ASSUME NEW l \in Signals, ConsumeSignal(l) PROVE Same
  <2>1. l \in Leaves /\ inst[l] = "awaiting"
    BY <1>9, <1>a, BoundAssumption DEF ConsumeSignal, WaitsAgree, OpenWait
  <2>2. StartLine(l) = member
    BY <1>a, <2>1, NothingToStart
  <2> QED BY <1>9, <2>2 DEF ConsumeSignal
<1>10. ASSUME NEW S, member' = CancelIn(member, S, "operator_cancelled") PROVE Same
  BY <1>10, <1>a DEF CancelIn, TypeOK
<1>11. ASSUME \/ CancelRun
              \/ \E l \in Leaves : CancelLeaf(l)
              \/ \E g \in Groups : CancelGroup(g)
       PROVE  Same
  <2>1. \E S : member' = CancelIn(member, S, "operator_cancelled")
    BY <1>11 DEF CancelRun, CancelLeaf, CancelGroup, CancelTree
  <2> QED BY <1>10, <2>1
<1>12. ASSUME NEW l \in Leaves, RetryLeaf(l) PROVE Same
  BY <1>12, <1>a DEF RetryLeaf, Reopen, TypeOK
<1> QED BY <1>1, <1>2, <1>3, <1>4, <1>5, <1>6, <1>7, <1>8, <1>9, <1>11, <1>12
        DEF Next, Derive, Execution, Waiting, Control

\* Work begins only where every group around it has room, or has counted it already.
LEMMA NextWithinCap ==
  ASSUME CInv, [Next]_vars, NEW g \in Groups, Cardinality(RunningKids(g)) <= Cap[g]
  PROVE  Cardinality(RunningKids(g)') <= Cap[g]
<1>a. /\ IsFiniteSet(RunningKids(g)) /\ Cardinality(RunningKids(g)) \in Nat /\ Cap[g] \in Nat
      /\ RunningKids(g)' = {m \in Kids(g) : member'[m] = "running"} /\ Kids(g) \subseteq Members
  <2>1. RunningKids(g) \subseteq Members /\ IsFiniteSet(Members)
    BY TreeFacts DEF RunningKids, Kids
  <2> QED BY <2>1, FS_Subset, FS_CardinalityType, BoundAssumption DEF RunningKids, Kids
<1>1. ASSUME RunningKids(g)' \subseteq RunningKids(g)
      PROVE  Cardinality(RunningKids(g)') <= Cap[g]
  <2>1. Cardinality(RunningKids(g)') <= Cardinality(RunningKids(g)) /\ IsFiniteSet(RunningKids(g)')
    BY <1>a, <1>1, FS_Subset
  <2>2. Cardinality(RunningKids(g)') \in Nat
    BY <2>1, FS_CardinalityType
  <2> QED BY <1>a, <2>1, <2>2
<1>2. CASE \A n \in Members : member'[n] = "running" => member[n] = "running"
  <2>1. RunningKids(g)' \subseteq RunningKids(g)
    BY <1>a, <1>2 DEF RunningKids
  <2> QED BY <1>1, <2>1
<1>3. ASSUME NEW l \in Leaves, GroupsAdmit(l), member' = StartLine(l)
      PROVE  Cardinality(RunningKids(g)') <= Cap[g]
  <2>0. \A n \in Members : member'[n] = "running" => member[n] = "running" \/ n \in Line(l)
    BY <1>3 DEF StartLine
  <2>1. CASE \E n \in Line(l) : n \in Kids(g) /\ member[n] # "running"
    <3>1. PICK n \in Line(l) : n \in Kids(g) /\ member[n] # "running"
      BY <2>1
    <3>2. n \in Members /\ Parent[n] = g /\ l \in Nodes
      BY <3>1 DEF Kids, Nodes
    <3>3. Cardinality(RunningKids(g)) < Cap[g]
      BY <1>3, <3>1, <3>2 DEF GroupsAdmit, RunningKids
    <3>4. \A m \in Line(l) : m \in Kids(g) => m = n
      BY <3>2, OneMemberOfEach DEF Kids
    <3>5. RunningKids(g)' \subseteq RunningKids(g) \union {n}
      BY <1>a, <2>0, <3>4 DEF RunningKids
    <3>6. /\ Cardinality(RunningKids(g)') \in Nat
          /\ Cardinality(RunningKids(g)') <= Cardinality(RunningKids(g)) + 1
      BY <1>a, <3>5, OneMore
    <3> QED BY <1>a, <3>3, <3>6
  <2>2. CASE \A n \in Line(l) : n \in Kids(g) => member[n] = "running"
    <3>1. RunningKids(g)' \subseteq RunningKids(g)
      BY <1>a, <2>0, <2>2 DEF RunningKids
    <3> QED BY <1>1, <3>1
  <2> QED BY <2>1, <2>2
<1> QED BY <1>2, <1>3, RunningBefore

\* No step exceeds a limit.
LEMMA NextWithinLimits ==
  ASSUME CInv, [Next]_vars, WithinLimits
  PROVE  WithinLimits'
<1>1. Cardinality(AllStarted') <= MaxLeaf
  BY NextStarted DEF CInv, WithinLimits
<1>2. ASSUME NEW g \in Groups PROVE Cardinality(RunningKids(g)') <= Cap[g]
  BY NextWithinCap DEF WithinLimits, RunningKids
<1> QED BY <1>1, <1>2 DEF WithinLimits, RunningKids, Kids

-----------------------------------------------------------------------------
(* Counts                                                                   *)

\* A completed member keeps its place, and a member completes only when its branch ends.
LEMMA CompletedMember ==
  ASSUME CInv, [Next]_vars, NEW n \in Members
  PROVE  /\ member[n] = "completed" => member'[n] = "completed" /\ seq'[n] = seq[n]
         /\ member'[n] = "completed" /\ member[n] # "completed" =>
              ContinueBranch(n) /\ member[n] \in Open
<1> DEFINE Same == /\ member[n] = "completed" => member'[n] = "completed" /\ seq'[n] = seq[n]
                   /\ member'[n] = "completed" => member[n] = "completed"
<1>a. TypeOK /\ OneStartedAttempt /\ WaitsAgree /\ Begun
  BY DEF CInv, IInv, CoherentTree
<1> USE DEF owner, proj
<1>1. ASSUME Ownership \/ UNCHANGED vars PROVE Same
  BY <1>1 DEF Ownership, ClaimRun, ReleaseRun, LeaseExpires, SupersedeExpired, vars
<1>2. ASSUME CompleteGroups PROVE Same
  <2>1. \A g : LoserReason(g) # "completed"
    BY DEF LoserReason
  <2>2. /\ seq' = seq
        /\ \/ member'[n] = member[n]
           \/ /\ member[n] \in Open
              /\ member'[n] = LoserReason(CHOOSE g \in Batch : g \in Path[n])
    BY <1>2, <1>a DEF CompleteGroups, TypeOK
  <2> QED BY <2>1, <2>2 DEF Open
<1>3. ASSUME NEW m \in Members, ContinueBranch(m)
      PROVE  Same \/ (ContinueBranch(n) /\ member[n] \in Open)
  <2>1. CASE member[m] \in Open
    <3>1. \A x \in Members : x # m => member'[x] = member[x] /\ seq'[x] = seq[x]
      BY <1>3, <1>a, <2>1 DEF ContinueBranch, TypeOK
    <3>2. member[m] # "completed"
      BY <2>1 DEF Open
    <3> QED BY <1>3, <2>1, <3>1, <3>2
  <2>2. CASE member[m] \notin Open
    BY <1>3, <2>2 DEF ContinueBranch
  <2> QED BY <2>1, <2>2
<1>4. ASSUME \/ ContinueRoot \/ Pause \/ Resume
             \/ \E g \in Groups : ContinueGroup(g)
             \/ \E l \in Leaves, k \in Tries : DeadlinePasses(l, k)
             \/ \E l \in Signals : WaitExpires(l)
      PROVE  Same
  BY <1>4 DEF ContinueRoot, ContinueGroup, Pause, Resume, DeadlinePasses, WaitExpires
<1>5. ASSUME TimeoutAttempts \/ TimeoutSignals \/ DrainSignals PROVE Same
  BY <1>5 DEF TimeoutAttempts, TimeoutSignals, DrainSignals, ExpireWaits, Hit, RunningLine
<1>6. ASSUME \/ \E l \in Leaves : StartAttempt(l)
             \/ \E l \in Leaves, k \in Tries, e \in Epochs, res \in {"completed", "failed"} :
                  CommitResult(l, k, e, res)
             \/ \E l \in Signals : AwaitSignal(l) \/ ConsumeSignal(l)
      PROVE  Same
  BY <1>6, <1>a DEF StartAttempt, CommitResult, AwaitSignal, ConsumeSignal, StartLine, TypeOK
<1>7. ASSUME NEW S, member' = CancelIn(member, S, "operator_cancelled"), seq' = seq PROVE Same
  BY <1>7, <1>a DEF CancelIn, TypeOK, Open
<1>8. ASSUME \/ CancelRun
             \/ \E l \in Leaves : CancelLeaf(l)
             \/ \E g \in Groups : CancelGroup(g)
      PROVE  Same
  <2>1. seq' = seq /\ \E S : member' = CancelIn(member, S, "operator_cancelled")
    BY <1>8 DEF CancelRun, CancelLeaf, CancelGroup, CancelTree
  <2> QED BY <1>7, <2>1
<1>9. ASSUME NEW l \in Leaves, RetryLeaf(l) PROVE Same
  <2>1. \A m \in Line(l) : member[m] = "failed"
    BY <1>9 DEF RetryLeaf, RetryEligible
  <2> QED BY <1>9, <1>a, <2>1 DEF RetryLeaf, Reopen, TypeOK
<1>10. Same \/ (ContinueBranch(n) /\ member[n] \in Open)
  <2> HIDE DEF Same
  <2> QED BY <1>1, <1>2, <1>3, <1>4, <1>5, <1>6, <1>8, <1>9
          DEF Next, Derive, Execution, Waiting, Control
<1> QED BY <1>10 DEF Open

\* A group completes by a decision on it, and keeps the members it accepts then.
LEMMA GroupCompletes ==
  ASSUME CInv, [Next]_vars, NEW g \in Groups, group[g] # "completed", group'[g] = "completed"
  PROVE  CompleteGroups /\ g \in Batch /\ Outcome(g) = "completed" /\ accepted'[g] = WinnerSet(g)
<1>a. TypeOK
  BY DEF CInv, IInv
<1> USE DEF TypeOK, owner, proj
<1>1. CASE CompleteGroups
  <2> DEFINE losers == {n \in Members : Parent[n] \in Batch /\ member[n] \in Open}
             Why == LoserReason(CHOOSE h \in Batch : h \in Path[g])
  <2>1. Why # "completed"
    BY DEF LoserReason
  <2>2. /\ group'[g] = IF g \in Batch THEN Outcome(g)
                       ELSE IF g \in Under(losers) /\ group[g] \in Open THEN Why ELSE group[g]
        /\ accepted'[g] = IF g \in Batch /\ Outcome(g) = "completed" THEN WinnerSet(g) ELSE accepted[g]
    BY <1>1, <1>a DEF CompleteGroups
  <2> QED BY <1>1, <2>1, <2>2
<1>2. CASE \/ ContinueRoot \/ TimeoutAttempts \/ Pause \/ Resume
           \/ ClaimRun \/ ReleaseRun \/ LeaseExpires \/ UNCHANGED vars
  BY <1>2 DEF ContinueRoot, TimeoutAttempts, Pause, Resume, ClaimRun, ReleaseRun, LeaseExpires, vars
<1>3. CASE \/ \E n \in Members : ContinueBranch(n)
           \/ \E h \in Groups : ContinueGroup(h)
           \/ \E e \in Epochs : SupersedeExpired(e)
  BY <1>3 DEF ContinueBranch, ContinueGroup, SupersedeExpired
<1>4. CASE Execution
  BY <1>4 DEF Execution, StartAttempt, CommitResult, DeadlinePasses
<1>5. ASSUME NEW S, group' = CancelIn(group, S, "operator_cancelled") PROVE FALSE
  BY <1>5, <1>a DEF CancelIn
<1>6. CASE \/ CancelRun
           \/ \E l \in Leaves : CancelLeaf(l)
           \/ \E h \in Groups : CancelGroup(h)
  BY <1>5, <1>6 DEF CancelRun, CancelLeaf, CancelGroup, CancelTree
<1>7. ASSUME NEW l \in Leaves, RetryLeaf(l) PROVE FALSE
  BY <1>7, <1>a DEF RetryLeaf, Reopen
<1>8. CASE TimeoutSignals \/ Waiting
  BY <1>8 DEF TimeoutSignals, Waiting, AwaitSignal, ConsumeSignal, WaitExpires, DrainSignals, ExpireWaits
<1> QED BY <1>1, <1>2, <1>3, <1>4, <1>6, <1>7, <1>8 DEF Next, Derive, Ownership, Control

\* a completed group accepts its first completed members, as many as its strategy needs
Won ==
  \A g \in Groups : group[g] = "completed" =>
    accepted[g] = WinnerSet(g) /\ Cardinality(accepted[g]) = Need(g)

\* The members a decided group counts as its first ones stay the first ones.
LEMMA WinnersStay ==
  ASSUME NEW g \in Groups,
         \A n \in Kids(g) : /\ member'[n] = "completed" <=> member[n] = "completed"
                            /\ member[n] = "completed" => seq'[n] = seq[n]
  PROVE  WinnerSet(g)' = WinnerSet(g)
<1>1. Kids(g)' = Kids(g)
  BY DEF Kids
<1>2. ASSUME NEW n \in Kids(g), member[n] = "completed" PROVE ByCompletion(g, n)' = ByCompletion(g, n)
  BY <1>1, <1>2 DEF ByCompletion
<1>3. ASSUME NEW q PROVE Winners(g, q)' = Winners(g, q)
  BY <1>1, <1>2 DEF Winners
<1>4. Winners(g, 1)' = Winners(g, 1) /\ Winners(g, Quorum[g])' = Winners(g, Quorum[g])
  BY <1>3
<1> QED BY <1>1, <1>4 DEF WinnerSet

\* A group that completes has as many completed members as it needs.
LEMMA EnoughWinners ==
  ASSUME TypeOK, Distinct, NEW g \in Groups, Outcome(g) = "completed"
  PROVE  Cardinality(WinnerSet(g)) = Need(g)
<1> DEFINE C == {n \in Kids(g) : member[n] = "completed"}
<1>1. IsFiniteSet(C) /\ Cardinality(C) \in Nat
  BY TreeFacts, FS_Subset, FS_CardinalityType DEF Kids
<1>2. CASE Strategy[g] = "all"
  BY <1>2 DEF WinnerSet, Need
<1>3. CASE Strategy[g] = "race"
  <2>1. C # {}
    BY <1>3 DEF Outcome
  <2>2. Cardinality(C) # 0
    BY <1>1, <2>1, FS_EmptySet
  <2>3. 1 <= Cardinality(C)
    <3> HIDE DEF C
    <3> QED BY <1>1, <2>2
  <2>4. Cardinality(Winners(g, 1)) = 1
    BY <2>3, WinnersCount
  <2> QED BY <1>3, <2>4 DEF WinnerSet, Need
<1>4. CASE Strategy[g] = "quorum"
  <2>1. Quorum[g] \in Nat /\ Cardinality(C) >= Quorum[g]
    <3>1. C = {n \in Kids(g) : member[n] \in {"completed"}}
      OBVIOUS
    <3> QED BY <1>4, <3>1, BoundAssumption DEF Outcome
  <2>2. Quorum[g] <= Cardinality(C)
    <3> HIDE DEF C
    <3> QED BY <1>1, <2>1
  <2>3. Cardinality(Winners(g, Quorum[g])) = Quorum[g]
    BY <2>1, <2>2, WinnersCount
  <2> QED BY <1>4, <2>3 DEF WinnerSet, Need
<1> QED BY <1>2, <1>3, <1>4, BoundAssumption

\* A completed group keeps exactly its winners.
LEMMA NextWon ==
  ASSUME CInv, [Next]_vars, Won
  PROVE  Won'
<1>a. TypeOK /\ Distinct /\ FramesAgree
  BY DEF CInv, IInv, CoherentTree
<1> SUFFICES ASSUME NEW g \in Groups, group'[g] = "completed"
             PROVE  accepted'[g] = WinnerSet(g)' /\ Cardinality(accepted'[g]) = Need(g)'
  BY DEF Won
<1>1. Need(g)' = Need(g)
  BY DEF Need, Kids
<1>2. CASE group[g] = "completed"
  <2>1. accepted'[g] = accepted[g]
    BY <1>2, <1>a, GroupSuccessStep DEF GroupSuccess
  <2>2. \A n \in Kids(g) : n \in Members /\ member[n] \notin Open
    BY <1>2, <1>a DEF FramesAgree, Kids
  <2>3. WinnerSet(g)' = WinnerSet(g)
    BY <2>2, CompletedMember, WinnersStay
  <2> QED BY <1>1, <1>2, <2>1, <2>3 DEF Won
<1>3. CASE group[g] # "completed"
  <2>1. CompleteGroups /\ Outcome(g) = "completed" /\ accepted'[g] = WinnerSet(g)
    BY <1>3, GroupCompletes
  <2>2. \A n \in Kids(g) : n \in Members /\ ~ ContinueBranch(n)
    BY <2>1 DEF CompleteGroups, ContinueBranch, Kids
  <2>3. WinnerSet(g)' = WinnerSet(g)
    BY <2>2, CompletedMember, WinnersStay
  <2>4. Cardinality(WinnerSet(g)) = Need(g)
    BY <1>a, <2>1, EnoughWinners
  <2> QED BY <1>1, <2>1, <2>3, <2>4
<1> QED BY <1>2, <1>3

\* What the invariant says of a tree whose groups are decided.
LEMMA SettledRun ==
  ASSUME CInv
  PROVE  FinishedRunIsSettled
<1> SUFFICES ASSUME run \in Terminal PROVE AllStarted = {} /\ \A l \in Leaves : inst[l] \notin Open
  BY DEF FinishedRunIsSettled
<1>1. group[Root] # "running" /\ GroupOpen /\ FramesAgree /\ LeafOpen /\ OneStartedAttempt
  BY DEF CInv, IInv, CoherentTree, RootEnd
<1>2. ASSUME NEW l \in Leaves, inst[l] \in Open PROVE FALSE
  <2>1. Root \in Path[Parent[l]]
    BY TreeFacts, GroupsAbove, PathFacts DEF Nodes
  <2> QED BY <1>1, <1>2, <2>1, LeafChain
<1>3. AllStarted = {}
  BY <1>1, <1>2 DEF AllStarted, OneStartedAttempt, Open
<1> QED BY <1>2, <1>3

\* What a group needs, as the property counts it.
LEMMA NeedIs ==
  ASSUME NEW g \in Groups
  PROVE  Need(g) = (CASE Strategy[g] = "all"    -> Cardinality(Kids(g))
                      [] Strategy[g] = "race"   -> 1
                      [] Strategy[g] = "quorum" -> Quorum[g])
  BY DEF Need

\* Under a completed group nothing is open, and its winners are its first ones.
LEMMA CountsFollow ==
  ASSUME CInv, Won, WithinLimits
  PROVE  CountsAreRight
<1>1. ASSUME NEW g \in Groups, group[g] = "completed", NEW l \in Leaves, inst[l] \in Open, g \in Path[l]
      PROVE  FALSE
  <2>1. g \in Path[Parent[l]]
    BY <1>1, TreeFacts, GroupsAbove, TreeAssumption
  <2> QED BY <1>1, <2>1, LeafChain DEF CInv, CoherentTree
<1>2. WinnersAreFirst
  BY <1>1, NeedIs DEF WinnersAreFirst, Won
<1> QED BY <1>2 DEF CountsAreRight

\* In a plain tree frames, groups and members agree whenever a batch is planned, a
\* finished Run is settled down to its leaves, and no group runs more members at a time
\* than its limit (validateGroupMemberIdentity, requireGroupOwnerFrame, groupsAdmit).
THEOREM GroupsAgree == NestedPlain /\ Spec => []GroupsConsistent
<1>1. NestedPlain /\ Init => WithinLimits
  BY InitLimits
<1>2. CInv /\ WithinLimits /\ [Next]_vars => WithinLimits'
  BY NextWithinLimits
<1>3. CInv /\ WithinLimits => GroupsConsistent
  BY SettledRun DEF GroupsConsistent, CInv, CoherentTree
<1> QED BY <1>1, <1>2, <1>3, Coherence, PTL DEF Spec

\* In a plain tree a completed group accepts exactly its first completed members, as many
\* as its strategy asks for, and leaves no work open under the others (CompleteGroups in
\* group-policy.ts, startReadyAncestorMembers).
THEOREM RightCounts == NestedPlain /\ Spec => []CountsAreRight
<1>1. NestedPlain /\ Init => WithinLimits /\ Won
  BY InitLimits DEF Init, Won
<1>2. CInv /\ WithinLimits /\ Won /\ [Next]_vars => WithinLimits' /\ Won'
  BY NextWithinLimits, NextWon
<1>3. CInv /\ WithinLimits /\ Won => CountsAreRight
  BY CountsFollow
<1> QED BY <1>1, <1>2, <1>3, Coherence, PTL DEF Spec

-----------------------------------------------------------------------------
(* There is always something to run                                         *)

\* A group that is undecided has a member left to run.
LEMMA OpenKid ==
  ASSUME TypeOK, NEW g \in Groups, Outcome(g) = "running"
  PROVE  \E k \in Kids(g) : member[k] \in Open
<1> DEFINE In(S) == {n \in Kids(g) : member[n] \in S}
<1>1. \A n \in Kids(g) : member[n] \in {"completed", "failed"} \union Reasons \union Open
  BY DEF TypeOK, Kids, Status, Settled
<1>2. SUFFICES ASSUME In(Open) = {} PROVE FALSE
  OBVIOUS
<1>3. CASE Strategy[g] = "all"
  <2>1. In({"failed"} \union Reasons) = {} /\ In({"completed"}) # Kids(g)
    BY <1>3 DEF Outcome
  <2> QED BY <1>1, <1>2, <2>1
<1>4. CASE Strategy[g] = "race"
  BY <1>2, <1>4 DEF Outcome
<1>5. CASE Strategy[g] = "quorum"
  <2>1. /\ ~ (Cardinality(In({"completed"})) >= Quorum[g])
        /\ ~ (Cardinality(In({"completed"} \union Open)) < Quorum[g])
    BY <1>5 DEF Outcome
  <2>2. In({"completed"} \union Open) = In({"completed"})
    BY <1>2
  <2>3. Cardinality(In({"completed"})) \in Nat /\ Quorum[g] \in Nat
    <3>1. In({"completed"}) \subseteq Members
      BY DEF Kids
    <3> QED BY <3>1, TreeFacts, FS_Subset, FS_CardinalityType, BoundAssumption
  <2> HIDE DEF In
  <2> QED BY <2>1, <2>2, <2>3
<1> QED BY <1>3, <1>4, <1>5, BoundAssumption

\* no group on the way to node n is decided, closed or busy with another member
Clear(n) ==
  \A m \in Line(n) : /\ member[m] \in Open /\ group[Parent[m]] = "running"
                     /\ member[m] = "running" \/ RunningKids(Parent[m]) = {}

\* From a running group the clear way goes on down.
LEMMA ClearBelow ==
  ASSUME TypeOK, FramesAgree, Batch = {}, NEW g \in Groups, Clear(g), group[g] = "running"
  PROVE  \E k \in Kids(g) : Clear(k) /\ member[k] \in Open
<1>1. Outcome(g) = "running"
  BY BatchOfDecided DEF Decided
<1>2. PICK k \in Kids(g) : member[k] \in Open /\ (member[k] = "running" \/ RunningKids(g) = {})
  <2>1. CASE RunningKids(g) = {}
    BY <1>1, <2>1, OpenKid
  <2>2. CASE RunningKids(g) # {}
    BY <2>2 DEF RunningKids, Open
  <2> QED BY <2>1, <2>2
<1>3. k \in Members /\ Parent[k] = g /\ k # Root
  BY DEF Kids, Members
<1>4. Line(k) = {k} \union Line(g)
  BY <1>3, GroupsAbove DEF Line
<1>5. Clear(k)
  BY <1>2, <1>3, <1>4 DEF Clear
<1> QED BY <1>2, <1>5

\* In a tree that rests there is a clear way from Root to a leaf.
LEMMA ClearLeaf ==
  ASSUME TypeOK, FramesAgree, Statuses, run = "active", Quiet
  PROVE  \E l \in Leaves : Clear(l) /\ inst[l] \in Open
<1> DEFINE S == {n \in Nodes : Clear(n) /\ (n \in Groups => group[n] = "running")}
<1>a. Batch = {} /\ FramesQuiet /\ ~ RootReady
  BY DEF Quiet
<1>b. \A g \in Groups : gframe[g] \in Settled \union {"running"} /\ group[g] \in Settled \union {"running"}
  BY DEF TypeOK, Statuses, Status, Open
<1>1. group[Root] = "running"
  <2>1. gframe[Root] = "running"
    BY <1>a, <1>b, TreeAssumption DEF RootReady, Terminal
  <2> QED BY <1>a, <1>b, <2>1, TreeAssumption DEF FramesQuiet, GroupReady
<1>2. ASSUME NEW k \in Members, member[k] \in Open
      PROVE  /\ k \in Leaves => inst[k] \in Open
             /\ k \in Groups => group[k] = "running"
  <2>1. branch[k] = "running" /\ ~ BranchReady(k)
    BY <1>a, <1>2 DEF FramesAgree, FramesQuiet
  <2>2. Child(k) \notin Settled
    BY <2>1 DEF BranchReady
  <2>3. k \in Leaves => inst[k] \in Open
    BY <2>2 DEF Child, TypeOK, Status
  <2>4. ASSUME k \in Groups PROVE group[k] = "running"
    <3>1. gframe[k] = "running"
      BY <1>b, <2>2, <2>4, TreeAssumption DEF Child
    <3> QED BY <1>a, <1>b, <2>4, <3>1 DEF FramesQuiet, GroupReady
  <2> QED BY <2>3, <2>4
<1>3. Root \in S
  BY <1>1, TreeAssumption DEF Clear, Line, Nodes
<1>4. PICK n \in S : \A m \in S : Depth(m) <= Depth(n)
  <2>1. S \subseteq Nodes /\ S # {}
    BY <1>3
  <2> HIDE DEF S
  <2> QED BY <2>1, DepthFacts
<1>5. n \notin Groups
  <2> SUFFICES ASSUME n \in Groups PROVE FALSE
    OBVIOUS
  <2>1. PICK k \in Kids(n) : Clear(k) /\ member[k] \in Open
    BY <1>a, <1>4, ClearBelow
  <2>2. k \in Members /\ Parent[k] = n /\ k \in Nodes
    BY TreeFacts DEF Kids
  <2>3. k \in S
    BY <1>2, <2>1, <2>2
  <2>4. n \in Path[k] /\ n # k
    BY <2>2, GroupsAbove, PathFacts
  <2>5. Depth(n) < Depth(k) /\ Depth(n) \in Nat /\ Depth(k) \in Nat
    BY <2>2, <2>4, Deeper
  <2>6. Depth(k) <= Depth(n)
    BY <1>4, <2>3
  <2> QED BY <2>5, <2>6
<1>6. n \in Leaves /\ n \in Members /\ Clear(n)
  BY <1>4, <1>5, TreeFacts DEF Nodes
<1>7. member[n] \in Open
  BY <1>6, GroupsAbove DEF Clear
<1> QED BY <1>2, <1>6, <1>7

\* What the driver finds at the end of it.
LEMMA FoundWork ==
  ASSUME CInv
  PROVE  NeverIdle
<1> SUFFICES ASSUME run = "active", Quiet, AllStarted = {}, NEW l \in Leaves, Clear(l), inst[l] \in Open
             PROVE  \/ \E x \in Leaves : Admits(x)
                    \/ \E x \in Signals : wait[x] \in OpenWait
  BY ClearLeaf DEF NeverIdle, CInv, IInv, CoherentTree
<1>a. TypeOK /\ OneStartedAttempt /\ WaitsAgree /\ Statuses
  BY DEF CInv, IInv, CoherentTree
<1>1. CASE inst[l] = "running"
  <2>1. PICK k \in Tries : Started(l, k)
    BY <1>1, <1>a DEF OneStartedAttempt
  <2>2. <<l, k>> \in AllStarted
    BY <2>1 DEF AllStarted
  <2> QED BY <2>2
<1>2. CASE inst[l] = "awaiting"
  <2>1. l \in Signals
    BY <1>2, <1>a DEF Statuses
  <2>2. wait[l] \in OpenWait
    BY <1>2, <1>a, <2>1 DEF WaitsAgree, TypeOK, Reasons
  <2> QED BY <2>1, <2>2
<1>3. CASE inst[l] = "ready"
  <2>1. Cardinality({}) = 0
    BY FS_EmptySet
  <2>2. Cardinality(AllStarted) < MaxLeaf
    BY <2>1, BoundAssumption
  <2>3. ASSUME NEW n \in Line(l)
        PROVE  /\ member[n] \in Open /\ group[Parent[n]] = "running"
               /\ \/ member[n] = "running"
                  \/ Cardinality({m \in Kids(Parent[n]) : member[m] = "running"}) < Cap[Parent[n]]
    <3>1. Parent[n] \in Groups
      BY LineFacts, GroupsAbove DEF Nodes
    <3>2. 0 < Cap[Parent[n]]
      BY <3>1, BoundAssumption
    <3> QED BY <2>1, <3>2 DEF Clear, RunningKids
  <2>4. Admits(l)
    BY <1>3, <2>2, <2>3 DEF Admits, GroupsAdmit
  <2> QED BY <2>4
<1> QED BY <1>1, <1>2, <1>3 DEF Open

\* In a plain tree a Run never rests with nothing to do: when nothing is started and
\* nothing more follows from the projection, a leaf can be admitted or a Signal waits, so
\* the driver never meets a Run that is "non-terminal without active work or a durable
\* wake source" (runExecutionExit, selectNextAdmission).
THEOREM NeverIdles == NestedPlain /\ Spec => []NeverIdle
<1>1. CInv => NeverIdle
  BY FoundWork
<1> QED BY <1>1, Coherence, PTL

-----------------------------------------------------------------------------
(* The pump drives the store by the store's own transactions.               *)

LEMMA PumpInitStore == PumpInit => Init
  BY DEF PumpInit

LEMMA NothingHeldType ==
  /\ NoSnap \in [run : {"none", "active", "paused"} \union Terminal,
                 started : SUBSET (Leaves \X Tries), admits : SUBSET Leaves]
  /\ NoExec \in [Leaves -> [Tries -> {"none"} \union Live \union Over]]
  /\ 0 \in Epochs
  BY BoundAssumption DEF NoSnap, NoExec, Epochs

LEMMA PumpStepType ==
  ASSUME PumpTypeOK, TypeOK', PumpStep
  PROVE  PumpTypeOK'
<1> USE ControlAssumption, BoundAssumption
    DEF PumpTypeOK, local, desk, Live, Over, NoExec, NoSnap
<1>0. Abort(exec, Active \ snap.started) \in [Leaves -> [Tries -> {"none"} \union Live \union Over]]
      /\ AbortAll \in [Leaves -> [Tries -> {"none"} \union Live \union Over]]
  BY DEF Abort, AbortAll
<1>1. CASE StartPump
  BY <1>1 DEF StartPump, ClaimRun, TypeOK
<1>2. CASE DrainStep
  BY <1>2 DEF DrainStep
<1>3. CASE DrainLost
  BY <1>3, <1>0 DEF DrainLost
<1>4. CASE DrainEnds
  <2>1. {l \in Leaves : Admits(l)} \in SUBSET Leaves /\ AllStarted \in SUBSET (Leaves \X Tries)
    BY DEF AllStarted
  <2>2. [run |-> run, started |-> AllStarted, admits |-> {l \in Leaves : Admits(l)}] \in
          [run : {"none", "active", "paused"} \union Terminal,
           started : SUBSET (Leaves \X Tries), admits : SUBSET Leaves]
    BY <2>1 DEF TypeOK
  <2>3. snap' \in [run : {"none", "active", "paused"} \union Terminal,
                   started : SUBSET (Leaves \X Tries), admits : SUBSET Leaves]
    BY <1>4, <2>2 DEF DrainEnds
  <2>4. fresh' \in BOOLEAN
    BY <1>4 DEF DrainEnds
  <2>5. pc' \in {"recover", "settle"} /\ UNCHANGED <<mine, exec, woken, lost, ctl, used, fenced, other>>
    BY <1>4 DEF DrainEnds
  <2> QED BY <2>3, <2>4, <2>5
<1>5. CASE RecoverExpired
  <2>1. pc' \in {"recover", "leaving", "turn"} /\ UNCHANGED <<mine, exec, snap, fresh, woken, lost, ctl, used, other>>
    BY <1>5 DEF RecoverExpired
  <2>2. fenced' \in BOOLEAN
    BY <1>5 DEF RecoverExpired
  <2> QED BY <2>1, <2>2
<1>6. CASE Turn
  <2>1. exec' = exec \/ exec' = AbortAll
    BY <1>6, Zenon DEF Turn
  <2>2. exec' \in [Leaves -> [Tries -> {"none"} \union Live \union Over]]
    BY <1>0, <2>1
  <2> QED BY <1>6, <2>2 DEF Turn
<1>7. ASSUME NEW l \in Leaves, NEW k \in Tries, Collect(l, k) PROVE PumpTypeOK'
  <2>1. /\ pc' \in {"aborted", "turn"} /\ mine' = mine /\ snap' = snap /\ fresh' = fresh
        /\ woken' = woken /\ ctl' = ctl /\ used' = used /\ other' = other
    BY <1>7 DEF Collect
  <2>2. lost' \in BOOLEAN /\ fenced' \in BOOLEAN
    BY <1>7 DEF Collect
  <2>3. exec' \in [Leaves -> [Tries -> {"none"} \union Live \union Over]]
    BY <1>7, <1>0 DEF Collect, Stopped
  <2> QED BY <2>1, <2>2, <2>3
<1>8. CASE Return
  BY <1>8, <1>0 DEF Return
<1>9. CASE Idle
  BY <1>9, <1>0 DEF Idle, Stopped
<1>10. CASE Awaken
  BY <1>10 DEF Awaken
<1>11. CASE Leave
  <2>1. exec' \in [Leaves -> [Tries -> {"none"} \union Live \union Over]]
    BY <1>11 DEF Leave
  <2>2. fresh' \in BOOLEAN /\ woken' \in BOOLEAN /\ lost' \in BOOLEAN
    BY <1>11 DEF Leave
  <2>6. snap' \in [run : {"none", "active", "paused"} \union Terminal,
                   started : SUBSET (Leaves \X Tries), admits : SUBSET Leaves]
    BY <1>11 DEF Leave
  <2>7. mine' \in Epochs
    BY <1>11 DEF Leave, Epochs
  <2>3. pc' = "off" /\ used' = used /\ other' = other
    BY <1>11 DEF Leave
  <2>4. ctl' \in {"idle", "await", "ended", "claimed", "applied"}
    BY <1>11 DEF Leave
  <2>5. fenced' \in BOOLEAN
    BY <1>11 DEF Leave
  <2> QED BY <2>1, <2>2, <2>3, <2>4, <2>5, <2>6, <2>7
<1>12. CASE Interrupting
  BY <1>12, <1>0 DEF Interrupting
<1>13. ASSUME NEW l \in Leaves, Admit(l) PROVE PumpTypeOK'
  <2>1. CASE exec' = Stopped
    BY <1>13, <2>1, <1>0 DEF Admit, Stopped
  <2>2. CASE /\ StartAttempt(l) /\ fenced' = FALSE /\ UNCHANGED lost
             /\ exec' = [Stopped EXCEPT ![l][Cardinality(Used(l)) + 1] = "running"]
    <3>1. Cardinality(Used(l)) + 1 \in Tries
      BY <2>2 DEF StartAttempt
    <3>2. exec' \in [Leaves -> [Tries -> {"none"} \union Live \union Over]]
      BY <2>2, <3>1, <1>0 DEF Stopped
    <3>3. pc' = "turn" /\ UNCHANGED <<mine, snap, fresh, woken, ctl, used, other>>
      BY <1>13 DEF Admit
    <3>4. lost' \in BOOLEAN /\ fenced' \in BOOLEAN
      BY <2>2
    <3> QED BY <3>2, <3>3, <3>4
  <2> QED BY <1>13, <2>1, <2>2 DEF Admit
<1> QED BY <1>1, <1>2, <1>3, <1>4, <1>5, <1>6, <1>7, <1>8, <1>9, <1>10, <1>11, <1>12, <1>13
        DEF PumpStep

LEMMA WorldStepType ==
  ASSUME PumpTypeOK, TypeOK', PumpNext, ~PumpStep
  PROVE  PumpTypeOK'
<1> USE ControlAssumption, BoundAssumption
    DEF PumpTypeOK, local, desk, Live, Over, NoExec, NoSnap, Disturb
<1>0. AbortAll \in [Leaves -> [Tries -> {"none"} \union Live \union Over]]
  BY DEF Abort, AbortAll
<1>1. CASE Heartbeat
  BY <1>1, <1>0 DEF Heartbeat
<1>2. ASSUME NEW l \in Leaves, NEW k \in Tries, ExecutionEnds(l, k) \/ Deadline(l, k)
      PROVE  PumpTypeOK'
  BY <1>2 DEF ExecutionEnds, Deadline
<1>3. CASE SessionControl
  <2>1. /\ ctl' \in {"idle", "await"} /\ pc' \in {pc, "leaving"}
        /\ UNCHANGED <<mine, exec, snap, lost, other>>
    BY <1>3 DEF SessionControl, ControlPlace
  <2>2. used' \in 0 .. MaxControls
    <3>1. used < MaxControls /\ used' = used + 1
      BY <1>3 DEF SessionControl
    <3> QED BY <3>1
  <2>3. woken' \in BOOLEAN /\ fresh' \in BOOLEAN /\ fenced' \in BOOLEAN
    BY <1>3 DEF SessionControl, ControlPlace
  <2> QED BY <2>1, <2>2, <2>3
<1>4. CASE ShortClaim
  <2>1. used' \in 0 .. MaxControls /\ ctl' = "claimed"
    BY <1>4 DEF ShortClaim
  <2>2. other' \in BOOLEAN /\ UNCHANGED <<local, fenced>>
    BY <1>4 DEF ShortClaim
  <2> QED BY <2>1, <2>2
<1>5. CASE ShortApply
  <2>1. /\ ctl' = "applied" /\ fresh' = FALSE /\ fenced' = FALSE
        /\ UNCHANGED <<pc, mine, exec, snap, woken, lost, used, other>>
    BY <1>5 DEF ShortApply
  <2> QED BY <2>1
<1>6. CASE Lapse
  BY <1>6 DEF Lapse
<1>7. CASE OtherClaim
  BY <1>7 DEF OtherClaim
<1>8. CASE OtherStep
  <2>1. /\ fresh' \in BOOLEAN /\ fenced' \in BOOLEAN
        /\ UNCHANGED <<pc, mine, exec, snap, woken, lost, ctl, used, other>>
    BY <1>8 DEF OtherStep
  <2> QED BY <2>1
<1>9. CASE Crash
  <2>1. pc' = "off" /\ mine' = 0 /\ exec' = NoExec /\ snap' = NoSnap /\ ctl' = "idle"
        /\ UNCHANGED <<used, other>>
    BY <1>9 DEF Crash
  <2>2. fresh' \in BOOLEAN /\ woken' \in BOOLEAN /\ lost' \in BOOLEAN /\ fenced' \in BOOLEAN
    BY <1>9 DEF Crash
  <2>3. /\ mine' \in Epochs
        /\ exec' \in [Leaves -> [Tries -> {"none"} \union Live \union Over]]
        /\ snap' \in [run : {"none", "active", "paused"} \union Terminal,
                      started : SUBSET (Leaves \X Tries), admits : SUBSET Leaves]
    BY <2>1, NothingHeldType
  <2> QED BY <2>1, <2>2, <2>3
<1>10. CASE DeskStep
  BY <1>10 DEF DeskStep, Awaited, ShortRelease
<1> QED BY <1>1, <1>2, <1>3, <1>4, <1>5, <1>6, <1>7, <1>8, <1>9, <1>10 DEF PumpNext

LEMMA PumpNextStore ==
  ASSUME PumpTypeOK, PumpNext
  PROVE  [Next]_vars
<1> USE DEF PumpTypeOK, Next, Ownership, Execution, Control
<1>1. CASE PumpStep
  <2>1. CASE StartPump \/ Leave
    BY <2>1 DEF StartPump, Leave
  <2>2. CASE DrainStep
    BY <2>2 DEF DrainStep
  <2>3. CASE DrainLost \/ DrainEnds \/ Turn \/ Return \/ Idle \/ Awaken \/ Interrupting
    BY <2>3 DEF DrainLost, DrainEnds, Turn, Return, Idle, Awaken, Interrupting
  <2>4. CASE RecoverExpired
    <3>1. CASE UNCHANGED vars
      BY <3>1
    <3>2. ASSUME NEW x \in Foreign, SupersedeExpired(own[x[1]][x[2]]) PROVE Next
      <4>1. own[x[1]][x[2]] \in Epochs
        BY DEF Foreign, AllStarted, TypeOK
      <4> QED BY <3>2, <4>1
    <3> QED BY <2>4, <3>1, <3>2 DEF RecoverExpired
  <2>5. ASSUME NEW l \in Leaves, NEW k \in Tries, Collect(l, k) PROVE [Next]_vars
    <3>1. CASE CommitResult(l, k, mine, exec[l][k]) /\ exec[l][k] # "aborted"
      <4>1. exec[l][k] \in {"completed", "failed"}
        BY <2>5, <3>1 DEF Collect, Over
      <4> QED BY <3>1, <4>1
    <3> QED BY <2>5, <3>1 DEF Collect
  <2>6. ASSUME NEW l \in Leaves, Admit(l) PROVE [Next]_vars
    BY <2>6 DEF Admit
  <2> QED BY <1>1, <2>1, <2>2, <2>3, <2>4, <2>5, <2>6 DEF PumpStep
<1>2. CASE DeskStep \/ Heartbeat \/ Lapse \/ OtherClaim \/ Crash \/ ShortClaim
  BY <1>2 DEF DeskStep, Awaited, ShortRelease, Heartbeat, Lapse, OtherClaim, Crash, ShortClaim
<1>3. ASSUME NEW l \in Leaves, NEW k \in Tries, ExecutionEnds(l, k) \/ Deadline(l, k)
      PROVE  [Next]_vars
  BY <1>3 DEF ExecutionEnds, Deadline
<1>4. CASE SessionControl
  BY <1>4 DEF SessionControl
<1>5. CASE ShortApply
  BY <1>5 DEF ShortApply
<1>6. CASE OtherStep
  BY <1>6 DEF OtherStep
<1> QED BY <1>1, <1>2, <1>3, <1>4, <1>5, <1>6 DEF PumpNext

LEMMA PumpInitType == PumpInit => PumpTypeOK
<1> SUFFICES ASSUME PumpInit PROVE PumpTypeOK
  OBVIOUS
<1>1. TypeOK
  BY PumpInitStore, InitType
<1>2. /\ snap \in [run : {"none", "active", "paused"} \union Terminal,
                   started : SUBSET (Leaves \X Tries), admits : SUBSET Leaves]
      /\ exec \in [Leaves -> [Tries -> {"none"} \union Live \union Over]]
  BY NothingHeldType DEF PumpInit
<1>3. pc = "off" /\ mine = 0 /\ ctl = "idle" /\ used = 0
  BY DEF PumpInit
<1>4. fresh \in BOOLEAN /\ woken \in BOOLEAN /\ lost \in BOOLEAN
      /\ fenced \in BOOLEAN /\ other \in BOOLEAN
  BY DEF PumpInit
<1>5. 0 \in 0 .. MaxControls /\ 0 \in Epochs
  BY ControlAssumption, NothingHeldType
<1> QED BY <1>1, <1>2, <1>3, <1>4, <1>5 DEF PumpTypeOK

LEMMA PumpNextType ==
  ASSUME PumpTypeOK, [PumpNext]_pvars
  PROVE  PumpTypeOK' /\ [Next]_vars
<1>1. CASE PumpNext
  <2>1. TypeOK'
    BY <1>1, PumpNextStore, NextType DEF PumpTypeOK
  <2> QED BY <1>1, <2>1, PumpStepType, WorldStepType, PumpNextStore
<1>2. CASE UNCHANGED pvars
  BY <1>2 DEF pvars, local, desk, vars, PumpTypeOK, TypeOK
<1> QED BY <1>1, <1>2

\* Every state of a driven Run is well typed.
THEOREM PumpTypeCorrect == PumpSpec => []PumpTypeOK
  BY PumpInitType, PumpNextType, PTL DEF PumpSpec

\* Whatever the pump, the controls and the other processes do to the projection is
\* a transaction of the store, so all that is proved of RunStore holds here too.
THEOREM PumpUsesStore == PumpSpec => Spec
  BY PumpInitStore, PumpNextType, PumpTypeCorrect, PTL DEF PumpSpec, Spec

-----------------------------------------------------------------------------
(* Who owns the Run                                                         *)

Sessions ==
  /\ mine <= epoch
  /\ pc \in {"off", "drain", "recover"} => exec = NoExec
  /\ Short => pc = "off" /\ Owned /\ ~other
  /\ other => mine < epoch

LEMMA PumpInitSessions == PumpInit => Sessions
  BY DEF PumpInit, Init, Sessions, Short

LEMMA AbortFacts ==
  ASSUME PumpTypeOK, NEW S
  PROVE  /\ \A l \in Leaves, k \in Tries :
              \/ Abort(exec, S)[l][k] = exec[l][k]
              \/ exec[l][k] = "running" /\ Abort(exec, S)[l][k] = "interrupted"
         /\ exec = NoExec => Abort(exec, S) = NoExec
<1>1. \A l \in Leaves, k \in Tries :
        \/ Abort(exec, S)[l][k] = exec[l][k]
        \/ exec[l][k] = "running" /\ Abort(exec, S)[l][k] = "interrupted"
  BY DEF Abort
<1>2. ASSUME exec = NoExec PROVE Abort(exec, S) = NoExec
  <2>1. \A l \in Leaves, k \in Tries : exec[l][k] = "none"
    BY <1>2 DEF NoExec
  <2>2. Abort(exec, S) = [l \in Leaves |-> [k \in Tries |-> "none"]]
    BY <2>1 DEF Abort
  <2> QED BY <2>2 DEF NoExec
<1> QED BY <1>1, <1>2

LEMMA NextSessions ==
  ASSUME PumpTypeOK, Sessions, PumpNext
  PROVE  Sessions'
<1> USE DEF PumpTypeOK, TypeOK, Epochs, local, desk, vars, owner, proj, Owned, Short
<1>e. epoch \in Nat /\ mine \in Nat
  BY BoundAssumption
<1>o. /\ epoch' = epoch \/ epoch' = epoch + 1
      /\ lease = "held" => epoch' = epoch
  BY PumpNextStore, OwnerAndRunStep
<1>m. mine' \in {0, mine} \/ StartPump
  <2>1. ASSUME NEW l \in Leaves, NEW k \in Tries, Collect(l, k) \/ Admit(l) PROVE mine' = mine
    BY <2>1 DEF Collect, Admit
  <2>2. ASSUME NEW l \in Leaves, NEW k \in Tries, ExecutionEnds(l, k) \/ Deadline(l, k)
        PROVE  mine' = mine
    BY <2>2 DEF ExecutionEnds, Deadline
  <2>3. CASE StartPump \/ Leave \/ Crash
    BY <2>3 DEF StartPump, Leave, Crash
  <2>4. CASE DrainStep \/ DrainLost \/ DrainEnds \/ RecoverExpired \/ Turn \/ Return
    BY <2>4 DEF DrainStep, DrainLost, DrainEnds, RecoverExpired, Turn, Return
  <2>5. CASE Idle \/ Awaken \/ Interrupting \/ Heartbeat \/ DeskStep
    BY <2>5 DEF Idle, Awaken, Interrupting, Heartbeat, DeskStep, Awaited, ShortRelease
  <2>6. CASE SessionControl \/ ShortClaim \/ ShortApply \/ Lapse \/ OtherClaim \/ OtherStep
    BY <2>6 DEF SessionControl, ShortClaim, ShortApply, Lapse, OtherClaim, OtherStep
  <2>7. ASSUME NEW l \in Leaves, Admit(l) PROVE mine' = mine
    BY <2>7 DEF Admit
  <2> QED BY <2>1, <2>2, <2>3, <2>4, <2>5, <2>6, <2>7 DEF PumpNext, PumpStep
<1>1. mine' <= epoch'
  BY <1>m, <1>e, <1>o DEF Sessions, StartPump, ClaimRun
<1>2. ASSUME pc' \in {"off", "drain", "recover"} PROVE exec' = NoExec
  <2>1. exec = NoExec \/ exec' = NoExec
    <3>1. CASE pc \in {"off", "drain", "recover"}
      BY <3>1 DEF Sessions
    <3>2. CASE pc \notin {"off", "drain", "recover"}
      <4>1. ASSUME NEW l \in Leaves, NEW k \in Tries, ExecutionEnds(l, k) \/ Deadline(l, k)
            PROVE  FALSE
        BY <1>2, <3>2, <4>1 DEF ExecutionEnds, Deadline
      <4>2. CASE Leave \/ Crash
        BY <4>2 DEF Leave, Crash
      <4>3. ~ PumpStep \/ Leave
        BY <1>2, <3>2 DEF PumpStep, StartPump, DrainStep, DrainLost, DrainEnds, RecoverExpired,
                          Turn, Collect, Return, Idle, Awaken, Interrupting, Admit
      <4>4. ~ (DeskStep \/ Heartbeat \/ Lapse \/ OtherClaim \/ OtherStep \/ ShortClaim \/ ShortApply)
        BY <1>2, <3>2 DEF DeskStep, Awaited, ShortRelease, Heartbeat, Lapse, OtherClaim,
                          OtherStep, ShortClaim, ShortApply
      <4>5. ~ SessionControl
        BY <1>2, <3>2 DEF SessionControl, ControlPlace
      <4> QED BY <4>1, <4>2, <4>3, <4>4, <4>5 DEF PumpNext
    <3> QED BY <3>1, <3>2
  <2>2. ASSUME exec = NoExec, exec' # NoExec PROVE FALSE
    <3>1. Abort(exec, Active \ snap.started) = NoExec /\ AbortAll = NoExec
      BY <2>2, AbortFacts DEF AbortAll
    <3>2. \A l \in Leaves, k \in Tries : exec[l][k] = "none"
      BY <2>2 DEF NoExec
    <3>3. ASSUME NEW l \in Leaves, NEW k \in Tries, Collect(l, k) \/ ExecutionEnds(l, k) PROVE FALSE
      BY <3>2, <3>3 DEF Collect, ExecutionEnds, Live, Over
    <3>4. /\ \A l \in Leaves : ~ Admit(l)
          /\ \A l \in Leaves, k \in Tries : ~ Deadline(l, k)
      BY <1>2, <2>2 DEF Admit, Deadline
    <3>5. ~ PumpStep
      BY <2>2, <3>1, <3>3, <3>4
         DEF PumpStep, StartPump, DrainStep, DrainLost, DrainEnds, RecoverExpired,
             Turn, Return, Idle, Awaken, Leave, Interrupting, Stopped, Admit
    <3> QED BY <2>2, <3>1, <3>3, <3>4, <3>5
            DEF PumpNext, DeskStep, Awaited, ShortRelease, Heartbeat, Lapse, OtherClaim,
                OtherStep, ShortClaim, ShortApply, SessionControl, Crash
  <2> QED BY <2>1, <2>2
<1>3. ASSUME Short' PROVE pc' = "off" /\ lease' = "held" /\ other' = FALSE
  <2>1. CASE ShortClaim
    BY <1>3, <2>1 DEF ShortClaim, ClaimRun
  <2>2. CASE ~ShortClaim
    <3>1. Short
      <4>1. ~ SessionControl
        BY <1>3 DEF SessionControl, ControlPlace
      <4>2. ~ Leave \/ Short
        BY <1>3 DEF Leave
      <4> QED BY <1>3, <2>2, <4>1, <4>2
              DEF PumpNext, PumpStep, StartPump, DrainStep, DrainLost, DrainEnds, RecoverExpired,
                  Turn, Collect, Return, Idle, Awaken, Interrupting, Admit, ExecutionEnds,
                  Deadline, DeskStep, Awaited, ShortRelease, Heartbeat, Lapse, OtherClaim,
                  OtherStep, ShortApply, Crash
    <3>2. pc = "off" /\ lease = "held" /\ other = FALSE
      BY <3>1 DEF Sessions
    <3>3. ~ PumpStep
      BY <3>2 DEF PumpStep, StartPump, ClaimRun, DrainStep, DrainLost, DrainEnds, RecoverExpired,
                  Turn, Collect, Return, Idle, Awaken, Leave, Interrupting, Admit
    <3>4. ~ (Heartbeat \/ OtherClaim \/ OtherStep \/ Lapse \/ DeskStep \/ Crash)
      BY <1>3, <3>1, <3>2 DEF Heartbeat, OtherClaim, ClaimRun, OtherStep, Lapse, DeskStep,
                              Awaited, ShortRelease, Crash
    <3>5. ~ SessionControl
      BY <1>3 DEF SessionControl, ControlPlace
    <3>6. CASE ShortApply
      BY <3>2, <3>6 DEF ShortApply, Pause, Resume, CancelRun, CancelLeaf, RetryLeaf
    <3>7. ASSUME NEW l \in Leaves, NEW k \in Tries, ExecutionEnds(l, k) \/ Deadline(l, k)
          PROVE  pc' = "off" /\ lease' = "held" /\ other' = FALSE
      BY <3>2, <3>7 DEF ExecutionEnds, Deadline, DeadlinePasses
    <3> QED BY <2>2, <3>3, <3>4, <3>5, <3>6, <3>7 DEF PumpNext
  <2> QED BY <2>1, <2>2
<1>4. ASSUME other' = TRUE PROVE mine' < epoch'
  <2>1. CASE OtherClaim
    BY <1>e, <2>1 DEF OtherClaim, ClaimRun, Sessions
  <2>2. CASE ~OtherClaim
    <3>1. ASSUME NEW l \in Leaves, NEW k \in Tries,
                 Collect(l, k) \/ ExecutionEnds(l, k) \/ Deadline(l, k)
          PROVE  other = TRUE
      BY <1>4, <3>1 DEF Collect, ExecutionEnds, Deadline
    <3>2. ASSUME PumpStep, \A l \in Leaves, k \in Tries : ~Collect(l, k) PROVE other = TRUE
      BY <1>4, <3>2 DEF PumpStep, StartPump, DrainStep, DrainLost, DrainEnds, RecoverExpired,
                        Turn, Return, Idle, Awaken, Leave, Interrupting, Admit
    <3>3. ASSUME DeskStep \/ Heartbeat \/ Lapse \/ OtherStep \/ ShortClaim \/ ShortApply \/ Crash
          PROVE  other = TRUE
      BY <1>4, <3>3 DEF DeskStep, Awaited, ShortRelease, Heartbeat, Lapse, OtherStep,
                        ShortClaim, ShortApply, Crash
    <3>4. ASSUME SessionControl PROVE other = TRUE
      BY <1>4, <3>4 DEF SessionControl
    <3>5. other = TRUE /\ ~StartPump
      BY <1>4, <2>2, <3>1, <3>2, <3>3, <3>4 DEF PumpNext, StartPump
    <3> QED BY <3>5, <1>m, <1>e, <1>o DEF Sessions
  <2> QED BY <2>1, <2>2
<1> QED BY <1>1, <1>2, <1>3, <1>4 DEF Sessions

\* While this process holds the lease nobody else does, so ownership is kept.
LEMMA OwnerHere ==
  ASSUME PumpTypeOK, OwnedSoFar, OwnedSoFar', Sessions, PumpNext, MineHeld'
  PROVE  StartPump \/ (MineHeld /\ mine' = mine /\ epoch' = epoch)
<1> USE DEF PumpTypeOK, TypeOK, Epochs, MineHeld, Owned
<1>1. epoch \in Nat /\ mine \in Nat /\ mine <= epoch /\ epoch' > 0
  BY BoundAssumption DEF Sessions, OwnedSoFar
<1>2. \/ epoch' = epoch /\ lease = "held"
      \/ epoch' = epoch + 1
  BY PumpNextStore, OwnerAndRunStep
<1>3. CASE StartPump
  BY <1>3
<1>4. CASE ~StartPump
  <2>1. mine' \in {0, mine}
    <3>1. ASSUME NEW l \in Leaves, NEW k \in Tries,
                 Collect(l, k) \/ ExecutionEnds(l, k) \/ Deadline(l, k)
          PROVE  mine' = mine
      BY <3>1 DEF Collect, ExecutionEnds, Deadline, local
    <3>2. ASSUME NEW l \in Leaves, Admit(l) PROVE mine' = mine
      BY <3>2 DEF Admit
    <3>3. CASE DrainStep \/ DrainLost \/ DrainEnds \/ RecoverExpired \/ Turn \/ Return
      BY <3>3 DEF DrainStep, DrainLost, DrainEnds, RecoverExpired, Turn, Return, local
    <3>4. CASE Idle \/ Awaken \/ Interrupting \/ Heartbeat \/ DeskStep \/ Leave \/ Crash
      BY <3>4 DEF Idle, Awaken, Interrupting, Heartbeat, DeskStep, Awaited, ShortRelease,
                  Leave, Crash, local
    <3>5. CASE SessionControl \/ ShortClaim \/ ShortApply \/ Lapse \/ OtherClaim \/ OtherStep
      BY <3>5 DEF SessionControl, ShortClaim, ShortApply, Lapse, OtherClaim, OtherStep, local
    <3> QED BY <1>4, <3>1, <3>2, <3>3, <3>4, <3>5 DEF PumpNext, PumpStep
  <2> QED BY <1>1, <1>2, <2>1
<1> QED BY <1>3, <1>4

\* Only an admission with the present snapshot launches an execution.
Launches(l, k) ==
  /\ pc = "settle" /\ MineHeld /\ mine' = mine /\ StartAttempt(l)
  /\ k = Cardinality(Used(l)) + 1
  /\ \A i \in Leaves, j \in Tries :
       exec'[i][j] \in Live => exec[i][j] \in Live \/ (i = l /\ j = k)

LEMMA NewExecution ==
  ASSUME PumpTypeOK, PumpNext
  PROVE  \/ \A l \in Leaves, k \in Tries : exec'[l][k] \in Live => exec[l][k] \in Live
         \/ \E l \in Leaves, k \in Tries : Admit(l) /\ Launches(l, k)
<1> DEFINE NoNew == \A l \in Leaves, k \in Tries : exec'[l][k] \in Live => exec[l][k] \in Live
<1> USE DEF PumpTypeOK
<1>a. /\ \A S : \A l \in Leaves, k \in Tries : Abort(exec, S)[l][k] \in Live => exec[l][k] \in Live
      /\ \A S : Abort(exec, S) \in [Leaves -> [Tries -> {"none"} \union Live \union Over]]
  <2> SUFFICES ASSUME NEW S
               PROVE /\ \A l \in Leaves, k \in Tries :
                          Abort(exec, S)[l][k] \in Live => exec[l][k] \in Live
                     /\ Abort(exec, S) \in [Leaves -> [Tries -> {"none"} \union Live \union Over]]
    OBVIOUS
  <2>1. Abort(exec, S) \in [Leaves -> [Tries -> {"none"} \union Live \union Over]]
    BY DEF Abort, Live
  <2> QED BY <2>1, AbortFacts DEF Live
<1>1. CASE exec' = exec
  BY <1>1
<1>2. ASSUME exec' = Stopped \/ exec' = AbortAll PROVE NoNew
  BY <1>2, <1>a DEF Stopped, AbortAll
<1>3. CASE exec' = NoExec
  BY <1>3 DEF NoExec, Live
<1>4. ASSUME NEW l \in Leaves, NEW k \in Tries, Collect(l, k) PROVE NoNew
  <2>1. exec' = [Stopped EXCEPT ![l][k] = "none"]
    BY <1>4 DEF Collect
  <2> QED BY <2>1, <1>a DEF Stopped, Live
<1>5. ASSUME NEW l \in Leaves, NEW k \in Tries, ExecutionEnds(l, k) PROVE NoNew
  <2>1. PICK res \in Over : exec' = [exec EXCEPT ![l][k] = res]
    BY <1>5 DEF ExecutionEnds, Over
  <2> QED BY <2>1 DEF Live, Over
<1>6. ASSUME NEW l \in Leaves, Admit(l)
      PROVE  NoNew \/ \E k \in Tries : Launches(l, k)
  <2>1. CASE exec' = Stopped
    BY <1>2, <2>1
  <2>2. CASE /\ MineHeld /\ StartAttempt(l)
             /\ exec' = [Stopped EXCEPT ![l][Cardinality(Used(l)) + 1] = "running"]
    <3>1. PICK k \in Tries : k = Cardinality(Used(l)) + 1
      BY <2>2 DEF StartAttempt
    <3>2. ASSUME NEW i \in Leaves, NEW j \in Tries, exec'[i][j] \in Live, ~(i = l /\ j = k)
          PROVE  exec[i][j] \in Live
      <4>1. exec'[i][j] = Stopped[i][j]
        BY <2>2, <3>1, <3>2, <1>a DEF Stopped
      <4> QED BY <4>1, <3>2, <1>a DEF Stopped
    <3>3. pc = "settle" /\ mine' = mine
      BY <1>6 DEF Admit
    <3> QED BY <2>2, <3>1, <3>2, <3>3 DEF Launches
  <2> QED BY <1>6, <2>1, <2>2 DEF Admit
<1>7. CASE PumpStep
  <2>1. ASSUME \A l \in Leaves, k \in Tries : ~Collect(l, k), \A l \in Leaves : ~Admit(l)
        PROVE  exec' \in {exec, Stopped, AbortAll, NoExec}
    BY <1>7, <2>1 DEF PumpStep, StartPump, DrainStep, DrainLost, DrainEnds, RecoverExpired,
                      Turn, Return, Idle, Awaken, Leave, Interrupting, local
  <2> QED BY <1>1, <1>2, <1>3, <1>4, <1>6, <2>1
<1>8. CASE ~PumpStep
  <2>1. ASSUME \A l \in Leaves, k \in Tries : ~ExecutionEnds(l, k)
        PROVE  exec' \in {exec, AbortAll, NoExec}
    BY <1>8, <2>1 DEF PumpNext, DeskStep, Awaited, ShortRelease, Heartbeat, Lapse, OtherClaim,
                      OtherStep, ShortClaim, ShortApply, SessionControl, Crash, Deadline, local
  <2> QED BY <1>1, <1>2, <1>3, <1>5, <2>1
<1> QED BY <1>7, <1>8

-----------------------------------------------------------------------------
(* Old work first                                                           *)

\* past recovery, every started attempt is of this owner while it is the last one
OldClosed ==
  pc \in {"turn", "draining", "settle", "wait"} /\ epoch = mine =>
    \A x \in AllStarted : own[x[1]][x[2]] = mine

\* An attempt that is started after a step was before, or is of the present owner.
LEMMA StartedAfter ==
  ASSUME IInv, [Next]_vars, NEW l \in Leaves, NEW k \in Tries, Started(l, k)'
  PROVE  \/ Started(l, k) /\ own'[l][k] = own[l][k]
         \/ own'[l][k] = epoch
<1> USE DEF IInv, TypeOK, Started, Running, Closed
<1>1. CASE Keeps(l)
  BY <1>1 DEF Keeps
<1>2. CASE Closes(l)
  BY <1>2 DEF Closes
<1>3. CASE Starts(l)
  <2>1. PICK j \in Tries : /\ att' = [att EXCEPT ![l][j] = "started"]
                           /\ own' = [own EXCEPT ![l][j] = epoch]
    BY <1>3 DEF Starts
  <2> QED BY <2>1
<1>4. CASE Overruns(l)
  BY <1>4 DEF Overruns
<1> QED BY <1>1, <1>2, <1>3, <1>4, LeafStep

LEMMA NextOldClosed ==
  ASSUME IInv, PumpTypeOK, Sessions, OldClosed, PumpNext
  PROVE  OldClosed'
<1> USE DEF PumpTypeOK, TypeOK, Epochs
<1> SUFFICES ASSUME pc' \in {"turn", "draining", "settle", "wait"}, epoch' = mine',
                    NEW l \in Leaves, NEW k \in Tries, Started(l, k)'
             PROVE  own'[l][k] = mine'
  BY DEF OldClosed, AllStarted
<1>a. [Next]_vars
  BY PumpNextStore
<1>1. CASE pc \in {"turn", "draining", "settle", "wait"}
  <2>1. mine' = mine
    <3>1. ASSUME NEW i \in Leaves, NEW j \in Tries,
                 Collect(i, j) \/ ExecutionEnds(i, j) \/ Deadline(i, j)
          PROVE  mine' = mine
      BY <3>1 DEF Collect, ExecutionEnds, Deadline, local
    <3>2. ASSUME NEW i \in Leaves, Admit(i) PROVE mine' = mine
      BY <3>2 DEF Admit
    <3>3. CASE DrainStep \/ DrainLost \/ DrainEnds \/ RecoverExpired \/ Turn \/ Return
      BY <3>3 DEF DrainStep, DrainLost, DrainEnds, RecoverExpired, Turn, Return, local
    <3>4. CASE Idle \/ Awaken \/ Interrupting \/ Heartbeat \/ DeskStep
      BY <3>4 DEF Idle, Awaken, Interrupting, Heartbeat, DeskStep, Awaited, ShortRelease, local
    <3>5. CASE SessionControl \/ ShortClaim \/ ShortApply \/ Lapse \/ OtherClaim \/ OtherStep
      BY <3>5 DEF SessionControl, ShortClaim, ShortApply, Lapse, OtherClaim, OtherStep, local
    <3>6. ~ (StartPump \/ Leave \/ Crash)
      BY <1>1 DEF StartPump, Leave, Crash
    <3> QED BY <3>1, <3>2, <3>3, <3>4, <3>5, <3>6 DEF PumpNext, PumpStep
  <2>2. epoch' = epoch
    BY <1>a, <2>1, OwnerAndRunStep, BoundAssumption DEF Sessions
  <2>3. Started(l, k) => own[l][k] = mine
    <3>1. \A x \in AllStarted : own[x[1]][x[2]] = mine
      BY <1>1, <2>1, <2>2 DEF OldClosed
    <3>2. Started(l, k) => <<l, k>> \in AllStarted
      BY DEF AllStarted
    <3> QED BY <3>1, <3>2
  <2> QED BY <1>a, <2>1, <2>2, <2>3, StartedAfter
<1>2. CASE pc \notin {"turn", "draining", "settle", "wait"}
  <2>1. /\ pc = "recover" /\ Foreign = {} /\ UNCHANGED <<vars, mine>>
    <3>1. ~ SessionControl
      BY <1>2 DEF SessionControl, ControlPlace
    <3>2. CASE RecoverExpired
      BY <1>2, <3>2 DEF RecoverExpired, local
    <3>3. ASSUME NEW i \in Leaves, NEW j \in Tries,
                 Collect(i, j) \/ ExecutionEnds(i, j) \/ Deadline(i, j)
          PROVE  FALSE
      BY <1>2, <3>3 DEF Collect, ExecutionEnds, Deadline, local
    <3>4. \A i \in Leaves : ~ Admit(i)
      BY <1>2 DEF Admit
    <3>5. ~ (StartPump \/ DrainStep \/ DrainLost \/ DrainEnds \/ Turn \/ Return)
      BY <1>2 DEF StartPump, DrainStep, DrainLost, DrainEnds, Turn, Return, local
    <3>6. ~ (Idle \/ Awaken \/ Leave \/ Interrupting \/ Heartbeat \/ DeskStep \/ Crash)
      BY <1>2 DEF Idle, Awaken, Leave, Interrupting, Heartbeat, DeskStep, Awaited,
                  ShortRelease, Crash, local
    <3>7. ~ (ShortClaim \/ ShortApply \/ Lapse \/ OtherClaim \/ OtherStep)
      BY <1>2 DEF ShortClaim, ShortApply, Lapse, OtherClaim, OtherStep, local
    <3> QED BY <3>1, <3>2, <3>3, <3>4, <3>5, <3>6, <3>7 DEF PumpNext, PumpStep
  <2>2. Started(l, k) /\ own' = own /\ mine' = mine
    BY <2>1 DEF vars, Started
  <2>3. <<l, k>> \in AllStarted
    BY <2>2 DEF AllStarted
  <2>4. \A x \in AllStarted : own[x[1]][x[2]] = mine
    BY <2>1 DEF Foreign
  <2> QED BY <2>2, <2>3, <2>4
<1> QED BY <1>1, <1>2

-----------------------------------------------------------------------------
(* No lost wakeup                                                           *)

\* a pump that works on a snapshot knows of every change, or has been woken
SnapshotFresh == pc \in {"settle", "wait"} /\ MineHeld /\ woken = FALSE => fresh = TRUE

LEMMA NextSnapshotFresh ==
  ASSUME PumpTypeOK, OwnedSoFar, OwnedSoFar', Sessions, SnapshotFresh, PumpNext
  PROVE  SnapshotFresh'
<1> USE DEF PumpTypeOK
<1> SUFFICES ASSUME pc' \in {"settle", "wait"}, MineHeld', woken' = FALSE
             PROVE  fresh' = TRUE
  BY DEF SnapshotFresh
<1>1. CASE PumpStep
  <2>1. CASE DrainEnds
    BY <2>1 DEF DrainEnds
  <2>2. CASE Return \/ Idle
    <3>1. pc = "settle" /\ UNCHANGED <<vars, mine, fresh, woken>>
      BY <2>2 DEF Return, Idle
    <3>2. MineHeld
      BY <3>1 DEF MineHeld, Owned, vars
    <3> QED BY <3>1, <3>2 DEF SnapshotFresh
  <2>3. CASE Interrupting \/ DrainStep
    BY <2>3 DEF Interrupting, DrainStep, local
  <2>4. ASSUME NEW l \in Leaves, NEW k \in Tries, Collect(l, k) PROVE FALSE
    BY <2>4 DEF Collect
  <2>5. \A l \in Leaves : ~ Admit(l)
    BY DEF Admit
  <2>6. ~ (StartPump \/ DrainLost \/ Turn \/ Awaken \/ Leave)
    BY DEF StartPump, DrainLost, Turn, Awaken, Leave
  <2>7. ~ RecoverExpired
    BY DEF RecoverExpired, local
  <2> QED BY <1>1, <2>1, <2>2, <2>3, <2>4, <2>5, <2>6, <2>7 DEF PumpStep
<1>2. CASE ~PumpStep
  <2>1. MineHeld
    BY <1>2, OwnerHere DEF PumpStep
  <2>2. ~ (SessionControl \/ Crash \/ Heartbeat)
    BY DEF SessionControl, ControlPlace, Crash, Heartbeat
  <2>3. ~ OtherStep
    BY <2>1 DEF OtherStep, Sessions, MineHeld, TypeOK, Epochs
  <2>4. ~ ShortApply
    BY DEF ShortApply, Sessions, Short
  <2>5. UNCHANGED <<pc, woken, fresh>>
    BY <1>2, <2>2, <2>3, <2>4
       DEF PumpNext, ExecutionEnds, Deadline, ShortClaim, Lapse, OtherClaim, DeskStep, Awaited,
           ShortRelease, local
  <2> QED BY <2>1, <2>5 DEF SnapshotFresh
<1> QED BY <1>1, <1>2

-----------------------------------------------------------------------------
(* One execution of a leaf                                                  *)

\* what is closed here is also settled, and what is settled stays so
Settling(l) ==
  /\ inst[l] \in Settled => inst'[l] \in Settled
  /\ \A k \in Tries : Started(l, k) => Started(l, k)' \/ inst'[l] \in Settled

LEMMA SettlingStep ==
  ASSUME TypeOK, OneStartedAttempt, NEW l \in Leaves,
         Derive \/ (\E m \in Leaves : CancelLeaf(m))
         \/ (\E m \in Leaves, k \in Tries : DeadlinePasses(m, k))
         \/ (\E m \in Leaves, k \in Tries, e \in Epochs, res \in {"completed", "failed"} :
               CommitResult(m, k, e, res))
  PROVE  Settling(l)
<1> USE DEF TypeOK, Settled, Open, Reasons, Started, Running, Status, Closed
<1>a. \A k \in Tries : Started(l, k) => inst[l] = "running"
  BY DEF OneStartedAttempt
<1>b. \A j, k \in Tries : Started(l, j) /\ Started(l, k) => j = k
  BY DEF OneStartedAttempt
<1>1. CASE CompleteGroups
  <2> DEFINE losers == {n \in Members : Parent[n] \in Batch /\ member[n] \in Open}
             Why(n) == LoserReason(CHOOSE g \in Batch : g \in Path[n])
  <2>1. Why(l) \in Reasons
    BY DEF LoserReason
  <2>2. inst'[l] = IF l \in Under(losers) /\ inst[l] \in Open THEN Why(l) ELSE inst[l]
    BY <1>1, TreeFacts DEF CompleteGroups
  <2>3. \A k \in Tries : att'[l][k] = IF l \in Leaves \intersect Under(losers) /\ Started(l, k)
                                      THEN "cancelled" ELSE att[l][k]
    BY <1>1 DEF CompleteGroups, CloseAttempts
  <2> QED BY <2>1, <2>2, <2>3, <1>a DEF Settling
<1>2. ASSUME NEW n \in Members, ContinueBranch(n) PROVE Settling(l)
  BY <1>2 DEF ContinueBranch, Settling
<1>3. ASSUME NEW g \in Groups, ContinueGroup(g) PROVE Settling(l)
  BY <1>3 DEF ContinueGroup, Settling
<1>4. CASE ContinueRoot
  BY <1>4 DEF ContinueRoot, Settling
<1>5. CASE TimeoutAttempts
  <2>1. \A k \in Tries : att'[l][k] = IF <<l, k>> \in DueNow THEN "timed_out" ELSE att[l][k]
    BY <1>5 DEF TimeoutAttempts
  <2>2. inst'[l] = IF inst[l] = "running" /\ \E k \in Tries : <<l, k>> \in DueNow
                   THEN "failed" ELSE inst[l]
    BY <1>5 DEF TimeoutAttempts
  <2> QED BY <2>1, <2>2, <1>a DEF Settling
<1>6. ASSUME NEW m \in Leaves, CancelLeaf(m) PROVE Settling(l)
  <2>1. inst'[l] = IF l \in Under({m}) /\ inst[l] \in Open THEN "operator_cancelled" ELSE inst[l]
    BY <1>6 DEF CancelLeaf, CancelTree, CancelIn
  <2>2. \A k \in Tries : att'[l][k] = IF l \in Leaves \intersect Under({m}) /\ Started(l, k)
                                      THEN "cancelled" ELSE att[l][k]
    BY <1>6 DEF CancelLeaf, CancelTree, CloseAttempts
  <2> QED BY <2>1, <2>2, <1>a DEF Settling
<1>7. ASSUME NEW m \in Leaves, NEW k \in Tries, DeadlinePasses(m, k) PROVE Settling(l)
  BY <1>7 DEF DeadlinePasses, Settling
<1>8. ASSUME NEW m \in Leaves, NEW k \in Tries, NEW e \in Epochs,
             NEW res \in {"completed", "failed"}, CommitResult(m, k, e, res)
      PROVE  Settling(l)
  <2>1. CASE l = m
    BY <1>8, <2>1, <1>b DEF CommitResult, Settling
  <2>2. CASE l # m
    BY <1>8, <2>2 DEF CommitResult, Settling
  <2> QED BY <2>1, <2>2
<1>9. ~ TimeoutSignals
  BY NoSignals DEF TimeoutSignals, ExpireWaits, DueWaits
<1> QED BY <1>1, <1>2, <1>3, <1>4, <1>5, <1>6, <1>7, <1>8, <1>9 DEF Derive

\* a fiber that still runs works for a started attempt, or for a settled leaf
Covered ==
  MineHeld /\ run = "active" /\ pc \notin {"leaving", "aborted", "failing"} =>
    \A l \in Leaves, k \in Tries :
      exec[l][k] \in Live => Started(l, k) \/ inst[l] \in Settled
\* the session of a paused Run is being awaited
PauseEnds == MineHeld /\ run = "paused" /\ pc # "off" => ctl = "await"
Single ==
  \A l \in Leaves, j, k \in Tries : exec[l][j] \in Live /\ exec[l][k] \in Live => j = k

LEMMA DeriveRun ==
  ASSUME TypeOK, Derive
  PROVE  run' = run \/ run' \in Terminal
  BY DEF Derive, CompleteGroups, ContinueBranch, ContinueGroup, ContinueRoot, TimeoutAttempts,
         TimeoutSignals, ExpireWaits, Terminal

\* A foreign step happens only after this process lost the lease.
LEMMA NoForeignStep ==
  ASSUME PumpTypeOK, Sessions, MineHeld
  PROVE  ~ OtherStep
  BY BoundAssumption DEF PumpTypeOK, TypeOK, Epochs, OtherStep, Sessions, MineHeld

LEMMA NextPauseEnds ==
  ASSUME PumpTypeOK, OwnedSoFar, OwnedSoFar', Sessions, PauseEnds, PumpNext
  PROVE  PauseEnds'
<1> USE DEF PumpTypeOK, local, desk, vars, proj, owner
<1> SUFFICES ASSUME MineHeld', run' = "paused", pc' # "off" PROVE ctl' = "await"
  BY DEF PauseEnds
<1>a. MineHeld /\ ~StartPump
  BY OwnerHere DEF StartPump, ClaimRun
<1>b. pc # "off"
  <2>1. ~ (SessionControl /\ pc = "off")
    BY DEF SessionControl
  <2> QED BY <1>a, <2>1
          DEF PumpNext, PumpStep, DrainStep, DrainLost, DrainEnds, RecoverExpired, Turn,
              Collect, Return, Idle, Awaken, Leave, Interrupting, Admit, ExecutionEnds, Deadline,
              DeskStep, Awaited, ShortRelease, Heartbeat, Lapse, OtherClaim, OtherStep,
              ShortClaim, ShortApply, Crash
<1>c. ~ (OtherStep \/ Leave \/ Crash \/ ShortClaim \/ ShortApply \/ ShortRelease)
  BY <1>a, <1>b, NoForeignStep
     DEF Leave, Crash, ShortClaim, ShortApply, ShortRelease, Sessions, Short
<1>1. CASE SessionControl
  <2>1. PICK kind \in {"goes on", "ends", "restarts"} :
          /\ ControlPlace(kind)
          /\ kind = "goes on" => Resume \/ \E l \in Leaves : CancelLeaf(l)
    BY <1>1 DEF SessionControl
  <2>2. ASSUME kind = "goes on" PROVE FALSE
    <3>1. run = "paused"
      BY <2>1, <2>2 DEF Resume, CancelLeaf
    <3>2. ctl = "idle"
      BY <1>1 DEF SessionControl
    <3> QED BY <1>a, <1>b, <3>1, <3>2 DEF PauseEnds
  <2> QED BY <2>1, <2>2 DEF ControlPlace
<1>2. CASE ~SessionControl
  <2>1. run = "paused"
    <3>1. CASE DrainStep
      BY <3>1, DeriveRun DEF DrainStep, Terminal
    <3>2. ASSUME NEW l \in Leaves, NEW k \in Tries,
                 Collect(l, k) \/ ExecutionEnds(l, k) \/ Deadline(l, k)
          PROVE  run' = run
      BY <3>2 DEF Collect, CommitResult, ExecutionEnds, Deadline, DeadlinePasses
    <3>3. ASSUME NEW l \in Leaves, Admit(l) PROVE run' = run
      BY <3>3 DEF Admit, StartAttempt
    <3>4. CASE RecoverExpired
      BY <3>4 DEF RecoverExpired, SupersedeExpired
    <3>5. CASE DrainLost \/ DrainEnds \/ Turn \/ Return \/ Idle \/ Awaken \/ Interrupting
      BY <3>5 DEF DrainLost, DrainEnds, Turn, Return, Idle, Awaken, Interrupting
    <3>6. CASE Awaited \/ Heartbeat \/ Lapse \/ OtherClaim
      BY <3>6 DEF Awaited, Heartbeat, Lapse, LeaseExpires, OtherClaim, ClaimRun
    <3> QED BY <1>a, <1>c, <1>2, <3>1, <3>2, <3>3, <3>4, <3>5, <3>6
            DEF PumpNext, PumpStep, DeskStep
  <2>2. ctl = "await"
    BY <1>a, <1>b, <2>1 DEF PauseEnds
  <2>3. ~ Awaited
    BY <2>2 DEF Awaited
  <2> QED BY <1>a, <1>c, <1>2, <2>2, <2>3
          DEF PumpNext, PumpStep, DrainStep, DrainLost, DrainEnds, RecoverExpired, Turn,
              Collect, Return, Idle, Awaken, Interrupting, Admit, ExecutionEnds, Deadline,
              DeskStep, Heartbeat, Lapse, OtherClaim
<1> QED BY <1>1, <1>2

\* Two executions of a leaf do not overlap: one that still runs covers the leaf.
LEMMA NextSingle ==
  ASSUME PumpTypeOK, OneStartedAttempt, Covered, Single, PumpNext
  PROVE  Single'
<1>1. CASE \A l \in Leaves, k \in Tries : exec'[l][k] \in Live => exec[l][k] \in Live
  BY <1>1 DEF Single
<1>2. ASSUME NEW l \in Leaves, NEW k \in Tries, Admit(l), Launches(l, k) PROVE Single'
  <2>1. inst[l] = "ready" /\ MineHeld /\ run = "active" /\ pc = "settle"
    BY <1>2 DEF Launches, StartAttempt, Admits
  <2>2. \A j \in Tries : exec[l][j] \notin Live
    BY <2>1 DEF Covered, OneStartedAttempt, Settled, Reasons
  <2> QED BY <1>2, <2>2 DEF Single, Launches
<1> QED BY <1>1, <1>2, NewExecution

LEMMA NextCovered ==
  ASSUME PumpTypeOK, OneStartedAttempt, OwnedSoFar, OwnedSoFar', Sessions, PauseEnds, Covered,
         PumpNext
  PROVE  Covered'
<1> USE DEF PumpTypeOK
<1> SUFFICES ASSUME MineHeld', run' = "active", pc' \notin {"leaving", "aborted", "failing"},
                    NEW l \in Leaves, NEW k \in Tries, exec'[l][k] \in Live
             PROVE  Started(l, k)' \/ inst'[l] \in Settled
  BY DEF Covered
<1>1. CASE \E i \in Leaves, j \in Tries : Launches(i, j) /\ l = i /\ k = j
  <2>1. StartAttempt(l) /\ k = Cardinality(Used(l)) + 1
    BY <1>1 DEF Launches
  <2>2. att'[l][k] = "started"
    BY <2>1 DEF StartAttempt, TypeOK
  <2> QED BY <2>2 DEF Started, Running
<1>2. CASE exec[l][k] \in Live
  <2>1. pc \notin {"off", "drain", "recover"}
    BY <1>2 DEF Sessions, NoExec, Live
  <2>2. MineHeld /\ ~StartPump
    BY <2>1, OwnerHere DEF StartPump
  <2>3. ~ (Leave \/ Crash)
    BY DEF Leave, Crash, NoExec, Live
  <2>4. ~ (OtherStep \/ RecoverExpired \/ ShortClaim \/ ShortApply \/ ShortRelease)
    BY <2>1, <2>2, NoForeignStep DEF RecoverExpired, ShortClaim, ShortApply, ShortRelease,
                                     Sessions, Short
  <2>5. pc \notin {"leaving", "aborted", "failing"}
    <3>1. ~ (SessionControl /\ pc \in {"leaving", "aborted", "failing"})
      BY DEF SessionControl, ControlPlace
    <3> QED BY <2>2, <2>3, <2>4, <3>1
            DEF PumpNext, PumpStep, DrainStep, DrainLost, DrainEnds, Turn, Collect, Return, Idle,
                Awaken, Interrupting, Admit, ExecutionEnds, Deadline, DeskStep, Awaited,
                Heartbeat, Lapse, OtherClaim, local
  <2>a. ASSUME run = "active", Settling(l) PROVE Started(l, k)' \/ inst'[l] \in Settled
    BY <1>2, <2>2, <2>5, <2>a DEF Covered, Settling
  <2>b. ASSUME UNCHANGED proj PROVE run = "active" /\ Settling(l)
    BY <2>b DEF proj, Settling, Started
  <2>6. CASE DrainStep
    BY <2>a, <2>6, DeriveRun, SettlingStep DEF DrainStep, Terminal
  <2>7. ASSUME NEW i \in Leaves, NEW j \in Tries, Collect(i, j)
        PROVE  run = "active" /\ Settling(l)
    <3>1. CASE UNCHANGED vars
      BY <2>b, <3>1 DEF vars, proj
    <3>2. CASE CommitResult(i, j, mine, exec[i][j]) /\ exec[i][j] # "aborted"
      <4>1. exec[i][j] \in {"completed", "failed"}
        BY <2>7, <3>2 DEF Collect, Over
      <4> QED BY <3>2, <4>1, SettlingStep DEF CommitResult
    <3> QED BY <2>7, <3>1, <3>2 DEF Collect
  <2>8. ASSUME NEW i \in Leaves, Admit(i) PROVE run = "active" /\ Settling(l)
    <3>1. CASE UNCHANGED vars
      BY <2>b, <3>1 DEF vars, proj
    <3>2. CASE StartAttempt(i)
      <4>1. inst[i] = "ready" /\ run' = run
        BY <3>2 DEF StartAttempt, Admits
      <4>2. ASSUME NEW j \in Tries, Started(l, j) PROVE Started(l, j)'
        BY <3>2, <4>2 DEF StartAttempt, Started, Running, TypeOK
      <4>3. inst[l] \in Settled => inst'[l] = inst[l]
        BY <3>2, <4>1 DEF StartAttempt, TypeOK, Settled, Reasons
      <4> QED BY <4>1, <4>2, <4>3 DEF Settling
    <3> QED BY <2>8, <3>1, <3>2 DEF Admit
  <2>9. CASE SessionControl
    <3>1. CASE \E m \in Leaves : CancelLeaf(m)
      BY <2>a, <3>1, SettlingStep DEF CancelLeaf
    <3>2. ~ (Pause \/ CancelRun)
      BY DEF Pause, CancelRun
    <3>3. ~ (Resume /\ ctl = "idle")
      BY <2>1, <2>2 DEF Resume, PauseEnds
    <3>4. ~ ControlPlace("restarts")
      BY DEF ControlPlace
    <3> QED BY <2>9, <3>1, <3>2, <3>3, <3>4 DEF SessionControl
  <2>10. ASSUME NEW i \in Leaves, NEW j \in Tries, ExecutionEnds(i, j) \/ Deadline(i, j)
         PROVE  run = "active" /\ Settling(l)
    <3>1. CASE ExecutionEnds(i, j)
      BY <2>b, <3>1 DEF ExecutionEnds, vars, proj
    <3>2. CASE Deadline(i, j)
      BY <3>2, SettlingStep DEF Deadline, DeadlinePasses
    <3> QED BY <2>10, <3>1, <3>2
  <2>11. CASE DrainLost \/ DrainEnds \/ Turn \/ Return \/ Idle \/ Awaken \/ Interrupting
    BY <2>a, <2>b, <2>11
       DEF DrainLost, DrainEnds, Turn, Return, Idle, Awaken, Interrupting, vars, proj
  <2>12. CASE Awaited \/ Heartbeat \/ Lapse \/ OtherClaim
    BY <2>a, <2>b, <2>12
       DEF Awaited, Heartbeat, Lapse, LeaseExpires, OtherClaim, ClaimRun, vars, proj
  <2> QED BY <2>a, <2>2, <2>3, <2>4, <2>6, <2>7, <2>8, <2>9, <2>10, <2>11, <2>12
          DEF PumpNext, PumpStep, DeskStep
<1> QED BY <1>1, <1>2, NewExecution DEF Launches

-----------------------------------------------------------------------------
(* The invariant of a driven Run, and the theorems                          *)

PInv ==
  /\ IInv /\ PumpTypeOK /\ Sessions
  /\ OldClosed /\ SnapshotFresh /\ PauseEnds /\ Covered /\ Single

LEMMA InitPInv == PumpInit => PInv
<1> SUFFICES ASSUME PumpInit PROVE PInv
  OBVIOUS
<1>1. IInv /\ PumpTypeOK /\ Sessions
  BY PumpInitStore, InitIInv, PumpInitType, PumpInitSessions
<1>2. pc = "off" /\ \A l \in Leaves, k \in Tries : exec[l][k] = "none"
  BY DEF PumpInit, NoExec
<1> QED BY <1>1, <1>2 DEF PInv, OldClosed, SnapshotFresh, PauseEnds, Covered, Single, Live

LEMMA NextPInv ==
  ASSUME PInv, [PumpNext]_pvars
  PROVE  PInv'
<1>1. PumpTypeOK' /\ IInv'
  BY PumpNextType, NextType, NextOneStarted, NextWaitsAgree, NextNumbered, NextPausedIdle, NextOwnedSoFar
     DEF PInv, IInv
<1>2. CASE PumpNext
  BY <1>1, <1>2, NextSessions, NextOldClosed, NextSnapshotFresh, NextPauseEnds, NextCovered,
     NextSingle DEF PInv, IInv
<1>3. CASE UNCHANGED pvars
  BY <1>1, <1>3
     DEF PInv, pvars, vars, local, desk, Sessions, Short, Owned, OldClosed, AllStarted, Started,
         SnapshotFresh, MineHeld, PauseEnds, Covered, Single
<1> QED BY <1>2, <1>3

THEOREM PumpInvariance == PumpSpec => []PInv
  BY InitPInv, NextPInv, PTL DEF PumpSpec

\* New work starts only when no attempt of an earlier owner is left
\* (recoverExpiredOwnerAttempts runs before the loop, whatever came between).
THEOREM OldWorkIsFirst == PumpSpec => OldWorkFirst
<1>1. PInv /\ [PumpNext]_pvars =>
        [\A l \in Leaves, k \in Tries :
           exec[l][k] = "none" /\ exec'[l][k] = "running" =>
             \A x \in AllStarted : own[x[1]][x[2]] = mine]_pvars
  <2> SUFFICES ASSUME PInv, PumpNext, NEW l \in Leaves, NEW k \in Tries,
                      exec[l][k] = "none", exec'[l][k] = "running"
               PROVE  \A x \in AllStarted : own[x[1]][x[2]] = mine
    OBVIOUS
  <2>1. PICK i \in Leaves, j \in Tries : Launches(i, j)
    BY NewExecution DEF PInv, Live
  <2> QED BY <2>1 DEF PInv, OldClosed, Launches, MineHeld
<1> QED BY <1>1, PumpInvariance, PTL DEF PumpSpec, OldWorkFirst

\* A pump that waits unwoken knows the present state (createVersionedWakeup).
THEOREM NoWakeupIsLost == PumpSpec => []NoLostWakeup
<1>1. PInv => NoLostWakeup
  BY DEF PInv, PumpTypeOK, SnapshotFresh, NoLostWakeup
<1> QED BY <1>1, PumpInvariance, PTL

\* Executions of one leaf do not overlap in a process (controlResult and applyRetry
\* await the session before anything can start its leaves again).
THEOREM OneExecutionAtATime == PumpSpec => []OneExecution
<1>1. PInv => OneExecution
  <2> SUFFICES ASSUME PInv, NEW l \in Leaves
               PROVE  Cardinality({k \in Tries : exec[l][k] \in Live}) <= 1
    BY DEF OneExecution
  <2>1. CASE {k \in Tries : exec[l][k] \in Live} = {}
    BY <2>1, FS_EmptySet
  <2>2. CASE {k \in Tries : exec[l][k] \in Live} # {}
    <3>1. PICK k \in Tries : exec[l][k] \in Live
      BY <2>2
    <3>2. {j \in Tries : exec[l][j] \in Live} = {k}
      BY <3>1 DEF PInv, Single
    <3>3. Cardinality({k}) = 1
      BY FS_Singleton, Zenon
    <3>4. Cardinality({j \in Tries : exec[l][j] \in Live}) = 1
      BY <3>2, <3>3, Zenon
    <3> QED BY <3>4
  <2> QED BY <2>1, <2>2, Zenon
<1> QED BY <1>1, PumpInvariance, PTL

-----------------------------------------------------------------------------
(* What the pump knows of the Run, and why it never fails a Run it owns     *)

\* until its loop begins, this owner has started nothing
Unbegun  == pc \in {"drain", "recover"} => \A x \in AllStarted : own[x[1]][x[2]] # mine
\* an execution has an attempt
Launched == \A l \in Leaves, k \in Tries : exec[l][k] # "none" => att[l][k] # "none"
\* in the loop, every started attempt has an execution
Present ==
  pc \in {"turn", "draining", "settle", "wait"} /\ MineHeld =>
    \A l \in Leaves, k \in Tries : Started(l, k) => exec[l][k] # "none"
\* a snapshot of a Run that does not run has nothing started
SnapIdle == snap.run # "active" => snap.started = {}
\* an execution that the snapshot does not show as started has a closed attempt
SnapSeen ==
  pc = "settle" /\ MineHeld =>
    \A l \in Leaves, k \in Tries :
      exec[l][k] # "none" => <<l, k>> \in snap.started \/ att[l][k] \in Closed
\* only the execution of a closed attempt is interrupted
Doomed ==
  MineHeld /\ pc \notin {"leaving", "aborted", "failing"} =>
    \A l \in Leaves, k \in Tries :
      exec[l][k] \in {"interrupted", "aborted"} =>
        att[l][k] \in Closed /\ <<l, k>> \notin snap.started
\* a fresh snapshot is the present state
SnapTrue ==
  pc = "settle" /\ fresh = TRUE =>
    /\ Quiet /\ snap.run = run /\ snap.started = AllStarted
    /\ snap.admits = {l \in Leaves : Admits(l)}

\* The steps of the pump start attempts only where they launch executions.
LEMMA PumpStarts ==
  ASSUME PumpTypeOK, PumpNext
  PROVE  \/ StartsNothing
         \/ \E l \in Leaves :
              /\ Admit(l) /\ StartAttempt(l)
              /\ exec' = [Stopped EXCEPT ![l][Cardinality(Used(l)) + 1] = "running"]
<1> USE DEF PumpTypeOK, StartsNothing, Ownership, Control
<1>1. CASE PumpStep
  <2>1. CASE StartPump \/ Leave
    BY <2>1 DEF StartPump, Leave
  <2>2. CASE DrainStep
    BY <2>2 DEF DrainStep
  <2>3. CASE DrainLost \/ DrainEnds \/ Turn \/ Return \/ Idle \/ Awaken \/ Interrupting
    BY <2>3 DEF DrainLost, DrainEnds, Turn, Return, Idle, Awaken, Interrupting
  <2>4. CASE RecoverExpired
    <3>1. CASE UNCHANGED vars
      BY <3>1
    <3>2. ASSUME NEW x \in Foreign, SupersedeExpired(own[x[1]][x[2]]) PROVE StartsNothing
      <4>1. own[x[1]][x[2]] \in Epochs
        BY DEF Foreign, AllStarted, TypeOK
      <4> QED BY <3>2, <4>1
    <3> QED BY <2>4, <3>1, <3>2 DEF RecoverExpired
  <2>5. ASSUME NEW l \in Leaves, NEW k \in Tries, Collect(l, k) PROVE StartsNothing
    <3>1. CASE CommitResult(l, k, mine, exec[l][k]) /\ exec[l][k] # "aborted"
      <4>1. exec[l][k] \in {"completed", "failed"}
        BY <2>5, <3>1 DEF Collect, Over
      <4> QED BY <3>1, <4>1
    <3> QED BY <2>5, <3>1 DEF Collect
  <2>6. ASSUME NEW l \in Leaves, Admit(l)
        PROVE  \/ StartsNothing
               \/ /\ StartAttempt(l)
                  /\ exec' = [Stopped EXCEPT ![l][Cardinality(Used(l)) + 1] = "running"]
    BY <2>6 DEF Admit
  <2> QED BY <1>1, <2>1, <2>2, <2>3, <2>4, <2>5, <2>6 DEF PumpStep
<1>2. CASE DeskStep \/ Heartbeat \/ Lapse \/ OtherClaim \/ Crash \/ ShortClaim
  BY <1>2 DEF DeskStep, Awaited, ShortRelease, Heartbeat, Lapse, OtherClaim, Crash, ShortClaim
<1>3. ASSUME NEW l \in Leaves, NEW k \in Tries, ExecutionEnds(l, k) \/ Deadline(l, k)
      PROVE  StartsNothing
  BY <1>3 DEF ExecutionEnds, Deadline
<1>4. CASE SessionControl
  BY <1>4 DEF SessionControl
<1>5. CASE ShortApply
  BY <1>5 DEF ShortApply
<1>6. CASE OtherStep
  BY <1>6 DEF OtherStep
<1> QED BY <1>1, <1>2, <1>3, <1>4, <1>5, <1>6 DEF PumpNext

\* An attempt number once used stays used.
LEMMA UsedStays ==
  ASSUME IInv, [Next]_vars, NEW l \in Leaves, NEW k \in Tries, att[l][k] # "none"
  PROVE  att'[l][k] # "none"
<1> USE DEF IInv, TypeOK, Started, Running, Closed
<1>1. CASE Keeps(l)
  BY <1>1 DEF Keeps
<1>2. CASE Closes(l)
  BY <1>2 DEF Closes
<1>3. CASE Starts(l)
  BY <1>3 DEF Starts
<1>4. CASE Overruns(l)
  BY <1>4 DEF Overruns
<1> QED BY <1>1, <1>2, <1>3, <1>4, LeafStep

\* an execution is left alone, is told to stop, ends, or is launched
Stays(l, k)  == exec'[l][k] = exec[l][k]
Halted(l, k) == exec[l][k] = "running" /\ exec'[l][k] = "interrupted"
Ending(l, k) ==
  \/ exec[l][k] = "running" /\ exec'[l][k] \in {"completed", "failed"}
  \/ exec[l][k] = "interrupted" /\ exec'[l][k] \in Over
Admitted(l, k) == Admit(l) /\ StartAttempt(l) /\ k = Cardinality(Used(l)) + 1 /\ exec'[l][k] = "running"

\* How an execution changes in a step, and what the pump knew when it told one to stop.
LEMMA ExecStep ==
  ASSUME PumpTypeOK, PumpNext, NEW l \in Leaves, NEW k \in Tries
  PROVE  \/ Stays(l, k) \/ Ending(l, k) \/ Admitted(l, k)
         \/ Halted(l, k) /\ \/ pc = "settle" /\ <<l, k>> \notin snap.started
                            \/ pc = "settle" /\ snap.run # "active"
                            \/ ~MineHeld'
                            \/ pc' \in {"leaving", "aborted", "failing"}
         \/ Collect(l, k) /\ exec'[l][k] = "none"
         \/ (Leave \/ Crash) /\ exec'[l][k] = "none"
<1> USE DEF PumpTypeOK
<1>a. ASSUME NEW S
      PROVE  /\ Abort(exec, S) \in [Leaves -> [Tries -> {"none"} \union Live \union Over]]
             /\ \/ Abort(exec, S)[l][k] = exec[l][k]
                \/ /\ exec[l][k] = "running" /\ Abort(exec, S)[l][k] = "interrupted"
                   /\ <<l, k>> \in S
  BY DEF Abort, Live
<1>b. /\ Stopped \in [Leaves -> [Tries -> {"none"} \union Live \union Over]]
      /\ \/ Stopped[l][k] = exec[l][k]
         \/ /\ exec[l][k] = "running" /\ Stopped[l][k] = "interrupted"
            /\ <<l, k>> \notin snap.started
  <2> DEFINE S == Active \ snap.started
  <2>1. <<l, k>> \in S => <<l, k>> \notin snap.started
    OBVIOUS
  <2>2. Stopped = Abort(exec, S)
    BY DEF Stopped
  <2> HIDE DEF S
  <2>3. /\ Abort(exec, S) \in [Leaves -> [Tries -> {"none"} \union Live \union Over]]
        /\ \/ Abort(exec, S)[l][k] = exec[l][k]
           \/ /\ exec[l][k] = "running" /\ Abort(exec, S)[l][k] = "interrupted"
              /\ <<l, k>> \in S
    BY <1>a
  <2> QED BY <2>1, <2>2, <2>3
<1>1. CASE exec' = exec
  BY <1>1 DEF Stays
<1>2. ASSUME pc = "settle", NEW i \in Leaves, NEW j \in Tries, Collect(i, j)
      PROVE  \/ Stays(l, k) \/ (Collect(l, k) /\ exec'[l][k] = "none")
             \/ Halted(l, k) /\ <<l, k>> \notin snap.started
  <2>1. exec' = [Stopped EXCEPT ![i][j] = "none"]
    BY <1>2 DEF Collect
  <2>2. CASE i = l /\ j = k
    BY <1>2, <1>b, <2>1, <2>2
  <2>3. CASE ~ (i = l /\ j = k)
    <3>1. exec'[l][k] = Stopped[l][k]
      BY <1>b, <2>1, <2>3
    <3> QED BY <3>1, <1>b DEF Stays, Halted
  <2> QED BY <2>2, <2>3
<1>3. ASSUME exec' = Stopped
      PROVE  Stays(l, k) \/ (Halted(l, k) /\ <<l, k>> \notin snap.started)
  BY <1>3, <1>b DEF Stays, Halted
<1>4. ASSUME NEW i \in Leaves, Admit(i)
      PROVE  \/ Stays(l, k) \/ Admitted(l, k)
             \/ Halted(l, k) /\ pc = "settle" /\ <<l, k>> \notin snap.started
  <2>0. pc = "settle"
    BY <1>4 DEF Admit
  <2>1. CASE exec' = Stopped
    BY <1>3, <2>0, <2>1
  <2>2. CASE StartAttempt(i) /\ exec' = [Stopped EXCEPT ![i][Cardinality(Used(i)) + 1] = "running"]
    <3>1. PICK j \in Tries : j = Cardinality(Used(i)) + 1
      BY <2>2 DEF StartAttempt
    <3>2. CASE i = l /\ j = k
      BY <1>4, <2>2, <3>1, <3>2, <1>b DEF Admitted
    <3>3. CASE ~ (i = l /\ j = k)
      <4>1. exec'[l][k] = Stopped[l][k]
        BY <1>b, <2>2, <3>1, <3>3
      <4> QED BY <2>0, <4>1, <1>b DEF Stays, Halted
    <3> QED BY <3>2, <3>3
  <2> QED BY <1>4, <2>1, <2>2 DEF Admit
<1>5. ASSUME NEW i \in Leaves, NEW j \in Tries, ExecutionEnds(i, j)
      PROVE  Stays(l, k) \/ Ending(l, k)
  <2>1. PICK res \in IF exec[i][j] = "running" THEN {"completed", "failed"} ELSE Over :
          exec' = [exec EXCEPT ![i][j] = res]
    BY <1>5 DEF ExecutionEnds
  <2>2. exec[i][j] \in Live
    BY <1>5 DEF ExecutionEnds
  <2>3. CASE i = l /\ j = k
    BY <2>1, <2>2, <2>3 DEF Ending, Live
  <2>4. CASE ~ (i = l /\ j = k)
    BY <2>1, <2>4 DEF Stays
  <2> QED BY <2>3, <2>4
<1>6. ASSUME exec' = AbortAll PROVE Stays(l, k) \/ Halted(l, k)
  BY <1>6, <1>a DEF AbortAll, Stays, Halted
<1>7. CASE Leave \/ Crash
  BY <1>7 DEF Leave, Crash, NoExec
<1>8. CASE DrainLost \/ Turn \/ Interrupting
  <2>1. exec' = exec \/ (exec' = AbortAll /\ pc' \in {"leaving", "aborted", "failing"})
    BY <1>8 DEF DrainLost, Turn, Interrupting
  <2> QED BY <1>1, <1>6, <2>1
<1>9. CASE Return
  BY <1>6, <1>9 DEF Return
<1>10. CASE Heartbeat
  <2>1. exec' = AbortAll /\ ~MineHeld'
    BY <1>10 DEF Heartbeat, MineHeld, Owned, vars
  <2> QED BY <1>6, <2>1
<1>11. CASE Idle
  BY <1>3, <1>11 DEF Idle
<1>12. CASE StartPump \/ DrainStep \/ DrainEnds \/ RecoverExpired \/ Awaken
  BY <1>1, <1>12 DEF StartPump, DrainStep, DrainEnds, RecoverExpired, Awaken, local
<1>13. CASE \/ DeskStep \/ SessionControl \/ ShortClaim \/ ShortApply \/ Lapse \/ OtherClaim \/ OtherStep
            \/ \E i \in Leaves, j \in Tries : Deadline(i, j)
  BY <1>1, <1>13 DEF DeskStep, Awaited, ShortRelease, SessionControl, ShortClaim, ShortApply, Lapse,
                     OtherClaim, OtherStep, Deadline, local
<1>14. ASSUME NEW i \in Leaves, NEW j \in Tries, Collect(i, j) PROVE pc = "settle"
  BY <1>14 DEF Collect
<1> QED BY <1>2, <1>4, <1>5, <1>7, <1>8, <1>9, <1>10, <1>11, <1>12, <1>13, <1>14
        DEF PumpNext, PumpStep

\* Where the pump's snapshot and its place in the turn come from.
LEMMA SnapStep ==
  ASSUME PumpTypeOK, PumpNext
  PROVE  \/ snap' = snap
         \/ /\ pc = "draining" /\ pc' = "settle" /\ Drained /\ UNCHANGED <<vars, exec>>
            /\ fresh' = TRUE
            /\ snap' = [run |-> run, started |-> AllStarted, admits |-> {l \in Leaves : Admits(l)}]
         \/ exec' = NoExec /\ snap' = NoSnap /\ pc' = "off"
<1>1. CASE DrainEnds
  BY <1>1 DEF DrainEnds
<1>2. CASE Leave \/ Crash
  BY <1>2 DEF Leave, Crash
<1>3. CASE StartPump \/ DrainStep \/ DrainLost \/ RecoverExpired \/ Turn
  BY <1>3 DEF StartPump, DrainStep, DrainLost, RecoverExpired, Turn, local
<1>4. CASE Return \/ Idle \/ Awaken \/ Interrupting \/ Heartbeat \/ DeskStep
  BY <1>4 DEF Return, Idle, Awaken, Interrupting, Heartbeat, DeskStep, Awaited, ShortRelease, local
<1>5. ASSUME NEW l \in Leaves, NEW k \in Tries,
             Collect(l, k) \/ ExecutionEnds(l, k) \/ Deadline(l, k)
      PROVE  snap' = snap
  BY <1>5 DEF Collect, ExecutionEnds, Deadline, local
<1>6. ASSUME NEW l \in Leaves, Admit(l) PROVE snap' = snap
  BY <1>6 DEF Admit
<1>7. CASE SessionControl \/ ShortClaim \/ ShortApply \/ Lapse \/ OtherClaim \/ OtherStep
  BY <1>7 DEF SessionControl, ShortClaim, ShortApply, Lapse, OtherClaim, OtherStep, local
<1> QED BY <1>1, <1>2, <1>3, <1>4, <1>5, <1>6, <1>7 DEF PumpNext, PumpStep

\* the places of the pump's loop
Loop == {"turn", "draining", "settle", "wait"}

\* How the pump moves.
LEMMA PlaceStep ==
  ASSUME PumpTypeOK, PumpNext
  PROVE  /\ pc' = "settle" /\ pc # "settle" => pc = "draining" /\ DrainEnds
         /\ pc' \in Loop /\ pc \notin Loop =>
              pc = "recover" /\ Foreign = {} /\ UNCHANGED <<vars, mine, exec>>
         /\ pc' \in {"drain", "recover"} /\ ~StartPump => pc \in {"drain", "recover"} /\ mine' = mine
         /\ pc \in {"leaving", "aborted", "failing"} => pc' \in {"leaving", "aborted", "failing", "off"}
         /\ pc' = "off" => pc = "off" \/ exec' = NoExec
         /\ pc' \in {"aborted", "failing"} /\ pc \notin {"aborted", "failing"} =>
              Idle \/ \E l \in Leaves, k \in Tries : Collect(l, k)
         /\ (\E l \in Leaves : Admit(l)) \/ (\E l \in Leaves, k \in Tries : Collect(l, k)) =>
              pc = "settle" /\ pc' # "settle"
<1> USE DEF Loop, PumpTypeOK
<1>1. CASE DrainEnds
  BY <1>1 DEF DrainEnds, Admit, Collect
<1>2. CASE Leave \/ Crash
  BY <1>2 DEF Leave, Crash, Admit, Collect
<1>3. CASE StartPump \/ DrainStep \/ DrainLost \/ Turn
  BY <1>3 DEF StartPump, DrainStep, DrainLost, Turn, local, Admit, Collect
<1>4. CASE RecoverExpired
  BY <1>4 DEF RecoverExpired, local, Admit, Collect
<1>5. CASE Return \/ Idle \/ Awaken \/ Interrupting
  BY <1>5 DEF Return, Idle, Awaken, Interrupting, local, Admit, Collect
<1>6. CASE Heartbeat \/ DeskStep
  BY <1>6 DEF Heartbeat, DeskStep, Awaited, ShortRelease, local, Admit, Collect
<1>7. ASSUME NEW l \in Leaves, NEW k \in Tries, Collect(l, k)
      PROVE  pc = "settle" /\ pc' \in {"turn", "aborted"}
  BY <1>7 DEF Collect
<1>8. CASE \E l \in Leaves, k \in Tries : ExecutionEnds(l, k) \/ Deadline(l, k)
  BY <1>8 DEF ExecutionEnds, Deadline, local, Admit, Collect
<1>9. ASSUME NEW l \in Leaves, Admit(l) PROVE pc = "settle" /\ pc' = "turn"
  BY <1>9 DEF Admit
<1>10. CASE ShortClaim \/ ShortApply \/ Lapse \/ OtherClaim \/ OtherStep
  BY <1>10 DEF ShortClaim, ShortApply, Lapse, OtherClaim, OtherStep, local, Admit, Collect
<1>11. CASE SessionControl
  BY <1>11 DEF SessionControl, ControlPlace, Admit, Collect
<1> QED BY <1>1, <1>2, <1>3, <1>4, <1>5, <1>6, <1>7, <1>8, <1>9, <1>10, <1>11 DEF PumpNext, PumpStep

\* The pump starts nothing of its own before its loop.
LEMMA NextUnbegun ==
  ASSUME IInv, PumpTypeOK, Unbegun, PumpNext
  PROVE  Unbegun'
<1> SUFFICES ASSUME pc' \in {"drain", "recover"}, NEW l \in Leaves, NEW k \in Tries, Started(l, k)'
             PROVE  own'[l][k] # mine'
  BY DEF Unbegun, AllStarted
<1>1. StartsNothing
  <2>1. ~ \E i \in Leaves : Admit(i)
    BY DEF Admit
  <2> QED BY <2>1, PumpStarts
<1>2. Started(l, k) /\ own'[l][k] = own[l][k] /\ <<l, k>> \in AllStarted
  <2>1. Started(l, k) /\ own' = own
    BY <1>1, NothingStarts DEF IInv
  <2> QED BY <2>1 DEF AllStarted
<1>3. CASE StartPump
  <2>1. mine' = epoch + 1 /\ epoch \in Nat
    BY <1>3 DEF StartPump, PumpTypeOK, TypeOK, Epochs
  <2>2. own[l][k] \in 1 .. epoch
    BY <1>2 DEF IInv, OwnedSoFar
  <2> QED BY <1>2, <2>1, <2>2
<1>4. CASE ~StartPump
  <2>1. pc \in {"drain", "recover"} /\ mine' = mine
    BY <1>4, PlaceStep
  <2> QED BY <1>2, <2>1 DEF Unbegun
<1> QED BY <1>3, <1>4

\* An execution keeps its attempt.
LEMMA NextLaunched ==
  ASSUME IInv, PumpTypeOK, Launched, PumpNext
  PROVE  Launched'
<1> SUFFICES ASSUME NEW l \in Leaves, NEW k \in Tries, exec'[l][k] # "none"
             PROVE  att'[l][k] # "none"
  BY DEF Launched
<1>1. CASE exec[l][k] # "none"
  BY <1>1, UsedStays, PumpNextStore DEF Launched
<1>2. CASE exec[l][k] = "none"
  <2>1. Admitted(l, k)
    BY <1>2, ExecStep DEF Stays, Halted, Ending
  <2>2. att' = [att EXCEPT ![l][k] = "started"]
    BY <2>1 DEF Admitted, StartAttempt
  <2> QED BY <2>2 DEF IInv, TypeOK
<1> QED BY <1>1, <1>2

\* What is collected is closed, unless the lease is lost.
LEMMA CollectedIsClosed ==
  ASSUME IInv, PumpTypeOK, Doomed, NEW l \in Leaves, NEW k \in Tries, Collect(l, k), MineHeld,
         pc' # "aborted" \/ <<l, k>> \in snap.started
  PROVE  pc' = "turn" /\ ~ Started(l, k)'
<1>1. pc = "settle" /\ exec[l][k] \in Over
  BY DEF Collect
<1>2. CASE exec[l][k] = "aborted"
  <2>1. att[l][k] \in Closed /\ <<l, k>> \notin snap.started
    BY <1>1, <1>2 DEF Doomed
  <2>2. UNCHANGED vars /\ pc' = "turn"
    BY <1>2, <2>1 DEF Collect
  <2> QED BY <2>1, <2>2 DEF vars, Started, Running, Closed
<1>3. CASE exec[l][k] # "aborted"
  <2>1. pc' = "turn"
    BY <1>3 DEF Collect
  <2>2. CASE CommitResult(l, k, mine, exec[l][k])
    <3>1. att' = [att EXCEPT ![l][k] = exec[l][k]] /\ exec[l][k] \in {"completed", "failed"}
      BY <1>1, <1>3, <2>2 DEF CommitResult, Over
    <3> QED BY <2>1, <3>1 DEF IInv, TypeOK, Started, Running
  <2>3. CASE ~ Started(l, k) /\ UNCHANGED vars
    BY <2>1, <2>3 DEF vars, Started
  <2> QED BY <1>3, <2>2, <2>3 DEF Collect
<1> QED BY <1>2, <1>3

\* A started attempt keeps its execution as long as the pump owns the Run.
LEMMA NextPresent ==
  ASSUME IInv, IInv', PumpTypeOK, Sessions, Unbegun, OldClosed, Doomed, Present, PumpNext
  PROVE  Present'
<1> SUFFICES ASSUME pc' \in Loop, MineHeld', NEW l \in Leaves, NEW k \in Tries, Started(l, k)'
             PROVE  exec'[l][k] # "none"
  BY DEF Present, Loop
<1>a. MineHeld
  <2>1. ~StartPump
    BY DEF StartPump, Loop
  <2> QED BY <2>1, OwnerHere DEF IInv
<1>1. CASE StartsNothing
  <2>1. Started(l, k) /\ <<l, k>> \in AllStarted
    BY <1>1, NothingStarts DEF IInv, AllStarted
  <2>2. CASE pc \in Loop
    <3>1. exec[l][k] # "none"
      BY <1>a, <2>1, <2>2 DEF Present, Loop
    <3>2. ~ (Leave \/ Crash)
      BY <2>2 DEF Leave, Crash, Loop
    <3>3. ~ Collect(l, k)
      BY <1>a, CollectedIsClosed DEF Loop
    <3> QED BY <3>1, <3>2, <3>3, ExecStep DEF Stays, Halted, Ending, Admitted, Over
  <2>3. CASE pc \notin Loop
    <3>1. pc = "recover" /\ Foreign = {}
      BY <2>3, PlaceStep
    <3>2. own[l][k] # mine
      BY <2>1, <3>1 DEF Unbegun
    <3> QED BY <2>1, <3>1, <3>2 DEF Foreign
  <2> QED BY <2>2, <2>3
<1>2. ASSUME NEW i \in Leaves, Admit(i), StartAttempt(i),
             exec' = [Stopped EXCEPT ![i][Cardinality(Used(i)) + 1] = "running"]
      PROVE  exec'[l][k] # "none"
  <2>1. pc = "settle"
    BY <1>2 DEF Admit
  <2>2. PICK j \in Tries : j = Cardinality(Used(i)) + 1 /\ att' = [att EXCEPT ![i][j] = "started"]
    BY <1>2 DEF StartAttempt
  <2>3. Stopped \in [Leaves -> [Tries -> {"none"} \union Live \union Over]]
    BY DEF PumpTypeOK, Stopped, Abort, Live
  <2>4. CASE i = l /\ j = k
    BY <1>2, <2>2, <2>3, <2>4
  <2>5. CASE ~ (i = l /\ j = k)
    <3>1. Started(l, k)
      BY <2>2, <2>5 DEF IInv, TypeOK, Started
    <3>2. exec[l][k] # "none"
      BY <1>a, <2>1, <3>1 DEF Present
    <3>3. ~ (Leave \/ Crash \/ Collect(l, k))
      <4>1. pc' = "turn"
        BY <1>2 DEF Admit
      <4>2. ~ Collect(l, k)
        BY <1>a, <4>1, CollectedIsClosed
      <4> QED BY <2>1, <4>1, <4>2 DEF Leave, Crash
    <3> QED BY <3>2, <3>3, ExecStep DEF Stays, Halted, Ending, Admitted, Over
  <2> QED BY <2>4, <2>5
<1> QED BY <1>1, <1>2, PumpStarts

\* A snapshot of a halted Run has nothing started.
LEMMA NextSnapIdle ==
  ASSUME IInv, FinishedRunIsSettled, PumpTypeOK, SnapIdle, PumpNext
  PROVE  SnapIdle'
<1>1. CASE snap' = snap
  BY <1>1 DEF SnapIdle
<1>2. CASE snap' = NoSnap
  BY <1>2 DEF SnapIdle, NoSnap
<1>3. ASSUME snap' = [run |-> run, started |-> AllStarted, admits |-> {l \in Leaves : Admits(l)}]
      PROVE  SnapIdle'
  <2>1. run # "active" => AllStarted = {}
    BY DEF IInv, TypeOK, PausedRunIsIdle, FinishedRunIsSettled
  <2> QED BY <1>3, <2>1 DEF SnapIdle
<1> QED BY <1>1, <1>2, <1>3, SnapStep

\* What a snapshot leaves out has closed.
LEMMA NextSnapSeen ==
  ASSUME IInv, IInv', PumpTypeOK, Sessions, Launched, SnapSeen, PumpNext
  PROVE  SnapSeen'
<1> SUFFICES ASSUME pc' = "settle", MineHeld', NEW l \in Leaves, NEW k \in Tries, exec'[l][k] # "none"
             PROVE  <<l, k>> \in snap'.started \/ att'[l][k] \in Closed
  BY DEF SnapSeen
<1>1. CASE pc = "settle"
  <2>1. MineHeld
    <3>1. ~StartPump
      BY <1>1 DEF StartPump
    <3> QED BY <3>1, OwnerHere DEF IInv
  <2>2. snap' = snap
    BY <1>1, SnapStep
  <2>3. exec[l][k] # "none"
    BY <1>1, ExecStep, PlaceStep DEF Stays, Halted, Ending, Admitted
  <2> QED BY <1>1, <2>1, <2>2, <2>3, ClosedStaysClosed, PumpNextStore DEF SnapSeen
<1>2. CASE pc # "settle"
  <2>1. DrainEnds /\ pc = "draining"
    BY <1>2, PlaceStep
  <2>2. UNCHANGED <<vars, exec>> /\ snap'.started = AllStarted
    BY <2>1 DEF DrainEnds
  <2>3. att[l][k] \in Running \union Closed /\ att'[l][k] = att[l][k]
    BY <2>2 DEF vars, Launched, IInv, TypeOK
  <2> QED BY <2>2, <2>3 DEF AllStarted, Started
<1> QED BY <1>1, <1>2

\* The pump tells only the executions of closed attempts to stop.
LEMMA NextDoomed ==
  ASSUME IInv, IInv', PumpTypeOK, Sessions, SnapIdle, SnapSeen, Doomed, PumpNext
  PROVE  Doomed'
<1> SUFFICES ASSUME MineHeld', pc' \notin {"leaving", "aborted", "failing"},
                    NEW l \in Leaves, NEW k \in Tries, exec'[l][k] \in {"interrupted", "aborted"}
             PROVE  att'[l][k] \in Closed /\ <<l, k>> \notin snap'.started
  BY DEF Doomed
<1>1. exec' # NoExec /\ exec[l][k] # "none"
  <2>1. exec[l][k] # "none"
    BY ExecStep DEF Stays, Halted, Ending, Admitted
  <2> QED BY <2>1 DEF NoExec
<1>2. pc # "off" /\ pc' # "off" /\ pc \notin {"leaving", "aborted", "failing"}
  <2>1. pc # "off"
    BY <1>1 DEF Sessions, NoExec
  <2> QED BY <1>1, <2>1, PlaceStep
<1>3. MineHeld
  <2>1. ~StartPump
    BY <1>2 DEF StartPump
  <2> QED BY <2>1, OwnerHere DEF IInv
<1>4. att[l][k] \in Closed /\ <<l, k>> \notin snap.started
  <2>1. CASE exec[l][k] \in {"interrupted", "aborted"}
    BY <1>2, <1>3, <2>1 DEF Doomed
  <2>2. CASE exec[l][k] \notin {"interrupted", "aborted"}
    <3>1. pc = "settle" /\ (<<l, k>> \notin snap.started \/ snap.run # "active")
      BY <1>1, <2>2, ExecStep DEF Stays, Halted, Ending, Admitted
    <3> QED BY <1>1, <1>3, <3>1 DEF SnapIdle, SnapSeen
  <2> QED BY <2>1, <2>2
<1>5. att'[l][k] = att[l][k]
  BY <1>4, ClosedStaysClosed, PumpNextStore
<1>6. CASE snap' = snap
  BY <1>4, <1>5, <1>6
<1>7. CASE snap'.started = AllStarted
  BY <1>4, <1>5, <1>7 DEF AllStarted, Started, Running, Closed
<1>8. snap' = snap \/ snap'.started = AllStarted
  <2>1. snap' = snap \/ snap' = [run |-> run, started |-> AllStarted, admits |-> {i \in Leaves : Admits(i)}]
    BY <1>1, SnapStep
  <2> QED BY <2>1
<1> QED BY <1>6, <1>7, <1>8

\* What a snapshot holds does not depend on the lease, on the owners of attempts, or on
\* whether a started attempt is late.
LEMMA SameView ==
  ASSUME UNCHANGED <<run, member, branch, group, gframe, inst>>, AllStarted' = AllStarted
  PROVE  /\ Quiet' <=> Quiet
         /\ \A l \in Leaves : Admits(l)' <=> Admits(l)
<1>1. \A g \in Groups : Outcome(g)' = Outcome(g)
  BY DEF Outcome, Kids
<1>2. Decided' = Decided
  BY <1>1 DEF Decided
<1>3. Batch' = Batch
  BY <1>2 DEF Batch, Depth
<1>4. \A n : BranchReady(n)' <=> BranchReady(n)
  BY DEF BranchReady, Child
<1>5. \A g : GroupReady(g)' <=> GroupReady(g)
  BY DEF GroupReady
<1>6. FramesQuiet' <=> FramesQuiet
  BY <1>4, <1>5 DEF FramesQuiet
<1>7. RootReady' <=> RootReady
  BY DEF RootReady
<1>8. Quiet' <=> Quiet
  BY <1>3, <1>6, <1>7 DEF Quiet
<1>9. \A l \in Leaves : GroupsAdmit(l)' <=> GroupsAdmit(l)
  BY DEF GroupsAdmit, Line, Kids
<1> QED BY <1>8, <1>9 DEF Admits

\* A snapshot is fresh until a transaction changes what it holds.
LEMMA NextSnapTrue ==
  ASSUME IInv, PumpTypeOK, Sessions, SnapTrue, PumpNext
  PROVE  SnapTrue'
<1> SUFFICES ASSUME pc' = "settle", fresh' = TRUE
             PROVE  /\ Quiet' /\ snap'.run = run' /\ snap'.started = AllStarted'
                    /\ snap'.admits = {l \in Leaves : Admits(l)'}
  BY DEF SnapTrue
<1>1. CASE pc = "settle"
  <2>1. snap' = snap
    BY <1>1, SnapStep
  <2>2. /\ fresh = TRUE /\ UNCHANGED <<run, member, branch, group, gframe, inst>>
        /\ AllStarted' = AllStarted
    <3>1. ASSUME UNCHANGED <<proj, fresh>>
          PROVE  /\ fresh = TRUE /\ UNCHANGED <<run, member, branch, group, gframe, inst>>
                 /\ AllStarted' = AllStarted
      BY <3>1 DEF proj, AllStarted, Started
    <3>2. ASSUME NEW l \in Leaves, NEW k \in Tries, Deadline(l, k)
          PROVE  /\ fresh = TRUE /\ UNCHANGED <<run, member, branch, group, gframe, inst>>
                 /\ AllStarted' = AllStarted
      <4>1. \A i \in Leaves, j \in Tries : Started(i, j)' <=> Started(i, j)
        BY <3>2 DEF Deadline, DeadlinePasses, Started, Running, IInv, TypeOK
      <4> QED BY <3>2, <4>1 DEF Deadline, DeadlinePasses, local, AllStarted
    <3>3. ASSUME NEW l \in Leaves, NEW k \in Tries, ExecutionEnds(l, k) PROVE UNCHANGED <<proj, fresh>>
      BY <3>3 DEF ExecutionEnds, vars, proj
    <3>4. CASE Heartbeat \/ Lapse \/ OtherClaim \/ Awaited
      BY <3>1, <3>4 DEF Heartbeat, Lapse, LeaseExpires, OtherClaim, ClaimRun, Awaited, vars, proj, local
    <3>5. CASE OtherStep
      BY <3>1, <3>5 DEF OtherStep, Disturb, ReleaseRun
    <3>6. ~ (SessionControl \/ ShortClaim \/ ShortApply \/ ShortRelease \/ Crash)
      BY <1>1 DEF SessionControl, Disturb, ShortClaim, ShortApply, ShortRelease, Crash, Sessions, Short
    <3>7. ~ PumpStep
      <4>1. ~ (StartPump \/ DrainStep \/ DrainLost \/ DrainEnds \/ RecoverExpired \/ Turn)
        BY <1>1 DEF StartPump, DrainStep, DrainLost, DrainEnds, RecoverExpired, Turn, local
      <4>2. ~ (Return \/ Idle \/ Awaken \/ Leave \/ Interrupting)
        BY <1>1 DEF Return, Idle, Awaken, Leave, Interrupting
      <4> QED BY <4>1, <4>2, PlaceStep DEF PumpStep
    <3> QED BY <3>1, <3>2, <3>3, <3>4, <3>5, <3>6, <3>7 DEF PumpNext, DeskStep
  <2> QED BY <1>1, <2>1, <2>2, SameView DEF SnapTrue
<1>2. CASE pc # "settle"
  <2>1. DrainEnds /\ pc = "draining"
    BY <1>2, PlaceStep
  <2>2. /\ UNCHANGED vars /\ Quiet
        /\ snap' = [run |-> run, started |-> AllStarted, admits |-> {l \in Leaves : Admits(l)}]
    BY <2>1 DEF DrainEnds, Drained
  <2>3. UNCHANGED <<run, member, branch, group, gframe, inst>> /\ AllStarted' = AllStarted
    BY <2>2 DEF vars, AllStarted, Started
  <2> QED BY <2>2, <2>3, SameView
<1> QED BY <1>1, <1>2

\* With a fresh snapshot of an owned Run the pump has work to wait for or to admit.
LEMMA NextFails ==
  ASSUME IInv, IInv', NeverIdle, PumpTypeOK, Sessions, SnapshotFresh, Doomed, Present, SnapTrue,
         FailsOnlyWithoutLease, PumpNext
  PROVE  FailsOnlyWithoutLease'
<1> SUFFICES ASSUME pc' \in {"aborted", "failing"}, MineHeld' PROVE FALSE
  BY DEF FailsOnlyWithoutLease
<1>1. MineHeld
  <2>1. ~StartPump
    BY DEF StartPump
  <2> QED BY <2>1, OwnerHere DEF IInv
<1>2. pc \notin {"aborted", "failing"}
  BY <1>1 DEF FailsOnlyWithoutLease
<1>3. ASSUME NEW l \in Leaves, NEW k \in Tries, Collect(l, k) PROVE FALSE
  <2>1. <<l, k>> \in snap.started
    BY <1>3 DEF Collect
  <2>2. pc' = "turn"
    BY <1>1, <1>3, <2>1, CollectedIsClosed
  <2> QED BY <2>2
<1>4. CASE Idle
  <2>1. pc = "settle" /\ Active = {} /\ woken # TRUE /\ snap.run = "active" /\ Admissible = {}
    BY <1>4 DEF Idle
  <2>2. fresh = TRUE
    BY <1>1, <2>1 DEF SnapshotFresh, PumpTypeOK
  <2>3. Quiet /\ run = "active" /\ snap.admits = {l \in Leaves : Admits(l)}
    BY <2>1, <2>2 DEF SnapTrue
  <2>4. AllStarted = {}
    <3>1. ASSUME NEW l \in Leaves, NEW k \in Tries, Started(l, k) PROVE FALSE
      <4>1. <<l, k>> \in Active
        BY <1>1, <2>1, <3>1 DEF Present, Active
      <4> QED BY <2>1, <4>1
    <3> QED BY <3>1 DEF AllStarted
  <2>5. PICK l \in Leaves : Admits(l)
    BY <2>3, <2>4, NoSignals DEF NeverIdle
  <2>6. Cardinality(Active) < MaxLeaf
    BY <2>1, FS_EmptySet, BoundAssumption
  <2>7. l \in Admissible
    BY <2>3, <2>5, <2>6 DEF Admissible
  <2> QED BY <2>1, <2>7
<1> QED BY <1>2, <1>3, <1>4, PlaceStep

\* the invariant of a driven Run together with what its pump knows
KInv ==
  /\ PInv /\ Unbegun /\ Launched /\ Present /\ SnapIdle /\ SnapSeen /\ Doomed /\ SnapTrue
  /\ FailsOnlyWithoutLease

\* No pump runs at first.
LEMMA InitKInv == PumpInit => KInv
<1> SUFFICES ASSUME PumpInit PROVE KInv
  OBVIOUS
<1>1. PInv
  BY InitPInv
<1>2. pc = "off" /\ exec = NoExec /\ snap = NoSnap
  BY DEF PumpInit
<1> QED BY <1>1, <1>2 DEF KInv, Unbegun, Launched, Present, SnapIdle, SnapSeen, Doomed, SnapTrue,
           FailsOnlyWithoutLease, NoExec, NoSnap

\* What the pump knows is inductive, over a Run that never idles.
LEMMA NextKInv ==
  ASSUME KInv, FinishedRunIsSettled, NeverIdle, [PumpNext]_pvars
  PROVE  KInv'
<1>1. PInv' /\ IInv'
  BY NextPInv DEF KInv, PInv
<1>2. CASE PumpNext
  BY <1>1, <1>2, NextUnbegun, NextLaunched, NextPresent, NextSnapIdle, NextSnapSeen, NextDoomed,
     NextSnapTrue, NextFails DEF KInv, PInv
<1>3. CASE UNCHANGED pvars
  <2>1. UNCHANGED <<vars, pc, mine, exec, snap, fresh>>
    BY <1>3 DEF pvars, local
  <2>2. UNCHANGED <<run, member, branch, group, gframe, inst, att, own, epoch, lease>>
    BY <2>1 DEF vars
  <2>3. AllStarted' = AllStarted /\ (MineHeld' <=> MineHeld)
    BY <2>1, <2>2 DEF AllStarted, Started, MineHeld, Owned
  <2>4. SnapTrue'
    BY <2>1, <2>2, <2>3, SameView DEF KInv, SnapTrue
  <2>5. Unbegun' /\ Launched' /\ SnapIdle' /\ SnapSeen' /\ Doomed' /\ FailsOnlyWithoutLease'
    BY <2>1, <2>2, <2>3 DEF KInv, Unbegun, Launched, SnapIdle, SnapSeen, Doomed, FailsOnlyWithoutLease
  <2>6. Present'
    BY <2>1, <2>2, <2>3 DEF KInv, Present, Started
  <2> QED BY <1>1, <2>4, <2>5, <2>6 DEF KInv
<1> QED BY <1>2, <1>3

\* The pump gives up a Run only when it has lost the lease: neither a pause, a
\* cancellation or a late result, nor the end of all work, is an incident while it owns a
\* plain tree (firstSettledExecution, runExecutionExit, abortDurablyInterruptedExecutions).
THEOREM PumpFailsRightly == NestedPlain /\ PumpSpec => []PumpConsistent
<1>1. CInv => FinishedRunIsSettled /\ NeverIdle
  BY SettledRun, FoundWork
<1>2. PumpInit => KInv
  BY InitKInv
<1>3. KInv /\ FinishedRunIsSettled /\ NeverIdle /\ [PumpNext]_pvars => KInv'
  BY NextKInv
<1>4. KInv => PumpConsistent
  BY DEF KInv, PInv, PumpConsistent
<1> QED BY <1>1, <1>2, <1>3, <1>4, PumpUsesStore, Coherence, PTL DEF PumpSpec

=============================================================================
