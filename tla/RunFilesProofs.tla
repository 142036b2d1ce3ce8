----------------------------- MODULE RunFilesProofs -----------------------------
(***************************************************************************)
(* What holds of RunFiles for any processes, Runs and snapshots.              *)
(***************************************************************************)
EXTENDS RunFiles, TLAPS

-----------------------------------------------------------------------------
(* The inductive invariant: who may touch which Run                          *)

InTx == {"reconciling", "purging", "moving", "deleting"}

\* the transaction is of the process that is inside it
TxHeld == \A p \in Proc : tx = p <=> at[p] \in InTx

\* a prune works while nobody else has the store open
AloneHeld ==
  \A p \in Proc : alone = p => /\ Inside(p) /\ at[p] \notin Admitting
                               /\ \A q \in Proc : q # p => ~Inside(q)

WantHeld ==
  \A p \in Proc : want[p] \in Run <=> at[p] \in Admitting \union Deleting \union {"purging"}

\* an id that is not given has left no trace
FreshUnused ==
  \A r \in fresh : /\ r \notin row \union dirs \union part /\ ~InTrash(r)
                   /\ \A p \in Proc : want[p] # r

\* who admits a Run is alone with it, and has its snapshot
Admitted ==
  \A p \in Proc : at[p] \in Admitting =>
    /\ want[p] \notin row /\ ~InTrash(want[p])
    /\ \A q \in Proc : q # p => want[q] # want[p]
    /\ at[p] \in {"unstage", "insert"} => want[p] \notin part
    /\ at[p] \notin {"source", "discard"} => SourceOf[want[p]] \in sources

\* a Run has its row until its deletion is committed, and what is put back has one
Deleted ==
  \A p \in Proc :
    /\ at[p] = "moving" => want[p] \in row
    /\ at[p] = "deleting" => want[p] \in row /\ trash[want[p]] = p /\ want[p] \notin dirs
    /\ at[p] = "restoring" /\ trash[want[p]] = p => want[p] \in row
    /\ at[p] \in {"removing", "removed", "purging"} => want[p] \notin row

FilesInv ==
  /\ FilesTypeOK /\ TxHeld /\ AloneHeld /\ WantHeld /\ FreshUnused /\ Admitted /\ Deleted
  /\ RowsHaveData /\ OneCapsule /\ OrphansAreLost

\* the prune may delete the Run it has in hand
Spared(p) == want[p] \in over /\ (p \in cutoff => want[p] \notin renewed[p])

\* while a prune deletes a Run nobody can resume it
PruneHeld == \A p \in Proc : alone = p /\ at[p] \in {"moving", "deleting"} => Spared(p)

LEMMA FilesInitInv == FilesInit => FilesInv
<1> SUFFICES ASSUME FilesInit PROVE FilesInv
  OBVIOUS
<1> USE DEF FilesInit
<1>1. FilesTypeOK
  BY FilesAssumption DEF FilesTypeOK, FilesAssumption, Places
<1>2. \A p \in Proc : at[p] = "out" /\ want[p] = Nothing /\ tx = Nothing /\ alone = Nothing
  OBVIOUS
<1>3. TxHeld /\ AloneHeld /\ WantHeld /\ Admitted /\ Deleted
  BY <1>2, FilesAssumption
     DEF FilesAssumption, TxHeld, AloneHeld, WantHeld, Admitted, Deleted, InTx, Admitting, Deleting
<1>4. FreshUnused /\ RowsHaveData /\ OneCapsule /\ OrphansAreLost
  BY <1>2, FilesAssumption
     DEF FilesAssumption, FreshUnused, RowsHaveData, OneCapsule, OrphansAreLost, InTrash, Trashed
<1> QED BY <1>1, <1>3, <1>4 DEF FilesInv

LEMMA FilesStepInv ==
  ASSUME FilesInv, FilesNext
  PROVE  FilesInv'
<1> USE FilesAssumption
    DEF FilesAssumption, FilesInv, FilesTypeOK, TxHeld, AloneHeld, WantHeld, FreshUnused,
        Admitted, Deleted, RowsHaveData, OneCapsule, OrphansAreLost, Inside, InTrash, Trashed,
        Places, Opening, Admitting, Deleting, InTx, Goto, GotoWith, Exit,
        prunes, work, locks, rows, files
<1>1. ASSUME NEW p \in Proc, Open(p) PROVE FilesInv'
  BY <1>1 DEF Open
<1>2. ASSUME NEW p \in Proc, List(p) PROVE FilesInv'
  BY <1>2 DEF List
<1>3. ASSUME NEW p \in Proc, Reconcile(p) PROVE FilesInv'
  BY <1>3 DEF Reconcile
<1>4. ASSUME NEW p \in Proc, PutBack(p) PROVE FilesInv'
  \* the capsule goes back to its place or, its row gone, starts to go
  <2>1. RowsHaveData'
    BY <1>4 DEF PutBack
  \* nobody admits a Run that is in the trash
  <2>2. Admitted'
    BY <1>4 DEF PutBack
  <2>3. FilesTypeOK' /\ TxHeld' /\ AloneHeld' /\ WantHeld' /\ FreshUnused' /\ Deleted'
    BY <1>4 DEF PutBack
  <2>4. OneCapsule' /\ OrphansAreLost'
    BY <1>4 DEF PutBack
  <2> QED BY <2>1, <2>2, <2>3, <2>4
<1>5. ASSUME NEW p \in Proc, Purge(p) PROVE FilesInv'
  BY <1>5 DEF Purge
<1>6. ASSUME NEW p \in Proc, CannotOpen(p) PROVE FilesInv'
  BY <1>6 DEF CannotOpen
<1>7. ASSUME NEW p \in Proc, Opened(p) PROVE FilesInv'
  BY <1>7 DEF Opened
<1>8. ASSUME NEW p \in Proc, Close(p) PROVE FilesInv'
  BY <1>8 DEF Close
<1>9. ASSUME NEW p \in Proc, Sweep(p) PROVE FilesInv'
  BY <1>9 DEF Sweep
<1>10. ASSUME NEW p \in Proc, Check(p) PROVE FilesInv'
  \* the process goes on, or closes the store
  <2>1. FilesTypeOK'
    BY <1>10 DEF Check
  <2>2. TxHeld' /\ AloneHeld' /\ WantHeld' /\ FreshUnused'
    BY <1>10 DEF Check
  <2>3. Admitted' /\ Deleted'
    BY <1>10 DEF Check
  <2>4. RowsHaveData' /\ OneCapsule' /\ OrphansAreLost'
    BY <1>10 DEF Check
  <2> QED BY <2>1, <2>2, <2>3, <2>4
<1>11. ASSUME NEW p \in Proc, Admit(p) PROVE FilesInv'
  BY <1>11 DEF Admit
<1>12. ASSUME NEW p \in Proc, Fork(p) PROVE FilesInv'
  BY <1>12 DEF Fork
<1>13. ASSUME NEW p \in Proc, PublishSource(p) PROVE FilesInv'
  BY <1>13 DEF PublishSource
<1>14. ASSUME NEW p \in Proc, Stage(p) PROVE FilesInv'
  BY <1>14 DEF Stage
<1>15. ASSUME NEW p \in Proc, Make(p) PROVE FilesInv'
  \* the id was given to p alone and has no capsule in the trash
  <2>1. OneCapsule'
    BY <1>15 DEF Make
  <2> QED BY <1>15, <2>1 DEF Make
<1>16. ASSUME NEW p \in Proc, Fill(p) PROVE FilesInv'
  BY <1>16 DEF Fill
<1>17. ASSUME NEW p \in Proc, Unstage(p) PROVE FilesInv'
  BY <1>17 DEF Unstage
<1>18. ASSUME NEW p \in Proc, Insert(p) PROVE FilesInv'
  \* the capsule was filled and the snapshot published before
  <2>1. RowsHaveData'
    BY <1>18 DEF Insert
  \* no other process works with the Run
  <2>2. Deleted'
    BY <1>18 DEF Insert
  <2> QED BY <1>18, <2>1, <2>2 DEF Insert
<1>19. ASSUME NEW p \in Proc, AdmissionFails(p) PROVE FilesInv'
  BY <1>19 DEF AdmissionFails
<1>20. ASSUME NEW p \in Proc, Discard(p) PROVE FilesInv'
  BY <1>20 DEF Discard
<1>21. ASSUME NEW p \in Proc, Delete(p) PROVE FilesInv'
  BY <1>21 DEF Delete, BeginDelete
<1>22. ASSUME NEW p \in Proc, Move(p) PROVE FilesInv'
  \* in the trash the capsule is still there to be put back
  <2>1. RowsHaveData'
    BY <1>22 DEF Move
  <2> QED BY <1>22, <2>1 DEF Move
<1>23. ASSUME NEW p \in Proc, CannotMove(p) PROVE FilesInv'
  BY <1>23 DEF CannotMove
<1>24. ASSUME NEW p \in Proc, CommitDelete(p) PROVE FilesInv'
  \* the directory has left its place, and nobody else can put it back
  <2>1. OrphansAreLost'
    BY <1>24 DEF CommitDelete
  \* whoever else gave the Run up finds the entry of p, not its own
  <2>2. Deleted'
    BY <1>24 DEF CommitDelete
  <2> QED BY <1>24, <2>1, <2>2 DEF CommitDelete
<1>25. ASSUME NEW p \in Proc, DeleteFails(p) PROVE FilesInv'
  BY <1>25 DEF DeleteFails
<1>26. ASSUME NEW p \in Proc, Restore(p) PROVE FilesInv'
  \* an entry of its own has its row
  <2>1. OrphansAreLost'
    BY <1>26 DEF Restore
  <2> QED BY <1>26, <2>1 DEF Restore
<1>27. ASSUME NEW p \in Proc, Remove(p) PROVE FilesInv'
  <2>1. FilesTypeOK'
    <3>1. CASE trash[want[p]] = p
      BY <1>27, <3>1 DEF Remove
    <3>2. CASE trash[want[p]] # p
      BY <1>27, <3>2 DEF Remove
    <3> QED BY <3>1, <3>2
  <2>2. TxHeld' /\ AloneHeld' /\ WantHeld' /\ FreshUnused'
    BY <1>27 DEF Remove
  <2>3. Admitted' /\ Deleted'
    BY <1>27 DEF Remove
  <2>4. RowsHaveData' /\ OneCapsule' /\ OrphansAreLost'
    BY <1>27 DEF Remove
  <2> QED BY <2>1, <2>2, <2>3, <2>4
<1>28. ASSUME NEW p \in Proc, Removed(p) PROVE FilesInv'
  BY <1>28 DEF Removed
<1>29. ASSUME NEW p \in Proc, Select(p) PROVE FilesInv'
  BY <1>29 DEF Select
<1>30. ASSUME NEW p \in Proc, Lock(p) PROVE FilesInv'
  BY <1>30 DEF Lock
<1>31. ASSUME NEW p \in Proc, Busy(p) PROVE FilesInv'
  BY <1>31 DEF Busy
<1>32. ASSUME NEW p \in Proc, Prune(p) PROVE FilesInv'
  BY <1>32 DEF Prune, Eligible, BeginDelete
<1>33. ASSUME NEW p \in Proc, PruneSources(p) PROVE FilesInv'
  \* no admission runs while a prune has the workspace
  <2>1. Admitted'
    BY <1>33 DEF PruneSources
  <2> QED BY <1>33, <2>1 DEF PruneSources
<1>34. ASSUME NEW p \in Proc, Drive(p) PROVE FilesInv'
  BY <1>34 DEF Drive, Writable
<1>35. ASSUME NEW p \in Proc, Crash(p) PROVE FilesInv'
  BY <1>35 DEF Crash
<1>36. CASE Lapse
  BY <1>36 DEF Lapse
<1> QED BY <1>1, <1>2, <1>3, <1>4, <1>5, <1>6, <1>7, <1>8, <1>9, <1>10, <1>11, <1>12, <1>13,
         <1>14, <1>15, <1>16, <1>17, <1>18, <1>19, <1>20, <1>21, <1>22, <1>23, <1>24, <1>25,
         <1>26, <1>27, <1>28, <1>29, <1>30, <1>31, <1>32, <1>33, <1>34, <1>35, <1>36
     DEF FilesNext, OpenStep, AdmitStep, DeleteStep, PruneStep

LEMMA FilesInvConsistent == FilesInv => FilesConsistent
  BY DEF FilesInv, FilesConsistent

LEMMA PruneStepHeld ==
  ASSUME FilesInv, PruneHeld, [FilesNext]_fvars
  PROVE  /\ PruneHeld'
         /\ \A p \in Proc : alone = p /\ at[p] = "deleting" /\ row' # row => Spared(p)
<1> USE DEF PruneHeld, Spared, AloneHeld, TxHeld, Inside, Goto, GotoWith, Exit, prunes, work, locks, rows, files,
            FilesInv, FilesTypeOK, InTx, Admitting, Deleting
<1>1. ASSUME NEW p \in Proc, Open(p) PROVE PruneHeld'
  BY <1>1 DEF Open
<1>2. ASSUME NEW p \in Proc, List(p) PROVE PruneHeld'
  BY <1>2 DEF List
<1>3. ASSUME NEW p \in Proc, Reconcile(p) PROVE PruneHeld'
  BY <1>3 DEF Reconcile
<1>4. ASSUME NEW p \in Proc, PutBack(p) PROVE PruneHeld'
  BY <1>4 DEF PutBack
<1>5. ASSUME NEW p \in Proc, Purge(p) PROVE PruneHeld'
  BY <1>5 DEF Purge
<1>6. ASSUME NEW p \in Proc, CannotOpen(p) PROVE PruneHeld'
  BY <1>6 DEF CannotOpen
<1>7. ASSUME NEW p \in Proc, Opened(p) PROVE PruneHeld'
  BY <1>7 DEF Opened
<1>8. ASSUME NEW p \in Proc, Close(p) PROVE PruneHeld'
  BY <1>8 DEF Close
<1>9. ASSUME NEW p \in Proc, Sweep(p) PROVE PruneHeld'
  BY <1>9 DEF Sweep
<1>10. ASSUME NEW p \in Proc, Check(p) PROVE PruneHeld'
  BY <1>10 DEF Check
<1>11. ASSUME NEW p \in Proc, Admit(p) PROVE PruneHeld'
  BY <1>11 DEF Admit
<1>12. ASSUME NEW p \in Proc, Fork(p) PROVE PruneHeld'
  BY <1>12 DEF Fork
<1>13. ASSUME NEW p \in Proc, PublishSource(p) PROVE PruneHeld'
  BY <1>13 DEF PublishSource
<1>14. ASSUME NEW p \in Proc, Stage(p) PROVE PruneHeld'
  BY <1>14 DEF Stage
<1>15. ASSUME NEW p \in Proc, Make(p) PROVE PruneHeld'
  BY <1>15 DEF Make
<1>16. ASSUME NEW p \in Proc, Fill(p) PROVE PruneHeld'
  BY <1>16 DEF Fill
<1>17. ASSUME NEW p \in Proc, Unstage(p) PROVE PruneHeld'
  BY <1>17 DEF Unstage
<1>18. ASSUME NEW p \in Proc, Insert(p) PROVE PruneHeld'
  BY <1>18 DEF Insert
<1>19. ASSUME NEW p \in Proc, AdmissionFails(p) PROVE PruneHeld'
  BY <1>19 DEF AdmissionFails
<1>20. ASSUME NEW p \in Proc, Discard(p) PROVE PruneHeld'
  BY <1>20 DEF Discard
<1>21. ASSUME NEW p \in Proc, Delete(p) PROVE PruneHeld'
  BY <1>21 DEF Delete, BeginDelete
<1>22. ASSUME NEW p \in Proc, Move(p) PROVE PruneHeld'
  BY <1>22 DEF Move
<1>23. ASSUME NEW p \in Proc, CannotMove(p) PROVE PruneHeld'
  BY <1>23 DEF CannotMove
<1>24. ASSUME NEW p \in Proc, CommitDelete(p) PROVE PruneHeld'
  BY <1>24 DEF CommitDelete
<1>25. ASSUME NEW p \in Proc, DeleteFails(p) PROVE PruneHeld'
  BY <1>25 DEF DeleteFails
<1>26. ASSUME NEW p \in Proc, Restore(p) PROVE PruneHeld'
  BY <1>26 DEF Restore
<1>27. ASSUME NEW p \in Proc, Remove(p) PROVE PruneHeld'
  BY <1>27 DEF Remove
<1>28. ASSUME NEW p \in Proc, Removed(p) PROVE PruneHeld'
  BY <1>28 DEF Removed
<1>29. ASSUME NEW p \in Proc, Select(p) PROVE PruneHeld'
  BY <1>29 DEF Select
<1>30. ASSUME NEW p \in Proc, Lock(p) PROVE PruneHeld'
  BY <1>30 DEF Lock
<1>31. ASSUME NEW p \in Proc, Busy(p) PROVE PruneHeld'
  BY <1>31 DEF Busy
<1>32. ASSUME NEW p \in Proc, Prune(p) PROVE PruneHeld'
  BY <1>32 DEF Prune, Eligible, BeginDelete
<1>33. ASSUME NEW p \in Proc, PruneSources(p) PROVE PruneHeld'
  BY <1>33 DEF PruneSources
<1>34. ASSUME NEW p \in Proc, Drive(p) PROVE PruneHeld'
  BY <1>34 DEF Drive, Writable
<1>35. ASSUME NEW p \in Proc, Crash(p) PROVE PruneHeld'
  BY <1>35 DEF Crash
<1>36. CASE Lapse
  BY <1>36 DEF Lapse
<1>37. CASE UNCHANGED fvars
  BY <1>37 DEF fvars
<1>38. PruneHeld'
BY <1>1, <1>2, <1>3, <1>4, <1>5, <1>6, <1>7, <1>8, <1>9, <1>10, <1>11, <1>12, <1>13, <1>14,
         <1>15, <1>16, <1>17, <1>18, <1>19, <1>20, <1>21, <1>22, <1>23, <1>24, <1>25, <1>26,
         <1>27, <1>28, <1>29, <1>30, <1>31, <1>32, <1>33, <1>34, <1>35, <1>36, <1>37 DEF
         FilesNext, OpenStep, AdmitStep, DeleteStep, PruneStep
<1>39. \A p \in Proc : alone = p /\ at[p] = "deleting" => Spared(p)
  OBVIOUS
<1> QED BY <1>38, <1>39

-----------------------------------------------------------------------------
\* Whatever ends or fails between two steps, the rows and the files of Runs agree.
THEOREM FilesAgree == FilesSpec => []FilesConsistent
<1>1. FilesInv /\ UNCHANGED fvars => FilesInv'
  BY DEF FilesInv, FilesTypeOK, TxHeld, AloneHeld, WantHeld, FreshUnused, Admitted, Deleted,
         RowsHaveData, OneCapsule, OrphansAreLost, Inside, InTrash, Trashed,
         fvars, prunes, work, locks, rows, files
<1>2. FilesInv /\ [FilesNext]_fvars => FilesInv'
  BY <1>1, FilesStepInv
<1> QED BY <1>2, FilesInitInv, FilesInvConsistent, PTL DEF FilesSpec

\* A prune with a cutoff deletes no Run that was resumed after the prune had chosen it,
\* though that Run has ended again since; and no prune deletes a Run that has not ended.
THEOREM PruneSpares == FilesSpec => PruneSparesResumed
<1>1. FilesInit => PruneHeld
  BY FilesAssumption DEF FilesInit, PruneHeld, FilesAssumption
<1>2. FilesInv /\ UNCHANGED fvars => FilesInv'
  BY DEF FilesInv, FilesTypeOK, TxHeld, AloneHeld, WantHeld, FreshUnused, Admitted, Deleted,
         RowsHaveData, OneCapsule, OrphansAreLost, Inside, InTrash, Trashed,
         fvars, prunes, work, locks, rows, files
<1>3. FilesInv /\ [FilesNext]_fvars => FilesInv'
  BY <1>2, FilesStepInv
<1>4. FilesInv /\ PruneHeld /\ [FilesNext]_fvars
        => PruneHeld' /\ [\A p \in Proc : alone = p /\ at[p] = "deleting" /\ row' # row
                                      => Spared(p)]_fvars
  BY PruneStepHeld
<1> QED BY <1>1, <1>3, <1>4, FilesInitInv, PTL DEF FilesSpec, PruneSparesResumed, Spared
=============================================================================
