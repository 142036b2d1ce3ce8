-------------------------------- MODULE RunFiles --------------------------------
(***************************************************************************)
(* The files of Runs beside their rows (store.ts, runs/prune.ts).  A Run has  *)
(* a row in the database and a directory, its capsule; its workflow is a      *)
(* snapshot in sources/, shared by Runs.  Rows change in transactions, one    *)
(* writer at a time; directories change one file system call at a time, and   *)
(* a process may end between any two.  Admission and fork make the capsule    *)
(* before the row; deletion moves it to trash/ inside the transaction that    *)
(* deletes the row, and whoever opens the store settles what it finds there.  *)
(* Prune has the workspace for itself, by the lock of RuntimeLock, which is   *)
(* taken here at its word.                                                    *)
(***************************************************************************)
EXTENDS Naturals

CONSTANTS
  Proc,       \* processes: a daemon, commands, a prune, as they come
  Run,        \* Run ids; an id is given once
  Source,     \* workflow snapshots
  SourceOf,   \* the snapshot a Run refers to
  Nothing,    \* no process, no Run
  MaxCrashes  \* bound on the processes that end in the middle of something

ASSUME FilesAssumption ==
  /\ Nothing \notin Proc /\ Nothing \notin Run
  /\ SourceOf \in [Run -> Source] /\ MaxCrashes \in Nat

VARIABLES
  at,      \* what each process does
  want,    \* the Run it does it with
  base,    \* the Run it forks
  listed,  \* the Runs whose capsules it has found and not looked at
  chosen,  \* what a prune has still to delete
  cutoff,  \* the prunes that delete nothing that has changed since they began
  renewed, \* of the Runs a prune has chosen, those that were resumed since
  alone,   \* the prune that has the workspace for itself
  tx,      \* the process in a write transaction that is not one step
  fresh,   \* ids not given yet
  row,     \* Runs with a committed row
  leased,  \* Runs with a live lease
  over,    \* Runs that have ended
  dirs,    \* Runs with a directory in runs/
  trash,   \* for a Run in trash/, the process that moved it there
  part,    \* Runs whose capsule is not whole
  staged,  \* Runs with a staging directory
  sources, \* published snapshots
  lost,    \* history: ids whose admission ended in a crash
  crashes

prunes == <<chosen, cutoff, renewed>>
work  == <<at, want, base, listed, prunes>>
locks == <<alone, tx>>
rows  == <<fresh, row, leased, over>>
files == <<dirs, trash, part, staged, sources>>
fvars == <<work, locks, rows, files, lost, crashes>>

Opening   == {"opening", "reconcile", "reconciling", "purging"}
Admitting == {"source", "stage", "make", "fill", "unstage", "insert", "discard"}
Deleting  == {"moving", "deleting", "restoring", "removing", "removed"}
Places    == {"out", "selected", "open", "check"} \union Opening \union Admitting \union Deleting

\* the process holds the workspace's lock, shared or for itself
Inside(p) == at[p] \notin {"out", "selected"}

FilesInit ==
  /\ at = [p \in Proc |-> "out"] /\ want = [p \in Proc |-> Nothing]
  /\ base = [p \in Proc |-> Nothing] /\ listed = [p \in Proc |-> {}]
  /\ chosen = [p \in Proc |-> {}] /\ cutoff = {} /\ renewed = [p \in Proc |-> {}]
  /\ alone = Nothing /\ tx = Nothing
  /\ fresh = Run /\ row = {} /\ leased = {} /\ over = {}
  /\ dirs = {} /\ trash = [r \in Run |-> Nothing] /\ part = {} /\ staged = {} /\ sources = {}
  /\ lost = {} /\ crashes = 0

Goto(p, place) == at' = [at EXCEPT ![p] = place]
GotoWith(p, place, r) == Goto(p, place) /\ want' = [want EXCEPT ![p] = r]

\* the process closes its store, or ends
Exit(p) ==
  /\ at' = [at EXCEPT ![p] = "out"] /\ want' = [want EXCEPT ![p] = Nothing]
  /\ base' = [base EXCEPT ![p] = Nothing] /\ listed' = [listed EXCEPT ![p] = {}]
  /\ chosen' = [chosen EXCEPT ![p] = {}] /\ cutoff' = cutoff \ {p}
  /\ renewed' = [renewed EXCEPT ![p] = {}]
  /\ alone' = IF alone = p THEN Nothing ELSE alone
  /\ tx' = IF tx = p THEN Nothing ELSE tx

InTrash(r) == trash[r] # Nothing
Trashed    == {r \in Run : InTrash(r)}

-----------------------------------------------------------------------------
(* Opening a store that may be written, and settling trash/ (reconcileTrash) *)

Open(p) ==
  /\ at[p] = "out" /\ alone = Nothing /\ Goto(p, "opening")
  /\ UNCHANGED <<want, base, listed, prunes, locks, rows, files, lost, crashes>>

\* the names are read before the transaction begins
List(p) ==
  /\ at[p] = "opening"
  /\ Goto(p, IF Trashed = {} THEN "open" ELSE "reconcile")
  /\ listed' = [listed EXCEPT ![p] = Trashed]
  /\ UNCHANGED <<want, base, prunes, locks, rows, files, lost, crashes>>

Reconcile(p) ==
  /\ at[p] = "reconcile" /\ tx = Nothing
  /\ tx' = p /\ Goto(p, "reconciling")
  /\ UNCHANGED <<want, base, listed, prunes, alone, rows, files, lost, crashes>>

\* mutant: an entry is a deletion that was interrupted before its last step
PutBackNever(p) ==
  /\ at[p] = "reconciling"
  /\ \E r \in listed[p] :
       /\ InTrash(r) /\ r \notin dirs
       /\ part' = part \union {r} /\ UNCHANGED <<dirs, trash>>
       /\ GotoWith(p, "purging", r)
       /\ listed' = [listed EXCEPT ![p] = @ \ {r}]
  /\ UNCHANGED <<base, prunes, locks, rows, staged, sources, lost, crashes>>

\* the deletion was not committed: the capsule goes back
PutBack(p) ==
  /\ at[p] = "reconciling"
  /\ \E r \in listed[p] :
       /\ InTrash(r) /\ r \notin dirs
       /\ IF r \in row
          THEN /\ dirs' = dirs \union {r} /\ trash' = [trash EXCEPT ![r] = Nothing]
               /\ UNCHANGED <<at, want, part>>
          ELSE part' = part \union {r} /\ UNCHANGED <<dirs, trash>> /\ GotoWith(p, "purging", r)
       /\ listed' = [listed EXCEPT ![p] = @ \ {r}]
  /\ UNCHANGED <<base, prunes, locks, rows, staged, sources, lost, crashes>>

\* the deletion was committed: the rest of the capsule goes (rm is forced)
Purge(p) ==
  /\ at[p] = "purging"
  /\ trash' = [trash EXCEPT ![want[p]] = Nothing] /\ part' = part \ {want[p]}
  /\ GotoWith(p, "reconciling", Nothing)
  /\ UNCHANGED <<base, listed, prunes, locks, rows, dirs, staged, sources, lost, crashes>>

\* an entry that went away since it was listed, or whose Run has a directory
CannotOpen(p) ==
  /\ at[p] = "reconciling" /\ \E r \in listed[p] : ~InTrash(r) \/ r \in dirs
  /\ Exit(p)
  /\ UNCHANGED <<rows, files, lost, crashes>>

Opened(p) ==
  /\ at[p] = "reconciling" /\ listed[p] = {}
  /\ tx' = Nothing /\ Goto(p, "open")
  /\ UNCHANGED <<want, base, listed, prunes, alone, rows, files, lost, crashes>>

Close(p) == at[p] = "open" /\ Exit(p) /\ UNCHANGED <<rows, files, lost, crashes>>

-----------------------------------------------------------------------------
(* A daemon starts: cleanupStagedRunDirectories *)

\* staging directories that have not changed for a while are removed
Sweep(p) ==
  /\ at[p] = "open" /\ alone # p
  /\ Goto(p, "check") /\ listed' = [listed EXCEPT ![p] = dirs]
  /\ \E old \in SUBSET staged : staged' = staged \ old
  /\ UNCHANGED <<want, base, prunes, locks, rows, dirs, trash, part, sources, lost, crashes>>

\* a directory without a row is left for an operator, and the daemon does not start
Check(p) ==
  /\ at[p] = "check"
  /\ IF listed[p] \subseteq row
     THEN /\ Goto(p, "open") /\ listed' = [listed EXCEPT ![p] = {}]
          /\ UNCHANGED <<want, base, prunes, locks>>
     ELSE Exit(p)
  /\ UNCHANGED <<rows, files, lost, crashes>>

-----------------------------------------------------------------------------
(* Admission and fork: admitRunResult, forkRun, publishRunDirectory *)

Admit(p) ==
  /\ at[p] = "open" /\ alone # p
  /\ \E r \in fresh :
       /\ fresh' = fresh \ {r}
       /\ GotoWith(p, "source", r)
  /\ UNCHANGED <<base, listed, prunes, locks, row, leased, over, files, lost, crashes>>

\* a fork without a workflow of its own takes the snapshot of the Run it forks
Fork(p) ==
  /\ at[p] = "open" /\ alone # p
  /\ \E r \in fresh, b \in row \intersect dirs :
       /\ SourceOf[r] = SourceOf[b]
       /\ fresh' = fresh \ {r} /\ base' = [base EXCEPT ![p] = b]
       /\ GotoWith(p, "stage", r)
  /\ UNCHANGED <<listed, prunes, locks, row, leased, over, files, lost, crashes>>

PublishSource(p) ==
  /\ at[p] = "source" /\ Goto(p, "stage")
  /\ sources' = sources \union {SourceOf[want[p]]}
  /\ UNCHANGED <<want, base, listed, prunes, locks, rows, dirs, trash, part, staged, lost, crashes>>

Stage(p) ==
  /\ at[p] = "stage" /\ Goto(p, "make")
  /\ staged' = staged \union {want[p]}
  /\ UNCHANGED <<want, base, listed, prunes, locks, rows, dirs, trash, part, sources, lost, crashes>>

Make(p) ==
  /\ at[p] = "make" /\ Goto(p, "fill")
  /\ dirs' = dirs \union {want[p]} /\ part' = part \union {want[p]}
  /\ UNCHANGED <<want, base, listed, prunes, locks, rows, trash, staged, sources, lost, crashes>>

\* the forked Run's directory is where it was
BaseStands(p) == base[p] # Nothing => base[p] \in dirs

Fill(p) ==
  /\ at[p] = "fill" /\ want[p] \in staged /\ BaseStands(p)
  /\ Goto(p, "unstage") /\ part' = part \ {want[p]}
  /\ UNCHANGED <<want, base, listed, prunes, locks, rows, dirs, trash, staged, sources, lost, crashes>>

Unstage(p) ==
  /\ at[p] = "unstage" /\ want[p] \in staged
  /\ Goto(p, "insert") /\ staged' = staged \ {want[p]}
  /\ UNCHANGED <<want, base, listed, prunes, locks, rows, dirs, trash, part, sources, lost, crashes>>

Insert(p) ==
  /\ at[p] = "insert" /\ tx = Nothing /\ want[p] \in dirs
  /\ BaseStands(p) /\ (base[p] # Nothing => base[p] \in row)
  /\ row' = row \union {want[p]}
  /\ GotoWith(p, "open", Nothing) /\ base' = [base EXCEPT ![p] = Nothing]
  /\ UNCHANGED <<listed, prunes, locks, fresh, leased, over, files, lost, crashes>>

\* a call fails, a check does not hold, the forked Run has changed, the database is busy
AdmissionFails(p) ==
  /\ at[p] \in Admitting \ {"discard"} /\ Goto(p, "discard")
  /\ UNCHANGED <<want, base, listed, prunes, locks, rows, files, lost, crashes>>

Discard(p) ==
  /\ at[p] = "discard"
  /\ dirs' = dirs \ {want[p]} /\ part' = part \ {want[p]} /\ staged' = staged \ {want[p]}
  /\ GotoWith(p, "open", Nothing) /\ base' = [base EXCEPT ![p] = Nothing]
  /\ UNCHANGED <<listed, prunes, locks, rows, trash, sources, lost, crashes>>

-----------------------------------------------------------------------------
(* Deletion: deleteRunResult *)

BeginDelete(p, r) == tx = Nothing /\ tx' = p /\ GotoWith(p, "moving", r)

Delete(p) ==
  /\ at[p] = "open" /\ alone # p
  /\ \E r \in row \ leased : BeginDelete(p, r)
  /\ UNCHANGED <<base, listed, prunes, alone, rows, files, lost, crashes>>

Move(p) ==
  /\ at[p] = "moving" /\ want[p] \in dirs /\ Goto(p, "deleting")
  /\ dirs' = dirs \ {want[p]} /\ trash' = [trash EXCEPT ![want[p]] = p]
  /\ UNCHANGED <<want, base, listed, prunes, locks, rows, part, staged, sources, lost, crashes>>

\* the directory is not there, or cannot be moved
CannotMove(p) ==
  /\ at[p] = "moving" /\ Exit(p) /\ UNCHANGED <<rows, files, lost, crashes>>

CommitDelete(p) ==
  /\ at[p] = "deleting" /\ tx' = Nothing /\ Goto(p, "removing")
  /\ row' = row \ {want[p]} /\ over' = over \ {want[p]}
  /\ UNCHANGED <<want, base, listed, prunes, alone, fresh, leased, files, lost, crashes>>

DeleteFails(p) ==
  /\ at[p] = "deleting" /\ tx' = Nothing /\ Goto(p, "restoring")
  /\ UNCHANGED <<want, base, listed, prunes, alone, rows, files, lost, crashes>>

\* another may have put the capsule back, and even deleted the Run since
Restore(p) ==
  /\ at[p] = "restoring"
  /\ IF trash[want[p]] = p /\ want[p] \notin dirs
     THEN dirs' = dirs \union {want[p]} /\ trash' = [trash EXCEPT ![want[p]] = Nothing]
     ELSE UNCHANGED <<dirs, trash>>
  /\ Exit(p)
  /\ UNCHANGED <<rows, part, staged, sources, lost, crashes>>

\* the capsule goes, file by file; another may be at it, or done
Remove(p) ==
  /\ at[p] = "removing"
  /\ IF trash[want[p]] = p
     THEN /\ part' = part \union {want[p]} /\ Goto(p, "removed")
          /\ UNCHANGED <<want, base, listed, prunes, locks>>
     ELSE Exit(p) /\ UNCHANGED part
  /\ UNCHANGED <<rows, dirs, trash, staged, sources, lost, crashes>>

Removed(p) ==
  /\ at[p] = "removed"
  /\ trash' = [trash EXCEPT ![want[p]] = Nothing] /\ part' = part \ {want[p]}
  /\ GotoWith(p, "open", Nothing)
  /\ UNCHANGED <<base, listed, prunes, locks, rows, dirs, staged, sources, lost, crashes>>

-----------------------------------------------------------------------------
(* Prune: pruneShard *)

\* what is to go is chosen before the lock is held, with a cutoff (the command's
\* prunes) or without one
Select(p) ==
  /\ at[p] = "out" /\ Goto(p, "selected")
  /\ \E S \in SUBSET (row \intersect over) : chosen' = [chosen EXCEPT ![p] = S]
  /\ cutoff' \in {cutoff, cutoff \union {p}}
  /\ UNCHANGED <<renewed, want, base, listed, locks, rows, files, lost, crashes>>

Lock(p) ==
  /\ at[p] = "selected" /\ alone = Nothing /\ \A q \in Proc : ~Inside(q)
  /\ alone' = p /\ Goto(p, "opening")
  /\ UNCHANGED <<want, base, listed, prunes, tx, rows, files, lost, crashes>>

Busy(p) ==
  /\ at[p] = "selected" /\ Exit(p) /\ UNCHANGED <<rows, files, lost, crashes>>

\* mutant: a Run that is over is deleted, whatever it went through since it was chosen
PruneOver(p) ==
  /\ at[p] = "open" /\ alone = p
  /\ \E r \in chosen[p] :
       /\ chosen' = [chosen EXCEPT ![p] = @ \ {r}]
       /\ IF r \in (row \intersect over) \ leased THEN BeginDelete(p, r)
          ELSE UNCHANGED <<at, want, tx>>
  /\ UNCHANGED <<cutoff, renewed, base, listed, alone, rows, files, lost, crashes>>

\* runEligibleForPrune: the cutoff is of before the choice, and updated_at of a Run
\* that was resumed since of after it
Eligible(p, r) ==
  r \in (row \intersect over) \ leased /\ (p \in cutoff => r \notin renewed[p])

\* what was chosen is looked at again: a Run that is gone, or goes on, or is too
\* young by now, is passed over
Prune(p) ==
  /\ at[p] = "open" /\ alone = p
  /\ \E r \in chosen[p] :
       /\ chosen' = [chosen EXCEPT ![p] = @ \ {r}]
       /\ IF Eligible(p, r) THEN BeginDelete(p, r) ELSE UNCHANGED <<at, want, tx>>
  /\ UNCHANGED <<cutoff, renewed, base, listed, alone, rows, files, lost, crashes>>

\* snapshots no row refers to; the capsules of all rows are looked at for it
PruneSources(p) ==
  /\ at[p] = "open" /\ alone = p /\ chosen[p] = {} /\ row \subseteq dirs
  /\ sources' = sources \intersect {SourceOf[r] : r \in row}
  /\ Exit(p)
  /\ UNCHANGED <<rows, dirs, trash, part, staged, lost, crashes>>

-----------------------------------------------------------------------------
(* The life of a Run, by a process that has the store open *)

Writable(p) == at[p] = "open" /\ alone # p /\ tx = Nothing

Drive(p) ==
  /\ Writable(p)
  /\ \E r \in row :
       \/ r \notin leased \union over /\ leased' = leased \union {r} /\ UNCHANGED <<over, renewed>>
       \/ r \in leased /\ leased' = leased \ {r} /\ over' \in {over, over \union {r}} /\ UNCHANGED renewed
       \/ /\ r \in over /\ over' = over \ {r} /\ UNCHANGED leased
          /\ renewed' = [q \in Proc |-> renewed[q] \union (chosen[q] \intersect {r})]
  /\ UNCHANGED <<at, want, base, listed, chosen, cutoff, locks, fresh, row, files, lost, crashes>>

\* a lease lapses
Lapse ==
  /\ \E r \in leased : leased' = leased \ {r}
  /\ UNCHANGED <<work, locks, fresh, row, over, files, lost, crashes>>

\* the process ends between two steps; its transaction is rolled back
Crash(p) ==
  /\ Inside(p) /\ crashes < MaxCrashes /\ crashes' = crashes + 1
  /\ lost' = IF at[p] \in Admitting THEN lost \union {want[p]} ELSE lost
  /\ Exit(p)
  /\ UNCHANGED <<rows, files>>

-----------------------------------------------------------------------------
OpenStep(p) ==
  List(p) \/ Reconcile(p) \/ PutBack(p) \/ Purge(p) \/ CannotOpen(p) \/ Opened(p) \/ Check(p)

AdmitStep(p) ==
  \/ PublishSource(p) \/ Stage(p) \/ Make(p) \/ Fill(p) \/ Unstage(p) \/ Insert(p)
  \/ AdmissionFails(p) \/ Discard(p)

DeleteStep(p) ==
  \/ Move(p) \/ CannotMove(p) \/ CommitDelete(p) \/ DeleteFails(p) \/ Restore(p)
  \/ Remove(p) \/ Removed(p)

PruneStep(p) == Lock(p) \/ Busy(p) \/ Prune(p) \/ PruneSources(p)

FilesNext ==
  \/ \E p \in Proc :
       \/ Open(p) \/ OpenStep(p) \/ Close(p) \/ Sweep(p)
       \/ Admit(p) \/ Fork(p) \/ AdmitStep(p)
       \/ Delete(p) \/ DeleteStep(p)
       \/ Select(p) \/ PruneStep(p)
       \/ Drive(p) \/ Crash(p)
  \/ Lapse

FilesSpec == FilesInit /\ [][FilesNext]_fvars

-----------------------------------------------------------------------------
(* Properties *)

FilesTypeOK ==
  /\ at \in [Proc -> Places] /\ want \in [Proc -> Run \union {Nothing}]
  /\ base \in [Proc -> Run \union {Nothing}]
  /\ listed \in [Proc -> SUBSET Run] /\ chosen \in [Proc -> SUBSET Run]
  /\ cutoff \subseteq Proc /\ renewed \in [Proc -> SUBSET Run]
  /\ alone \in Proc \union {Nothing} /\ tx \in Proc \union {Nothing}
  /\ fresh \subseteq Run /\ row \subseteq Run /\ leased \subseteq Run /\ over \subseteq Run
  /\ dirs \subseteq Run /\ trash \in [Run -> Proc \union {Nothing}] /\ part \subseteq Run
  /\ staged \subseteq Run /\ sources \subseteq Source /\ lost \subseteq Run
  /\ crashes \in 0 .. MaxCrashes

\* What a row stands for is never lost: the Run's capsule is whole, in its place
\* or in the trash from where it is put back, and its snapshot is there.
RowsHaveData ==
  \A r \in row : /\ r \in dirs \/ InTrash(r)
                 /\ r \notin part /\ SourceOf[r] \in sources

\* A capsule is in one place, so that settling the trash never meets a directory
\* in its way.
OneCapsule == dirs \intersect Trashed = {}

\* A directory without a row, which keeps a daemon from starting, is of an
\* admission that still runs or that ended in a crash; no deletion leaves one.
OrphansAreLost ==
  \A r \in dirs \ row : r \in lost \/ \E p \in Proc : at[p] \in Admitting /\ want[p] = r

\* The rows and the files of Runs agree.
FilesConsistent == FilesTypeOK /\ RowsHaveData /\ OneCapsule /\ OrphansAreLost

\* A prune with a cutoff deletes no Run that was resumed after the prune had chosen
\* it, though that Run has ended again by the time it is deleted; and no prune deletes
\* a Run that has not ended.
PruneSparesResumed ==
  [][\A p \in Proc : alone = p /\ at[p] = "deleting" /\ row' # row =>
       want[p] \in over /\ (p \in cutoff => want[p] \notin renewed[p])]_fvars
=============================================================================
