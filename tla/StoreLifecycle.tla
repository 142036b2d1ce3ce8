----------------------------- MODULE StoreLifecycle -----------------------------
(***************************************************************************)
(* The store of a workspace from one version of the program to the next       *)
(* (runtime-store-lifecycle.ts, runtime-layout.ts).  The manifest names the   *)
(* generation in use.  A store of an older layout or version is not           *)
(* converted: a repair writes a journal of what it will seal and of the       *)
(* generation it will make, moves and seals one source after the other,       *)
(* makes and publishes the new generation, and drops the journal; whoever     *)
(* comes after a crash goes on from the journal.  Files change one call at a  *)
(* time, and a process may end between any two.  Repairs exclude each other   *)
(* and every user by the lock of RuntimeLock, which is taken at its word.     *)
(***************************************************************************)
EXTENDS Naturals

CONSTANTS
  Proc,      \* processes: hosts, repairs and readers, as they come
  Gen,       \* generation ids
  First,     \* the one of the store that layout 2 starts with
  Archive,   \* names of the archives a store of layout 1 may have
  None,      \* no generation
  MaxFaults  \* bound on crashes, and on repairs that find the store in use

ASSUME LifecycleAssumption ==
  /\ First \in Gen /\ None \notin Gen /\ None \notin Archive /\ None # "runtime"
  /\ {"runtime", "next"} \intersect (Archive \union Gen) = {} /\ Gen \intersect Archive = {} /\ MaxFaults \in Nat

Old == {"runtime"} \union Archive

VARIABLES
  gens,           \* the directory of generations is there
  layout, active, \* the manifest: none, layout 1, or layout 2 and a generation
  journal,        \* the transition under way
  old,            \* the directories of layout 1
  root, store,    \* of a generation: its directory, the store in it
  meta, index,    \* its metadata, and whether its Runs are indexed
  drawn,          \* ids given so far
  at, todo, src, use, \* of a process: where it is, the sources it has still to seal,
                  \* the one it is at, its generation
  faults

disk  == <<gens, layout, active, journal, old, root, store, meta, index>>
procs == <<at, todo, src, use>>
lvars == <<disk, drawn, procs, faults>>

Alone  == {"locked", "seal", "move", "mark", "index", "root", "store", "meta", "open",
           "commit", "publish", "forget", "fresh"}
Shared == {"check", "using", "confirm", "reading"}
Places == {"idle", "want", "bind", "absent", "share", "look"} \union Alone \union Shared

\* a store directory: what is in it, whose Runs, in which version of storage
Versions == {"none", "older", "indexed", "current", "newer"}
Bare     == [is |-> "bare", of |-> None, version |-> "none"]
Missing  == [Bare EXCEPT !.is = "missing"]
Raw      == [Bare EXCEPT !.is = "raw"]   \* a database without its first commit
Data(id, v) == [is |-> "data", of |-> id, version |-> v]

NoMeta    == [version |-> "missing", by |-> None]
NoJournal == [next |-> None, sources |-> {}]
Sources   == [name : Old \union {None}, gen : Gen, version : Versions]
NoSource  == [name |-> None, gen |-> None, version |-> "none"]

-----------------------------------------------------------------------------
(* What can be seen on the disk *)

\* the metadata has the time of a journal, the one that makes generation "by"
Sealed(g)  == meta[g].by # None
Current(g) == layout = "two" /\ active = g
Partial(g) == root[g] /\ (meta[g] = NoMeta \/ (Current(g) /\ Sealed(g)))

\* not a database of this program, or one of a later version
Foreign(c) == c.is = "raw" \/ c.version = "newer"

\* inspectLegacyStore and inspectGenerationStore
Manifest ==
  CASE layout = "none" -> IF gens THEN "recover" ELSE "absent"
    [] layout = "one"  -> IF Foreign(old["runtime"]) THEN "unsupported" ELSE "rollover"
    [] layout = "two"  ->
         IF store[active] = Missing \/ meta[active] = NoMeta \/ Sealed(active) THEN "recover"
         ELSE IF store[active] = Bare THEN "initialize"
         ELSE IF Foreign(store[active]) THEN "unsupported"
         ELSE IF store[active].version = "current" THEN "ready" ELSE "rollover"

\* inspectRuntimeStore
Status ==
  LET foreign == \/ Foreign(old["runtime"])
                 \/ \E g \in Gen : (Partial(g) \/ Current(g)) /\ Foreign(store[g])
      recover == Manifest = "recover"
                   \/ (Manifest # "unsupported" /\ \E g \in Gen : Partial(g))
  IN IF journal # NoJournal
     THEN IF \E s \in journal.sources : s.name \notin Archive
               /\ (Foreign(store[s.gen]) \/ (s.name = "runtime" /\ Foreign(old["runtime"])))
          THEN "unsupported" ELSE "recover"
     ELSE IF recover THEN IF foreign THEN "unsupported" ELSE "recover"
     ELSE Manifest

Repairable == Status \in {"initialize", "rollover", "recover"}

\* an inspection of a database that is being written comes to nothing
Written == \E q \in Proc : at[q] = "using"

-----------------------------------------------------------------------------
(* Ways in: repairRuntimeStore, then the open of a host; and a reader *)

Goto(p, where) == at' = [at EXCEPT ![p] = where]
Leave(p)       == /\ Goto(p, "idle") /\ use' = [use EXCEPT ![p] = None]
                  /\ todo' = [todo EXCEPT ![p] = {}] /\ src' = [src EXCEPT ![p] = NoSource]

MayLock(p)  == \A q \in Proc \ {p} : at[q] \notin Alone \union Shared
MayShare(p) == \A q \in Proc \ {p} : at[q] \notin Alone

Look(p) ==
  /\ at[p] = "idle"
  /\ \/ Status \in {"absent", "ready"} /\ Goto(p, "bind")
     \/ (Repairable \/ Written) /\ Goto(p, "want")
  /\ UNCHANGED <<disk, drawn, todo, src, use, faults>>

\* the lock is not had in time
GiveUp(p) ==
  /\ at[p] \in {"want", "absent", "share", "look"}
  /\ IF at[p] = "look" \/ at[p] = "share" THEN ~MayShare(p) ELSE ~MayLock(p)
  /\ IF at[p] = "want" /\ Status \in {"absent", "ready"}
     THEN Goto(p, "bind") /\ UNCHANGED <<todo, src, use>> ELSE Leave(p)
  /\ UNCHANGED <<disk, drawn, faults>>

Lock(p) ==
  /\ at[p] \in {"want", "absent"} /\ MayLock(p)
  /\ Goto(p, IF at[p] = "want" THEN "locked" ELSE "fresh")
  /\ UNCHANGED <<disk, drawn, todo, src, use, faults>>

Bind(p) ==
  /\ at[p] = "bind"
  /\ \/ Status = "absent" /\ Goto(p, "absent") /\ UNCHANGED <<todo, src, use>>
     \/ (Status = "ready" \/ Written) /\ Goto(p, "share") /\ UNCHANGED <<todo, src, use>>
     \/ Status \notin {"absent", "ready"} /\ Leave(p)
  /\ UNCHANGED <<disk, drawn, faults>>

Share(p) ==
  /\ at[p] \in {"share", "look"} /\ MayShare(p)
  /\ Goto(p, IF at[p] = "share" THEN "check" ELSE "confirm")
  /\ UNCHANGED <<disk, drawn, todo, src, use, faults>>

\* under the lock: the store is ready, or it cannot be inspected for another
\* user and its format is tried; the host holds the lock as long as it lives
Check(p) ==
  /\ at[p] = "check"
  /\ \/ /\ Status = "ready" \/ (Written /\ layout = "two" /\ store[active].version = "current")
        /\ Goto(p, "using") /\ use' = [use EXCEPT ![p] = active] /\ UNCHANGED <<todo, src>>
     \/ Status # "ready" /\ Leave(p)
  /\ UNCHANGED <<disk, drawn, faults>>

\* a reader reads the manifest, takes the lock, and looks whether it still stands
LookUp(p) ==
  /\ at[p] = "idle" /\ layout = "two"
  /\ Goto(p, "look") /\ use' = [use EXCEPT ![p] = active]
  /\ UNCHANGED <<disk, drawn, todo, src, faults>>

Stands(g) ==
  /\ Current(g) /\ journal = NoJournal /\ store[g].version = "current"
  /\ meta[g] = [version |-> "current", by |-> None]

\* mutant: the reader takes the generation it found before it had the lock
ConfirmUnseen(p) ==
  /\ at[p] = "confirm" /\ Goto(p, "reading") /\ UNCHANGED <<disk, drawn, todo, src, use, faults>>

Confirm(p) ==
  /\ at[p] = "confirm"
  /\ IF Stands(use[p]) THEN Goto(p, "reading") /\ UNCHANGED <<todo, src, use>> ELSE Leave(p)
  /\ UNCHANGED <<disk, drawn, faults>>

Close(p) == at[p] \in {"using", "reading"} /\ Leave(p) /\ UNCHANGED <<disk, drawn, faults>>

-----------------------------------------------------------------------------
(* Under the lock: a first initialization, or a repair *)

\* initializeRuntimeStoreIfAbsent
Fresh(p) ==
  /\ at[p] = "fresh"
  /\ IF Status = "absent"
     THEN /\ Gen # drawn /\ gens' = TRUE
          /\ LET g == CHOOSE h \in Gen : h \notin drawn
             IN drawn' = drawn \union {g} /\ use' = [use EXCEPT ![p] = g]
          /\ Goto(p, "root")
     ELSE Goto(p, "share") /\ UNCHANGED <<gens, drawn, use>>
  /\ UNCHANGED <<layout, active, journal, old, root, store, meta, index, todo, src, faults>>

Repair(p, status) == at[p] = "locked" /\ Status \in status

NothingToDo(p) ==
  /\ Repair(p, {"absent", "ready"})
  /\ Goto(p, "bind") /\ UNCHANGED <<disk, drawn, todo, src, use, faults>>

CannotRepair(p) ==
  /\ Repair(p, {"unsupported"}) /\ Leave(p) /\ UNCHANGED <<disk, drawn, faults>>

\* the lease of a Run, an authority or workers that an owner left behind
Blocked(p) ==
  /\ Repair(p, {"initialize", "rollover", "recover"})
  /\ faults < MaxFaults /\ faults' = faults + 1
  /\ Leave(p) /\ UNCHANGED <<disk, drawn>>

Initialize(p) ==
  /\ Repair(p, {"initialize"}) /\ Goto(p, "open") /\ use' = [use EXCEPT ![p] = active]
  /\ UNCHANGED <<disk, drawn, todo, src, faults>>

\* the ids a journal gives: one to the store it makes, one to each of layout 1
Ids == {f \in [Old \union {"next"} -> Gen \ drawn] : \A i, j \in Old \union {"next"} : f[i] = f[j] => i = j}

\* createTransitionJournal: what is partial, the archives, the store in use
NewJournal(id) ==
  LET found(g) == IF Partial(g) /\ store[g].is # "data" /\ meta[g] # NoMeta
                  THEN meta[g].version ELSE store[g].version
      mine     == IF layout = "two" /\ store[active] # Missing THEN {active} ELSE {}
  IN [next |-> id["next"],
      sources |-> {[name |-> None, gen |-> g, version |-> found(g)] :
                     g \in {h \in Gen : Partial(h)} \union mine}
                  \union {[name |-> o, gen |-> id[o], version |-> old[o].version] :
                     o \in {n \in Old : old[n] # Missing /\ (n = "runtime" => layout = "one")}}]

WriteJournal(p) ==
  /\ Repair(p, {"rollover", "recover"}) /\ journal = NoJournal /\ Ids # {}
  /\ journal' = NewJournal(CHOOSE id \in Ids : TRUE)
  /\ drawn' = drawn \union {journal'.next} \union {s.gen : s \in journal'.sources}
  /\ UNCHANGED <<gens, layout, active, old, root, store, meta, index, procs, faults>>

\* the next source, in any order: none has to do with another
Take(p, left) ==
  /\ todo' = [todo EXCEPT ![p] = left]
  /\ IF left = {} THEN Goto(p, "root") /\ src' = [src EXCEPT ![p] = NoSource]
     ELSE Goto(p, "seal") /\ \E s \in left : src' = [src EXCEPT ![p] = s]

Resume(p) ==
  /\ Repair(p, {"recover"}) /\ journal # NoJournal
  /\ gens' = TRUE /\ use' = [use EXCEPT ![p] = journal.next] /\ Take(p, journal.sources)
  /\ UNCHANGED <<layout, active, journal, old, root, store, meta, index, drawn, faults>>

-----------------------------------------------------------------------------
(* sealTransitionSource *)

\* mutant: what a crashed repair has moved already is gone
SealableOnce(s) ==
  IF s.name = None THEN root[s.gen]
  ELSE old[s.name] # Missing /\ store[s.gen] = Missing

Sealable(s) ==
  IF s.name = None
  THEN root[s.gen] /\ (store[s.gen] # Missing \/ (s.version = "none" /\ meta[s.gen] = NoMeta))
  ELSE (old[s.name] = Missing) # (store[s.gen] = Missing)

Fits(s) == \/ meta[s.gen] = NoMeta
           \/ meta[s.gen].version = s.version /\ meta[s.gen].by \in {None, journal.next}

\* "changed identity", "disappeared", "both exist": the journal stays as it is
Refuse(p) ==
  /\ \/ at[p] = "seal" /\ ~Sealable(src[p])
     \/ at[p] = "mark" /\ ~Fits(src[p])
  /\ Leave(p) /\ UNCHANGED <<disk, drawn, faults>>

Seal(p) ==
  /\ at[p] = "seal" /\ Sealable(src[p])
  /\ root' = [root EXCEPT ![src[p].gen] = TRUE]
  /\ Goto(p, IF src[p].name # None /\ old[src[p].name] # Missing THEN "move" ELSE "mark")
  /\ UNCHANGED <<gens, layout, active, journal, old, store, meta, index, drawn, todo, src, use, faults>>

Move(p) ==
  /\ at[p] = "move"
  /\ store' = [store EXCEPT ![src[p].gen] = old[src[p].name]]
  /\ old' = [old EXCEPT ![src[p].name] = Missing]
  /\ Goto(p, "mark")
  /\ UNCHANGED <<gens, layout, active, journal, root, meta, index, drawn, todo, src, use, faults>>

Mark(p) ==
  /\ at[p] = "mark" /\ Fits(src[p])
  /\ meta' = [meta EXCEPT ![src[p].gen] = [version |-> src[p].version, by |-> journal.next]]
  /\ IF src[p].version = "indexed" /\ store[src[p].gen].is = "data"
     THEN Goto(p, "index") /\ UNCHANGED <<todo, src>> ELSE Take(p, todo[p] \ {src[p]})
  /\ UNCHANGED <<gens, layout, active, journal, old, root, store, index, drawn, use, faults>>

WriteIndex(p) ==
  /\ at[p] = "index"
  /\ index' = [index EXCEPT ![src[p].gen] = TRUE] /\ Take(p, todo[p] \ {src[p]})
  /\ UNCHANGED <<gens, layout, active, journal, old, root, store, meta, drawn, use, faults>>

-----------------------------------------------------------------------------
(* The new generation: resumeTransition, and initializeFreshLayout *)

MakeRoot(p) ==
  /\ at[p] = "root" /\ root' = [root EXCEPT ![use[p]] = TRUE] /\ Goto(p, "store")
  /\ UNCHANGED <<gens, layout, active, journal, old, store, meta, index, drawn, todo, src, use, faults>>

MakeStore(p) ==
  /\ at[p] = "store" /\ Goto(p, "meta")
  /\ store' = [store EXCEPT ![use[p]] = IF @ = Missing THEN Bare ELSE @]
  /\ UNCHANGED <<gens, layout, active, journal, old, root, meta, index, drawn, todo, src, use, faults>>

\* a first initialization publishes before it makes the database, a repair after
WriteMeta(p) ==
  /\ at[p] = "meta"
  /\ IF meta[use[p]] \in {NoMeta, [version |-> "current", by |-> None]}
     THEN /\ meta' = [meta EXCEPT ![use[p]] = [version |-> "current", by |-> None]]
          /\ Goto(p, IF journal = NoJournal THEN "publish" ELSE "open") /\ UNCHANGED <<todo, src, use>>
     ELSE Leave(p) /\ UNCHANGED meta
  /\ UNCHANGED <<gens, layout, active, journal, old, root, store, index, drawn, faults>>

\* the store is ready: a repair looks again, a first initialization does not
Ready(p) == Goto(p, "bind") \/ Goto(p, "share")

\* mutant: a resumed repair makes the database anew
OpenAnew(p) ==
  /\ at[p] = "open" /\ Goto(p, "commit") /\ store' = [store EXCEPT ![use[p]] = Raw]
  /\ UNCHANGED <<gens, layout, active, journal, old, root, meta, index, drawn, todo, src, use, faults>>

OpenDatabase(p) ==
  /\ at[p] = "open"
  /\ IF store[use[p]].is = "data"
     THEN (IF journal = NoJournal THEN Ready(p) ELSE Goto(p, "publish")) /\ UNCHANGED store
     ELSE Goto(p, "commit") /\ store' = [store EXCEPT ![use[p]] = Raw]
  /\ UNCHANGED <<gens, layout, active, journal, old, root, meta, index, drawn, todo, src, use, faults>>

CommitSchema(p) ==
  /\ at[p] = "commit"
  /\ store' = [store EXCEPT ![use[p]] = Data(use[p], "current")]
  /\ IF journal = NoJournal THEN Ready(p) ELSE Goto(p, "publish")
  /\ UNCHANGED <<gens, layout, active, journal, old, root, meta, index, drawn, todo, src, use, faults>>

Publish(p) ==
  /\ at[p] = "publish" /\ layout' = "two" /\ active' = use[p]
  /\ Goto(p, IF journal = NoJournal THEN "open" ELSE "forget")
  /\ UNCHANGED <<gens, journal, old, root, store, meta, index, drawn, todo, src, use, faults>>

\* validatePublishedRuntimeGeneration, then the journal is removed
Forget(p) ==
  /\ at[p] = "forget"
  /\ IF Manifest = "ready" THEN Goto(p, "bind") /\ journal' = NoJournal /\ UNCHANGED <<todo, src, use>>
     ELSE Leave(p) /\ UNCHANGED journal
  /\ UNCHANGED <<gens, layout, active, old, root, store, meta, index, drawn, faults>>

Crash(p) ==
  /\ at[p] \in Alone \union Shared /\ faults < MaxFaults /\ faults' = faults + 1
  /\ Leave(p) /\ UNCHANGED <<disk, drawn>>

-----------------------------------------------------------------------------
(* Specification *)

\* what the versions before this one leave: nothing, a store of layout 1 with
\* archives, or a generation
LifecycleInit ==
  /\ \E v \in {"older", "indexed", "current", "newer"} :
       \/ /\ layout = "none" /\ old = [o \in Old |-> Missing]
          /\ store = [g \in Gen |-> Missing] /\ meta = [g \in Gen |-> NoMeta]
       \/ /\ layout = "one"
          /\ \E c \in {Missing, Bare, Data("runtime", v)}, kept \in SUBSET Archive :
               old = [o \in Old |-> IF o = "runtime" THEN c
                                    ELSE IF o \in kept THEN Data(o, "indexed") ELSE Missing]
          /\ store = [g \in Gen |-> Missing] /\ meta = [g \in Gen |-> NoMeta]
       \/ /\ layout = "two" /\ old = [o \in Old |-> Missing]
          /\ \E c \in {Bare, Data(First, v)} : store = [g \in Gen |-> IF g = First THEN c ELSE Missing]
          /\ meta = [g \in Gen |-> IF g = First THEN [version |-> v, by |-> None] ELSE NoMeta]
  /\ gens = (layout = "two") /\ active = IF layout = "two" THEN First ELSE None
  /\ root = [g \in Gen |-> store[g] # Missing] /\ drawn = {g \in Gen : root[g]}
  /\ journal = NoJournal /\ index = [g \in Gen |-> FALSE]
  /\ at = [p \in Proc |-> "idle"]
  /\ todo = [p \in Proc |-> {}] /\ src = [p \in Proc |-> NoSource]
  /\ use = [p \in Proc |-> None] /\ faults = 0

\* the steps of a process that has the lock for itself, and of a reader
Work(p) ==
  \/ Fresh(p) \/ NothingToDo(p) \/ CannotRepair(p) \/ Initialize(p) \/ WriteJournal(p) \/ Resume(p)
  \/ Refuse(p) \/ Seal(p) \/ Move(p) \/ Mark(p) \/ WriteIndex(p)
  \/ MakeRoot(p) \/ MakeStore(p) \/ WriteMeta(p) \/ OpenDatabase(p) \/ CommitSchema(p)
  \/ Publish(p) \/ Forget(p)

LifecycleNext ==
  \E p \in Proc :
    \/ Look(p) \/ GiveUp(p) \/ Lock(p) \/ Bind(p) \/ Share(p) \/ Check(p)
    \/ LookUp(p) \/ Confirm(p) \/ Close(p) \/ Work(p) \/ Blocked(p) \/ Crash(p)

LifecycleSpec == LifecycleInit /\ [][LifecycleNext]_lvars

\* a process goes on, a reader comes to an end, somebody tries again, and whoever
\* tries again has the lock in the end
FairLifecycleSpec ==
  /\ LifecycleSpec
  /\ \A p \in Proc : /\ WF_lvars(Work(p)) /\ SF_lvars(Lock(p)) /\ SF_lvars(Look(p))
                     /\ WF_lvars(Bind(p)) /\ WF_lvars(Share(p)) /\ WF_lvars(Check(p))
                     /\ WF_lvars(Confirm(p)) /\ WF_lvars(at[p] = "reading" /\ Close(p))

-----------------------------------------------------------------------------
(* Properties *)

Contents == {Missing, Bare, Raw}
              \union {Data(id, v) : id \in Gen \union Old, v \in Versions \ {"none"}}

LifecycleTypeOK ==
  /\ gens \in BOOLEAN /\ layout \in {"none", "one", "two"} /\ active \in Gen \union {None}
  /\ journal.next \in Gen \union {None}
  /\ journal.sources \subseteq Sources
  /\ old \in [Old -> Contents] /\ root \in [Gen -> BOOLEAN] /\ store \in [Gen -> Contents]
  /\ meta \in [Gen -> [version : Versions \union {"missing"}, by : Gen \union {None}]]
  /\ index \in [Gen -> BOOLEAN] /\ drawn \subseteq Gen
  /\ at \in [Proc -> Places] /\ todo \in [Proc -> SUBSET Sources]
  /\ src \in [Proc -> Sources \union {NoSource}]
  /\ use \in [Proc -> Gen \union {None}] /\ faults \in 0 .. MaxFaults

\* Whoever uses or reads a store has the published generation, current and whole,
\* and no repair is under way.
Serves(g) == /\ Current(g) /\ journal = NoJournal /\ ~Sealed(g) /\ meta[g] # NoMeta
             /\ store[g].is = "data" /\ store[g].version = "current"

UsersHaveThePublished == \A p \in Proc : at[p] \in {"using", "reading"} => Serves(use[p])

\* When no journal is left, the store in use is not sealed and every store that
\* was sealed with a portable format has the index of its Runs.
SealedIsWhole ==
  journal = NoJournal => \A g \in Gen :
    /\ Current(g) => ~Sealed(g)
    /\ Sealed(g) /\ store[g].is = "data" /\ store[g].version = "indexed" => index[g]

\* a first initialization that a crash left without a store directory, and that a
\* repair has sealed
HalfMade(s) == s.name = None /\ store[s.gen] = Missing /\ Sealed(s.gen)

\* A repair, or its resumption after any crash, refuses a source only if it is one
\* of those.
OnlyHalfMadeRefused ==
  \A p \in Proc :
    /\ at[p] = "seal" => Sealable(src[p]) \/ HalfMade(src[p])
    /\ at[p] = "mark" => Fits(src[p])
    /\ at[p] = "meta" => meta[use[p]] \in {NoMeta, [version |-> "current", by |-> None]}
    /\ at[p] = "forget" => Manifest = "ready"

\* A store with data is in one place, and one that was made for a generation in
\* the present version is not retired.
OnePlace ==
  /\ \A g, h \in Gen : store[g].is = "data" /\ store[g] = store[h] => g = h
  /\ \A n, o \in Old : old[n].is = "data" /\ old[n] = old[o] => n = o
  /\ \A o \in Old, g \in Gen : old[o].is = "data" => old[o] # store[g]
  /\ \A g \in Gen : store[g] = Data(g, "current") => ~Sealed(g)

\* At every step, of any number of repairs and crashes: who uses or reads a store
\* has the published one, a workspace without a journal has no store half sealed,
\* a repair finds nothing it must refuse but a store that was never made, and no
\* store is in two places or retired while it is new.
LifecycleConsistent ==
  LifecycleTypeOK /\ UsersHaveThePublished /\ SealedIsWhole /\ OnlyHalfMadeRefused /\ OnePlace

Stores == {c \in {old[o] : o \in Old} \union {store[g] : g \in Gen} : c.is = "data"}

\* No step of a repair or of an initialization loses or overwrites a store that
\* has data, across crashes and resumptions.
StoresKept == [][Stores \subseteq Stores']_lvars

\* waits for the lock are at some time long enough
LockIsHad == <>[][~ \E p \in Proc : GiveUp(p)]_lvars

\* A workspace that can be repaired is, whatever crashes, with two exceptions: a
\* store whose directory was never made, and one whose database a crash left
\* without its first commit.
RepairsConverge ==
  LockIsHad =>
    (Repairable ~> \/ Status = "ready" \/ \E s \in journal.sources : HalfMade(s)
                   \/ (layout = "two" /\ store[active] = Raw))

=============================================================================
