------------------------- MODULE StoreLifecycleProofs -------------------------
(***************************************************************************)
(* Proofs about StoreLifecycle.  The invariant says what a process that has  *)
(* the lock for itself has in hand (Hand), how the journal fits the disk     *)
(* (Planned), and that whatever is half made is in a journal, and among what *)
(* the process at work has still to do (Accounted): this is why a repair may *)
(* drop its journal, and why the one after a crash finds nothing it refuses. *)
(***************************************************************************)
EXTENDS StoreLifecycle, TLAPS

\* who has the lock for itself is alone
AloneHeld == \A p, q \in Proc : at[p] \in Alone /\ p # q => at[q] \notin Alone \union Shared

Sealing == {"seal", "move", "mark", "index"}
Making  == {"root", "store", "meta", "open", "commit", "publish", "forget"}
Unsealed(g) == meta[g] # NoMeta /\ ~Sealed(g)

\* what a process has in hand
Hand(p) ==
  /\ at[p] \in Sealing => /\ journal # NoJournal /\ src[p] \in todo[p] /\ todo[p] \subseteq journal.sources
                          /\ use[p] = journal.next
  /\ at[p] \in Sealing \union Making => gens /\ use[p] \in Gen
  /\ at[p] = "move" => src[p].name # None /\ old[src[p].name] # Missing
  /\ at[p] \in {"move", "mark", "index"} => root[src[p].gen]
  /\ at[p] \in {"mark", "index"} /\ src[p].name # None => old[src[p].name] = Missing
  /\ at[p] = "index" => Sealed(src[p].gen)
  /\ at[p] \in Making /\ journal # NoJournal => use[p] = journal.next
  /\ at[p] \in {"root", "store", "meta"} /\ journal = NoJournal =>
       layout = "none" /\ meta[use[p]] = NoMeta /\ use[p] \in drawn /\ store[use[p]] \in {Missing, Bare}
  /\ at[p] \in {"root", "store"} /\ journal = NoJournal => store[use[p]] = Missing
  /\ at[p] \in Making \ {"root"} => root[use[p]]
  /\ at[p] = "meta" => store[use[p]] # Missing
  /\ at[p] \in {"open", "commit", "publish", "forget"} => Unsealed(use[p]) /\ store[use[p]] # Missing
  /\ at[p] \in {"open", "commit"} /\ journal = NoJournal => Current(use[p])
  /\ at[p] = "open" /\ journal = NoJournal => store[use[p]] = Bare
  /\ at[p] = "publish" /\ journal = NoJournal => store[use[p]] = Bare /\ layout = "none"
  /\ at[p] = "commit" => store[use[p]] = Raw
  /\ at[p] \in {"publish", "forget"} /\ journal # NoJournal => store[use[p]] = Data(use[p], "current")
  /\ at[p] = "forget" => Current(use[p]) /\ journal # NoJournal

InHand == \A p \in Proc : Hand(p)

\* an id that was not given has nothing
Unborn ==
  /\ \A g \in Gen : root[g] => g \in drawn /\ gens
  /\ \A g \in Gen : store[g] # Missing \/ meta[g] # NoMeta => root[g]
  /\ layout = "two" => active \in Gen

\* the journal and the disk: what is left to move is in one place, what is marked
\* is marked by this journal
Plan(s) ==
  /\ s.gen \in drawn /\ s.gen # journal.next /\ Fits(s)
  /\ store[s.gen] # Missing => store[s.gen].version = s.version
  /\ store[s.gen] # Data(s.gen, "current")
  /\ s.name = None => root[s.gen] /\ (store[s.gen] # Missing \/ s.version = "none")
  /\ s.name # None => /\ (old[s.name] = Missing) # (store[s.gen] = Missing)
                      /\ old[s.name] # Missing => old[s.name].version = s.version /\ meta[s.gen] = NoMeta

Planned ==
  journal # NoJournal =>
    /\ journal.next \in drawn
    /\ store[journal.next] \in {Missing, Bare, Raw, Data(journal.next, "current")}
    /\ meta[journal.next] \in {NoMeta, [version |-> "current", by |-> None]}
    /\ \A s \in journal.sources : Plan(s)
    /\ \A s, t \in journal.sources : s.gen = t.gen \/ (s.name = t.name /\ s.name # None) => s = t

\* a generation a repair has still to mark, or to index
Unfinished(g) ==
  \/ root[g] /\ meta[g] = NoMeta
  \/ Sealed(g) /\ store[g].is = "data" /\ store[g].version = "indexed" /\ ~index[g]

Due(g) ==
  /\ journal = NoJournal => layout = "none" /\ meta[g] = NoMeta
  /\ journal # NoJournal => g = journal.next \/ \E s \in journal.sources : s.gen = g

DueFrom(g, p) ==
  /\ at[p] \in Sealing => g = journal.next \/ \E s \in todo[p] : s.gen = g
  /\ at[p] \in Making => g = use[p]

Accounted == \A g \in Gen : Unfinished(g) => Due(g) /\ \A p \in Proc : DueFrom(g, p)

Metadata ==
  \A g \in Gen :
    /\ meta[g].version = "missing" => meta[g] = NoMeta
    /\ meta[g].version = "none" => Sealed(g)
    /\ journal = NoJournal /\ Current(g) =>
         ~Sealed(g) /\ (store[g].version \in Versions \ {"none", "current"} => meta[g].version = store[g].version)

Origins ==
  /\ \A o \in Old : old[o].is = "data" => old[o].of = o
  /\ \A g \in Gen : store[g].is = "data" => store[g].of \in Old \union {g}
  /\ \A g \in Gen : store[g].is = "data" /\ store[g].of \in Old => old[store[g].of] = Missing
  /\ \A g, h \in Gen : store[g].is = "data" /\ store[g] = store[h] => g = h
  /\ \A g \in Gen : store[g] = Data(g, "current") => Unsealed(g)

LifecycleInv ==
  /\ LifecycleTypeOK /\ AloneHeld /\ UsersHaveThePublished /\ InHand /\ Unborn
  /\ Planned /\ Accounted /\ Metadata /\ Origins

-----------------------------------------------------------------------------

USE LifecycleAssumption DEF Old

LEMMA InitHolds == LifecycleInit => LifecycleInv
  <1> SUFFICES ASSUME LifecycleInit PROVE LifecycleInv  OBVIOUS
  <1>v. PICK v \in {"older", "indexed", "current", "newer"} :
       \/ /\ layout = "none" /\ old = [o \in Old |-> Missing]
          /\ store = [g \in Gen |-> Missing] /\ meta = [g \in Gen |-> NoMeta]
       \/ /\ layout = "one"
          /\ \E c \in {Missing, Bare, Data("runtime", v)}, kept \in SUBSET Archive :
               old = [o \in Old |-> IF o = "runtime" THEN c
                                    ELSE IF o \in kept THEN Data(o, "indexed") ELSE Missing]
          /\ store = [g \in Gen |-> Missing] /\ meta = [g \in Gen |-> NoMeta]
       \/ /\ layout = "two" /\ old = [o \in Old |-> Missing]
          /\ \E c \in {Bare, Data(First, v)} : store = [g \in Gen |-> IF g = First THEN c ELSE Missing]
          /\ meta = [g \in Gen |-> IF g = First THEN [version |-> v, by |-> None] ELSE NoMeta]
    BY DEF LifecycleInit
  <1>r. /\ gens = (layout = "two") /\ active = IF layout = "two" THEN First ELSE None
        /\ root = [g \in Gen |-> store[g] # Missing] /\ drawn = {g \in Gen : root[g]}
        /\ journal = NoJournal /\ index = [g \in Gen |-> FALSE]
        /\ at = [p \in Proc |-> "idle"]
        /\ todo = [p \in Proc |-> {}] /\ src = [p \in Proc |-> NoSource]
        /\ use = [p \in Proc |-> None] /\ faults = 0
    BY DEF LifecycleInit
  <1>o. \A o \in Old : old[o] \in {Missing, Bare} \/ \E w \in Versions \ {"none"} : old[o] = Data(o, w)
    BY <1>v DEF Versions
  <1>g. \A g \in Gen : \/ store[g] = Missing /\ meta[g] = NoMeta
                       \/ /\ g = First /\ layout = "two" /\ meta[g] = [version |-> v, by |-> None]
                          /\ store[g] \in {Bare, Data(First, v)}
    BY <1>v
  <1>1. LifecycleTypeOK
    <2>1. /\ gens \in BOOLEAN /\ layout \in {"none", "one", "two"} /\ active \in Gen \union {None}
          /\ journal.next \in Gen \union {None} /\ journal.sources \subseteq Sources
          /\ root \in [Gen -> BOOLEAN] /\ index \in [Gen -> BOOLEAN] /\ drawn \subseteq Gen
      BY <1>v, <1>r DEF NoJournal
    <2>2. /\ at \in [Proc -> Places] /\ todo \in [Proc -> SUBSET Sources]
          /\ src \in [Proc -> Sources \union {NoSource}]
          /\ use \in [Proc -> Gen \union {None}] /\ faults \in 0 .. MaxFaults
      BY <1>r DEF Places
    <2>3. /\ Missing \in Contents /\ Bare \in Contents
          /\ \A id \in Gen \union Old, w \in Versions \ {"none"} : Data(id, w) \in Contents
      BY DEF Contents
    <2>4. old \in [Old -> Contents]
      <3>1. \A o \in Old : old[o] \in Contents
        BY <1>o, <2>3
      <3>2. \E f : old = [o \in Old |-> f[o]]
        BY <1>v
      <3> QED  BY <3>1, <3>2
    <2>5. store \in [Gen -> Contents]
      <3>1. \A g \in Gen : store[g] \in Contents
        BY <1>g, <2>3 DEF Versions
      <3>2. \E f : store = [g \in Gen |-> f[g]]
        BY <1>v
      <3> QED  BY <3>1, <3>2
    <2>6. meta \in [Gen -> [version : Versions \union {"missing"}, by : Gen \union {None}]]
      <3>1. \A g \in Gen : meta[g] \in [version : Versions \union {"missing"}, by : Gen \union {None}]
        BY <1>g DEF NoMeta, Versions
      <3>2. \E f : meta = [g \in Gen |-> f[g]]
        BY <1>v
      <3> QED  BY <3>1, <3>2
    <2> QED  BY <2>1, <2>2, <2>4, <2>5, <2>6 DEF LifecycleTypeOK
  <1>2. AloneHeld /\ UsersHaveThePublished /\ InHand
    BY <1>r DEF AloneHeld, UsersHaveThePublished, InHand, Hand, Sealing, Making, Alone
  <1>e. \A g \in Gen : /\ root[g] <=> store[g] # Missing
                       /\ root[g] => g \in drawn /\ layout = "two" /\ meta[g].version = v
    <2>1. \A g \in Gen : root[g] = (store[g] # Missing)
      BY <1>r
    <2>2. \A g \in Gen : root[g] => g \in drawn
      BY <1>r
    <2>3. \A g \in Gen : store[g] # Missing => layout = "two" /\ meta[g].version = v
      BY <1>g
    <2> QED  BY <2>1, <2>2, <2>3
  <1>f. gens <=> layout = "two"
    BY <1>r
  <1>3. Unborn
    <2>1. layout = "two" => active = First
      BY <1>r
    <2>2. \A g \in Gen : meta[g] # NoMeta => store[g] # Missing
      BY <1>g DEF Missing, Bare, Data
    <2> QED  BY <1>e, <1>f, <2>1, <2>2 DEF Unborn
  <1>4. Planned /\ Accounted
    <2>1. \A g \in Gen : ~Unfinished(g)
      BY <1>e, <1>g DEF Unfinished, Sealed, NoMeta
    <2> QED  BY <1>r, <2>1 DEF Planned, Accounted
  <1>5. Metadata
    BY <1>r, <1>g DEF Metadata, NoMeta, Current, Sealed, Missing, Bare, Data, Versions
  <1>6. Origins
    BY <1>o, <1>g, <1>v DEF Origins, Missing, Bare, Data, Unsealed, Sealed, NoMeta
  <1> QED  BY <1>1, <1>2, <1>3, <1>4, <1>5, <1>6 DEF LifecycleInv

Solo(p, w) ==
  /\ at' = [at EXCEPT ![p] = w]
  /\ \A q \in Proc \ {p} : todo'[q] = todo[q] /\ src'[q] = src[q] /\ use'[q] = use[q]

\* a step that leaves the disk alone and does not begin to work on it
LEMMA Quiet ==
  ASSUME LifecycleInv, NEW p \in Proc, NEW w \in Places, UNCHANGED <<disk, drawn>>, Solo(p, w),
         faults' \in 0 .. MaxFaults, todo' \in [Proc -> SUBSET Sources],
         src' \in [Proc -> Sources \union {NoSource}], use' \in [Proc -> Gen \union {None}],
         w \notin Sealing \union Making,
         w \in Alone => MayLock(p) \/ at[p] \in Alone,
         w \in Shared => MayShare(p) \/ at[p] \in Shared,
         w \in {"using", "reading"} => Serves(use'[p])
  PROVE  LifecycleInv'
  <1> USE DEF LifecycleInv, Solo, disk
  <1>1. LifecycleTypeOK'
    BY DEF LifecycleTypeOK
  <1>2. AloneHeld'
    BY DEF AloneHeld, LifecycleTypeOK, MayLock, MayShare
  <1>3. UsersHaveThePublished'
    BY DEF UsersHaveThePublished, LifecycleTypeOK, Serves, Current, Sealed
  <1>4. InHand'
    BY DEF InHand, Hand, LifecycleTypeOK, Unsealed, Sealed, Current, Sealing, Making
  <1>5. Unborn' /\ Planned' /\ Metadata' /\ Origins'
    BY DEF Unborn, Planned, Plan, Fits, Metadata, Origins, Unsealed, Sealed, Current
  <1>6. Accounted'
    BY DEF Accounted, Due, DueFrom, Unfinished, Sealed, LifecycleTypeOK
  <1> QED  BY <1>1, <1>2, <1>3, <1>4, <1>5, <1>6

\* a process that stops leaves the disk as it is
LEMMA LeaveKeeps ==
  ASSUME LifecycleInv, NEW p \in Proc, Leave(p), UNCHANGED <<disk, drawn>>, faults' \in 0 .. MaxFaults
  PROVE  LifecycleInv'
  <1>1. "idle" \in Places /\ "idle" \notin Sealing \union Making \union Alone \union Shared
    BY DEF Places, Sealing, Making, Alone, Shared
  <1>2. Solo(p, "idle")
    BY DEF Leave, Goto, Solo, LifecycleInv, LifecycleTypeOK
  <1>3. /\ todo' \in [Proc -> SUBSET Sources] /\ src' \in [Proc -> Sources \union {NoSource}]
        /\ use' \in [Proc -> Gen \union {None}]
    BY DEF Leave, LifecycleInv, LifecycleTypeOK
  <1> QED  BY <1>1, <1>2, <1>3, Quiet DEF Shared

\* the places of a process that is alone, and where it goes from there
Onward == Alone \union {"idle", "bind", "share"}

\* who has the lock for itself meets nobody
LEMMA Solitary ==
  ASSUME LifecycleTypeOK, AloneHeld, NEW p \in Proc, at[p] \in Alone, NEW w \in Onward, Goto(p, w)
  PROVE  /\ at' \in [Proc -> Places] /\ at'[p] = w /\ AloneHeld' /\ UsersHaveThePublished'
         /\ \A q \in Proc : q # p => at'[q] = at[q] /\ at[q] \notin Alone \union Shared
  <1> USE DEF Goto
  <1>1. at \in [Proc -> Places] /\ Onward \subseteq Places
    BY DEF LifecycleTypeOK, Onward, Places
  <1>2. \A q \in Proc : q # p => at'[q] = at[q] /\ at[q] \notin Alone \union Shared
    BY <1>1 DEF AloneHeld
  <1>3. AloneHeld'
    BY <1>1, <1>2 DEF AloneHeld
  <1>4. UsersHaveThePublished'
    BY <1>1, <1>2 DEF UsersHaveThePublished, Onward, Alone, Shared
  <1> QED  BY <1>1, <1>2, <1>3, <1>4

\* a step of a process that is alone keeps the invariant if it keeps what the
\* process has in hand and what the disk holds
LEMMA Together ==
  ASSUME LifecycleInv, NEW p \in Proc, at[p] \in Alone, NEW w \in Onward, Goto(p, w),
         LifecycleTypeOK', Hand(p)', Unborn', Planned', Metadata', Origins',
         \A g \in Gen : Unfinished(g)' => Due(g)' /\ DueFrom(g, p)'
  PROVE  LifecycleInv'
  <1>1. /\ AloneHeld' /\ UsersHaveThePublished'
        /\ \A q \in Proc : q # p => at'[q] = at[q] /\ at[q] \notin Alone \union Shared
    BY Solitary DEF LifecycleInv
  <1>2. \A q \in Proc : q # p => at'[q] \notin Sealing \union Making
    BY <1>1 DEF Alone, Sealing, Making
  <1>3. InHand'
    BY <1>2 DEF InHand, Hand, Sealing, Making
  <1>4. Accounted'
    BY <1>2 DEF Accounted, DueFrom
  <1> QED  BY <1>1, <1>3, <1>4 DEF LifecycleInv

-----------------------------------------------------------------------------
(* sealing a source *)

\* what is known of the source a process is at
LEMMA AtSource ==
  ASSUME LifecycleInv, NEW p \in Proc, at[p] \in Sealing
  PROVE  /\ src[p] \in Sources /\ src[p] \in todo[p] /\ src[p] \in journal.sources
         /\ src[p].gen \in Gen /\ src[p].name \in Old \union {None} /\ src[p].version \in Versions
         /\ journal # NoJournal /\ journal.next \in Gen /\ Plan(src[p]) /\ gens
         /\ todo[p] \subseteq journal.sources /\ use[p] = journal.next
         /\ \A s, t \in journal.sources : s.gen = t.gen \/ (s.name = t.name /\ s.name # None) => s = t
  <1>1. /\ src[p] \in todo[p] /\ todo[p] \subseteq journal.sources /\ journal # NoJournal /\ gens
        /\ use[p] = journal.next
    BY DEF LifecycleInv, InHand, Hand
  <1>2. src[p] \in Sources /\ journal.next \in Gen
    BY <1>1 DEF LifecycleInv, LifecycleTypeOK, Planned
  <1> QED  BY <1>1, <1>2 DEF LifecycleInv, Planned, Sources

LEMMA SealKeeps ==
  ASSUME LifecycleInv, NEW p \in Proc, Seal(p)
  PROVE  LifecycleInv'
  <1> DEFINE s == src[p]
             w == IF s.name # None /\ old[s.name] # Missing THEN "move" ELSE "mark"
  <1>1. at[p] \in Sealing /\ at[p] \in Alone /\ w \in Onward /\ Goto(p, w) /\ Sealable(s)
    BY DEF Seal, Sealing, Alone, Onward
  <1>2. /\ s \in todo[p] /\ s \in journal.sources /\ s.gen \in Gen /\ journal # NoJournal
        /\ journal.next \in Gen /\ Plan(s) /\ gens /\ todo[p] \subseteq journal.sources
        /\ s.name \in Old \union {None} /\ use[p] = journal.next
    BY <1>1, AtSource
  <1>3. at' \in [Proc -> Places] /\ at'[p] = w
    BY <1>1, Solitary DEF LifecycleInv
  <1>u. /\ root' = [root EXCEPT ![s.gen] = TRUE]
        /\ UNCHANGED <<gens, layout, active, journal, old, store, meta, index, drawn, todo, src, use, faults>>
    BY DEF Seal
  <1>r. \A g \in Gen : root'[g] = (root[g] \/ g = s.gen)
    BY <1>u, <1>2 DEF LifecycleInv, LifecycleTypeOK
  <1>4. LifecycleTypeOK'
    BY <1>2, <1>3, <1>u DEF LifecycleInv, LifecycleTypeOK
  <1>5. Hand(p)'
    BY <1>2, <1>3, <1>r, <1>u DEF Hand, Sealing, Making
  <1>6. Unborn'
    BY <1>2, <1>r, <1>u DEF LifecycleInv, Unborn, Plan
  <1>7. Planned' /\ Metadata' /\ Origins'
    <2>1. Planned'
      BY <1>2, <1>r, <1>u DEF LifecycleInv, LifecycleTypeOK, Sources, Planned, Plan, Fits
    <2> QED  BY <2>1, <1>u DEF LifecycleInv, Metadata, Origins, Sealed, Unsealed, Current
  <1>8. \A g \in Gen : Unfinished(g)' => Due(g)' /\ DueFrom(g, p)'
    <2> SUFFICES ASSUME NEW g \in Gen, Unfinished(g)'  PROVE Due(g)' /\ DueFrom(g, p)'
      OBVIOUS
    <2>1. Unfinished(g) \/ g = s.gen
      BY <1>r, <1>u DEF Unfinished, Sealed
    <2>2. CASE g = s.gen
      BY <2>2, <1>2, <1>3, <1>u DEF Due, DueFrom, Making
    <2>3. CASE Unfinished(g)
      BY <2>3, <1>1, <1>2, <1>3, <1>u DEF LifecycleInv, Accounted, Due, DueFrom, Making
    <2> QED  BY <2>1, <2>2, <2>3
  <1> QED  BY <1>1, <1>4, <1>5, <1>6, <1>7, <1>8, Together

LEMMA MoveKeeps ==
  ASSUME LifecycleInv, NEW p \in Proc, Move(p)
  PROVE  LifecycleInv'
  <1> DEFINE s == src[p]
  <1>1. at[p] \in Sealing /\ at[p] \in Alone /\ "mark" \in Onward /\ Goto(p, "mark") /\ at[p] = "move"
    BY DEF Move, Sealing, Alone, Onward
  <1>2. /\ s \in todo[p] /\ s \in journal.sources /\ s.gen \in Gen /\ journal # NoJournal
        /\ journal.next \in Gen /\ Plan(s) /\ gens /\ todo[p] \subseteq journal.sources
        /\ use[p] = journal.next
    BY <1>1, AtSource
  <1>n. s.name \in Old /\ s.name # None /\ old[s.name] # Missing /\ root[s.gen]
    BY <1>1, AtSource DEF LifecycleInv, InHand, Hand
  <1>3. at' \in [Proc -> Places] /\ at'[p] = "mark"
    BY <1>1, Solitary DEF LifecycleInv
  <1>u. /\ store' = [store EXCEPT ![s.gen] = old[s.name]] /\ old' = [old EXCEPT ![s.name] = Missing]
        /\ UNCHANGED <<gens, layout, active, journal, root, meta, index, drawn, todo, src, use, faults>>
    BY DEF Move
  <1>s. \A g \in Gen : store'[g] = IF g = s.gen THEN old[s.name] ELSE store[g]
    BY <1>u, <1>2 DEF LifecycleInv, LifecycleTypeOK
  <1>o. \A o \in Old : old'[o] = IF o = s.name THEN Missing ELSE old[o]
    BY <1>u, <1>n DEF LifecycleInv, LifecycleTypeOK
  <1>b. store[s.gen] = Missing /\ meta[s.gen] = NoMeta /\ old[s.name].version = s.version /\ s.gen # journal.next
    BY <1>2, <1>n DEF Plan
  <1>d. old[s.name].is = "data" => old[s.name].of = s.name
    BY <1>n DEF LifecycleInv, Origins
  <1>4. LifecycleTypeOK'
    <2>1. old[s.name] \in Contents /\ Missing \in Contents
      BY <1>n DEF LifecycleInv, LifecycleTypeOK, Contents
    <2> QED  BY <1>2, <1>n, <1>3, <1>u, <2>1 DEF LifecycleInv, LifecycleTypeOK
  <1>5. Hand(p)'
    BY <1>2, <1>n, <1>3, <1>o, <1>u DEF Hand, Sealing, Making
  <1>6. Unborn'
    BY <1>2, <1>n, <1>s, <1>u DEF LifecycleInv, Unborn
  <1>7. Planned'
    <2>1. store'[journal.next] = store[journal.next]
      BY <1>2, <1>b, <1>s
    <2>2. \A t \in journal.sources : t # s => /\ t.gen # s.gen /\ (t.name # None => t.name # s.name)
                                              /\ t.gen \in Gen /\ t.name \in Old \union {None}
      BY <1>2, <1>1, AtSource DEF LifecycleInv, LifecycleTypeOK, Sources
    <2>3. ASSUME NEW t \in journal.sources, t # s  PROVE Plan(t)'
      <3>1. /\ store'[t.gen] = store[t.gen] /\ (t.name # None => old'[t.name] = old[t.name])
        BY <2>2, <2>3, <1>s, <1>o
      <3>2. Plan(t)
        BY <1>2 DEF LifecycleInv, Planned
      <3> QED  BY <3>1, <3>2, <1>u DEF Plan, Fits
    <2>4. Plan(s)'
      <3>1. store'[s.gen] = old[s.name] /\ old'[s.name] = Missing
        BY <1>s, <1>o, <1>2, <1>n
      <3>2. old[s.name] # Data(s.gen, "current")
        BY <1>d, <1>n, <1>2 DEF Data
      <3> QED  BY <3>1, <3>2, <1>2, <1>n, <1>b, <1>u DEF Plan, Fits
    <2> QED  BY <2>1, <2>3, <2>4, <1>2, <1>u DEF LifecycleInv, Planned
  <1>m. Metadata'
    BY <1>2, <1>u DEF LifecycleInv, Metadata, Sealed
  <1>9. Origins'
    <2>1. \A o \in Old : old'[o].is = "data" => old[o].is = "data" /\ old'[o] = old[o]
      BY <1>o DEF Missing, Bare
    <2>2. \A g \in Gen : g # s.gen => store'[g] = store[g]
      BY <1>s
    <2>3. store'[s.gen].is = "data" => store'[s.gen].of = s.name /\ old'[s.name] = Missing
      BY <1>s, <1>o, <1>2, <1>n, <1>d
    <2>4. \A g \in Gen : g # s.gen /\ store[g].is = "data" => store[g].of # s.name
      BY <1>n DEF LifecycleInv, Origins
    <2>5. \A g \in Gen : store'[g].is = "data" => store'[g].of \in Old \union {g}
      BY <2>2, <2>3, <1>n DEF LifecycleInv, Origins
    <2>6. \A g \in Gen : store'[g].is = "data" /\ store'[g].of \in Old => old'[store'[g].of] = Missing
      <3>1. \A o \in Old : old[o] = Missing => old'[o] = Missing
        BY <1>o
      <3>2. \A g \in Gen : store[g].is = "data" /\ store[g].of \in Old => old[store[g].of] = Missing
        BY DEF LifecycleInv, Origins
      <3> QED  BY <3>1, <3>2, <2>2, <2>3
    <2>7. \A g, h \in Gen : store'[g].is = "data" /\ store'[g] = store'[h] => g = h
      BY <2>2, <2>3, <2>4 DEF LifecycleInv, Origins
    <2>8. \A g \in Gen : store'[g] = Data(g, "current") => Unsealed(g)'
      <3>1. store'[s.gen] # Data(s.gen, "current")
        BY <2>3, <1>n, <1>2 DEF Data
      <3> QED  BY <3>1, <2>2, <1>u DEF LifecycleInv, Origins, Unsealed, Sealed
    <2> QED  BY <2>1, <2>5, <2>6, <2>7, <2>8 DEF LifecycleInv, Origins
  <1>8. \A g \in Gen : Unfinished(g)' => Due(g)' /\ DueFrom(g, p)'
    <2> SUFFICES ASSUME NEW g \in Gen, Unfinished(g)'  PROVE Due(g)' /\ DueFrom(g, p)'
      OBVIOUS
    <2>1. Unfinished(g) \/ g = s.gen
      BY <1>s, <1>u DEF Unfinished, Sealed
    <2>2. CASE g = s.gen
      BY <2>2, <1>2, <1>3, <1>u DEF Due, DueFrom, Making
    <2>3. CASE Unfinished(g)
      BY <2>3, <1>1, <1>2, <1>3, <1>u DEF LifecycleInv, Accounted, Due, DueFrom, Making
    <2> QED  BY <2>1, <2>2, <2>3
  <1> QED  BY <1>1, <1>4, <1>5, <1>6, <1>7, <1>8, <1>m, <1>9, Together

\* the next source, or the new generation when none is left
LEMMA Onwards ==
  ASSUME LifecycleTypeOK, NEW p \in Proc, NEW left \in SUBSET todo[p], Take(p, left), todo[p] \subseteq Sources
  PROVE  /\ todo' \in [Proc -> SUBSET Sources] /\ src' \in [Proc -> Sources \union {NoSource}]
         /\ todo'[p] = left
         /\ left = {} => Goto(p, "root")
         /\ left # {} => Goto(p, "seal") /\ src'[p] \in left
  BY DEF Take, LifecycleTypeOK

LEMMA MarkKeeps ==
  ASSUME LifecycleInv, NEW p \in Proc, Mark(p)
  PROVE  LifecycleInv'
  <1>s. PICK s : s = src[p]
    OBVIOUS
  <1> DEFINE indexed == s.version = "indexed" /\ store[s.gen].is = "data"
            left == todo[p] \ {s}
            w == IF indexed THEN "index" ELSE IF left = {} THEN "root" ELSE "seal"
  <1>1. at[p] \in Sealing /\ at[p] \in Alone /\ w \in Onward /\ at[p] = "mark"
    BY DEF Mark, Sealing, Alone, Onward
  <1>2. /\ s \in todo[p] /\ s \in journal.sources /\ s.gen \in Gen /\ journal # NoJournal
        /\ journal.next \in Gen /\ Plan(s) /\ gens /\ todo[p] \subseteq journal.sources
        /\ use[p] = journal.next /\ s.version \in Versions /\ todo[p] \subseteq Sources
    BY <1>1, <1>s, AtSource DEF LifecycleInv, LifecycleTypeOK
  <1>n. root[s.gen] /\ (s.name # None => old[s.name] = Missing) /\ s.name \in Old \union {None}
    BY <1>1, <1>s, AtSource DEF LifecycleInv, InHand, Hand
  <1>u. /\ meta' = [meta EXCEPT ![s.gen] = [version |-> s.version, by |-> journal.next]]
        /\ UNCHANGED <<gens, layout, active, journal, old, root, store, index, drawn, use, faults>>
    BY <1>s DEF Mark
  <1>t. /\ Goto(p, w) /\ todo' \in [Proc -> SUBSET Sources] /\ src' \in [Proc -> Sources \union {NoSource}]
        /\ w = "index" => todo' = todo /\ src' = src
        /\ w # "index" => todo'[p] = left
        /\ w = "seal" => src'[p] \in left
    <2>1. CASE indexed
      BY <2>1, <1>s DEF Mark, LifecycleInv, LifecycleTypeOK
    <2>2. CASE ~indexed
      <3>1. Take(p, left)
        BY <2>2, <1>s DEF Mark
      <3>2. left \in SUBSET todo[p]
        OBVIOUS
      <3> QED  BY <2>2, <3>1, <3>2, <1>2, Onwards DEF LifecycleInv
    <2> QED  BY <2>1, <2>2
  <1>3. at' \in [Proc -> Places] /\ at'[p] = w
    BY <1>1, <1>t, Solitary DEF LifecycleInv
  <1>m. \A g \in Gen : meta'[g] = IF g = s.gen THEN [version |-> s.version, by |-> journal.next] ELSE meta[g]
    BY <1>u, <1>2 DEF LifecycleInv, LifecycleTypeOK
  <1>b. s.gen # journal.next /\ journal.next # None
    BY <1>2, LifecycleAssumption DEF Plan
  <1>4. LifecycleTypeOK'
    BY <1>2, <1>3, <1>t, <1>u DEF LifecycleInv, LifecycleTypeOK
  <1>5. Hand(p)'
    <2>1. CASE w = "index"
      <3>1. Sealed(s.gen)' /\ src'[p] = s /\ todo'[p] = todo[p]
        BY <2>1, <1>s, <1>t, <1>m, <1>b, <1>2 DEF Sealed
      <3> QED  BY <2>1, <3>1, <1>2, <1>n, <1>3, <1>u DEF Hand, Sealing, Making
    <2>2. CASE w \in {"root", "seal"}
      BY <2>2, <1>2, <1>3, <1>t, <1>u DEF Hand, Sealing, Making
    <2> QED  BY <2>1, <2>2
  <1>6. Unborn'
    BY <1>n, <1>m, <1>u DEF LifecycleInv, Unborn
  <1>7. Planned'
    <2>1. meta'[journal.next] = meta[journal.next]
      BY <1>2, <1>b, <1>m
    <2>2. ASSUME NEW t \in journal.sources, t # s  PROVE Plan(t)'
      <3>1. t.gen # s.gen /\ t.gen \in Gen
        BY <2>2, <1>1, <1>2, <1>s, AtSource DEF LifecycleInv, LifecycleTypeOK, Sources
      <3>2. Plan(t)
        BY <1>2 DEF LifecycleInv, Planned
      <3> QED  BY <3>1, <3>2, <1>m, <1>u DEF Plan, Fits
    <2>3. Plan(s)'
      <3>1. meta'[s.gen].version = s.version /\ meta'[s.gen].by = journal.next
        BY <1>m, <1>2
      <3>2. Fits(s)'
        BY <3>1, <1>u DEF Fits
      <3> QED  BY <3>2, <1>2, <1>n, <1>u DEF Plan
    <2>4. \A t \in journal.sources : Plan(t)'
      BY <2>2, <2>3
    <2> QED  BY <2>1, <2>4, <1>2, <1>u DEF LifecycleInv, Planned
  <1>9. Metadata'
    BY <1>2, <1>b, <1>m, <1>u DEF LifecycleInv, Metadata, Sealed, Versions, NoMeta
  <1>10. Origins'
    BY <1>2, <1>m, <1>u DEF LifecycleInv, Origins, Plan, Unsealed, Sealed
  <1>8. \A g \in Gen : Unfinished(g)' => Due(g)' /\ DueFrom(g, p)'
    <2> SUFFICES ASSUME NEW g \in Gen, Unfinished(g)'  PROVE Due(g)' /\ DueFrom(g, p)'
      OBVIOUS
    <2>1. CASE g = s.gen
      <3>1. store[g].is = "data" /\ store[g].version = "indexed"
        BY <2>1, <1>2, <1>b, <1>m, <1>u DEF Unfinished, NoMeta
      <3>2. w = "index"
        BY <3>1, <2>1, <1>2 DEF Plan, Missing, Bare
      <3> QED  BY <2>1, <3>2, <1>2, <1>3, <1>t, <1>u DEF Due, DueFrom, Making
    <2>2. CASE g # s.gen
      <3>1. Unfinished(g)
        BY <2>2, <1>m, <1>u DEF Unfinished, Sealed
      <3>2. g = journal.next \/ \E t \in todo[p] : t.gen = g
        BY <3>1, <1>1 DEF LifecycleInv, Accounted, DueFrom
      <3>3. g = journal.next \/ \E t \in left : t.gen = g
        BY <3>2, <2>2
      <3>4. Due(g)'
        BY <3>1, <1>2, <1>u DEF LifecycleInv, Accounted, Due
      <3> QED  BY <3>2, <3>3, <3>4, <1>2, <1>3, <1>t, <1>u DEF DueFrom, Making
    <2> QED  BY <2>1, <2>2
  <1> QED  BY <1>1, <1>t, <1>4, <1>5, <1>6, <1>7, <1>8, <1>9, <1>10, Together

LEMMA WriteIndexKeeps ==
  ASSUME LifecycleInv, NEW p \in Proc, WriteIndex(p)
  PROVE  LifecycleInv'
  <1>s. PICK s : s = src[p]
    OBVIOUS
  <1> DEFINE left == todo[p] \ {s}
            w == IF left = {} THEN "root" ELSE "seal"
  <1>1. at[p] \in Sealing /\ at[p] \in Alone /\ w \in Onward /\ at[p] = "index"
    BY DEF WriteIndex, Sealing, Alone, Onward
  <1>2. /\ s \in todo[p] /\ s \in journal.sources /\ s.gen \in Gen /\ journal # NoJournal
        /\ journal.next \in Gen /\ gens /\ todo[p] \subseteq journal.sources
        /\ use[p] = journal.next /\ todo[p] \subseteq Sources
    BY <1>1, <1>s, AtSource DEF LifecycleInv, LifecycleTypeOK
  <1>n. Sealed(s.gen)
    BY <1>1, <1>s DEF LifecycleInv, InHand, Hand
  <1>u. /\ index' = [index EXCEPT ![s.gen] = TRUE] /\ Take(p, left) /\ left \in SUBSET todo[p]
        /\ UNCHANGED <<gens, layout, active, journal, old, root, store, meta, drawn, use, faults>>
    BY <1>s DEF WriteIndex
  <1>t. /\ Goto(p, w) /\ todo' \in [Proc -> SUBSET Sources] /\ src' \in [Proc -> Sources \union {NoSource}]
        /\ todo'[p] = left /\ (w = "seal" => src'[p] \in left)
    BY <1>u, <1>2, Onwards DEF LifecycleInv
  <1>3. at' \in [Proc -> Places] /\ at'[p] = w
    BY <1>1, <1>t, Solitary DEF LifecycleInv
  <1>4. LifecycleTypeOK'
    BY <1>2, <1>3, <1>t, <1>u DEF LifecycleInv, LifecycleTypeOK
  <1>5. Hand(p)'
    BY <1>2, <1>3, <1>t, <1>u DEF Hand, Sealing, Making
  <1>6. Unborn' /\ Planned' /\ Metadata' /\ Origins'
    BY <1>u DEF LifecycleInv, Unborn, Planned, Plan, Fits, Metadata, Origins, Unsealed, Sealed, Current
  <1>8. \A g \in Gen : Unfinished(g)' => Due(g)' /\ DueFrom(g, p)'
    <2> SUFFICES ASSUME NEW g \in Gen, Unfinished(g)'  PROVE Due(g)' /\ DueFrom(g, p)'
      OBVIOUS
    <2>1. \A h \in Gen : index'[h] = (index[h] \/ h = s.gen)
      BY <1>u, <1>2 DEF LifecycleInv, LifecycleTypeOK
    <2>5. meta[s.gen] # NoMeta /\ index'[s.gen]
      BY <1>u, <1>2, <1>n DEF Sealed, NoMeta, LifecycleInv, LifecycleTypeOK
    <2>6. \/ root[g] /\ meta[g] = NoMeta
          \/ Sealed(g) /\ store[g].is = "data" /\ store[g].version = "indexed" /\ ~index'[g]
      BY <1>u DEF Unfinished, Sealed
    <2>2. Unfinished(g) /\ g # s.gen
      BY <2>1, <2>5, <2>6 DEF Unfinished
    <2>3. g = journal.next \/ \E t \in left : t.gen = g
      BY <2>2, <1>1 DEF LifecycleInv, Accounted, DueFrom
    <2>4. Due(g)'
      BY <2>2, <1>2, <1>u DEF LifecycleInv, Accounted, Due
    <2> QED  BY <2>3, <2>4, <1>2, <1>3, <1>t, <1>u DEF DueFrom, Making
  <1> QED  BY <1>1, <1>t, <1>4, <1>5, <1>6, <1>8, Together

-----------------------------------------------------------------------------
(* the new generation *)

\* what is known of the generation a process makes
LEMMA AtNew ==
  ASSUME LifecycleInv, NEW p \in Proc, at[p] \in Making
  PROVE  /\ use[p] \in Gen /\ gens
         /\ journal # NoJournal => /\ use[p] = journal.next /\ use[p] \in drawn
                                   /\ \A s \in journal.sources : Plan(s) /\ s.gen # use[p]
         /\ \A g \in Gen : Unfinished(g) => g = use[p] /\ Due(g)
  BY DEF LifecycleInv, InHand, Hand, Planned, Plan, Accounted, DueFrom

LEMMA MakeRootKeeps ==
  ASSUME LifecycleInv, NEW p \in Proc, MakeRoot(p)
  PROVE  LifecycleInv'
  <1>s. PICK g0 : g0 = use[p]
    OBVIOUS
  <1>1. at[p] = "root" /\ at[p] \in Making /\ at[p] \in Alone /\ "store" \in Onward /\ Goto(p, "store")
    BY DEF MakeRoot, Making, Alone, Onward
  <1>2. /\ g0 \in Gen /\ gens /\ g0 \in drawn
        /\ journal # NoJournal => g0 = journal.next
        /\ journal = NoJournal => layout = "none" /\ meta[g0] = NoMeta /\ store[g0] = Missing
        /\ \A g \in Gen : Unfinished(g) => g = g0 /\ Due(g)
    BY <1>1, <1>s, AtNew DEF LifecycleInv, InHand, Hand
  <1>3. at' \in [Proc -> Places] /\ at'[p] = "store"
    BY <1>1, Solitary DEF LifecycleInv
  <1>u. /\ root' = [root EXCEPT ![g0] = TRUE]
        /\ UNCHANGED <<gens, layout, active, journal, old, store, meta, index, drawn, todo, src, use, faults>>
    BY <1>s DEF MakeRoot
  <1>r. \A g \in Gen : root'[g] = (root[g] \/ g = g0)
    BY <1>u, <1>2 DEF LifecycleInv, LifecycleTypeOK
  <1>4. LifecycleTypeOK'
    BY <1>3, <1>u DEF LifecycleInv, LifecycleTypeOK
  <1>5. Hand(p)'
    BY <1>2, <1>3, <1>s, <1>r, <1>u DEF Hand, Sealing, Making
  <1>6. Unborn'
    BY <1>2, <1>r, <1>u DEF LifecycleInv, Unborn
  <1>7. Planned' /\ Metadata' /\ Origins'
    <2>1. Planned'
      <3>1. \A s \in journal.sources : Plan(s) => Plan(s)'
        BY <1>r, <1>u DEF LifecycleInv, LifecycleTypeOK, Sources, Plan, Fits
      <3> QED  BY <3>1, <1>u DEF LifecycleInv, Planned
    <2> QED  BY <2>1, <1>u DEF LifecycleInv, Metadata, Origins, Sealed, Unsealed, Current
  <1>8. \A g \in Gen : Unfinished(g)' => Due(g)' /\ DueFrom(g, p)'
    <2> SUFFICES ASSUME NEW g \in Gen, Unfinished(g)'  PROVE Due(g)' /\ DueFrom(g, p)'
      OBVIOUS
    <2>1. g = g0
      BY <1>2, <1>r, <1>u DEF Unfinished, Sealed
    <2> QED  BY <2>1, <1>2, <1>s, <1>3, <1>u DEF Due, DueFrom, Sealing
  <1> QED  BY <1>1, <1>4, <1>5, <1>6, <1>7, <1>8, Together

LEMMA MakeStoreKeeps ==
  ASSUME LifecycleInv, NEW p \in Proc, MakeStore(p)
  PROVE  LifecycleInv'
  <1>s. PICK g0 : g0 = use[p]
    OBVIOUS
  <1>1. at[p] = "store" /\ at[p] \in Making /\ at[p] \in Alone /\ "meta" \in Onward /\ Goto(p, "meta")
    BY DEF MakeStore, Making, Alone, Onward
  <1>2. /\ g0 \in Gen /\ gens /\ root[g0]
        /\ journal # NoJournal => g0 = journal.next /\ \A s \in journal.sources : Plan(s) /\ s.gen # g0
        /\ journal = NoJournal => layout = "none" /\ meta[g0] = NoMeta /\ g0 \in drawn /\ store[g0] = Missing
        /\ \A g \in Gen : Unfinished(g) => g = g0 /\ Due(g)
    BY <1>1, <1>s, AtNew DEF LifecycleInv, InHand, Hand
  <1>3. at' \in [Proc -> Places] /\ at'[p] = "meta"
    BY <1>1, Solitary DEF LifecycleInv
  <1>u. /\ store' = [store EXCEPT ![g0] = IF @ = Missing THEN Bare ELSE @]
        /\ UNCHANGED <<gens, layout, active, journal, old, root, meta, index, drawn, todo, src, use, faults>>
    BY <1>s DEF MakeStore
  <1>m. \A g \in Gen : store'[g] = IF g = g0 /\ store[g] = Missing THEN Bare ELSE store[g]
    BY <1>u, <1>2 DEF LifecycleInv, LifecycleTypeOK
  <1>b. Bare # Missing /\ Bare.is # "data" /\ Missing.is # "data" /\ Bare.version = "none" /\ Bare \in Contents
    BY DEF Bare, Missing, Contents
  <1>4. LifecycleTypeOK'
    BY <1>3, <1>u, <1>2, <1>b DEF LifecycleInv, LifecycleTypeOK
  <1>5. Hand(p)'
    BY <1>2, <1>3, <1>s, <1>m, <1>b, <1>u DEF Hand, Sealing, Making
  <1>6. Unborn'
    BY <1>2, <1>m, <1>u DEF LifecycleInv, Unborn
  <1>7. Planned'
    <2>1. \A s \in journal.sources : journal # NoJournal => Plan(s)'
      <3>1. \A s \in journal.sources : s.gen \in Gen
        BY DEF LifecycleInv, LifecycleTypeOK, Sources
      <3> QED  BY <3>1, <1>2, <1>m, <1>u DEF Plan, Fits
    <2>2. journal # NoJournal => store'[journal.next] \in {Missing, Bare, Raw, Data(journal.next, "current")}
      BY <1>2, <1>m DEF LifecycleInv, Planned
    <2> QED  BY <2>1, <2>2, <1>u DEF LifecycleInv, Planned
  <1>9. Metadata'
    <2>1. \A g \in Gen : journal = NoJournal /\ Current(g) => g # g0 \/ store'[g] = store[g]
      BY <1>2 DEF Current
    <2>2. \A g \in Gen : journal = NoJournal /\ Current(g) => store'[g] = store[g]
      BY <2>1, <1>m
    <2> QED  BY <2>2, <1>u DEF LifecycleInv, Metadata, Sealed, Current
  <1>10. Origins'
    <2>1. \A g \in Gen : store'[g].is = "data" => store'[g] = store[g]
      BY <1>m, <1>b
    <2>2. \A g \in Gen : store'[g] = Data(g, "current") => store'[g].is = "data"
      BY DEF Data
    <2> QED  BY <2>1, <2>2, <1>u DEF LifecycleInv, Origins, Unsealed, Sealed
  <1>8. \A g \in Gen : Unfinished(g)' => Due(g)' /\ DueFrom(g, p)'
    <2> SUFFICES ASSUME NEW g \in Gen, Unfinished(g)'  PROVE Due(g)' /\ DueFrom(g, p)'
      OBVIOUS
    <2>1. Unfinished(g)
      BY <1>m, <1>b, <1>u DEF Unfinished, Sealed
    <2> QED  BY <2>1, <1>2, <1>s, <1>3, <1>u DEF Due, DueFrom, Sealing
  <1> QED  BY <1>1, <1>4, <1>5, <1>6, <1>7, <1>8, <1>9, <1>10, Together

LEMMA WriteMetaKeeps ==
  ASSUME LifecycleInv, NEW p \in Proc, WriteMeta(p)
  PROVE  LifecycleInv'
  <1>s. PICK g0 : g0 = use[p]
    OBVIOUS
  <1> DEFINE own == [version |-> "current", by |-> None]
             w == IF journal = NoJournal THEN "publish" ELSE "open"
  <1>1. at[p] = "meta" /\ at[p] \in Making /\ at[p] \in Alone /\ w \in Onward
    BY DEF WriteMeta, Making, Alone, Onward
  <1>2. /\ g0 \in Gen /\ gens /\ root[g0] /\ store[g0] # Missing
        /\ journal # NoJournal => g0 = journal.next /\ \A s \in journal.sources : Plan(s) /\ s.gen # g0
        /\ journal = NoJournal => layout = "none" /\ g0 \in drawn /\ store[g0] \in {Missing, Bare}
        /\ \A g \in Gen : Unfinished(g) => g = g0 /\ Due(g)
    BY <1>1, <1>s, AtNew DEF LifecycleInv, InHand, Hand
  <1>a. CASE meta[g0] \notin {NoMeta, own}
    <2>2. UNCHANGED <<disk, drawn>> /\ Leave(p) /\ UNCHANGED faults
      BY <1>a, <1>s DEF WriteMeta, disk
    <2> QED  BY <2>2, LeaveKeeps DEF LifecycleInv, LifecycleTypeOK
  <1>b. CASE meta[g0] \in {NoMeta, own}
    <2>u. /\ meta' = [meta EXCEPT ![g0] = own] /\ Goto(p, w)
          /\ UNCHANGED <<gens, layout, active, journal, old, root, store, index, drawn, todo, src, use, faults>>
      BY <1>b, <1>s DEF WriteMeta
    <2>3. at' \in [Proc -> Places] /\ at'[p] = w
      BY <1>1, <2>u, Solitary DEF LifecycleInv
    <2>m. \A g \in Gen : meta'[g] = IF g = g0 THEN own ELSE meta[g]
      BY <2>u, <1>2 DEF LifecycleInv, LifecycleTypeOK
    <2>b. own # NoMeta /\ own.by = None /\ own.version = "current"
      BY DEF NoMeta
    <2>4. LifecycleTypeOK'
      BY <2>3, <2>u DEF LifecycleInv, LifecycleTypeOK, Versions
    <2>5. Hand(p)'
      BY <1>2, <1>s, <2>3, <2>m, <2>b, <2>u DEF Hand, Sealing, Making, Unsealed, Sealed
    <2>6. Unborn'
      BY <1>2, <2>m, <2>u DEF LifecycleInv, Unborn
    <2>7. Planned'
      <3>1. \A s \in journal.sources : journal # NoJournal => Plan(s)'
        <4>1. \A s \in journal.sources : s.gen \in Gen
          BY DEF LifecycleInv, LifecycleTypeOK, Sources
        <4> QED  BY <4>1, <1>2, <2>m, <2>u DEF Plan, Fits
      <3> QED  BY <3>1, <1>2, <2>m, <2>u DEF LifecycleInv, Planned
    <2>8. Metadata'
      <3>1. \A g \in Gen : journal = NoJournal => ~Current(g)
        BY <1>2 DEF Current
      <3> QED  BY <3>1, <2>m, <2>b, <2>u DEF LifecycleInv, Metadata, Sealed, Current
    <2>9. Origins'
      BY <2>m, <2>b, <2>u DEF LifecycleInv, Origins, Unsealed, Sealed
    <2>10. \A g \in Gen : ~Unfinished(g)'
      BY <1>2, <2>m, <2>b, <2>u DEF Unfinished, Sealed
    <2> QED  BY <1>1, <2>u, <2>4, <2>5, <2>6, <2>7, <2>8, <2>9, <2>10, Together
  <1> QED  BY <1>a, <1>b

LEMMA OpenDatabaseKeeps ==
  ASSUME LifecycleInv, NEW p \in Proc, OpenDatabase(p)
  PROVE  LifecycleInv'
  <1>s. PICK g0 : g0 = use[p]
    OBVIOUS
  <1>1. at[p] = "open" /\ at[p] \in Making /\ at[p] \in Alone /\ {"commit", "publish"} \subseteq Onward
    BY DEF OpenDatabase, Making, Alone, Onward
  <1>2. /\ g0 \in Gen /\ gens /\ root[g0] /\ store[g0] # Missing /\ Unsealed(g0)
        /\ journal # NoJournal => g0 = journal.next /\ \A s \in journal.sources : Plan(s) /\ s.gen # g0
        /\ journal = NoJournal => store[g0] = Bare /\ Current(g0)
        /\ \A g \in Gen : Unfinished(g) => g = g0 /\ Due(g)
    BY <1>1, <1>s, AtNew DEF LifecycleInv, InHand, Hand
  <1>n. \A g \in Gen : ~Unfinished(g)
    BY <1>2 DEF Unfinished, Unsealed
  <1>c. /\ Raw # Missing /\ Raw # Bare /\ Raw.is # "data" /\ Bare.is # "data" /\ Missing.is # "data"
        /\ Raw.version = "none" /\ Raw \in Contents
    BY DEF Raw, Bare, Missing, Contents
  <1>a. CASE store[g0].is = "data"
    <2>u. Goto(p, "publish") /\ UNCHANGED <<disk, drawn, todo, src, use, faults>>
      BY <1>a, <1>s, <1>2, <1>c DEF OpenDatabase, disk
    <2>0. journal # NoJournal /\ store[g0] = Data(g0, "current")
      BY <1>a, <1>2, <1>c DEF LifecycleInv, Planned
    <2>3. at' \in [Proc -> Places] /\ at'[p] = "publish"
      BY <1>1, <2>u, Solitary DEF LifecycleInv
    <2>4. LifecycleTypeOK'
      BY <2>3, <2>u DEF LifecycleInv, LifecycleTypeOK, disk
    <2>5. Hand(p)'
      BY <1>2, <1>s, <2>0, <2>3, <2>u DEF Hand, Sealing, Making, Unsealed, Sealed, disk
    <2>6. Unborn' /\ Planned' /\ Metadata' /\ Origins' /\ \A g \in Gen : ~Unfinished(g)'
      BY <1>n, <2>u DEF LifecycleInv, Unborn, Planned, Plan, Fits, Metadata, Origins, Unsealed, Sealed,
                        Current, Unfinished, disk
    <2> QED  BY <1>1, <2>u, <2>4, <2>5, <2>6, Together
  <1>b. CASE store[g0].is # "data"
    <2>u. /\ store' = [store EXCEPT ![g0] = Raw] /\ Goto(p, "commit")
          /\ UNCHANGED <<gens, layout, active, journal, old, root, meta, index, drawn, todo, src, use, faults>>
      BY <1>b, <1>s DEF OpenDatabase
    <2>3. at' \in [Proc -> Places] /\ at'[p] = "commit"
      BY <1>1, <2>u, Solitary DEF LifecycleInv
    <2>m. \A g \in Gen : store'[g] = IF g = g0 THEN Raw ELSE store[g]
      BY <2>u, <1>2 DEF LifecycleInv, LifecycleTypeOK
    <2>4. LifecycleTypeOK'
      BY <2>3, <2>u, <1>c DEF LifecycleInv, LifecycleTypeOK
    <2>5. Hand(p)'
      BY <1>2, <1>c, <1>s, <2>3, <2>m, <2>u DEF Hand, Sealing, Making, Unsealed, Sealed, Current
    <2>6. Unborn'
      BY <1>2, <2>m, <2>u DEF LifecycleInv, Unborn
    <2>7. Planned'
      <3>1. \A s \in journal.sources : journal # NoJournal => Plan(s)'
        <4>1. \A s \in journal.sources : s.gen \in Gen
          BY DEF LifecycleInv, LifecycleTypeOK, Sources
        <4> QED  BY <4>1, <1>2, <2>m, <2>u DEF Plan, Fits
      <3> QED  BY <3>1, <1>2, <2>m, <2>u DEF LifecycleInv, Planned
    <2>8. Metadata'
      BY <1>c, <2>m, <2>u DEF LifecycleInv, Metadata, Sealed, Current
    <2>9. Origins'
      <3>1. \A g \in Gen : store'[g].is = "data" => store'[g] = store[g]
        BY <2>m, <1>c
      <3>2. \A g \in Gen : store'[g] = Data(g, "current") => store'[g].is = "data"
        BY DEF Data
      <3> QED  BY <3>1, <3>2, <2>u DEF LifecycleInv, Origins, Unsealed, Sealed
    <2>10. \A g \in Gen : ~Unfinished(g)'
      BY <1>n, <1>c, <2>m, <2>u DEF Unfinished, Sealed
    <2> QED  BY <1>1, <2>u, <2>4, <2>5, <2>6, <2>7, <2>8, <2>9, <2>10, Together
  <1> QED  BY <1>a, <1>b

LEMMA CommitSchemaKeeps ==
  ASSUME LifecycleInv, NEW p \in Proc, CommitSchema(p)
  PROVE  LifecycleInv'
  <1>s. PICK g0 : g0 = use[p]
    OBVIOUS
  <1>1. at[p] = "commit" /\ at[p] \in Making /\ at[p] \in Alone /\ {"publish", "bind", "share"} \subseteq Onward
    BY DEF CommitSchema, Making, Alone, Onward
  <1>2. /\ g0 \in Gen /\ gens /\ root[g0] /\ store[g0] = Raw /\ Unsealed(g0)
        /\ journal # NoJournal => g0 = journal.next /\ \A s \in journal.sources : Plan(s) /\ s.gen # g0
        /\ journal = NoJournal => Current(g0)
        /\ \A g \in Gen : Unfinished(g) => g = g0 /\ Due(g)
    BY <1>1, <1>s, AtNew DEF LifecycleInv, InHand, Hand
  <1>n. \A g \in Gen : ~Unfinished(g)
    BY <1>2 DEF Unfinished, Unsealed
  <1>u. /\ store' = [store EXCEPT ![g0] = Data(g0, "current")]
        /\ UNCHANGED <<gens, layout, active, journal, old, root, meta, index, drawn, todo, src, use, faults>>
    BY <1>s DEF CommitSchema
  <1>w. PICK w \in {"publish", "bind", "share"} : Goto(p, w) /\ (w = "publish" <=> journal # NoJournal)
    BY DEF CommitSchema, Ready
  <1>3. at' \in [Proc -> Places] /\ at'[p] = w
    BY <1>1, <1>w, Solitary DEF LifecycleInv
  <1>m. \A g \in Gen : store'[g] = IF g = g0 THEN Data(g0, "current") ELSE store[g]
    BY <1>u, <1>2 DEF LifecycleInv, LifecycleTypeOK
  <1>c. /\ Data(g0, "current") # Missing /\ Data(g0, "current").version = "current" /\ Data(g0, "current") \in Contents
        /\ Data(g0, "current").of = g0 /\ g0 \notin Old
    <2>1. Data(g0, "current") \in Contents
      BY <1>2 DEF Contents, Versions
    <2>2. Data(g0, "current") # Missing /\ Data(g0, "current").version = "current" /\ Data(g0, "current").of = g0
      BY DEF Data, Missing, Bare
    <2> QED  BY <2>1, <2>2, <1>2
  <1>4. LifecycleTypeOK'
    BY <1>3, <1>u, <1>c DEF LifecycleInv, LifecycleTypeOK
  <1>5. Hand(p)'
    BY <1>2, <1>c, <1>s, <1>3, <1>w, <1>m, <1>u DEF Hand, Sealing, Making, Unsealed, Sealed
  <1>6. Unborn'
    BY <1>2, <1>m, <1>u DEF LifecycleInv, Unborn
  <1>7. Planned'
    <2>1. \A s \in journal.sources : journal # NoJournal => Plan(s)'
      <3>1. \A s \in journal.sources : s.gen \in Gen
        BY DEF LifecycleInv, LifecycleTypeOK, Sources
      <3> QED  BY <3>1, <1>2, <1>m, <1>u DEF Plan, Fits
    <2> QED  BY <2>1, <1>2, <1>m, <1>u DEF LifecycleInv, Planned
  <1>8. Metadata'
    BY <1>c, <1>m, <1>u DEF LifecycleInv, Metadata, Sealed, Current
  <1>9. Origins'
    <2>1. \A g \in Gen : g # g0 /\ store[g].is = "data" => store[g].of # g0
      BY <1>c DEF LifecycleInv, Origins
    <2>2. \A g \in Gen : store'[g].is = "data" => store'[g].of \in Old \union {g}
      BY <1>c, <1>m DEF LifecycleInv, Origins
    <2>3. \A g \in Gen : store'[g].is = "data" /\ store'[g].of \in Old => g # g0
      BY <1>c, <1>m
    <2>4. \A g \in Gen : store'[g].is = "data" /\ store'[g].of \in Old => old'[store'[g].of] = Missing
      BY <2>3, <1>m, <1>u DEF LifecycleInv, Origins
    <2>5. \A g, h \in Gen : store'[g].is = "data" /\ store'[g] = store'[h] => g = h
      BY <2>1, <1>m, <1>c DEF LifecycleInv, Origins
    <2>6. \A g \in Gen : store'[g] = Data(g, "current") => Unsealed(g)'
      BY <1>m, <1>2, <1>u DEF LifecycleInv, Origins, Unsealed, Sealed
    <2> QED  BY <2>2, <2>4, <2>5, <2>6, <1>u DEF LifecycleInv, Origins
  <1>10. \A g \in Gen : ~Unfinished(g)'
    BY <1>n, <1>2, <1>m, <1>u DEF Unfinished, Unsealed, Sealed
  <1> QED  BY <1>1, <1>w, <1>4, <1>5, <1>6, <1>7, <1>8, <1>9, <1>10, Together

LEMMA PublishKeeps ==
  ASSUME LifecycleInv, NEW p \in Proc, Publish(p)
  PROVE  LifecycleInv'
  <1>s. PICK g0 : g0 = use[p]
    OBVIOUS
  <1> DEFINE w == IF journal = NoJournal THEN "open" ELSE "forget"
  <1>1. at[p] = "publish" /\ at[p] \in Making /\ at[p] \in Alone /\ w \in Onward /\ Goto(p, w)
    BY DEF Publish, Making, Alone, Onward
  <1>2. /\ g0 \in Gen /\ gens /\ root[g0] /\ store[g0] # Missing /\ Unsealed(g0)
        /\ journal # NoJournal => g0 = journal.next /\ store[g0] = Data(g0, "current")
        /\ journal = NoJournal => store[g0] = Bare
        /\ \A g \in Gen : Unfinished(g) => g = g0 /\ Due(g)
    BY <1>1, <1>s, AtNew DEF LifecycleInv, InHand, Hand
  <1>n. \A g \in Gen : ~Unfinished(g)
    BY <1>2 DEF Unfinished, Unsealed
  <1>u. /\ layout' = "two" /\ active' = g0
        /\ UNCHANGED <<gens, journal, old, root, store, meta, index, drawn, todo, src, use, faults>>
    BY <1>s DEF Publish
  <1>3. at' \in [Proc -> Places] /\ at'[p] = w
    BY <1>1, Solitary DEF LifecycleInv
  <1>4. LifecycleTypeOK'
    BY <1>2, <1>3, <1>u DEF LifecycleInv, LifecycleTypeOK
  <1>5. Hand(p)'
    BY <1>2, <1>s, <1>3, <1>u DEF Hand, Sealing, Making, Unsealed, Sealed, Current
  <1>6. Unborn'
    BY <1>2, <1>u DEF LifecycleInv, Unborn
  <1>7. Planned' /\ Origins'
    BY <1>u DEF LifecycleInv, Planned, Plan, Fits, Origins, Unsealed, Sealed
  <1>8. Metadata'
    <2>1. \A g \in Gen : Current(g)' => g = g0
      BY <1>u DEF Current
    <2>2. journal = NoJournal => ~Sealed(g0) /\ store[g0].version = "none"
      BY <1>2 DEF Unsealed, Bare
    <2> QED  BY <2>1, <2>2, <1>u DEF LifecycleInv, Metadata, Sealed
  <1>10. \A g \in Gen : ~Unfinished(g)'
    BY <1>n, <1>u DEF Unfinished, Sealed
  <1> QED  BY <1>1, <1>4, <1>5, <1>6, <1>7, <1>8, <1>10, Together

LEMMA ForgetKeeps ==
  ASSUME LifecycleInv, NEW p \in Proc, Forget(p)
  PROVE  LifecycleInv'
  <1>s. PICK g0 : g0 = use[p]
    OBVIOUS
  <1>1. at[p] = "forget" /\ at[p] \in Making /\ at[p] \in Alone /\ "bind" \in Onward
    BY DEF Forget, Making, Alone, Onward
  <1>2. /\ g0 \in Gen /\ Current(g0) /\ Unsealed(g0) /\ store[g0] = Data(g0, "current")
        /\ \A g \in Gen : Unfinished(g) => g = g0 /\ Due(g)
    BY <1>1, <1>s, AtNew DEF LifecycleInv, InHand, Hand
  <1>n. \A g \in Gen : ~Unfinished(g)
    BY <1>2 DEF Unfinished, Unsealed
  <1>a. CASE Manifest # "ready"
    BY <1>a, LeaveKeeps DEF Forget, disk, LifecycleInv, LifecycleTypeOK
  <1>b. CASE Manifest = "ready"
    <2>u. /\ journal' = NoJournal /\ Goto(p, "bind")
          /\ UNCHANGED <<gens, layout, active, old, root, store, meta, index, drawn, todo, src, use, faults>>
      BY <1>b DEF Forget
    <2>3. at' \in [Proc -> Places] /\ at'[p] = "bind"
      BY <1>1, <2>u, Solitary DEF LifecycleInv
    <2>4. LifecycleTypeOK'
      BY <2>3, <2>u DEF LifecycleInv, LifecycleTypeOK, NoJournal
    <2>5. Hand(p)' /\ Planned'
      BY <2>3, <2>u DEF Hand, Sealing, Making, Planned
    <2>6. Unborn' /\ Origins' /\ \A g \in Gen : ~Unfinished(g)'
      BY <1>n, <2>u DEF LifecycleInv, Unborn, Origins, Unsealed, Sealed, Unfinished
    <2>7. Metadata'
      <3>1. \A g \in Gen : Current(g)' => g = g0
        BY <1>2, <2>u DEF Current
      <3>2. ~Sealed(g0) /\ store[g0].version = "current"
        BY <1>2 DEF Unsealed, Data
      <3> QED  BY <3>1, <3>2, <2>u DEF LifecycleInv, Metadata, Sealed
    <2> QED  BY <1>1, <2>u, <2>4, <2>5, <2>6, <2>7, Together
  <1> QED  BY <1>a, <1>b

-----------------------------------------------------------------------------
(* ways into the work *)

LEMMA InitializeKeeps ==
  ASSUME LifecycleInv, NEW p \in Proc, Initialize(p)
  PROVE  LifecycleInv'
  <1>1. at[p] = "locked" /\ at[p] \in Alone /\ "open" \in Onward /\ Goto(p, "open")
    BY DEF Initialize, Repair, Alone, Onward
  <1>u. use' = [use EXCEPT ![p] = active] /\ UNCHANGED <<disk, drawn, todo, src, faults>>
    BY DEF Initialize, disk
  <1>2. journal = NoJournal /\ Manifest = "initialize"
    BY DEF Initialize, Repair, Status
  <1>3. layout = "two" /\ store[active] = Bare /\ meta[active] # NoMeta /\ ~Sealed(active)
    BY <1>2 DEF Manifest, LifecycleInv, LifecycleTypeOK
  <1>m. active \in Gen /\ store[active] # Missing
    BY <1>3 DEF LifecycleInv, Unborn, Bare, Missing
  <1>4. active \in Gen /\ root[active] /\ gens /\ store[active] # Missing
    BY <1>m DEF LifecycleInv, Unborn
  <1>n. \A g \in Gen : ~Unfinished(g)
    BY <1>2, <1>3 DEF LifecycleInv, Accounted, Due
  <1>5. at' \in [Proc -> Places] /\ at'[p] = "open"
    BY <1>1, Solitary DEF LifecycleInv
  <1>6. LifecycleTypeOK' /\ use'[p] = active
    BY <1>4, <1>5, <1>u DEF LifecycleInv, LifecycleTypeOK, disk
  <1>7. Hand(p)'
    BY <1>2, <1>3, <1>4, <1>5, <1>6, <1>u DEF Hand, Sealing, Making, Unsealed, Sealed, Current, disk
  <1>8. Unborn' /\ Planned' /\ Metadata' /\ Origins' /\ \A g \in Gen : ~Unfinished(g)'
    BY <1>n, <1>u DEF LifecycleInv, Unborn, Planned, Plan, Fits, Metadata, Origins, Unsealed, Sealed,
                      Current, Unfinished, disk
  <1> QED  BY <1>1, <1>6, <1>7, <1>8, Together

LEMMA FreshKeeps ==
  ASSUME LifecycleInv, NEW p \in Proc, Fresh(p)
  PROVE  LifecycleInv'
  <1>1. at[p] = "fresh" /\ at[p] \in Alone /\ "root" \in Onward
    BY DEF Fresh, Alone, Onward
  <1>a. CASE Status # "absent"
    <2>1. Goto(p, "share") /\ UNCHANGED <<disk, drawn, todo, src, use, faults>>
      BY <1>a DEF Fresh, disk
    <2>2. Solo(p, "share") /\ "share" \in Places /\ "share" \notin Sealing \union Making \union Alone \union Shared
      BY <2>1 DEF Solo, Goto, Places, Sealing, Making, Alone, Shared
    <2> QED  BY <2>1, <2>2, Quiet DEF LifecycleInv, LifecycleTypeOK, Shared
  <1>b. CASE Status = "absent"
    <2>1. PICK g0 \in Gen : g0 \notin drawn /\ drawn' = drawn \union {g0} /\ use' = [use EXCEPT ![p] = g0]
      <3>1. Gen # drawn /\ drawn \subseteq Gen
        BY <1>b DEF Fresh, LifecycleInv, LifecycleTypeOK
      <3>2. \E h \in Gen : h \notin drawn
        BY <3>1
      <3> QED  BY <1>b, <3>2 DEF Fresh
    <2>u. /\ gens' = TRUE /\ Goto(p, "root")
          /\ UNCHANGED <<layout, active, journal, old, root, store, meta, index, todo, src, faults>>
      BY <1>b DEF Fresh
    <2>2. journal = NoJournal /\ layout = "none" /\ ~gens
      BY <1>b DEF Status, Manifest, LifecycleInv, LifecycleTypeOK
    <2>3. \A g \in Gen : ~root[g] /\ store[g] = Missing /\ meta[g] = NoMeta
      BY <2>2 DEF LifecycleInv, Unborn
    <2>4. at' \in [Proc -> Places] /\ at'[p] = "root"
      BY <1>1, <2>u, Solitary DEF LifecycleInv
    <2>5. LifecycleTypeOK' /\ use'[p] = g0 /\ g0 \in drawn'
      BY <2>1, <2>4, <2>u DEF LifecycleInv, LifecycleTypeOK
    <2>6. Hand(p)'
      BY <2>2, <2>3, <2>4, <2>5, <2>u DEF Hand, Sealing, Making
    <2>7. Unborn' /\ Planned' /\ Metadata' /\ Origins'
      BY <2>1, <2>2, <2>3, <2>u DEF LifecycleInv, Unborn, Planned, Metadata, Origins, Unsealed, Sealed, Current
    <2>8. \A g \in Gen : ~Unfinished(g)'
      BY <2>3, <2>u DEF Unfinished, Sealed, NoMeta
    <2> QED  BY <1>1, <2>u, <2>5, <2>6, <2>7, <2>8, Together
  <1> QED  BY <1>a, <1>b

LEMMA ResumeKeeps ==
  ASSUME LifecycleInv, NEW p \in Proc, Resume(p)
  PROVE  LifecycleInv'
  <1> DEFINE w == IF journal.sources = {} THEN "root" ELSE "seal"
  <1>1. at[p] = "locked" /\ at[p] \in Alone /\ w \in Onward
    BY DEF Resume, Repair, Alone, Onward
  <1>u. /\ journal # NoJournal /\ gens' = TRUE /\ use' = [use EXCEPT ![p] = journal.next]
        /\ Take(p, journal.sources)
        /\ UNCHANGED <<layout, active, journal, old, root, store, meta, index, drawn, faults>>
    BY DEF Resume
  <1>2. journal.next \in Gen /\ journal.next \in drawn /\ journal.sources \subseteq Sources
    BY <1>u DEF LifecycleInv, Planned, LifecycleTypeOK
  <1>t. /\ Goto(p, w) /\ todo' \in [Proc -> SUBSET Sources] /\ src' \in [Proc -> Sources \union {NoSource}]
        /\ todo'[p] = journal.sources /\ (w = "seal" => src'[p] \in journal.sources)
    BY <1>u, <1>2 DEF Take, LifecycleInv, LifecycleTypeOK
  <1>3. at' \in [Proc -> Places] /\ at'[p] = w
    BY <1>1, <1>t, Solitary DEF LifecycleInv
  <1>4. LifecycleTypeOK' /\ use'[p] = journal.next
    BY <1>2, <1>3, <1>t, <1>u DEF LifecycleInv, LifecycleTypeOK
  <1>5. Hand(p)'
    BY <1>2, <1>3, <1>4, <1>t, <1>u DEF Hand, Sealing, Making
  <1>6. Unborn' /\ Planned' /\ Metadata' /\ Origins'
    BY <1>u DEF LifecycleInv, Unborn, Planned, Plan, Fits, Metadata, Origins, Unsealed, Sealed, Current
  <1>8. \A g \in Gen : Unfinished(g)' => Due(g)' /\ DueFrom(g, p)'
    <2> SUFFICES ASSUME NEW g \in Gen, Unfinished(g)'  PROVE Due(g)' /\ DueFrom(g, p)'
      OBVIOUS
    <2>1. Unfinished(g)
      BY <1>u DEF Unfinished, Sealed
    <2>2. g = journal.next \/ \E s \in journal.sources : s.gen = g
      BY <2>1, <1>u DEF LifecycleInv, Accounted, Due
    <2> QED  BY <2>2, <1>3, <1>4, <1>t, <1>u DEF Due, DueFrom, Sealing, Making
  <1> QED  BY <1>1, <1>t, <1>4, <1>5, <1>6, <1>8, Together

LEMMA WriteJournalKeeps ==
  ASSUME LifecycleInv, NEW p \in Proc, WriteJournal(p)
  PROVE  LifecycleInv'
  <1>1. /\ at[p] = "locked" /\ at[p] \in Alone /\ "locked" \in Onward /\ Status \in {"rollover", "recover"}
        /\ journal = NoJournal /\ Ids # {}
        /\ journal' = NewJournal(CHOOSE id \in Ids : TRUE)
    BY DEF WriteJournal, Repair, Alone, Onward
  <1>u. /\ drawn' = drawn \union {journal'.next} \union {s.gen : s \in journal'.sources}
        /\ UNCHANGED <<gens, layout, active, old, root, store, meta, index, procs, faults>>
    BY DEF WriteJournal
  <1>i. PICK id : id \in Ids /\ journal' = NewJournal(id)
    BY <1>1
  <1>d. /\ \A i \in Old \union {"next"} : id[i] \in Gen /\ id[i] \notin drawn
        /\ \A i, j \in Old \union {"next"} : id[i] = id[j] => i = j
    BY <1>i DEF Ids
  <1>2. Goto(p, "locked") /\ at' \in [Proc -> Places] /\ at'[p] = "locked"
    BY <1>1, <1>u DEF Goto, LifecycleInv, LifecycleTypeOK, procs
  <1>b. \A g \in Gen : g \notin drawn => ~root[g] /\ store[g] = Missing /\ meta[g] = NoMeta
    BY DEF LifecycleInv, Unborn
  <1>m. layout = "two" => active \in Gen
    BY DEF LifecycleInv, Unborn
  <1>v. \A g \in Gen : /\ store[g] \in Contents /\ store[g].version \in Versions
                       /\ meta[g].version \in Versions \union {"missing"}
    BY DEF LifecycleInv, LifecycleTypeOK, Contents, Data, Bare, Missing, Raw, Versions
  <1>w. \A o \in Old : old[o] \in Contents /\ old[o].version \in Versions
    BY DEF LifecycleInv, LifecycleTypeOK, Contents, Data, Bare, Missing, Raw, Versions
  \* a source that is a generation already, and one of layout 1
  <1>f. PICK found : found = [g \in Gen |-> IF Partial(g) /\ store[g].is # "data" /\ meta[g] # NoMeta
                                          THEN meta[g].version ELSE store[g].version]
    OBVIOUS
  <1>j. journal'.sources =
          {[name |-> None, gen |-> g, version |-> found[g]] :
             g \in {h \in Gen : Partial(h)} \union (IF layout = "two" /\ store[active] # Missing THEN {active} ELSE {})}
          \union {[name |-> o, gen |-> id[o], version |-> old[o].version] :
             o \in {n \in Old : old[n] # Missing /\ (n = "runtime" => layout = "one")}}
    BY <1>i, <1>f, <1>m DEF NewJournal
  <1>s. \A s \in journal'.sources :
          \/ /\ s.name = None /\ s.gen \in Gen
             /\ Partial(s.gen) \/ (layout = "two" /\ store[active] # Missing /\ s.gen = active)
             /\ s.version = IF Partial(s.gen) /\ store[s.gen].is # "data" /\ meta[s.gen] # NoMeta
                            THEN meta[s.gen].version ELSE store[s.gen].version
          \/ /\ s.name \in Old /\ s.gen = id[s.name] /\ old[s.name] # Missing /\ s.version = old[s.name].version
    BY <1>f, <1>j, <1>m
  <1>t. \A g \in Gen : Partial(g) => \E s \in journal'.sources : s.gen = g
    <2> SUFFICES ASSUME NEW g \in Gen, Partial(g)  PROVE \E s \in journal'.sources : s.gen = g
      OBVIOUS
    <2>1. [name |-> None, gen |-> g, version |-> found[g]] \in journal'.sources
      BY <1>j
    <2>2. [name |-> None, gen |-> g, version |-> found[g]].gen = g
      OBVIOUS
    <2> QED  BY <2>1, <2>2
  <1>n. journal'.next = id["next"] /\ journal'.next \in Gen /\ journal'.next \notin drawn
    BY <1>i, <1>d DEF NewJournal
  \* no generation is half made beside one that is published
  <1>p. \A g \in Gen : Partial(g) => root[g] /\ meta[g] = NoMeta /\ layout = "none"
    <2>1. \A g \in Gen : Partial(g) => root[g] /\ meta[g] = NoMeta
      BY <1>1 DEF Partial, LifecycleInv, Metadata
    <2>2. \A g \in Gen : root[g] /\ meta[g] = NoMeta => layout = "none"
      BY <1>1 DEF LifecycleInv, Accounted, Due, Unfinished
    <2> QED  BY <2>1, <2>2
  <1>a. layout = "two" /\ store[active] # Missing =>
          /\ active \in Gen /\ root[active] /\ meta[active].version = store[active].version /\ meta[active].by = None
          /\ store[active].version # "current"
    <2> SUFFICES ASSUME layout = "two", store[active] # Missing
                 PROVE  /\ active \in Gen /\ root[active]
                        /\ meta[active].version = store[active].version /\ meta[active].by = None
                        /\ store[active].version # "current"
      OBVIOUS
    <2>1. active \in Gen
      BY <1>m
    <2>2. root[active] /\ meta[active] # NoMeta /\ ~Sealed(active)
      <3>1. root[active]
        BY <2>1 DEF LifecycleInv, Unborn
      <3>2. meta[active] # NoMeta
        BY <3>1, <2>1, <1>1 DEF LifecycleInv, Accounted, Due, Unfinished
      <3>3. ~Sealed(active)
        BY <2>1, <1>1 DEF LifecycleInv, Metadata, Current
      <3> QED  BY <3>1, <3>2, <3>3
    <2>3. Manifest = "rollover"
      <3>1. \A g \in Gen : ~Partial(g)
        BY <1>p
      <3>2. Status = Manifest \/ Manifest = "recover"
        BY <3>1, <1>1 DEF Status
      <3>3. Manifest # "recover"
        BY <2>2 DEF Manifest
      <3> QED  BY <3>2, <3>3, <1>1
    <2>4. store[active] # Bare /\ store[active].is # "raw" /\ store[active].version \notin {"newer", "current"}
      BY <2>2, <2>3 DEF Manifest, Foreign
    <2>5. store[active].version \in Versions \ {"none", "current"}
      BY <2>1, <2>4, <1>v DEF Contents, Raw, Data, Versions, Bare
    <2>6. meta[active].version = store[active].version /\ meta[active].by = None
      BY <2>1, <2>2, <2>5, <1>1 DEF LifecycleInv, Metadata, Current, Sealed
    <2> QED  BY <2>1, <2>2, <2>5, <2>6, <1>u DEF Fits
  <1>3. \A s \in journal'.sources : s \in Sources
    <2>1. \A s \in journal'.sources : s.name \in Old \union {None} /\ s.gen \in Gen /\ s.version \in Versions
      BY <1>s, <1>v, <1>w, <1>d, <1>p
    <2>2. \A s \in journal'.sources : s = [name |-> s.name, gen |-> s.gen, version |-> s.version]
      BY <1>j
    <2> QED  BY <2>1, <2>2 DEF Sources
  <1>4. LifecycleTypeOK'
    <2>1. drawn' \subseteq Gen
      BY <1>u, <1>n, <1>3 DEF LifecycleInv, LifecycleTypeOK, Sources
    <2> QED  BY <1>2, <1>3, <1>n, <1>u, <2>1 DEF LifecycleInv, LifecycleTypeOK, procs
  <1>5. Hand(p)'
    BY <1>2 DEF Hand, Sealing, Making
  <1>6. Unborn' /\ Origins'
    BY <1>u DEF LifecycleInv, Unborn, Origins, Unsealed, Sealed
  <1>7. Metadata'
    BY <1>u, <1>n DEF LifecycleInv, Metadata, Sealed, NoJournal
  \* the source is a generation
  <1>g. \A s \in journal'.sources : s.name = None =>
          /\ s.gen \in Gen /\ root[s.gen] /\ s.gen \in drawn /\ s.version = store[s.gen].version
          /\ Fits(s)' /\ store[s.gen] # Data(s.gen, "current")
    <2> SUFFICES ASSUME NEW s \in journal'.sources, s.name = None
                 PROVE  /\ s.gen \in Gen /\ root[s.gen] /\ s.gen \in drawn /\ s.version = store[s.gen].version
                        /\ Fits(s)' /\ store[s.gen] # Data(s.gen, "current")
      OBVIOUS
    <2>1. s.gen \in Gen /\ (Partial(s.gen) \/ (layout = "two" /\ store[active] # Missing /\ s.gen = active))
      BY <1>s
    <2>2. CASE Partial(s.gen)
      <3>1. root[s.gen] /\ meta[s.gen] = NoMeta /\ s.version = store[s.gen].version
        BY <2>1, <2>2, <1>p, <1>s
      <3>2. store[s.gen] # Data(s.gen, "current")
        BY <2>1, <3>1 DEF LifecycleInv, Origins, Unsealed
      <3> QED  BY <2>1, <3>1, <3>2, <1>u DEF Fits, LifecycleInv, Unborn
    <2>3. CASE ~Partial(s.gen)
      <3>1. s.gen = active /\ s.version = store[s.gen].version /\ root[s.gen]
        BY <2>1, <2>3, <1>s, <1>a
      <3>2. Fits(s)'
        <4>1. meta'[s.gen] = meta[s.gen] /\ meta[s.gen].version = s.version /\ meta[s.gen].by = None
          BY <2>1, <2>3, <3>1, <1>a, <1>u
        <4> QED  BY <4>1 DEF Fits
      <3> QED  BY <2>1, <2>3, <3>1, <3>2, <1>a DEF LifecycleInv, Unborn, Data
    <2> QED  BY <2>2, <2>3
  <1>o. \A s \in journal'.sources : s.name # None =>
          /\ s.name \in Old /\ s.gen = id[s.name] /\ s.gen \in Gen /\ s.gen \notin drawn
          /\ old[s.name] # Missing /\ s.version = old[s.name].version
          /\ store[s.gen] = Missing /\ meta[s.gen] = NoMeta
    BY <1>s, <1>d, <1>b
  <1>8. Planned'
    <2>1. journal'.next \in drawn' /\ store'[journal'.next] = Missing /\ meta'[journal'.next] = NoMeta
      BY <1>n, <1>b, <1>u
    <2>2. \A s \in journal'.sources : s.gen \in drawn' /\ s.gen # journal'.next
      <3>1. \A s \in journal'.sources : s.gen \in drawn'
        BY <1>u
      <3>2. \A s \in journal'.sources : s.name = None => s.gen # journal'.next
        BY <1>g, <1>n
      <3>3. "next" \notin Old
        BY DEF Old
      <3>4. \A s \in journal'.sources : s.name # None => s.gen # journal'.next
        <4> SUFFICES ASSUME NEW s \in journal'.sources, s.name # None  PROVE s.gen # journal'.next
          OBVIOUS
        <4>1. s.name \in Old /\ s.gen = id[s.name] /\ journal'.next = id["next"]
          BY <1>o, <1>n
        <4> QED  BY <3>3, <4>1, <1>d
      <3> QED  BY <3>1, <3>2, <3>4
    <2>3. \A s \in journal'.sources : s.name = None => Plan(s)'
      BY <2>2, <1>g, <1>u DEF Plan, Missing, Bare
    <2>4. \A s \in journal'.sources : s.name # None => Plan(s)'
      BY <2>2, <1>o, <1>u DEF Plan, Fits, Missing, Bare, Data
    <2>5. \A s, t \in journal'.sources : s.gen = t.gen \/ (s.name = t.name /\ s.name # None) => s = t
      <3>1. \A s \in journal'.sources : s = [name |-> s.name, gen |-> s.gen, version |-> s.version]
        BY <1>j
      <3>2. \A s, t \in journal'.sources : s.gen = t.gen => s.name = t.name
        <4>1. \A s, t \in journal'.sources : s.gen = t.gen => (s.name = None <=> t.name = None)
          BY <1>g, <1>o
        <4>2. \A s, t \in journal'.sources : s.gen = t.gen /\ s.name # None /\ t.name # None => s.name = t.name
          <5> SUFFICES ASSUME NEW s \in journal'.sources, NEW t \in journal'.sources,
                              s.gen = t.gen, s.name # None, t.name # None
                       PROVE  s.name = t.name
            OBVIOUS
          <5>1. s.name \in Old \union {"next"} /\ t.name \in Old \union {"next"} /\ id[s.name] = id[t.name]
            BY <1>o
          <5> QED  BY <5>1, <1>d
        <4> QED  BY <4>1, <4>2
      <3>3. \A s, t \in journal'.sources : s.name = t.name /\ s.name # None => s.gen = t.gen
        BY <1>o
      <3>4. \A s, t \in journal'.sources : s.name = t.name /\ s.gen = t.gen => s.version = t.version
        BY <1>g, <1>o
      <3> QED  BY <3>1, <3>2, <3>3, <3>4
    <2> QED  BY <2>1, <2>3, <2>4, <2>5 DEF Planned
  <1>9. \A g \in Gen : Unfinished(g)' => Due(g)' /\ DueFrom(g, p)'
    <2> SUFFICES ASSUME NEW g \in Gen, Unfinished(g)'  PROVE Due(g)' /\ DueFrom(g, p)'
      OBVIOUS
    <2>1. Unfinished(g)
      BY <1>u DEF Unfinished, Sealed
    <2>2. meta[g] = NoMeta
      BY <2>1, <1>1 DEF LifecycleInv, Accounted, Due
    <2>3. Partial(g)
      BY <2>1, <2>2 DEF Unfinished, Sealed, NoMeta, Partial
    <2>4. journal' # NoJournal
      BY <1>n DEF NoJournal
    <2> QED  BY <2>3, <2>4, <1>2, <1>t DEF Due, DueFrom, Sealing, Making
  <1> QED  BY <1>1, <1>2, <1>4, <1>5, <1>6, <1>7, <1>8, <1>9, Together

-----------------------------------------------------------------------------
(* every step *)

\* going somewhere without touching the disk
LEMMA GoKeeps ==
  ASSUME LifecycleInv, NEW p \in Proc, NEW w \in Places, Goto(p, w), UNCHANGED <<disk, drawn, todo, src, faults>>,
         use' \in [Proc -> Gen \union {None}], \A q \in Proc \ {p} : use'[q] = use[q],
         w \notin Sealing \union Making,
         w \in Alone => MayLock(p) \/ at[p] \in Alone,
         w \in Shared => MayShare(p) \/ at[p] \in Shared,
         w \in {"using", "reading"} => Serves(use'[p])
  PROVE  LifecycleInv'
  <1>1. Solo(p, w)
    BY DEF Solo, Goto
  <1> QED  BY <1>1, Quiet DEF LifecycleInv, LifecycleTypeOK

LEMMA WaysInKeep ==
  ASSUME LifecycleInv, NEW p \in Proc,
         Look(p) \/ GiveUp(p) \/ Lock(p) \/ Bind(p) \/ Share(p) \/ LookUp(p) \/ NothingToDo(p) \/ Blocked(p)
           \/ CannotRepair(p) \/ Refuse(p) \/ Close(p) \/ Crash(p)
  PROVE  LifecycleInv'
  <1> USE DEF Places, Alone, Shared, Sealing, Making
  <1>t. /\ faults \in 0 .. MaxFaults /\ use \in [Proc -> Gen \union {None}]
        /\ faults < MaxFaults => faults + 1 \in 0 .. MaxFaults
    BY DEF LifecycleInv, LifecycleTypeOK
  <1>1. ASSUME Leave(p), UNCHANGED <<disk, drawn>>, faults' \in 0 .. MaxFaults  PROVE LifecycleInv'
    BY <1>1, LeaveKeeps
  <1>2. CASE Look(p)
    <2>1. PICK w \in {"bind", "want"} : Goto(p, w) /\ UNCHANGED <<disk, drawn, todo, src, use, faults>>
      BY <1>2 DEF Look
    <2> QED  BY <2>1, <1>t, GoKeeps
  <1>3. CASE GiveUp(p)
    <2>1. \/ Goto(p, "bind") /\ UNCHANGED <<disk, drawn, todo, src, use, faults>>
          \/ Leave(p) /\ UNCHANGED <<disk, drawn, faults>>
      BY <1>3 DEF GiveUp
    <2>2. CASE Goto(p, "bind") /\ UNCHANGED <<disk, drawn, todo, src, use, faults>>
      BY <2>2, <1>t, GoKeeps
    <2> QED  BY <2>1, <2>2, <1>1, <1>t
  <1>4. CASE Lock(p)
    <2>1. PICK w \in {"locked", "fresh"} : Goto(p, w) /\ MayLock(p) /\ UNCHANGED <<disk, drawn, todo, src, use, faults>>
      BY <1>4 DEF Lock
    <2> QED  BY <2>1, <1>t, GoKeeps
  <1>5. CASE Bind(p)
    <2>1. \/ \E w \in {"absent", "share"} : Goto(p, w) /\ UNCHANGED <<disk, drawn, todo, src, use, faults>>
          \/ Leave(p) /\ UNCHANGED <<disk, drawn, faults>>
      BY <1>5 DEF Bind
    <2>2. ASSUME NEW w \in {"absent", "share"}, Goto(p, w), UNCHANGED <<disk, drawn, todo, src, use, faults>>
          PROVE  LifecycleInv'
      BY <2>2, <1>t, GoKeeps
    <2> QED  BY <2>1, <2>2, <1>1, <1>t
  <1>6. CASE Share(p)
    <2>1. PICK w \in {"check", "confirm"} : Goto(p, w) /\ MayShare(p) /\ UNCHANGED <<disk, drawn, todo, src, use, faults>>
      BY <1>6 DEF Share
    <2> QED  BY <2>1, <1>t, GoKeeps
  <1>7. CASE LookUp(p)
    <2>1. /\ Goto(p, "look") /\ use' = [use EXCEPT ![p] = active] /\ active \in Gen \union {None}
          /\ UNCHANGED <<disk, drawn, todo, src, faults>>
      BY <1>7 DEF LookUp, LifecycleInv, LifecycleTypeOK
    <2> QED  BY <2>1, <1>t, GoKeeps
  <1>8. CASE NothingToDo(p)
    <2>1. Goto(p, "bind") /\ UNCHANGED <<disk, drawn, todo, src, use, faults>>
      BY <1>8 DEF NothingToDo
    <2> QED  BY <2>1, <1>t, GoKeeps
  <1>9. CASE Blocked(p) \/ CannotRepair(p) \/ Refuse(p) \/ Close(p) \/ Crash(p)
    BY <1>9, <1>1, <1>t DEF Blocked, CannotRepair, Refuse, Close, Crash
  <1> QED  BY <1>2, <1>3, <1>4, <1>5, <1>6, <1>7, <1>8, <1>9

LEMMA CurrentIsData == \A c \in Contents : c.version = "current" => c.is = "data"
  <1>1. Missing.version = "none" /\ Bare.version = "none" /\ Raw.version = "none"
    BY DEF Missing, Bare, Raw
  <1>2. \A id \in Gen \union Old, v \in Versions : Data(id, v).is = "data"
    BY DEF Data
  <1> QED  BY <1>1, <1>2 DEF Contents

LEMMA CheckKeeps ==
  ASSUME LifecycleInv, NEW p \in Proc, Check(p)
  PROVE  LifecycleInv'
  <1>1. at[p] = "check" /\ UNCHANGED <<disk, drawn, faults>> /\ use \in [Proc -> Gen \union {None}]
        /\ faults \in 0 .. MaxFaults
    BY DEF Check, LifecycleInv, LifecycleTypeOK
  <1>2. CASE Leave(p)
    BY <1>1, <1>2, LeaveKeeps
  <1>3. CASE ~Leave(p)
    <2>1. /\ Goto(p, "using") /\ use' = [use EXCEPT ![p] = active] /\ UNCHANGED <<todo, src>>
          /\ Status = "ready" \/ (Written /\ layout = "two")
      BY <1>3 DEF Check
    <2>2. ASSUME Status = "ready"  PROVE Serves(active)
      <3>1. journal = NoJournal /\ Manifest = "ready"
        BY <2>2 DEF Status
      <3>2. /\ layout = "two" /\ store[active] # Missing /\ store[active] # Bare /\ meta[active] # NoMeta
            /\ ~Sealed(active) /\ ~Foreign(store[active]) /\ store[active].version = "current"
        BY <3>1 DEF Manifest, LifecycleInv, LifecycleTypeOK
      <3>3. active \in Gen /\ store[active] \in Contents
        BY <3>2 DEF LifecycleInv, Unborn, LifecycleTypeOK
      <3>4. store[active].is = "data"
        BY <3>2, <3>3, CurrentIsData
      <3> QED  BY <3>1, <3>2, <3>3, <3>4 DEF Serves, Current
    <2>3. ASSUME Status # "ready"  PROVE Serves(active)
      <3>1. PICK q \in Proc : at[q] = "using"
        BY <2>1, <2>3 DEF Written
      <3>2. Serves(use[q])
        BY <3>1 DEF LifecycleInv, UsersHaveThePublished
      <3>3. active = use[q]
        BY <3>2 DEF Serves, Current
      <3> QED  BY <3>2, <3>3
    <2>4. Serves(active) /\ active \in Gen \union {None}
      BY <2>2, <2>3 DEF LifecycleInv, LifecycleTypeOK
    <2>5. use'[p] = active /\ use' \in [Proc -> Gen \union {None}] /\ \A q \in Proc \ {p} : use'[q] = use[q]
      BY <1>1, <2>1, <2>4
    <2>6. "using" \in Places /\ "using" \notin Sealing \union Making \union Alone /\ at[p] \in Shared
      BY <1>1 DEF Places, Sealing, Making, Alone, Shared
    <2> QED  BY <1>1, <2>1, <2>4, <2>5, <2>6, GoKeeps
  <1> QED  BY <1>2, <1>3

LEMMA ConfirmKeeps ==
  ASSUME LifecycleInv, NEW p \in Proc, Confirm(p)
  PROVE  LifecycleInv'
  <1>1. at[p] = "confirm" /\ UNCHANGED <<disk, drawn, faults>> /\ use \in [Proc -> Gen \union {None}]
        /\ faults \in 0 .. MaxFaults
    BY DEF Confirm, LifecycleInv, LifecycleTypeOK
  <1>2. CASE ~Stands(use[p])
    BY <1>1, <1>2, LeaveKeeps DEF Confirm
  <1>3. CASE Stands(use[p])
    <2>1. Goto(p, "reading") /\ UNCHANGED <<todo, src, use>>
      BY <1>3 DEF Confirm
    <2>2. use[p] \in Gen /\ store[use[p]] \in Contents
      BY <1>3 DEF Stands, Current, LifecycleInv, Unborn, LifecycleTypeOK
    <2>3. store[use[p]].is = "data"
      BY <1>3, <2>2, CurrentIsData DEF Stands
    <2>4. Serves(use[p])
      BY <1>3, <2>3 DEF Stands, Serves, Sealed, NoMeta
    <2>6. "reading" \in Places /\ "reading" \notin Sealing \union Making \union Alone /\ at[p] \in Shared
      BY <1>1 DEF Places, Sealing, Making, Alone, Shared
    <2> QED  BY <1>1, <2>1, <2>4, <2>6, GoKeeps
  <1> QED  BY <1>2, <1>3

LEMMA NextKeeps == LifecycleInv /\ [LifecycleNext]_lvars => LifecycleInv'
  <1> SUFFICES ASSUME LifecycleInv, [LifecycleNext]_lvars  PROVE LifecycleInv'
    OBVIOUS
  <1>1. ASSUME NEW p \in Proc, Work(p)  PROVE LifecycleInv'
    BY <1>1, WaysInKeep, FreshKeeps, InitializeKeeps, WriteJournalKeeps, ResumeKeeps, SealKeeps, MoveKeeps,
       MarkKeeps, WriteIndexKeeps, MakeRootKeeps, MakeStoreKeeps, WriteMetaKeeps, OpenDatabaseKeeps,
       CommitSchemaKeeps, PublishKeeps, ForgetKeeps DEF Work
  <1>2. CASE UNCHANGED lvars
    BY <1>2 DEF LifecycleInv, LifecycleTypeOK, AloneHeld, UsersHaveThePublished, Serves, InHand, Hand, Unborn,
       Planned, Plan, Fits, Accounted, Due, DueFrom, Unfinished, Metadata, Origins, Unsealed, Sealed, Current,
       lvars, disk, procs
  <1>3. CASE LifecycleNext
    BY <1>1, <1>3, WaysInKeep, CheckKeeps, ConfirmKeeps DEF LifecycleNext
  <1> QED  BY <1>2, <1>3

\* The invariant holds whatever the processes, generations and archives.
THEOREM LifecycleInvariance == LifecycleSpec => []LifecycleInv
  BY InitHolds, NextKeeps, PTL DEF LifecycleSpec

-----------------------------------------------------------------------------
(* The properties of the runs *)

LEMMA Consistency == LifecycleInv => LifecycleConsistent
  <1> SUFFICES ASSUME LifecycleInv  PROVE LifecycleConsistent
    OBVIOUS
  <1>1. SealedIsWhole
    <2>1. ASSUME journal = NoJournal, NEW g \in Gen, Sealed(g), store[g].is = "data", store[g].version = "indexed"
          PROVE  index[g]
      BY <2>1 DEF LifecycleInv, Accounted, Due, Unfinished, Sealed, NoMeta
    <2> QED  BY <2>1 DEF SealedIsWhole, LifecycleInv, Metadata
  <1>2. OnlyHalfMadeRefused
    <2>1. ASSUME NEW p \in Proc, at[p] = "seal"  PROVE Sealable(src[p]) \/ HalfMade(src[p])
      <3>1. Plan(src[p]) /\ src[p].gen \in Gen
        BY <2>1, AtSource DEF Sealing
      <3>2. CASE src[p].name # None
        BY <3>1, <3>2 DEF Plan, Sealable
      <3>3. CASE src[p].name = None
        <4>1. root[src[p].gen] /\ (store[src[p].gen] # Missing \/ src[p].version = "none") /\ Fits(src[p])
          BY <3>1, <3>3 DEF Plan
        <4>2. CASE store[src[p].gen] # Missing \/ meta[src[p].gen] = NoMeta
          BY <3>3, <4>1, <4>2 DEF Sealable
        <4>3. CASE store[src[p].gen] = Missing /\ meta[src[p].gen] # NoMeta
          <5>1. meta[src[p].gen].version = "none"
            BY <4>1, <4>3 DEF Fits
          <5> QED  BY <3>1, <3>3, <4>3, <5>1 DEF HalfMade, LifecycleInv, Metadata
        <4> QED  BY <4>2, <4>3
      <3> QED  BY <3>2, <3>3
    <2>2. ASSUME NEW p \in Proc, at[p] = "mark"  PROVE Fits(src[p])
      BY <2>2, AtSource DEF Sealing, Plan
    <2>3. ASSUME NEW p \in Proc, at[p] = "meta"
          PROVE  meta[use[p]] \in {NoMeta, [version |-> "current", by |-> None]}
      BY <2>3 DEF LifecycleInv, InHand, Hand, Planned, Making
    <2>4. ASSUME NEW p \in Proc, at[p] = "forget"  PROVE Manifest = "ready"
      <3>1. Current(use[p]) /\ Unsealed(use[p]) /\ store[use[p]] = Data(use[p], "current")
        BY <2>4 DEF LifecycleInv, InHand, Hand, Making
      <3>2. /\ layout = "two" /\ active = use[p] /\ store[active] # Missing /\ store[active] # Bare
            /\ meta[active] # NoMeta /\ ~Sealed(active) /\ ~Foreign(store[active]) /\ store[active].version = "current"
        BY <3>1 DEF Current, Unsealed, Data, Missing, Bare, Foreign
      <3> QED  BY <3>2 DEF Manifest
    <2> QED  BY <2>1, <2>2, <2>3, <2>4 DEF OnlyHalfMadeRefused
  <1>3. OnePlace
    <2>1. ASSUME NEW o \in Old, NEW g \in Gen, old[o].is = "data"  PROVE old[o] # store[g]
      <3>1. old[o].of = o /\ old[o] # Missing
        BY <2>1 DEF LifecycleInv, Origins, Missing, Bare
      <3>2. store[g].is = "data" /\ store[g].of \in Old => old[store[g].of] = Missing
        BY DEF LifecycleInv, Origins
      <3> QED  BY <2>1, <3>1, <3>2
    <2> QED  BY <2>1 DEF OnePlace, LifecycleInv, Origins, Unsealed
  <1> QED  BY <1>1, <1>2, <1>3 DEF LifecycleConsistent, LifecycleInv

\* Users and readers have the published store, what is sealed is whole, a repair
\* refuses nothing but what a first initialization left half made, and every
\* store is in one place: for any number of processes, crashes and archives.
THEOREM LifecycleAgrees == LifecycleSpec => []LifecycleConsistent
  BY LifecycleInvariance, Consistency, PTL

LEMMA StoreStep == LifecycleInv /\ [LifecycleNext]_lvars => Stores \subseteq Stores'
  <1> SUFFICES ASSUME LifecycleInv, [LifecycleNext]_lvars,
                      NEW c \in {old[o] : o \in Old} \union {store[g] : g \in Gen}, c.is = "data"
               PROVE  c \in {old'[o] : o \in Old} \union {store'[g] : g \in Gen}
    BY DEF Stores
  <1>t. old \in [Old -> Contents] /\ store \in [Gen -> Contents] /\ use \in [Proc -> Gen \union {None}]
    BY DEF LifecycleInv, LifecycleTypeOK
  <1>m. Missing.is # "data" /\ Raw.is # "data"
    BY DEF Missing, Raw, Bare
  <1>1. CASE UNCHANGED <<old, store>>
    BY <1>1
  <1>2. ASSUME NEW p \in Proc, Move(p)
        PROVE  c \in {old'[o] : o \in Old} \union {store'[g] : g \in Gen}
    <2>s. PICK s : s = src[p]
      OBVIOUS
    <2>1. /\ s.gen \in Gen /\ s.name \in Old /\ store[s.gen] = Missing
      <3>1. at[p] = "move"
        BY <1>2 DEF Move
      <3>2. s.name # None /\ old[s.name] # Missing
        BY <3>1, <2>s DEF LifecycleInv, InHand, Hand
      <3>3. Plan(s) /\ s.gen \in Gen /\ s.name \in Old \union {None}
        BY <3>1, <2>s, AtSource DEF Sealing
      <3> QED  BY <3>2, <3>3 DEF Plan
    <2>2. /\ store' = [store EXCEPT ![s.gen] = old[s.name]] /\ old' = [old EXCEPT ![s.name] = Missing]
      BY <1>2, <2>s DEF Move
    <2>3. CASE \E g \in Gen : c = store[g]
      <3>1. PICK g \in Gen : c = store[g]
        BY <2>3
      <3>2. store'[g] = c
        BY <1>t, <1>m, <2>1, <2>2, <3>1
      <3> QED  BY <3>2
    <2>4. CASE \E o \in Old : c = old[o]
      <3>1. PICK o \in Old : c = old[o]
        BY <2>4
      <3>2. old'[o] = c \/ store'[s.gen] = c
        BY <1>t, <2>1, <2>2, <3>1
      <3> QED  BY <2>1, <3>2
    <2> QED  BY <2>3, <2>4
  <1>3. ASSUME NEW p \in Proc, NEW d \in Contents, use[p] \in Gen, store[use[p]].is # "data",
               UNCHANGED old, store' = [store EXCEPT ![use[p]] = d]
        PROVE  c \in {old'[o] : o \in Old} \union {store'[g] : g \in Gen}
    <2>1. \A g \in Gen : c = store[g] => store'[g] = c
      BY <1>3, <1>t
    <2> QED  BY <2>1, <1>3
  <1>c. Bare \in Contents /\ Raw \in Contents /\ \A g \in Gen : Data(g, "current") \in Contents
    BY DEF Contents, Versions
  <1>4. ASSUME NEW p \in Proc, MakeStore(p)
        PROVE  c \in {old'[o] : o \in Old} \union {store'[g] : g \in Gen}
    <2>1. use[p] \in Gen
      BY <1>4 DEF MakeStore, LifecycleInv, InHand, Hand, Making
    <2>2. UNCHANGED old /\ store' = [store EXCEPT ![use[p]] = IF store[use[p]] = Missing THEN Bare ELSE store[use[p]]]
      BY <1>4 DEF MakeStore
    <2>3. CASE store[use[p]] = Missing
      BY <2>1, <2>2, <2>3, <1>3, <1>c, <1>m
    <2>4. CASE store[use[p]] # Missing
      BY <2>1, <2>2, <2>4, <1>1, <1>t
    <2> QED  BY <2>3, <2>4
  <1>5. ASSUME NEW p \in Proc, OpenDatabase(p)
        PROVE  c \in {old'[o] : o \in Old} \union {store'[g] : g \in Gen}
    <2>1. use[p] \in Gen
      BY <1>5 DEF OpenDatabase, LifecycleInv, InHand, Hand, Making
    <2>2. UNCHANGED old /\ (UNCHANGED store \/ (store[use[p]].is # "data" /\ store' = [store EXCEPT ![use[p]] = Raw]))
      BY <1>5 DEF OpenDatabase
    <2> QED  BY <2>1, <2>2, <1>1, <1>3, <1>c
  <1>6. ASSUME NEW p \in Proc, CommitSchema(p)
        PROVE  c \in {old'[o] : o \in Old} \union {store'[g] : g \in Gen}
    <2>1. use[p] \in Gen /\ store[use[p]] = Raw
      BY <1>6 DEF CommitSchema, LifecycleInv, InHand, Hand, Making
    <2>2. UNCHANGED old /\ store' = [store EXCEPT ![use[p]] = Data(use[p], "current")]
      BY <1>6 DEF CommitSchema
    <2> QED  BY <2>1, <2>2, <1>3, <1>c, <1>m
  <1>7. ASSUME NEW p \in Proc, Work(p)
        PROVE  UNCHANGED <<old, store>> \/ Move(p) \/ MakeStore(p) \/ OpenDatabase(p) \/ CommitSchema(p)
    BY <1>7 DEF Work, Fresh, NothingToDo, CannotRepair, Initialize, WriteJournal, Resume, Refuse, Seal, Mark,
                WriteIndex, MakeRoot, WriteMeta, Publish, Forget, disk
  <1>8. CASE UNCHANGED lvars
    BY <1>8, <1>1 DEF lvars, disk
  <1>9. CASE LifecycleNext
    <2>1. PICK p \in Proc :
            \/ Look(p) \/ GiveUp(p) \/ Lock(p) \/ Bind(p) \/ Share(p) \/ Check(p)
            \/ LookUp(p) \/ Confirm(p) \/ Close(p) \/ Work(p) \/ Blocked(p) \/ Crash(p)
      BY <1>9 DEF LifecycleNext
    <2>2. UNCHANGED <<old, store>> \/ Work(p)
      BY <2>1 DEF Look, GiveUp, Lock, Bind, Share, Check, LookUp, Confirm, Close, Blocked, Crash, disk
    <2> QED  BY <2>2, <1>1, <1>2, <1>4, <1>5, <1>6, <1>7
  <1> QED  BY <1>8, <1>9

\* No step, of a repair that goes on after a crash or of anything else, loses a
\* store with data or writes over it.
THEOREM StoresAreKept == LifecycleSpec => StoresKept
  BY LifecycleInvariance, StoreStep, PTL DEF LifecycleSpec, StoresKept

==============================================================================
