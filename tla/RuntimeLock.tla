------------------------------ MODULE RuntimeLock ------------------------------
(***************************************************************************)
(* The maintenance lock of a workspace (runtime-lock-adapter.ts): Runtime    *)
(* users share it, maintenance (prune, repair, the creation of a store) has  *)
(* it alone.  It is made of files: a marker at one path for maintenance, and *)
(* one path for each attempt of a user, at which the attempt puts a file and *)
(* takes it away as often as it has to wait.  A user writes its file before  *)
(* it looks for the marker, maintenance its marker before it looks for       *)
(* users.  A process may end at any step and leave its files; a file is      *)
(* taken for abandoned when the process it names is dead, or when it is gone *)
(* by the time it is read, and what is at its path then is removed.  Every   *)
(* access to the file system is a step of its own, and a file is there       *)
(* before its contents are.                                                  *)
(***************************************************************************)
EXTENDS Naturals

CONSTANTS
  Proc,     \* processes; one that is dead never comes back
  Nobody,   \* no process
  Unread,   \* a process not yet known
  MaxUses   \* bound on the attempts of one process

ASSUME LockAssumption ==
  Nobody \notin Proc /\ Unread \notin Proc /\ Nobody # Unread /\ MaxUses \in Nat

VARIABLES
  at,       \* where each process is
  uses,     \* how often it has tried
  seen,     \* the marker's owner as it read it; Unread: it has only seen the file
  reclaim,  \* the processes about to remove the marker they took for abandoned
  todo,     \* the users' files maintenance has still to look at
  look,     \* the one it looks at
  found,    \* the processes that found a live user among them
  marker,   \* the owner of the file at the marker's path
  holders,  \* the processes whose user's file is there
  blank,    \* those whose last file has no contents yet
  stolen    \* history: a marker was removed that was not the remover's to remove

lvars == <<at, uses, seen, reclaim, todo, look, found, marker, holders, blank, stolen>>

\* where a process looks for the marker, and where it goes from there
Sites  == {"enter", "confirm", "examine"}
IfFree == [s \in Sites |->
  CASE s = "enter" -> "mark"  [] s = "confirm" -> "shared" [] s = "examine" -> "create"]
IfBusy == [s \in Sites |->
  CASE s = "enter" -> "pause" [] s = "confirm" -> "leave"  [] s = "examine" -> "wait"]

User        == {"enter", "mark", "write", "confirm", "leave", "pause", "shared"}
Scanning    == {"scan", "read", "judge", "drop"}
Maintenance == {"create", "fill", "list", "back", "wait", "examine", "exclusive"} \union Scanning
\* the process has made the marker, or its user's file, and not taken it away
Marks == {"fill", "list", "back", "exclusive"} \union Scanning
Holds == {"write", "confirm", "leave", "shared"}

Alive(p) == at[p] # "dead"

\* the paths of users' files: of a process and its attempt
Paths    == Proc \X (0 .. MaxUses)
Path(p)  == <<p, uses[p]>>
There(f) == f[1] \in holders /\ f = Path(f[1])

LockInit ==
  /\ at = [p \in Proc |-> "idle"] /\ uses = [p \in Proc |-> 0]
  /\ seen = [p \in Proc |-> Nobody] /\ reclaim = {}
  /\ todo = [p \in Proc |-> {}] /\ look = [p \in Proc |-> Nobody] /\ found = {}
  /\ marker = Nobody /\ holders = {} /\ blank = {} /\ stolen = FALSE

Goto(p, place) == at' = [at EXCEPT ![p] = place]

Begin(p) ==
  /\ at[p] = "idle" /\ uses[p] < MaxUses
  /\ uses' = [uses EXCEPT ![p] = @ + 1]
  /\ Goto(p, "enter") \/ Goto(p, "create")
  /\ UNCHANGED <<seen, reclaim, todo, look, found, marker, holders, blank, stolen>>

-----------------------------------------------------------------------------
(* liveLockExists of the marker: lstat, read, ask whether its owner lives, rm *)

Stat(p) ==
  /\ at[p] \in Sites /\ seen[p] = Nobody
  /\ IF marker = Nobody THEN Goto(p, IfFree[at[p]]) /\ UNCHANGED seen
     ELSE seen' = [seen EXCEPT ![p] = Unread] /\ UNCHANGED at
  /\ UNCHANGED <<uses, reclaim, todo, look, found, marker, holders, blank, stolen>>

\* mutant: a marker that cannot be read is read again at once
ReadAgain(p) ==
  /\ seen[p] = Unread /\ p \notin reclaim
  /\ CASE marker = Nobody -> reclaim' = reclaim \union {p} /\ UNCHANGED seen
       [] marker \in blank -> UNCHANGED <<reclaim, seen>>
       [] OTHER -> seen' = [seen EXCEPT ![p] = marker] /\ UNCHANGED reclaim
  /\ UNCHANGED <<at, uses, todo, look, found, marker, holders, blank, stolen>>

\* a file that went away since lstat is taken for an abandoned one, a file that
\* is no JSON for a live owner's
Read(p) ==
  /\ seen[p] = Unread /\ p \notin reclaim
  /\ CASE marker = Nobody -> reclaim' = reclaim \union {p} /\ UNCHANGED <<at, seen>>
       [] marker \in blank -> /\ Goto(p, IfBusy[at[p]])
                              /\ seen' = [seen EXCEPT ![p] = Nobody] /\ UNCHANGED reclaim
       [] OTHER -> seen' = [seen EXCEPT ![p] = marker] /\ UNCHANGED <<at, reclaim>>
  /\ UNCHANGED <<uses, todo, look, found, marker, holders, blank, stolen>>

Judge(p) ==
  /\ seen[p] \in Proc /\ p \notin reclaim
  /\ IF Alive(seen[p])
     THEN Goto(p, IfBusy[at[p]]) /\ seen' = [seen EXCEPT ![p] = Nobody] /\ UNCHANGED reclaim
     ELSE reclaim' = reclaim \union {p} /\ UNCHANGED <<at, seen>>
  /\ UNCHANGED <<uses, todo, look, found, marker, holders, blank, stolen>>

\* rm of the marker's path, whoever's file is there now
Unlink(owner) ==
  /\ stolen' = (stolen \/ marker \notin {Nobody, owner})
  /\ marker' = Nobody

Remove(p) ==
  /\ p \in reclaim
  /\ Unlink(seen[p])
  /\ Goto(p, IfFree[at[p]])
  /\ seen' = [seen EXCEPT ![p] = Nobody] /\ reclaim' = reclaim \ {p}
  /\ UNCHANGED <<uses, todo, look, found, holders, blank>>

-----------------------------------------------------------------------------
(* openRuntimeSharedLock *)

\* mutant: the marker is not looked for again once the file is there
MarkOnly(p) ==
  /\ at[p] = "mark" /\ Goto(p, "shared")
  /\ holders' = holders \union {p}
  /\ UNCHANGED <<uses, seen, reclaim, todo, look, found, marker, blank, stolen>>

Mark(p) ==
  /\ at[p] = "mark" /\ Goto(p, "write")
  /\ holders' = holders \union {p} /\ blank' = blank \union {p}
  /\ UNCHANGED <<uses, seen, reclaim, todo, look, found, marker, stolen>>

Write(p) ==
  /\ at[p] = "write" /\ Goto(p, "confirm") /\ blank' = blank \ {p}
  /\ UNCHANGED <<uses, seen, reclaim, todo, look, found, marker, holders, stolen>>

\* maintenance was there first
Leave(p) ==
  /\ at[p] = "leave" /\ Goto(p, "pause") /\ holders' = holders \ {p}
  /\ UNCHANGED <<uses, seen, reclaim, todo, look, found, marker, blank, stolen>>

ReleaseShared(p) ==
  /\ at[p] = "shared" /\ Goto(p, "idle") /\ holders' = holders \ {p}
  /\ UNCHANGED <<uses, seen, reclaim, todo, look, found, marker, blank, stolen>>

-----------------------------------------------------------------------------
(* openRuntimeExclusiveLock *)

\* the file must not exist yet
Create(p) ==
  /\ at[p] = "create"
  /\ IF marker = Nobody
     THEN Goto(p, "fill") /\ marker' = p /\ blank' = blank \union {p}
     ELSE Goto(p, "examine") /\ UNCHANGED <<marker, blank>>
  /\ UNCHANGED <<uses, seen, reclaim, todo, look, found, holders, stolen>>

Fill(p) ==
  /\ at[p] = "fill" /\ Goto(p, "list") /\ blank' = blank \ {p}
  /\ UNCHANGED <<uses, seen, reclaim, todo, look, found, marker, holders, stolen>>

\* collectLiveHolders: the names first, then the files one after the other
List(p) ==
  /\ at[p] = "list" /\ Goto(p, "scan")
  /\ todo' = [todo EXCEPT ![p] = {Path(q) : q \in holders}] /\ found' = found \ {p}
  /\ UNCHANGED <<uses, seen, reclaim, look, marker, holders, blank, stolen>>

\* lstat: a file that has gone since is no user
Look(p) ==
  /\ at[p] = "scan"
  /\ \E f \in todo[p] :
       /\ todo' = [todo EXCEPT ![p] = @ \ {f}]
       /\ IF There(f) THEN Goto(p, "read") /\ look' = [look EXCEPT ![p] = f] ELSE UNCHANGED <<at, look>>
  /\ UNCHANGED <<uses, seen, reclaim, found, marker, holders, blank, stolen>>

\* on to the next file, this one being a user's or not
OnTo(p, place, user) ==
  /\ Goto(p, place)
  /\ look' = IF place = "scan" THEN [look EXCEPT ![p] = Nobody] ELSE look
  /\ found' = IF user THEN found \union {p} ELSE found

\* readFile: a file that went away since lstat is taken for an abandoned one, a
\* file that is no JSON for a live user's
ReadUser(p) ==
  /\ at[p] = "read"
  /\ LET f == look[p] IN
       CASE ~There(f)                     -> OnTo(p, "drop", FALSE)
         [] There(f) /\ f[1] \in blank    -> OnTo(p, "scan", TRUE)
         [] There(f) /\ f[1] \notin blank -> OnTo(p, "judge", FALSE)
  /\ UNCHANGED <<uses, seen, reclaim, todo, marker, holders, blank, stolen>>

JudgeUser(p) ==
  /\ at[p] = "judge"
  /\ IF Alive(look[p][1]) THEN OnTo(p, "scan", TRUE) ELSE OnTo(p, "drop", FALSE)
  /\ UNCHANGED <<uses, seen, reclaim, todo, marker, holders, blank, stolen>>

\* rm of the user's path: the attempt may have put a new file there
Drop(p) ==
  /\ at[p] = "drop" /\ OnTo(p, "scan", FALSE)
  /\ holders' = IF There(look[p]) THEN holders \ {look[p][1]} ELSE holders
  /\ UNCHANGED <<uses, seen, reclaim, todo, marker, blank, stolen>>

Acquire(p) ==
  /\ at[p] = "scan" /\ todo[p] = {}
  /\ Goto(p, IF p \in found THEN "back" ELSE "exclusive")
  /\ UNCHANGED <<uses, seen, reclaim, todo, look, found, marker, holders, blank, stolen>>

\* users were there first, or maintenance is over: rm of the marker's path
Back(p) ==
  /\ at[p] \in {"back", "exclusive"}
  /\ Goto(p, IF at[p] = "back" THEN "wait" ELSE "idle")
  /\ Unlink(p)
  /\ UNCHANGED <<uses, seen, reclaim, todo, look, found, holders, blank>>

-----------------------------------------------------------------------------
(* waitOrThrow *)

Retry(p) ==
  /\ at[p] \in {"pause", "wait"}
  /\ Goto(p, IF at[p] = "pause" THEN "enter" ELSE "create")
  /\ UNCHANGED <<uses, seen, reclaim, todo, look, found, marker, holders, blank, stolen>>

\* the deadline has passed
Refuse(p) ==
  /\ at[p] \in {"pause", "wait"} /\ Goto(p, "idle")
  /\ UNCHANGED <<uses, seen, reclaim, todo, look, found, marker, holders, blank, stolen>>

\* the process ends, at work or killed at any step; its files stay
Die(p) ==
  /\ Alive(p) /\ Goto(p, "dead")
  /\ seen' = [seen EXCEPT ![p] = Nobody] /\ reclaim' = reclaim \ {p}
  /\ todo' = [todo EXCEPT ![p] = {}] /\ look' = [look EXCEPT ![p] = Nobody] /\ found' = found \ {p}
  /\ UNCHANGED <<uses, marker, holders, blank, stolen>>

-----------------------------------------------------------------------------
\* what a process does by itself while it tries to get the lock
Attempt(p) ==
  \/ Stat(p) \/ Read(p) \/ Judge(p) \/ Remove(p)
  \/ Mark(p) \/ Write(p) \/ Leave(p)
  \/ Create(p) \/ Fill(p) \/ List(p) \/ Look(p) \/ ReadUser(p) \/ JudgeUser(p) \/ Drop(p) \/ Acquire(p)
  \/ (at[p] = "back" /\ Back(p))
  \/ Retry(p)

LockNext ==
  \E p \in Proc :
    Begin(p) \/ Attempt(p) \/ Refuse(p) \/ ReleaseShared(p) \/ Back(p) \/ Die(p)

LockSpec == LockInit /\ [][LockNext]_lvars

\* a live process goes on, and time passes: whoever waits again and again is
\* refused in the end
FairLockSpec ==
  /\ LockSpec
  /\ \A p \in Proc : WF_lvars(Attempt(p)) /\ SF_lvars(Refuse(p))

-----------------------------------------------------------------------------
(* Properties *)

LockTypeOK ==
  /\ at \in [Proc -> User \union Maintenance \union {"idle", "dead"}]
  /\ uses \in [Proc -> 0 .. MaxUses]
  /\ seen \in [Proc -> Proc \union {Nobody, Unread}] /\ reclaim \subseteq Proc
  /\ todo \in [Proc -> SUBSET Paths] /\ look \in [Proc -> Paths \union {Nobody}] /\ found \subseteq Proc
  /\ marker \in Proc \union {Nobody} /\ holders \subseteq Proc /\ blank \subseteq Proc
  /\ stolen \in BOOLEAN

\* Nobody takes away the file of a live user or the marker of a live maintenance,
\* though a file may come and go at a user's path while maintenance looks at it:
\* unless a marker was stolen, which is the one way for either to happen.
FilesKept ==
  ~stolen => \A p \in Proc : (at[p] \in Holds => p \in holders) /\ (at[p] \in Marks => marker = p)

\* Who has the lock for maintenance has it alone: no user and no other
\* maintenance.
MaintenanceIsAlone ==
  \A p, q \in Proc : at[p] = "exclusive" /\ q # p => at[q] \notin {"exclusive", "shared"}

\* The lock's promise, as far as the code keeps it: maintenance is alone unless
\* a process removed, in the belief that it was an abandoned one's, a marker
\* that another had put there since it looked.
AloneUnlessStolen == ~stolen => MaintenanceIsAlone

\* The lock's files and the lock's promise.
LockConsistent == LockTypeOK /\ FilesKept /\ AloneUnlessStolen

\* Who tries to get the lock gets it or is refused, though others die and leave
\* their files, whole or not.
AttemptsEnd ==
  \A p \in Proc : (at[p] \notin {"idle", "dead", "shared", "exclusive"})
                    ~> (at[p] \in {"idle", "dead", "shared", "exclusive"})
=============================================================================
