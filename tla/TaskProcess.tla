------------------------------ MODULE TaskProcess ------------------------------
(***************************************************************************)
(* One attempt of a Task: runTaskProcess and runTaskProtocol of             *)
(* execution/task-process.ts in the runtime, the child of                   *)
(* execution/task-process-entry.ts that runs the Task's function, the IPC   *)
(* channel between the two, and the files and rows of the artifacts the     *)
(* function writes.  Each end acts by itself between two of its awaits; a   *)
(* deadline, a cancellation, the loss of the attempt's row, an exit of the  *)
(* child and a crash of the runtime may come between any two steps.         *)
(***************************************************************************)
EXTENDS Sequences, FiniteSets, Naturals

CONSTANT MaxWrites   \* bound on the calls of artifact.write

ASSUME WritesAssumption == MaxWrites \in Nat

Artifacts == 1 .. MaxWrites   \* numbered in the order of their calls

VARIABLES
  \* the runtime
  parent,    \* where runTaskProcess is
  kill,      \* how far terminateTaskProcess is, "no" when it does not run
  terminal,  \* the accepted end of the protocol
  handler,   \* the registration being answered, or Free
  outcome,   \* what the attempt returned; "lost" when the runtime crashed
  expired,   \* the deadline has passed
  cancelled, \* the pump aborted the attempt's signal
  row,       \* row[a]: artifact a is registered in the store
  \* the child
  child, ret, aborted, sysFail,
  write,     \* write[a]: where the call of artifact.write is
  file,      \* file[a]: its file is in the Run's directory
  holder,    \* processes the function started that hold the child's output open
  loose,     \* and those with pipes of their own, or none, that do not
  killed,    \* the group was sent SIGKILL
  \* the channel
  linked, toChild, toParent

side    == <<parent, kill, terminal, handler, outcome>>
signals == <<expired, cancelled>>
fn      == <<ret, aborted, sysFail, write>>
os      == <<child, holder, loose, killed, linked>>
tvars   == <<side, signals, row, fn, file, os, toChild, toParent>>

Free    == [type |-> "free"]
Results == {"completed", "failed"}
InUse   == {"spawned", "protocol"}
Alive   == {"booting", "running", "finishing", "leaving"}
Message == {[type |-> "register", a |-> a] : a \in Artifacts}
             \union {[type |-> t] : t \in Results \union {"system", "invalid"}}
Answer  == {[type |-> "result", a |-> a, ok |-> o] : a \in Artifacts, o \in BOOLEAN}

TaskTypeOK ==
  /\ parent \in {"spawning", "late", "stopping", "interrupted", "ended"} \union InUse
  /\ kill \in {"no", "abort", "term", "kill", "done"}
  /\ terminal \in {"none"} \union Results
  /\ handler \in {Free} \union
       [a : Artifacts, stage : {"commit", "reply"}, ok : BOOLEAN, fatal : BOOLEAN]
  /\ outcome \in {"none", "timed_out", "cancelled", "died", "lost"} \union Results
  /\ row \in [Artifacts -> BOOLEAN] /\ file \in [Artifacts -> BOOLEAN]
  /\ child \in {"none", "exited"} \union Alive
  /\ ret \in {"none", "system"} \union Results
  /\ write \in [Artifacts -> {"idle", "written", "waiting", "resolved", "rejected"}]
  /\ toParent \in Seq(Message)
  /\ toChild \in Seq(Answer \union {[type |-> "start"], [type |-> "abort"]})
  /\ {expired, cancelled, aborted, sysFail, holder, loose, killed, linked} \subseteq BOOLEAN

TaskInit ==
  /\ parent = "spawning" /\ kill = "no" /\ terminal = "none" /\ handler = Free
  /\ outcome = "none" /\ expired = FALSE /\ cancelled = FALSE
  /\ row = [a \in Artifacts |-> FALSE] /\ file = [a \in Artifacts |-> FALSE]
  /\ child = "none" /\ ret = "none" /\ aborted = FALSE /\ sysFail = FALSE
  /\ write = [a \in Artifacts |-> "idle"]
  /\ holder = FALSE /\ loose = FALSE /\ killed = FALSE
  /\ linked = FALSE /\ toChild = <<>> /\ toParent = <<>>

-----------------------------------------------------------------------------
(* The host's view of the child *)

\* 'close': the process is gone, nobody holds its output, the channel ended;
\* a process with an output of its own goes unnoticed
Closed == child = "exited" /\ ~holder

Gone == child \in {"none", "exited"} /\ ~holder

\* the attempt's Scope closes with it: a child not seen to close is killed
End(o) ==
  /\ outcome' = o /\ parent' = "ended" /\ kill' = "no" /\ handler' = Free
  /\ killed' = (killed \/ ~Closed)
  /\ toParent' = <<>>
  /\ UNCHANGED <<terminal, signals, row, fn, file, child, holder, loose, linked, toChild>>

\* nobody listens to the child once the Scope is closed
Tell(m) == toParent' = IF parent = "ended" THEN toParent ELSE Append(toParent, m)

\* child.send succeeds while the child's end of the channel is open
Send(m) == toChild' = IF linked THEN Append(toChild, m) ELSE toChild

-----------------------------------------------------------------------------
(* The runtime: spawn, deadline, cancellation, termination *)

\* the spawn is not interruptible: the race with it may be lost already
Spawn ==
  /\ parent = "spawning"
  /\ child' = "booting" /\ linked' = TRUE
  /\ \/ parent' = "spawned" /\ ~cancelled
     \/ parent' = "late" /\ (cancelled \/ expired)
  /\ UNCHANGED <<kill, terminal, handler, outcome, signals, row, fn, file, holder, loose,
                 killed, toChild, toParent>>

SpawnFails ==
  /\ parent = "spawning"
  /\ End(IF cancelled THEN "cancelled" ELSE IF expired THEN "timed_out" ELSE "failed")

\* the Scope closes at once
Late ==
  /\ parent = "late" \/ (parent = "stopping" /\ cancelled)
  /\ End(IF cancelled THEN "cancelled" ELSE "timed_out")

Start ==
  /\ parent = "spawned" /\ linked
  /\ Send([type |-> "start"]) /\ parent' = "protocol"
  /\ UNCHANGED <<kill, terminal, handler, outcome, signals, row, fn, file, os, toParent>>

StartFails == parent = "spawned" /\ ~linked /\ End("died")

\* the sleep of the race ends, or, with the deadline past right after the
\* spawn, no protocol is run: either way the child is asked to stop
StartTermination ==
  /\ parent \in InUse /\ expired /\ kill = "no"
  /\ kill' = "abort" /\ Send([type |-> "abort"])
  /\ parent' = IF parent = "spawned" THEN "stopping" ELSE parent
  /\ UNCHANGED <<terminal, handler, outcome, signals, row, fn, file, os, toParent>>

\* mutant: the fiber that handles the messages is not of the protocol's Scope
InterruptDetached ==
  /\ parent \in InUse /\ cancelled
  /\ parent' = "interrupted" /\ UNCHANGED handler /\ kill' = "abort"
  /\ Send([type |-> "abort"])
  /\ UNCHANGED <<terminal, outcome, signals, row, fn, file, os, toParent>>

\* the pump's abort interrupts the protocol and the fiber that handles its
\* messages; its finalizer terminates the child
Interrupt ==
  /\ parent \in InUse /\ cancelled
  /\ parent' = "interrupted" /\ handler' = Free /\ kill' = "abort"
  /\ Send([type |-> "abort"])
  /\ UNCHANGED <<terminal, outcome, signals, row, fn, file, os, toParent>>

\* mutant: the last grace period ends without a SIGKILL
TerminationGentle ==
  /\ kill \in {"abort", "term", "kill"}
  /\ kill' = IF Closed THEN "done"
             ELSE CASE kill = "abort" -> "term" [] kill = "term" -> "term" [] OTHER -> "done"
  /\ UNCHANGED <<parent, terminal, handler, outcome, signals, row, fn, file, os,
                 toChild, toParent>>

\* a grace period ends, or the child closed within it; SIGTERM lets the child
\* exit, which it may do at any time, and SIGKILL makes it
Termination ==
  /\ kill \in {"abort", "term", "kill"}
  /\ kill' = IF Closed THEN "done"
             ELSE CASE kill = "abort" -> "term" [] kill = "term" -> "kill" [] OTHER -> "done"
  /\ killed' = (killed \/ kill' = "kill")
  /\ UNCHANGED <<parent, terminal, handler, outcome, signals, row, fn, file, child, holder,
                 loose, linked, toChild, toParent>>

TimedOut  == kill = "done" /\ parent # "interrupted" /\ End("timed_out")
Cancelled == kill = "done" /\ parent = "interrupted" /\ End("cancelled")

\* the runtime's process is gone; its child, in a group of its own, is not
Crash ==
  /\ parent # "ended"
  /\ outcome' = "lost" /\ parent' = "ended" /\ kill' = "no" /\ handler' = Free
  /\ linked' = FALSE /\ toParent' = <<>>
  /\ UNCHANGED <<terminal, signals, row, fn, file, child, holder, loose, killed, toChild>>

-----------------------------------------------------------------------------
(* The runtime: the messages of the child, one at a time *)

Refuses == terminal # "none" \/ expired

\* removeRejectedArtifact; a removal the path fence stops leaves the file
Removal(a, done) == file' = IF done THEN [file EXCEPT ![a] = FALSE] ELSE file

Handling == parent \in InUse /\ handler = Free /\ toParent # <<>>

Answering(a, o, f) == handler' = [a |-> a, stage |-> "reply", ok |-> o, fatal |-> f]

\* handleArtifactRegistration up to its first await: a file that is not there
\* is refused, a late one withdrawn (removed says whether the path fence lets
\* it go), and the rest are the store's to take
HandleRegister ==
  /\ Handling /\ Head(toParent).type = "register"
  /\ LET a == Head(toParent).a IN
       \/ ~file[a] /\ Answering(a, FALSE, FALSE) /\ UNCHANGED file
       \/ /\ file[a] /\ Refuses
          /\ \E removed \in BOOLEAN : Removal(a, removed) /\ Answering(a, FALSE, ~removed)
       \/ /\ file[a] /\ ~Refuses /\ UNCHANGED file
          /\ handler' = [a |-> a, stage |-> "commit", ok |-> FALSE, fatal |-> FALSE]
  /\ toParent' = Tail(toParent)
  /\ UNCHANGED <<parent, kill, terminal, outcome, signals, row, fn, os, toChild>>

\* the store's transaction, which may have waited for the database: it knows
\* the attempt and its owner (stored), and of no deadline
Commit ==
  /\ handler # Free /\ handler.stage = "commit"
  /\ \E stored \in BOOLEAN :
       IF file[handler.a] /\ stored
       THEN /\ row' = [row EXCEPT ![handler.a] = TRUE]
            /\ Answering(handler.a, TRUE, FALSE) /\ UNCHANGED file
       ELSE /\ \E removed \in BOOLEAN : Removal(handler.a, removed)
            /\ Answering(handler.a, FALSE, TRUE) /\ UNCHANGED row
  /\ UNCHANGED <<parent, kill, terminal, outcome, signals, fn, os, toChild, toParent>>

\* the answer; without a channel for it the handler, and the attempt, die
Reply ==
  /\ handler # Free /\ handler.stage = "reply"
  /\ IF handler.fatal \/ ~linked THEN End("died")
     ELSE /\ Send([type |-> "result", a |-> handler.a, ok |-> handler.ok])
          /\ handler' = Free
          /\ UNCHANGED <<parent, kill, terminal, outcome, signals, row, fn, file, os, toParent>>

\* only the first terminal message before the deadline counts
Accept(t) == terminal' = IF Refuses THEN terminal ELSE t

HandleTerminal ==
  /\ Handling /\ Head(toParent).type \in Results \union {"invalid"}
  /\ Accept(IF Head(toParent).type = "completed" THEN "completed" ELSE "failed")
  /\ toParent' = Tail(toParent)
  /\ UNCHANGED <<parent, kill, handler, outcome, signals, row, fn, file, os, toChild>>

HandleSystem ==
  /\ Handling /\ Head(toParent).type = "system"
  /\ IF Refuses
     THEN /\ toParent' = Tail(toParent)
          /\ UNCHANGED <<side, signals, row, fn, file, os, toChild>>
     ELSE End("died")

\* mutant: the accepted result is reported before the messages are drained
ProtocolEndsEarly ==
  /\ parent = "protocol" /\ (Closed \/ terminal # "none") /\ handler = Free
  /\ End(IF expired THEN "timed_out" ELSE IF terminal = "none" THEN "failed" ELSE terminal)

\* the child has closed and every message it sent was handled
ProtocolEnds ==
  /\ parent = "protocol" /\ Closed /\ handler = Free /\ toParent = <<>>
  /\ End(IF expired THEN "timed_out" ELSE IF terminal = "none" THEN "failed" ELSE terminal)

-----------------------------------------------------------------------------
(* The child *)

ChildSide == <<side, signals, row>>

\* mutant: an abort rejects the registrations that wait for an answer
HearAbortRejects ==
  /\ Head(toChild).type = "abort" /\ aborted' = TRUE
  /\ write' = [a \in Artifacts |-> IF write[a] = "waiting" THEN "rejected" ELSE write[a]]
  /\ file'  = [a \in Artifacts |-> file[a] /\ write[a] # "waiting"]
  /\ UNCHANGED <<child, ret, sysFail>>

HearAbort ==
  /\ Head(toChild).type = "abort" /\ aborted' = TRUE
  /\ UNCHANGED <<child, ret, sysFail, write, file>>

\* the answer to a registration; a refused one removes its file again
HearResult ==
  /\ Head(toChild).type = "result"
  /\ LET a == Head(toChild).a IN
       IF Head(toChild).ok
       THEN write' = [write EXCEPT ![a] = "resolved"] /\ UNCHANGED <<sysFail, file>>
       ELSE /\ write' = [write EXCEPT ![a] = "rejected"] /\ sysFail' = TRUE
            /\ \E removed \in BOOLEAN : Removal(a, removed)
  /\ UNCHANGED <<child, ret, aborted>>

Hear ==
  /\ child \in {"booting", "running", "finishing"} /\ toChild # <<>>
  /\ \/ /\ Head(toChild).type = "start"
        /\ child' = "running" /\ UNCHANGED <<fn, file>>
     \/ HearAbort
     \/ HearResult
  /\ toChild' = Tail(toChild)
  /\ UNCHANGED <<ChildSide, holder, loose, killed, linked, toParent>>

\* writeArtifact up to its file: refused after an abort, or the disk fails
WriteFile(a) ==
  /\ child = "running" /\ write[a] = "idle" /\ \A b \in 1 .. a - 1 : write[b] # "idle"
  /\ \/ /\ ~aborted
        /\ write' = [write EXCEPT ![a] = "written"]
        /\ file' = [file EXCEPT ![a] = TRUE] /\ UNCHANGED sysFail
     \/ /\ write' = [write EXCEPT ![a] = "rejected"] /\ UNCHANGED file
        /\ sysFail' = (sysFail \/ ~aborted)
  /\ UNCHANGED <<ChildSide, ret, aborted, os, toChild, toParent>>

\* the rest of it: the file of an aborted write goes, another is registered
RegisterFile(a) ==
  /\ child \in Alive /\ write[a] = "written"
  /\ IF ~aborted /\ linked
     THEN /\ Tell([type |-> "register", a |-> a])
          /\ write' = [write EXCEPT ![a] = "waiting"] /\ UNCHANGED <<sysFail, file>>
     ELSE \E removed \in BOOLEAN :
            /\ write' = [write EXCEPT ![a] = "rejected"] /\ Removal(a, removed)
            /\ sysFail' = (sysFail \/ ~aborted \/ ~removed) /\ UNCHANGED toParent
  /\ UNCHANGED <<ChildSide, ret, aborted, os, toChild>>

\* the function uses process.send for something else
SendInvalid ==
  /\ child = "running" /\ linked /\ terminal = "none" /\ parent # "ended" /\ [type |-> "invalid"] \notin
       {toParent[i] : i \in 1 .. Len(toParent)}
  /\ Tell([type |-> "invalid"])
  /\ UNCHANGED <<ChildSide, fn, file, os, toChild>>

\* the function returned or threw, its writes awaited or not; a failure of
\* the system that it met overrides what it made of it
Finish(v) ==
  /\ child = "running" /\ ret' = IF sysFail THEN "system" ELSE v
  /\ IF linked THEN /\ Tell([type |-> ret'])
                    /\ child' = "finishing" /\ UNCHANGED toChild
               ELSE child' = "exited" /\ toChild' = <<>> /\ UNCHANGED toParent
  /\ UNCHANGED <<ChildSide, aborted, sysFail, write, file, holder, loose, killed, linked>>

Disconnect ==
  /\ child = "finishing"
  /\ child' = "leaving" /\ linked' = FALSE /\ toChild' = <<>>
  /\ UNCHANGED <<ChildSide, fn, file, holder, loose, killed, toParent>>

\* at any time: process.exit, a signal, or the end of finish
Exit ==
  /\ child \in Alive
  /\ child' = "exited" /\ linked' = FALSE /\ toChild' = <<>>
  /\ UNCHANGED <<ChildSide, fn, file, holder, loose, killed, toParent>>

\* the function, or a process it started, starts another: it has the output of
\* its parent, or, as those of the repository's $, pipes of its own; and its end
OsSide == <<ChildSide, fn, file, child, killed, linked, toChild, toParent>>

Fork ==
  /\ ~killed /\ (holder \/ child \in {"running", "finishing", "leaving"})
  /\ \/ ~holder /\ holder' = TRUE /\ UNCHANGED loose
     \/ ~loose /\ loose' = TRUE /\ UNCHANGED holder
  /\ UNCHANGED OsSide

HolderExits == holder /\ holder' = FALSE /\ UNCHANGED <<OsSide, loose>>
LooseExits  == loose /\ loose' = FALSE /\ UNCHANGED <<OsSide, holder>>

-----------------------------------------------------------------------------
(* The world *)

Expire == ~expired /\ parent # "ended" /\ expired' = TRUE
          /\ UNCHANGED <<side, cancelled, row, fn, file, os, toChild, toParent>>
Cancel == ~cancelled /\ parent # "ended" /\ cancelled' = TRUE
          /\ UNCHANGED <<side, expired, row, fn, file, os, toChild, toParent>>

ParentStep ==
  \/ Spawn \/ SpawnFails \/ Late \/ Start \/ StartFails
  \/ StartTermination \/ Interrupt \/ Termination \/ TimedOut \/ Cancelled
  \/ HandleRegister \/ Commit \/ Reply \/ HandleTerminal \/ HandleSystem \/ ProtocolEnds

ChildStep ==
  \/ Hear \/ SendInvalid \/ Disconnect \/ Exit \/ Fork \/ HolderExits \/ LooseExits
  \/ \E v \in Results : Finish(v)
  \/ \E a \in Artifacts : WriteFile(a) \/ RegisterFile(a)

TaskNext == ParentStep \/ ChildStep \/ Expire \/ Cancel \/ Crash

TaskSpec == TaskInit /\ [][TaskNext]_tvars

\* the fibers and timers of the runtime run on, and what is sent SIGKILL
\* dies; the function of the Task need never do anything
FairTaskSpec ==
  /\ TaskSpec
  /\ WF_tvars(ParentStep)
  /\ WF_tvars(Termination) /\ WF_tvars(TimedOut) /\ WF_tvars(Cancelled)
  /\ WF_tvars(StartTermination) /\ WF_tvars(Interrupt)
  /\ WF_tvars(killed /\ Exit) /\ WF_tvars(killed /\ HolderExits)
  /\ WF_tvars(killed /\ LooseExits)

-----------------------------------------------------------------------------
(* Properties *)

\* A registered artifact has its file, however the two processes that may
\* remove it, an abort and a crash come between its steps; and the function
\* learns of a registration only what the store made of it.
ArtifactsAgree ==
  \A a \in Artifacts :
    /\ row[a] => file[a] /\ write[a] # "rejected"
    /\ write[a] = "resolved" => row[a]

\* A completed attempt is that of a function that returned a result, and the
\* child and every process that holds its output are gone.
CompletedIsWhole ==
  outcome = "completed" => ret = "completed" /\ child = "exited" /\ ~holder

\* When the attempt is back at its pump, the child and every process that
\* holds its output are gone, or the whole group was sent SIGKILL.  A process
\* with an output of its own may outlive an attempt whose child went by itself.
NoOrphan == outcome \notin {"none", "lost"} => Gone \/ killed

\* The store, the Run's directory, the child and the channel agree, and what has
\* ended is over: nothing that holds the child's output runs on unseen.
TaskConsistent == TaskTypeOK /\ ArtifactsAgree /\ CompletedIsWhole /\ NoOrphan

\* the store is working on the registration
InHand(a) == handler # Free /\ handler.stage = "commit" /\ handler.a = a

\* the attempt is over or interrupted, has its result, or is past its deadline,
\* and the store has not begun on the registration
TooLate(a) ==
  ~row[a] /\ \/ parent \in {"interrupted", "ended"} \/ terminal # "none"
             \/ expired /\ ~InHand(a)

\* Too late once is too late for ever: an artifact that is not registered when the
\* attempt has its result, is interrupted or over, or, unless the store was at work
\* on it, when its deadline passes, never is, whatever the child still sends.  The
\* deadline may pass between the check of a registration and its commit, no earlier.
NoLateArtifact == [][\A a \in Artifacts : TooLate(a) => TooLate(a)']_tvars

\* A Task past its deadline, or cancelled, ends although its function never
\* listens, and neither the child nor a holder of its output stays alive, unless
\* the runtime itself crashes.
StoppedTaskEnds == (expired \/ cancelled) ~> (outcome = "lost" \/ (outcome # "none" /\ Gone))
=============================================================================
