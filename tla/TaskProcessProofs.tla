--------------------------- MODULE TaskProcessProofs ---------------------------
(***************************************************************************)
(* What holds of one attempt of a Task for any number of artifacts.         *)
(***************************************************************************)
EXTENDS TaskProcess, SequenceTheorems, TLAPS

-----------------------------------------------------------------------------
(* The inductive invariant                                                  *)

\* where a registration can be: asked for, in the hands of the handler, answered
Asks(i, a) == toParent[i].type = "register" /\ toParent[i].a = a
Tells(i, a) == toChild[i].type = "result" /\ toChild[i].a = a

\* a write is at one of these places, once, and the row is there from the second on if
\* the answer says so
Asking ==
  \A a \in Artifacts :
    /\ \A i, j \in DOMAIN toParent : Asks(i, a) /\ Asks(j, a) => i = j
    /\ \A i \in DOMAIN toParent : Asks(i, a) =>
         /\ write[a] = "waiting" /\ ~row[a] /\ (handler # Free => handler.a # a)
         /\ \A j \in DOMAIN toChild : ~Tells(j, a)
Handled ==
  handler # Free =>
    /\ write[handler.a] = "waiting" /\ row[handler.a] = handler.ok
    /\ handler.stage = "commit" => ~handler.ok
    /\ \A j \in DOMAIN toChild : ~Tells(j, handler.a)
Telling ==
  \A a \in Artifacts :
    /\ \A i, j \in DOMAIN toChild : Tells(i, a) /\ Tells(j, a) => i = j
    /\ \A i \in DOMAIN toChild : Tells(i, a) => write[a] = "waiting" /\ row[a] = toChild[i].ok
Rows ==
  \A a \in Artifacts :
    /\ row[a] => file[a] /\ write[a] \in {"waiting", "resolved"}
    /\ write[a] = "resolved" => row[a]
Registrations == Asking /\ Handled /\ Telling /\ Rows

\* the function is started once, and what is claimed of its end is its end
StartOnce ==
  /\ \A i \in DOMAIN toChild : toChild[i].type = "start" => i = 1 /\ child = "booting"
  /\ parent \in {"spawning", "spawned"} =>
       /\ toChild = <<>> /\ toParent = <<>> /\ handler = Free
       /\ \A a \in Artifacts : write[a] = "idle"
  /\ parent = "spawning" => child = "none"
  /\ parent = "spawned" => child \in {"booting", "exited"}
  /\ linked => child \in Alive
Returned == ret = "completed" /\ child \in {"finishing", "leaving", "exited"}
Claimed ==
  /\ \A i \in DOMAIN toParent : toParent[i].type = "completed" => Returned
  /\ terminal = "completed" => Returned

Over == outcome # "none" <=> parent = "ended"

\* while the store works on a registration no other message is handled and the
\* protocol runs
AtWork ==
  handler # Free /\ handler.stage = "commit" => terminal = "none" /\ parent \in InUse

TaskInv ==
  /\ TaskTypeOK /\ Registrations /\ StartOnce /\ Claimed /\ Over /\ AtWork
  /\ CompletedIsWhole /\ NoOrphan

-----------------------------------------------------------------------------
(* Channels                                                                 *)

\* t has no message of the type but those of s, in their order
Within(t, s, type) ==
  \E k \in {0, 1} : \A i \in DOMAIN t : t[i].type = type => i + k \in DOMAIN s /\ s[i + k] = t[i]

LEMMA TailFacts ==
  ASSUME NEW S, NEW s \in Seq(S), s # <<>>
  PROVE  /\ Tail(s) \in Seq(S) /\ Head(s) \in S /\ 1 \in DOMAIN s /\ Head(s) = s[1]
         /\ \A i \in DOMAIN Tail(s) : i \in Nat /\ i >= 1 /\ i + 1 \in DOMAIN s /\ Tail(s)[i] = s[i + 1]
<1>1. Len(s) \in Nat /\ Len(s) # 0 /\ DOMAIN s = 1 .. Len(s)
  BY EmptySeq, LenProperties
<1>2. Tail(s) \in Seq(S) /\ Len(Tail(s)) = Len(s) - 1 /\ Head(s) \in S
      /\ \A i \in 1 .. Len(Tail(s)) : Tail(s)[i] = s[i + 1]
  BY HeadTailProperties
<1>3. DOMAIN Tail(s) = 1 .. Len(s) - 1
  BY <1>2, LenProperties
<1> QED BY <1>1, <1>2, <1>3

LEMMA AppendFacts ==
  ASSUME NEW S, NEW s \in Seq(S), NEW x \in S
  PROVE  /\ Append(s, x) \in Seq(S)
         /\ \A i \in DOMAIN Append(s, x) : \/ (i \in DOMAIN s /\ Append(s, x)[i] = s[i])
                                          \/ (i = Len(s) + 1 /\ Append(s, x)[i] = x)
         /\ \A i \in DOMAIN s : i \in Nat /\ i # Len(s) + 1
<1>1. Len(s) \in Nat /\ DOMAIN s = 1 .. Len(s)
  BY LenProperties
<1>2. Append(s, x) \in Seq(S) /\ Len(Append(s, x)) = Len(s) + 1
      /\ \A i \in 1 .. Len(s) : Append(s, x)[i] = s[i]
      /\ Append(s, x)[Len(s) + 1] = x
  BY AppendProperties
<1>3. DOMAIN Append(s, x) = 1 .. Len(Append(s, x))
  <2> DEFINE t == Append(s, x)
  <2>1. t \in Seq(S)
    BY <1>2
  <2> HIDE DEF t
  <2>2. DOMAIN t = 1 .. Len(t)
    BY <2>1, LenProperties
  <2> QED BY <2>2 DEF t
<1> QED BY <1>1, <1>2, <1>3

LEMMA WithinFacts ==
  ASSUME NEW S, NEW s \in Seq(S), NEW type
  PROVE  /\ Within(s, s, type) /\ Within(<<>>, s, type)
         /\ s # <<>> => Within(Tail(s), s, type)
         /\ \A x \in S : x.type # type => Within(Append(s, x), s, type)
<1>1. DOMAIN s \subseteq Nat
  BY LenProperties
<1>2. Within(s, s, type)
  <2>1. \A i \in DOMAIN s : i + 0 = i
    BY <1>1
  <2> QED BY <2>1 DEF Within
<1>3. Within(<<>>, s, type)
  BY DEF Within
<1>4. s # <<>> => Within(Tail(s), s, type)
  BY TailFacts DEF Within
<1>5. ASSUME NEW x \in S, x.type # type PROVE Within(Append(s, x), s, type)
  <2>1. \A i \in DOMAIN Append(s, x) : Append(s, x)[i].type = type =>
          i \in DOMAIN s /\ Append(s, x)[i] = s[i] /\ i + 0 = i
    BY <1>1, <1>5, AppendFacts
  <2> QED BY <2>1 DEF Within
<1> QED BY <1>2, <1>3, <1>4, <1>5

\* a step that leaves writes, rows and files alone, and hands on no registration
LEMMA Elsewhere ==
  ASSUME TaskTypeOK, TaskTypeOK', Registrations, UNCHANGED <<row, file, write>>,
         handler' = handler \/ handler' = Free,
         Within(toParent', toParent, "register"), Within(toChild', toChild, "result")
  PROVE  Registrations'
<1>1. PICK k \in {0, 1} : \A i \in DOMAIN toParent' : toParent'[i].type = "register" =>
                            i + k \in DOMAIN toParent /\ toParent[i + k] = toParent'[i]
  BY DEF Within
<1>2. PICK m \in {0, 1} : \A i \in DOMAIN toChild' : toChild'[i].type = "result" =>
                            i + m \in DOMAIN toChild /\ toChild[i + m] = toChild'[i]
  BY DEF Within
<1>3. DOMAIN toParent' \subseteq Nat /\ DOMAIN toChild' \subseteq Nat
  BY LenProperties DEF TaskTypeOK
<1>4. \A a \in Artifacts, i \in DOMAIN toParent' : Asks(i, a)' => i + k \in DOMAIN toParent /\ Asks(i + k, a)
  BY <1>1 DEF Asks
<1>5. \A a \in Artifacts, i \in DOMAIN toChild' : Tells(i, a)' =>
         /\ i + m \in DOMAIN toChild /\ Tells(i + m, a) /\ toChild[i + m].ok = toChild'[i].ok
  BY <1>2 DEF Tells
<1>6. \A i, j, n \in Nat : i + n = j + n => i = j
  OBVIOUS
<1>7. Asking'
  <2> SUFFICES ASSUME NEW a \in Artifacts
               PROVE  /\ \A i, j \in DOMAIN toParent' : Asks(i, a)' /\ Asks(j, a)' => i = j
                      /\ \A i \in DOMAIN toParent' : Asks(i, a)' =>
                           /\ write[a] = "waiting" /\ ~row[a] /\ (handler' # Free => handler'.a # a)
                           /\ \A j \in DOMAIN toChild' : ~Tells(j, a)'
    BY DEF Asking
  <2>1. \A i, j \in DOMAIN toParent' : Asks(i, a)' /\ Asks(j, a)' => i = j
    <3> TAKE i, j \in DOMAIN toParent'
    <3> HAVE Asks(i, a)' /\ Asks(j, a)'
    <3>1. i + k = j + k
      BY <1>4 DEF Registrations, Asking
    <3> QED BY <1>3, <3>1
  <2>2. ASSUME NEW i \in DOMAIN toParent', Asks(i, a)'
        PROVE  /\ write[a] = "waiting" /\ ~row[a] /\ (handler' # Free => handler'.a # a)
               /\ \A j \in DOMAIN toChild' : ~Tells(j, a)'
    <3>1. i + k \in DOMAIN toParent /\ Asks(i + k, a)
      BY <1>4, <2>2
    <3> QED BY <1>5, <3>1 DEF Registrations, Asking
  <2> QED BY <2>1, <2>2
<1>8. Handled'
  <2> SUFFICES ASSUME handler' # Free
               PROVE  /\ write[handler.a] = "waiting" /\ row[handler.a] = handler.ok
                      /\ handler.stage = "commit" => ~handler.ok
                      /\ \A j \in DOMAIN toChild' : ~Tells(j, handler.a)'
    BY DEF Handled
  <2>1. handler' = handler /\ handler # Free /\ handler.a \in Artifacts
    BY DEF TaskTypeOK
  <2> QED BY <1>5, <2>1 DEF Registrations, Handled, Tells
<1>9. Telling'
  <2> SUFFICES ASSUME NEW a \in Artifacts
               PROVE  /\ \A i, j \in DOMAIN toChild' : Tells(i, a)' /\ Tells(j, a)' => i = j
                      /\ \A i \in DOMAIN toChild' : Tells(i, a)' =>
                           write[a] = "waiting" /\ row[a] = toChild'[i].ok
    BY DEF Telling
  <2>1. ASSUME NEW i \in DOMAIN toChild', NEW j \in DOMAIN toChild', Tells(i, a)', Tells(j, a)'
        PROVE  i = j
    <3>1. i + m = j + m
      BY <1>5, <2>1 DEF Registrations, Telling
    <3> QED BY <1>3, <3>1
  <2>2. ASSUME NEW i \in DOMAIN toChild', Tells(i, a)'
        PROVE  write[a] = "waiting" /\ row[a] = toChild'[i].ok
    BY <1>5, <2>2 DEF Registrations, Telling
  <2> QED BY <2>1, <2>2
<1>10. Rows'
  BY DEF Registrations, Rows
<1> QED BY <1>7, <1>8, <1>9, <1>10 DEF Registrations

-----------------------------------------------------------------------------
(* Types                                                                    *)

LEMMA TaskInitInv == TaskInit => TaskInv
<1> SUFFICES ASSUME TaskInit PROVE TaskInv
  OBVIOUS
<1>1. TaskTypeOK
  <2>1. toParent \in Seq(Message) /\ toChild \in Seq(Answer \union {[type |-> "start"], [type |-> "abort"]})
    BY EmptySeq DEF TaskInit
  <2> QED BY <2>1 DEF TaskInit, TaskTypeOK
<1>2. Registrations
  BY DEF TaskInit, Registrations, Asking, Handled, Telling, Rows
<1>3. StartOnce /\ Claimed /\ Over /\ AtWork /\ CompletedIsWhole /\ NoOrphan
  BY DEF TaskInit, StartOnce, Claimed, Over, AtWork, CompletedIsWhole, NoOrphan
<1> QED BY <1>1, <1>2, <1>3 DEF TaskInv

\* what is sent, and what is left when a message is taken or the channel closes
LEMMA ChannelTypes ==
  ASSUME TaskTypeOK
  PROVE  /\ \A m \in Message : Tell(m) => toParent' \in Seq(Message)
         /\ \A m \in Answer \union {[type |-> "start"], [type |-> "abort"]} :
              Send(m) => toChild' \in Seq(Answer \union {[type |-> "start"], [type |-> "abort"]})
         /\ toParent # <<>> => Tail(toParent) \in Seq(Message) /\ Head(toParent) \in Message
         /\ toChild # <<>> =>
              /\ Tail(toChild) \in Seq(Answer \union {[type |-> "start"], [type |-> "abort"]})
              /\ Head(toChild) \in Answer \union {[type |-> "start"], [type |-> "abort"]}
         /\ <<>> \in Seq(Message) /\ <<>> \in Seq(Answer \union {[type |-> "start"], [type |-> "abort"]})
<1> DEFINE A == Answer \union {[type |-> "start"], [type |-> "abort"]}
<1>0. toParent \in Seq(Message) /\ toChild \in Seq(A)
  BY DEF TaskTypeOK
<1>1. \A m \in Message : Tell(m) => toParent' \in Seq(Message)
  BY <1>0, AppendFacts DEF Tell
<1> HIDE DEF A
<1>2. \A m \in A : Send(m) => toChild' \in Seq(A)
  BY <1>0, AppendFacts DEF Send
<1>3. toParent # <<>> => Tail(toParent) \in Seq(Message) /\ Head(toParent) \in Message
  BY <1>0, TailFacts
<1>4. toChild # <<>> => Tail(toChild) \in Seq(A) /\ Head(toChild) \in A
  BY <1>0, TailFacts
<1>5. <<>> \in Seq(Message) /\ <<>> \in Seq(A)
  BY EmptySeq
<1> QED BY <1>1, <1>2, <1>3, <1>4, <1>5 DEF A

LEMMA EndTypes ==
  ASSUME TaskTypeOK, NEW o \in {"timed_out", "cancelled", "died"} \union Results, End(o)
  PROVE  TaskTypeOK'
  BY ChannelTypes DEF TaskTypeOK, End, Closed, signals, fn

LEMMA NextType ==
  ASSUME TaskTypeOK, [TaskNext]_tvars
  PROVE  TaskTypeOK'
<1> USE DEF side, signals, fn, os
<1>0. /\ \A s \in Results \union {"system", "invalid"} : [type |-> s] \in Message
      /\ \A a \in Artifacts : [type |-> "register", a |-> a] \in Message
      /\ \A a \in Artifacts, o \in BOOLEAN : [type |-> "result", a |-> a, ok |-> o] \in Answer
  <2>1. \A s \in Results \union {"system", "invalid"} : [type |-> s] \in Message
    BY Zenon DEF Message
  <2>2. \A a \in Artifacts : [type |-> "register", a |-> a] \in Message
    BY Zenon DEF Message
  <2>3. \A a \in Artifacts, o \in BOOLEAN : [type |-> "result", a |-> a, ok |-> o] \in Answer
    BY SMT DEF Answer
  <2> QED BY <2>1, <2>2, <2>3
<1>1. CASE Spawn
  BY <1>1 DEF Spawn, TaskTypeOK, Alive, InUse
<1>2. CASE SpawnFails \/ Late \/ StartFails \/ TimedOut \/ Cancelled \/ ProtocolEnds
  <2>1. \E o \in {"timed_out", "cancelled", "died"} \union Results : End(o)
    BY <1>2 DEF SpawnFails, Late, StartFails, TimedOut, Cancelled, ProtocolEnds, Results, TaskTypeOK
  <2> QED BY <2>1, EndTypes
<1>3. CASE Start \/ StartTermination \/ Interrupt
  <2>1. toChild' \in Seq(Answer \union {[type |-> "start"], [type |-> "abort"]})
    BY <1>3, ChannelTypes DEF Start, StartTermination, Interrupt
  <2> QED BY <1>3, <2>1 DEF Start, StartTermination, Interrupt, TaskTypeOK, InUse
<1>4. CASE Termination
  BY <1>4 DEF Termination, TaskTypeOK
<1>5. CASE HandleRegister
  <2>1. toParent' \in Seq(Message) /\ Head(toParent) \in Message
    BY <1>5, ChannelTypes DEF HandleRegister, Handling
  <2>2. Head(toParent).a \in Artifacts
    BY <1>5, <2>1 DEF HandleRegister, Message, Results
  <2>3. /\ file' \in [Artifacts -> BOOLEAN]
        /\ handler' \in [a : Artifacts, stage : {"commit", "reply"}, ok : BOOLEAN, fatal : BOOLEAN]
    <3> DEFINE a == Head(toParent).a
               H == [a : Artifacts, stage : {"commit", "reply"}, ok : BOOLEAN, fatal : BOOLEAN]
    <3>1. file \in [Artifacts -> BOOLEAN] /\ a \in Artifacts
      BY <2>2 DEF TaskTypeOK
    <3>2. file' = file \/ file' = [file EXCEPT ![a] = FALSE]
      BY <1>5 DEF HandleRegister, Removal
    <3>3. \/ \E f \in BOOLEAN : Answering(a, FALSE, f)
          \/ handler' = [a |-> a, stage |-> "commit", ok |-> FALSE, fatal |-> FALSE]
      <4>1. TRUE \in BOOLEAN /\ FALSE \in BOOLEAN /\ \A x \in BOOLEAN : (~x) \in BOOLEAN
        OBVIOUS
      <4> QED BY <1>5, <4>1, Zenon DEF HandleRegister
    <3> HIDE DEF a
    <3>4. \A t \in {"commit", "reply"}, f \in BOOLEAN : [a |-> a, stage |-> t, ok |-> FALSE, fatal |-> f] \in H
      BY <3>1
    <3>5. handler' \in H
      <4> HIDE DEF H
      <4> QED BY <3>3, <3>4 DEF Answering
    <3> QED BY <3>1, <3>2, <3>5
  <2> QED BY <1>5, <2>1, <2>3 DEF HandleRegister, TaskTypeOK
<1>5a. CASE Commit
  <2> DEFINE a == handler.a
             H == [a : Artifacts, stage : {"commit", "reply"}, ok : BOOLEAN, fatal : BOOLEAN]
  <2>1. /\ a \in Artifacts
        /\ row \in [Artifacts -> BOOLEAN] /\ file \in [Artifacts -> BOOLEAN]
    BY <1>5a DEF Commit, TaskTypeOK
  <2>2. /\ row' = row \/ row' = [row EXCEPT ![a] = TRUE]
        /\ file' = file \/ file' = [file EXCEPT ![a] = FALSE]
        /\ Answering(a, TRUE, FALSE) \/ Answering(a, FALSE, TRUE)
    BY <1>5a DEF Commit, Removal
  <2> HIDE DEF a
  <2>3. \A o, f \in BOOLEAN : [a |-> a, stage |-> "reply", ok |-> o, fatal |-> f] \in H
    BY <2>1
  <2>3a. handler' \in H
    <3> HIDE DEF H
    <3> QED BY <2>2, <2>3 DEF Answering
  <2>4. row' \in [Artifacts -> BOOLEAN] /\ file' \in [Artifacts -> BOOLEAN]
    BY <2>1, <2>2
  <2> QED BY <1>5a, <2>3a, <2>4 DEF Commit, TaskTypeOK
<1>6. CASE Reply
  <2>1. CASE handler.fatal \/ ~linked
    BY <1>6, <2>1, EndTypes DEF Reply
  <2>2. CASE ~(handler.fatal \/ ~linked)
    <3>1. handler.a \in Artifacts /\ handler.ok \in BOOLEAN
      BY <1>6 DEF Reply, TaskTypeOK
    <3>2. toChild' \in Seq(Answer \union {[type |-> "start"], [type |-> "abort"]})
      BY <1>0, <1>6, <2>2, <3>1, ChannelTypes DEF Reply
    <3> QED BY <1>6, <2>2, <3>2 DEF Reply, TaskTypeOK
  <2> QED BY <2>1, <2>2
<1>7. CASE HandleTerminal
  <2>1. toParent' \in Seq(Message)
    BY <1>7, ChannelTypes DEF HandleTerminal, Handling
  <2>2. terminal' \in {"none"} \union Results
    BY <1>7 DEF HandleTerminal, Accept, TaskTypeOK, Results
  <2> QED BY <1>7, <2>1, <2>2 DEF HandleTerminal, TaskTypeOK
<1>8. CASE HandleSystem
  <2>1. CASE Refuses
    <3>1. toParent' \in Seq(Message)
      BY <1>8, <2>1, ChannelTypes DEF HandleSystem, Handling
    <3> QED BY <1>8, <2>1, <3>1 DEF HandleSystem, TaskTypeOK
  <2>2. CASE ~Refuses
    BY <1>8, <2>2, EndTypes DEF HandleSystem
  <2> QED BY <2>1, <2>2
<1>9. CASE Crash
  BY <1>9, ChannelTypes DEF Crash, TaskTypeOK
<1>10. CASE Hear
  <2>1. /\ toChild' \in Seq(Answer \union {[type |-> "start"], [type |-> "abort"]})
        /\ Head(toChild) \in Answer \union {[type |-> "start"], [type |-> "abort"]}
    BY <1>10, ChannelTypes DEF Hear
  <2>2. UNCHANGED <<ChildSide, holder, loose, killed, linked, toParent>>
    BY <1>10 DEF Hear
  <2>3. CASE Head(toChild).type = "start" /\ child' = "running" /\ UNCHANGED <<fn, file>>
    BY <2>1, <2>2, <2>3 DEF ChildSide, TaskTypeOK, Alive
  <2>4. CASE HearAbort
    BY <2>1, <2>2, <2>4 DEF HearAbort, ChildSide, TaskTypeOK
  <2>5. CASE HearResult
    <3>1. Head(toChild).a \in Artifacts
      BY <2>1, <2>5 DEF HearResult, Answer
    <3>2. /\ write' \in [Artifacts -> {"idle", "written", "waiting", "resolved", "rejected"}]
          /\ file' \in [Artifacts -> BOOLEAN] /\ sysFail' \in BOOLEAN
      BY <2>5, <3>1 DEF HearResult, Removal, TaskTypeOK
    <3> QED BY <2>1, <2>2, <2>5, <3>2 DEF HearResult, ChildSide, TaskTypeOK
  <2> QED BY <1>10, <2>3, <2>4, <2>5 DEF Hear
<1>11. ASSUME NEW a \in Artifacts, WriteFile(a) PROVE TaskTypeOK'
  <2>1. /\ write' \in [Artifacts -> {"idle", "written", "waiting", "resolved", "rejected"}]
        /\ file' \in [Artifacts -> BOOLEAN] /\ sysFail' \in BOOLEAN
    BY <1>11 DEF WriteFile, TaskTypeOK
  <2> QED BY <1>11, <2>1 DEF WriteFile, ChildSide, TaskTypeOK
<1>12. ASSUME NEW a \in Artifacts, RegisterFile(a) PROVE TaskTypeOK'
  <2>1. /\ write' \in [Artifacts -> {"idle", "written", "waiting", "resolved", "rejected"}]
        /\ file' \in [Artifacts -> BOOLEAN] /\ sysFail' \in BOOLEAN
    BY <1>12 DEF RegisterFile, Removal, TaskTypeOK
  <2>2. toParent' \in Seq(Message)
    BY <1>0, <1>12, ChannelTypes DEF RegisterFile, TaskTypeOK
  <2> QED BY <1>12, <2>1, <2>2 DEF RegisterFile, ChildSide, TaskTypeOK
<1>13. CASE SendInvalid
  <2>1. toParent' \in Seq(Message)
    BY <1>0, <1>13, ChannelTypes DEF SendInvalid
  <2> QED BY <1>13, <2>1 DEF SendInvalid, ChildSide, TaskTypeOK
<1>14. ASSUME NEW v \in Results, Finish(v) PROVE TaskTypeOK'
  <2>1. ret' \in {"none", "system"} \union Results /\ ret' \in Results \union {"system", "invalid"}
    BY <1>14 DEF Finish
  <2>2. toParent' \in Seq(Message)
    BY <1>0, <1>14, <2>1, ChannelTypes DEF Finish, TaskTypeOK
  <2>3. child' \in {"none", "exited"} \union Alive
        /\ toChild' \in Seq(Answer \union {[type |-> "start"], [type |-> "abort"]})
    BY <1>14, ChannelTypes DEF Finish, TaskTypeOK, Alive
  <2> QED BY <1>14, <2>1, <2>2, <2>3 DEF Finish, ChildSide, TaskTypeOK
<1>15. CASE Disconnect \/ Exit \/ Fork \/ HolderExits \/ LooseExits
  BY <1>15, ChannelTypes DEF Disconnect, Exit, Fork, HolderExits, LooseExits, OsSide, ChildSide,
       TaskTypeOK, Alive
<1>16. CASE Expire \/ Cancel
  BY <1>16 DEF Expire, Cancel, TaskTypeOK
<1>17. CASE UNCHANGED tvars
  BY <1>17 DEF tvars, TaskTypeOK
<1> QED BY <1>1, <1>2, <1>3, <1>4, <1>5, <1>5a, <1>6, <1>7, <1>8, <1>9, <1>10, <1>11, <1>12, <1>13,
           <1>14, <1>15, <1>16, <1>17 DEF TaskNext, ParentStep, ChildStep

-----------------------------------------------------------------------------
(* Registrations                                                            *)

\* a step of the runtime that ends the attempt leaves nothing to answer
LEMMA EndRegistrations ==
  ASSUME TaskTypeOK, TaskTypeOK', Registrations, NEW o, End(o)
  PROVE  Registrations'
<1>1. toParent \in Seq(Message) /\ toChild \in Seq(Answer \union {[type |-> "start"], [type |-> "abort"]})
  BY DEF TaskTypeOK
<1>2. Within(toParent', toParent, "register") /\ Within(toChild', toChild, "result")
  BY <1>1, WithinFacts DEF End
<1> QED BY <1>2, Elsewhere DEF End, fn

LEMMA HandleRegisterRegistrations ==
  ASSUME TaskTypeOK, TaskTypeOK', Registrations, HandleRegister
  PROVE  Registrations'
<1> DEFINE a == Head(toParent).a
<1>0. /\ toParent \in Seq(Message) /\ toParent # <<>> /\ handler = Free
      /\ row \in [Artifacts -> BOOLEAN] /\ file \in [Artifacts -> BOOLEAN]
      /\ toChild' = toChild /\ toParent' = Tail(toParent) /\ write' = write
  BY DEF TaskTypeOK, HandleRegister, Handling, fn
<1>1. /\ 1 \in DOMAIN toParent /\ Head(toParent) = toParent[1] /\ Head(toParent) \in Message
      /\ \A i \in DOMAIN toParent' : /\ i \in Nat /\ i >= 1 /\ i + 1 \in DOMAIN toParent
                                     /\ toParent'[i] = toParent[i + 1]
  BY <1>0, TailFacts
<1>2. a \in Artifacts /\ Asks(1, a)
  BY <1>1 DEF HandleRegister, Message, Results, Asks
<1>3. write[a] = "waiting" /\ ~row[a] /\ \A j \in DOMAIN toChild : ~Tells(j, a)
  BY <1>1, <1>2 DEF Registrations, Asking
<1>4. /\ row' = row
      /\ file' = file \/ file' = [file EXCEPT ![a] = FALSE]
      /\ \/ \E f \in BOOLEAN : Answering(a, FALSE, f)
         \/ handler' = [a |-> a, stage |-> "commit", ok |-> FALSE, fatal |-> FALSE]
  <2>1. row' = row /\ (file' = file \/ file' = [file EXCEPT ![a] = FALSE])
    BY DEF HandleRegister, Removal
  <2>2. \/ \E f \in BOOLEAN : Answering(a, FALSE, f)
        \/ handler' = [a |-> a, stage |-> "commit", ok |-> FALSE, fatal |-> FALSE]
    <3>1. TRUE \in BOOLEAN /\ FALSE \in BOOLEAN /\ \A x \in BOOLEAN : (~x) \in BOOLEAN
      OBVIOUS
    <3> QED BY <3>1, Zenon DEF HandleRegister
  <2> QED BY <2>1, <2>2
<1>5. \A b \in Artifacts, i \in DOMAIN toParent' : Asks(i, b)' => Asks(i + 1, b) /\ i + 1 \in DOMAIN toParent /\ b # a
  <2> TAKE b \in Artifacts, i \in DOMAIN toParent'
  <2> HAVE Asks(i, b)'
  <2>1. Asks(i + 1, b) /\ i + 1 \in DOMAIN toParent /\ i + 1 # 1
    BY <1>1 DEF Asks
  <2>2. b # a
    BY <1>1, <1>2, <2>1 DEF Registrations, Asking
  <2> QED BY <2>1, <2>2
<1> HIDE DEF a
<1>6. /\ handler' # Free /\ handler'.a = a
      /\ \A b \in Artifacts \ {a} : row'[b] = row[b] /\ file'[b] = file[b]
      /\ row'[a] = handler'.ok /\ (row'[a] => file'[a])
      /\ handler'.stage = "commit" => ~handler'.ok
  <2>1. handler' # Free /\ handler'.a = a /\ handler'.ok = FALSE
    BY <1>4 DEF Answering, Free
  <2>2. row[a] = FALSE
    BY <1>0, <1>2, <1>3
  <2>3. \A b \in Artifacts \ {a} : file'[b] = file[b]
    BY <1>0, <1>2, <1>4
  <2> QED BY <1>4, <2>1, <2>2, <2>3
<1>7. Asking'
  <2> SUFFICES ASSUME NEW b \in Artifacts
               PROVE  /\ \A i, j \in DOMAIN toParent' : Asks(i, b)' /\ Asks(j, b)' => i = j
                      /\ \A i \in DOMAIN toParent' : Asks(i, b)' =>
                           /\ write'[b] = "waiting" /\ ~row'[b] /\ (handler' # Free => handler'.a # b)
                           /\ \A j \in DOMAIN toChild' : ~Tells(j, b)'
    BY DEF Asking
  <2>1. ASSUME NEW i \in DOMAIN toParent', NEW j \in DOMAIN toParent', Asks(i, b)', Asks(j, b)'
        PROVE  i = j
    <3>1. i + 1 = j + 1
      BY <1>5, <2>1 DEF Registrations, Asking
    <3> QED BY <1>1, <3>1
  <2>2. ASSUME NEW i \in DOMAIN toParent', Asks(i, b)'
        PROVE  /\ write'[b] = "waiting" /\ ~row'[b] /\ handler'.a # b
               /\ \A j \in DOMAIN toChild' : ~Tells(j, b)'
    <3>1. i + 1 \in DOMAIN toParent /\ Asks(i + 1, b) /\ b # a
      BY <1>5, <2>2
    <3> QED BY <1>0, <1>6, <3>1 DEF Registrations, Asking, Tells
  <2> QED BY <2>1, <2>2
<1>8. Handled'
  BY <1>0, <1>3, <1>6 DEF Handled, Tells
<1>9. Telling'
  BY <1>0, <1>3, <1>6 DEF Registrations, Telling, Tells
<1>10. Rows'
  BY <1>0, <1>2, <1>3, <1>6 DEF Registrations, Rows
<1> QED BY <1>7, <1>8, <1>9, <1>10 DEF Registrations

LEMMA CommitRegistrations ==
  ASSUME TaskTypeOK, TaskTypeOK', Registrations, Commit
  PROVE  Registrations'
<1> DEFINE a == handler.a
<1>1. /\ handler # Free /\ a \in Artifacts
      /\ row \in [Artifacts -> BOOLEAN] /\ file \in [Artifacts -> BOOLEAN]
      /\ UNCHANGED <<write, toChild, toParent>>
  BY DEF Commit, TaskTypeOK, fn
<1>2. write[a] = "waiting" /\ (\A j \in DOMAIN toChild : ~Tells(j, a))
      /\ \A b \in Artifacts, i \in DOMAIN toParent : Asks(i, b) => b # a
  BY <1>1 DEF Registrations, Handled, Asking
<1>3. /\ handler' # Free /\ handler'.a = a
      /\ \A b \in Artifacts \ {a} : row'[b] = row[b] /\ file'[b] = file[b]
      /\ row'[a] = handler'.ok /\ (row'[a] => file'[a])
      /\ handler'.stage = "commit" => ~handler'.ok
  <2>1. CASE row' = [row EXCEPT ![a] = TRUE] /\ Answering(a, TRUE, FALSE) /\ file' = file /\ file[a]
    BY <1>1, <2>1 DEF Answering, Free
  <2>2. CASE /\ file' = file \/ file' = [file EXCEPT ![a] = FALSE]
             /\ row' = row /\ Answering(a, FALSE, TRUE) /\ ~row[a]
    <3>1. handler' # Free /\ handler'.a = a /\ handler'.ok = FALSE
      BY <2>2 DEF Answering, Free
    <3>2. row[a] = FALSE
      BY <1>1, <2>2
    <3>3. \A b \in Artifacts \ {a} : file'[b] = file[b]
      BY <1>1, <2>2
    <3> QED BY <2>2, <3>1, <3>2, <3>3
  <2>3. ~row[a]
    BY DEF Commit, Registrations, Handled
  <2> QED BY <2>1, <2>2, <2>3 DEF Commit, Removal
<1> HIDE DEF a
<1>4. Asking'
  BY <1>1, <1>2, <1>3 DEF Registrations, Asking, Asks, Tells
<1>5. Handled'
  BY <1>1, <1>2, <1>3 DEF Handled, Tells
<1>6. Telling'
  BY <1>1, <1>2, <1>3 DEF Registrations, Telling, Tells
<1>7. Rows'
  BY <1>1, <1>2, <1>3 DEF Registrations, Rows
<1> QED BY <1>4, <1>5, <1>6, <1>7 DEF Registrations

LEMMA ReplyRegistrations ==
  ASSUME TaskTypeOK, TaskTypeOK', Registrations, Reply
  PROVE  Registrations'
<1>1. CASE handler.fatal \/ ~linked
  BY <1>1, EndRegistrations DEF Reply
<1>2. CASE linked /\ ~handler.fatal
  <2> DEFINE a == handler.a
             m == [type |-> "result", a |-> a, ok |-> handler.ok]
  <2>0. /\ handler # Free /\ handler' = Free /\ UNCHANGED <<row, write, file, toParent>>
        /\ toChild' = Append(toChild, m)
        /\ a \in Artifacts /\ handler.ok \in BOOLEAN
    BY <1>2 DEF Reply, Send, fn, TaskTypeOK
  <2>1. toChild \in Seq(Answer \union {[type |-> "start"], [type |-> "abort"]}) /\ m \in Answer
    BY <2>0, SMT DEF TaskTypeOK, Answer
  <2>2. \A i \in DOMAIN toChild' : \/ (i \in DOMAIN toChild /\ toChild'[i] = toChild[i])
                                   \/ (i = Len(toChild) + 1 /\ toChild'[i] = m)
    BY <2>0, <2>1, AppendFacts
  <2>3. \A b \in Artifacts, i \in DOMAIN toChild' : Tells(i, b)' =>
          \/ (i \in DOMAIN toChild /\ toChild'[i] = toChild[i] /\ Tells(i, b))
          \/ (i = Len(toChild) + 1 /\ toChild'[i] = m /\ b = a)
    BY <2>2 DEF Tells
  <2> HIDE DEF m
  <2>4. write[a] = "waiting" /\ row[a] = handler.ok /\ (\A j \in DOMAIN toChild : ~Tells(j, a))
    BY <2>0 DEF Registrations, Handled
  <2>5. m.ok = handler.ok
    BY DEF m
  <2> HIDE DEF a
  <2>6. Asking'
    <3>1. \A b \in Artifacts, i \in DOMAIN toParent : Asks(i, b) => b # a
      BY <2>0 DEF Registrations, Asking, a
    <3> QED BY <2>0, <2>3, <3>1 DEF Registrations, Asking, Asks
  <2>7. Handled'
    BY <2>0 DEF Handled
  <2>8. Telling'
    BY <2>0, <2>3, <2>4, <2>5 DEF Registrations, Telling
  <2>9. Rows'
    BY <2>0 DEF Registrations, Rows
  <2> QED BY <2>6, <2>7, <2>8, <2>9 DEF Registrations
<1> QED BY <1>1, <1>2

LEMMA HearResultRegistrations ==
  ASSUME TaskTypeOK, TaskTypeOK', Registrations, toChild # <<>>, HearResult, toChild' = Tail(toChild),
         UNCHANGED <<row, handler, toParent>>
  PROVE  Registrations'
<1> DEFINE a == Head(toChild).a
<1>1. /\ toChild \in Seq(Answer \union {[type |-> "start"], [type |-> "abort"]})
      /\ write \in [Artifacts -> {"idle", "written", "waiting", "resolved", "rejected"}]
      /\ file \in [Artifacts -> BOOLEAN]
  BY DEF TaskTypeOK
<1>2. /\ 1 \in DOMAIN toChild /\ Head(toChild) = toChild[1]
      /\ Head(toChild) \in Answer \union {[type |-> "start"], [type |-> "abort"]}
      /\ \A i \in DOMAIN toChild' : /\ i \in Nat /\ i >= 1 /\ i + 1 \in DOMAIN toChild
                                    /\ toChild'[i] = toChild[i + 1]
  BY <1>1, TailFacts
<1>3. a \in Artifacts /\ Tells(1, a) /\ Head(toChild).ok \in BOOLEAN
  BY <1>2 DEF HearResult, Answer, Tells
<1>4. write[a] = "waiting" /\ row[a] = Head(toChild).ok
  BY <1>2, <1>3 DEF Registrations, Telling
<1>5. \A b \in Artifacts, i \in DOMAIN toChild' : Tells(i, b)' =>
        i + 1 \in DOMAIN toChild /\ Tells(i + 1, b) /\ b # a /\ toChild'[i] = toChild[i + 1]
  <2> TAKE b \in Artifacts, i \in DOMAIN toChild'
  <2> HAVE Tells(i, b)'
  <2>1. i + 1 \in DOMAIN toChild /\ Tells(i + 1, b) /\ i + 1 # 1 /\ toChild'[i] = toChild[i + 1]
    BY <1>2 DEF Tells
  <2>2. b # a
    BY <1>2, <1>3, <2>1 DEF Registrations, Telling
  <2> QED BY <2>1, <2>2
<1>6. /\ \A b \in Artifacts \ {a} : write'[b] = write[b] /\ file'[b] = file[b]
      /\ \/ write'[a] = "resolved" /\ file'[a] = file[a] /\ Head(toChild).ok
         \/ write'[a] = "rejected" /\ ~Head(toChild).ok
  <2>1. CASE Head(toChild).ok
    BY <1>1, <1>3, <2>1 DEF HearResult
  <2>2. CASE ~Head(toChild).ok
    <3>1. /\ write' = [write EXCEPT ![a] = "rejected"]
          /\ file' = file \/ file' = [file EXCEPT ![a] = FALSE]
      BY <2>2 DEF HearResult, Removal
    <3> QED BY <1>1, <1>3, <2>2, <3>1
  <2> QED BY <2>1, <2>2
<1>7. \A i \in DOMAIN toParent : ~Asks(i, a)
  BY <1>2, <1>3 DEF Registrations, Asking
<1>8. handler # Free => handler.a # a
  BY <1>2, <1>3 DEF Registrations, Handled
<1> HIDE DEF a
<1>9. Asking'
  BY <1>5, <1>6, <1>7 DEF Registrations, Asking, Asks
<1>10. Handled'
  <2>1. handler # Free => handler.a \in Artifacts
    BY DEF TaskTypeOK
  <2> QED BY <1>5, <1>6, <1>8, <2>1 DEF Registrations, Handled
<1>11. Telling'
  <2> SUFFICES ASSUME NEW b \in Artifacts
               PROVE  /\ \A i, j \in DOMAIN toChild' : Tells(i, b)' /\ Tells(j, b)' => i = j
                      /\ \A i \in DOMAIN toChild' : Tells(i, b)' =>
                           write'[b] = "waiting" /\ row'[b] = toChild'[i].ok
    BY DEF Telling
  <2>1. ASSUME NEW i \in DOMAIN toChild', NEW j \in DOMAIN toChild', Tells(i, b)', Tells(j, b)'
        PROVE  i = j
    <3>1. i + 1 = j + 1
      BY <1>5, <2>1 DEF Registrations, Telling
    <3> QED BY <1>2, <3>1
  <2>2. ASSUME NEW i \in DOMAIN toChild', Tells(i, b)'
        PROVE  write'[b] = "waiting" /\ row'[b] = toChild'[i].ok
    BY <1>5, <1>6, <2>2 DEF Registrations, Telling
  <2> QED BY <2>1, <2>2
<1>12. Rows'
  BY <1>3, <1>4, <1>6 DEF Registrations, Rows
<1> QED BY <1>9, <1>10, <1>11, <1>12 DEF Registrations

LEMMA RegisterFileRegistrations ==
  ASSUME TaskTypeOK, TaskTypeOK', Registrations, NEW a \in Artifacts, RegisterFile(a)
  PROVE  Registrations'
<1> DEFINE m == [type |-> "register", a |-> a]
<1>0. /\ toParent \in Seq(Message) /\ m \in Message
      /\ write \in [Artifacts -> {"idle", "written", "waiting", "resolved", "rejected"}]
      /\ file \in [Artifacts -> BOOLEAN]
      /\ write[a] = "written" /\ UNCHANGED <<row, handler, toChild>>
  <2>1. m \in Message
    BY Zenon DEF Message
  <2> QED BY <2>1 DEF TaskTypeOK, RegisterFile, ChildSide, side
<1>1. /\ ~row[a] /\ (handler # Free => handler.a # a)
      /\ \A i \in DOMAIN toParent : ~Asks(i, a)
      /\ \A i \in DOMAIN toChild : ~Tells(i, a)
  BY <1>0 DEF Registrations, Asking, Handled, Telling, Rows
<1>2. /\ \A b \in Artifacts \ {a} : write'[b] = write[b] /\ file'[b] = file[b]
      /\ \/ write'[a] = "waiting" /\ (toParent' = toParent \/ toParent' = Append(toParent, m))
         \/ write'[a] = "rejected" /\ toParent' = toParent
  <2>1. CASE ~aborted /\ linked
    BY <1>0, <2>1 DEF RegisterFile, Tell
  <2>2. CASE ~(~aborted /\ linked)
    <3>1. /\ write' = [write EXCEPT ![a] = "rejected"] /\ toParent' = toParent
          /\ file' = file \/ file' = [file EXCEPT ![a] = FALSE]
      BY <2>2 DEF RegisterFile, Removal
    <3> QED BY <1>0, <3>1
  <2> QED BY <2>1, <2>2
<1>3. \A i \in DOMAIN toParent' : \/ (i \in DOMAIN toParent /\ toParent'[i] = toParent[i])
                                  \/ (i = Len(toParent) + 1 /\ toParent'[i] = m /\ write'[a] = "waiting")
  <2>1. CASE toParent' = toParent
    BY <2>1
  <2>2. CASE toParent' = Append(toParent, m) /\ write'[a] = "waiting"
    BY <1>0, <2>2, AppendFacts
  <2> QED BY <1>2, <2>1, <2>2
<1>4. \A b \in Artifacts, i \in DOMAIN toParent' : Asks(i, b)' =>
        \/ (i \in DOMAIN toParent /\ Asks(i, b) /\ b # a)
        \/ (i = Len(toParent) + 1 /\ b = a /\ write'[a] = "waiting")
  BY <1>1, <1>3 DEF Asks
<1> HIDE DEF m
<1>5. Asking'
  BY <1>0, <1>1, <1>2, <1>4 DEF Registrations, Asking, Tells
<1>6. Handled'
  <2>1. handler # Free => handler.a \in Artifacts
    BY DEF TaskTypeOK
  <2> QED BY <1>0, <1>1, <1>2, <2>1 DEF Registrations, Handled, Tells
<1>7. Telling'
  BY <1>0, <1>1, <1>2 DEF Registrations, Telling, Tells
<1>8. Rows'
  BY <1>0, <1>1, <1>2 DEF Registrations, Rows
<1> QED BY <1>5, <1>6, <1>7, <1>8 DEF Registrations

LEMMA NextRegistrations ==
  ASSUME TaskTypeOK, TaskTypeOK', Registrations, [TaskNext]_tvars
  PROVE  Registrations'
<1> DEFINE A == Answer \union {[type |-> "start"], [type |-> "abort"]}
<1>a. toParent \in Seq(Message) /\ toChild \in Seq(A)
  BY DEF TaskTypeOK
<1>b. /\ \A s \in Results \union {"system", "invalid"} : [type |-> s] \in Message /\ s # "register"
      /\ [type |-> "start"] \in A /\ [type |-> "abort"] \in A
  <2>1. \A s \in Results \union {"system", "invalid"} : [type |-> s] \in Message
    BY Zenon DEF Message
  <2> QED BY <2>1 DEF Results
<1>c. /\ Within(toParent, toParent, "register") /\ Within(<<>>, toParent, "register")
      /\ toParent # <<>> => Within(Tail(toParent), toParent, "register")
      /\ \A s \in Results \union {"system", "invalid"} :
           Within(Append(toParent, [type |-> s]), toParent, "register")
  BY <1>a, <1>b, WithinFacts
<1>d. /\ Within(toChild, toChild, "result") /\ Within(<<>>, toChild, "result")
      /\ toChild # <<>> => Within(Tail(toChild), toChild, "result")
      /\ \A s \in {"start", "abort"} : Within(Append(toChild, [type |-> s]), toChild, "result")
  <2> HIDE DEF A
  <2> QED BY <1>a, <1>b, WithinFacts
<1> HIDE DEF A
<1>1. CASE /\ UNCHANGED <<row, file, write>> /\ handler' \in {handler, Free}
           /\ \/ toParent' \in {toParent, <<>>} \/ (toParent # <<>> /\ toParent' = Tail(toParent))
              \/ \E s \in Results \union {"system", "invalid"} : toParent' = Append(toParent, [type |-> s])
           /\ \/ toChild' \in {toChild, <<>>} \/ (toChild # <<>> /\ toChild' = Tail(toChild))
              \/ \E s \in {"start", "abort"} : toChild' = Append(toChild, [type |-> s])
  <2>1. Within(toParent', toParent, "register")
    BY <1>1, <1>c
  <2>2. Within(toChild', toChild, "result")
    BY <1>1, <1>d
  <2> QED BY <1>1, <2>1, <2>2, Elsewhere
<1>2. CASE SpawnFails \/ Late \/ StartFails \/ TimedOut \/ Cancelled \/ ProtocolEnds
  <2>1. \E o : End(o)
    BY <1>2 DEF SpawnFails, Late, StartFails, TimedOut, Cancelled, ProtocolEnds
  <2> QED BY <2>1, EndRegistrations
<1>3. CASE Spawn \/ Start \/ StartTermination \/ Interrupt \/ Termination \/ Crash
  BY <1>1, <1>3 DEF Spawn, Start, StartTermination, Interrupt, Termination, Crash, Send, fn, side
<1>4. CASE HandleTerminal
  BY <1>1, <1>4 DEF HandleTerminal, Handling, fn
<1>5. CASE HandleSystem
  <2>1. CASE Refuses
    BY <1>1, <1>5, <2>1 DEF HandleSystem, Handling, fn, side
  <2>2. CASE ~Refuses
    BY <1>5, <2>2, EndRegistrations DEF HandleSystem
  <2> QED BY <2>1, <2>2
<1>6. CASE Hear
  <2>1. toChild # <<>> /\ toChild' = Tail(toChild) /\ UNCHANGED <<row, handler, toParent>>
    BY <1>6 DEF Hear, ChildSide, side
  <2>2. CASE HearResult
    BY <2>1, <2>2, HearResultRegistrations
  <2>3. CASE UNCHANGED <<write, file>>
    BY <1>1, <2>1, <2>3
  <2> QED BY <1>6, <2>2, <2>3 DEF Hear, HearAbort, fn
<1>7. ASSUME NEW a \in Artifacts, WriteFile(a) PROVE Registrations'
  <2>1. /\ write[a] = "idle" /\ UNCHANGED <<row, handler, toChild, toParent>>
        /\ write' = [write EXCEPT ![a] = "written"] \/ write' = [write EXCEPT ![a] = "rejected"]
        /\ file' = file \/ file' = [file EXCEPT ![a] = TRUE]
    BY <1>7 DEF WriteFile, ChildSide, side
  <2>2. /\ write'[a] \in {"written", "rejected"}
        /\ \A b \in Artifacts : (b # a => write'[b] = write[b]) /\ (file[b] => file'[b])
    BY <2>1 DEF TaskTypeOK
  <2>3. /\ ~row[a] /\ (handler # Free => handler.a # a)
        /\ \A i \in DOMAIN toParent : ~Asks(i, a)
        /\ \A i \in DOMAIN toChild : ~Tells(i, a)
    BY <2>1 DEF Registrations, Asking, Handled, Telling, Rows
  <2>4. handler # Free => handler.a \in Artifacts
    BY DEF TaskTypeOK
  <2> QED BY <2>1, <2>2, <2>3, <2>4 DEF Registrations, Asking, Handled, Telling, Rows, Asks, Tells
<1>8. CASE SendInvalid
  BY <1>1, <1>8 DEF SendInvalid, Tell, ChildSide, side, fn
<1>9. ASSUME NEW v \in Results, Finish(v) PROVE Registrations'
  <2>1. ret' \in Results \union {"system", "invalid"}
    BY <1>9 DEF Finish
  <2> QED BY <1>1, <1>9, <2>1 DEF Finish, Tell, ChildSide, side
<1>10. CASE Disconnect \/ Exit \/ Fork \/ HolderExits \/ LooseExits \/ Expire \/ Cancel \/ UNCHANGED tvars
  BY <1>1, <1>10 DEF Disconnect, Exit, Fork, HolderExits, LooseExits, OsSide, Expire, Cancel, tvars, ChildSide, side, fn
<1> QED BY <1>2, <1>3, <1>4, <1>5, <1>6, <1>7, <1>8, <1>9, <1>10,
           HandleRegisterRegistrations, CommitRegistrations, ReplyRegistrations, RegisterFileRegistrations
        DEF TaskNext, ParentStep, ChildStep

-----------------------------------------------------------------------------
(* The function and what is claimed of it                                   *)

\* no message of the type is added
LEMMA NoneAdded ==
  ASSUME NEW S, NEW s \in Seq(S), NEW t, NEW type, NEW i \in DOMAIN t, Within(t, s, type),
         t[i].type = type
  PROVE  \E j \in DOMAIN s : s[j] = t[i]
BY DEF Within

\* what the two ends do to the channel from the child to the runtime
LEMMA ClaimSources ==
  ASSUME TaskTypeOK, [TaskNext]_tvars, NEW i \in DOMAIN toParent', toParent'[i].type = "completed"
  PROVE  \/ \E j \in DOMAIN toParent : toParent[j].type = "completed"
         \/ (\E v \in Results : Finish(v)) /\ ret' = "completed" /\ child' = "finishing"
<1>a. toParent \in Seq(Message)
  BY DEF TaskTypeOK
<1>b. \A s \in Results \union {"system", "invalid"} : [type |-> s] \in Message
  BY Zenon DEF Message
<1>c. \A a \in Artifacts : [type |-> "register", a |-> a] \in Message
  BY Zenon DEF Message
<1>1. CASE \/ toParent' \in {toParent, <<>>} \/ (toParent # <<>> /\ toParent' = Tail(toParent))
           \/ \E m \in Message : m.type # "completed" /\ toParent' = Append(toParent, m)
  <2>1. Within(toParent', toParent, "completed")
    BY <1>1, <1>a, WithinFacts
  <2> QED BY <1>a, <2>1, NoneAdded
<1>2. ASSUME NEW o, End(o) PROVE \E j \in DOMAIN toParent : toParent[j].type = "completed"
  BY <1>1, <1>2 DEF End
<1>3. CASE SpawnFails \/ Late \/ StartFails \/ TimedOut \/ Cancelled \/ ProtocolEnds
  BY <1>2, <1>3 DEF SpawnFails, Late, StartFails, TimedOut, Cancelled, ProtocolEnds
<1>4. CASE Spawn \/ Start \/ StartTermination \/ Interrupt \/ Termination \/ Crash
  BY <1>1, <1>4 DEF Spawn, Start, StartTermination, Interrupt, Termination, Crash
<1>5. CASE HandleRegister \/ Commit \/ HandleTerminal
  BY <1>1, <1>5 DEF HandleRegister, Commit, HandleTerminal, Handling
<1>6. CASE HandleSystem
  BY <1>1, <1>2, <1>6 DEF HandleSystem, Handling
<1>7. CASE Reply
  BY <1>1, <1>2, <1>7 DEF Reply
<1>8. CASE Hear \/ Disconnect \/ Exit \/ Fork \/ HolderExits \/ LooseExits \/ Expire \/ Cancel \/ UNCHANGED tvars
  BY <1>1, <1>8 DEF Hear, Disconnect, Exit, Fork, HolderExits, LooseExits, OsSide, Expire, Cancel, tvars
<1>9. CASE SendInvalid
  <2>1. [type |-> "invalid"] \in Message /\ [type |-> "invalid"].type # "completed"
    BY <1>b
  <2> QED BY <1>1, <1>9, <2>1 DEF SendInvalid, Tell
<1>10. ASSUME NEW a \in Artifacts, WriteFile(a) \/ RegisterFile(a)
       PROVE  \E j \in DOMAIN toParent : toParent[j].type = "completed"
  <2>1. [type |-> "register", a |-> a] \in Message /\ [type |-> "register", a |-> a].type # "completed"
    BY <1>c
  <2> QED BY <1>1, <1>10, <2>1 DEF WriteFile, RegisterFile, Tell
<1>11. ASSUME NEW v \in Results, Finish(v)
       PROVE  \/ \E j \in DOMAIN toParent : toParent[j].type = "completed"
              \/ ret' = "completed" /\ child' = "finishing"
  <2>1. CASE ~linked \/ ret' # "completed"
    <3>1. ret' \in Results \union {"system", "invalid"}
      BY <1>11 DEF Finish
    <3>2. [type |-> ret'] \in Message
      BY <1>b, <3>1
    <3> QED BY <1>1, <1>11, <2>1, <3>2 DEF Finish, Tell
  <2>2. CASE linked /\ ret' = "completed"
    BY <1>11, <2>2 DEF Finish
  <2> QED BY <2>1, <2>2
<1> QED BY <1>3, <1>4, <1>5, <1>6, <1>7, <1>8, <1>9, <1>10, <1>11 DEF TaskNext, ParentStep, ChildStep

\* where the child and its result may go
LEMMA ChildMoves ==
  ASSUME TaskTypeOK, StartOnce, [TaskNext]_tvars
  PROVE  \/ UNCHANGED <<child, ret>> /\ (linked' => linked)
         \/ Spawn /\ child = "none" /\ child' = "booting" /\ ret' = ret
         \/ Hear /\ child = "booting" /\ child' = "running" /\ ret' = ret /\ linked' = linked
         \/ \E v \in Results : Finish(v)
         \/ Disconnect \/ Exit
<1>1. CASE Spawn
  BY <1>1 DEF Spawn, StartOnce, fn
<1>2. CASE Hear
  <2>1. CASE Head(toChild).type = "start" /\ child' = "running" /\ UNCHANGED <<fn, file>>
    <3>1. 1 \in DOMAIN toChild /\ Head(toChild) = toChild[1]
      BY <1>2, TailFacts DEF Hear, TaskTypeOK
    <3>2. child = "booting"
      BY <2>1, <3>1 DEF StartOnce
    <3> QED BY <1>2, <2>1, <3>2 DEF Hear, fn
  <2>2. CASE HearAbort \/ HearResult
    BY <1>2, <2>2 DEF Hear, HearAbort, HearResult
  <2> QED BY <1>2, <2>1, <2>2 DEF Hear
<1>3. CASE (ParentStep /\ ~Spawn) \/ Expire \/ Cancel \/ Crash \/ UNCHANGED tvars
  <2>1. CASE SpawnFails \/ Late \/ StartFails \/ TimedOut \/ Cancelled \/ ProtocolEnds
    BY <2>1 DEF SpawnFails, Late, StartFails, TimedOut, Cancelled, ProtocolEnds, End, fn
  <2>2. CASE Start \/ StartTermination \/ Interrupt \/ Termination \/ HandleRegister \/ Commit \/ HandleTerminal
    BY <2>2 DEF Start, StartTermination, Interrupt, Termination, HandleRegister, Commit, HandleTerminal, fn, os
  <2>3. CASE HandleSystem \/ Reply
    BY <2>3 DEF HandleSystem, Reply, End, fn, os
  <2>4. CASE Expire \/ Cancel \/ Crash \/ UNCHANGED tvars
    BY <2>4 DEF Expire, Cancel, Crash, tvars, fn, os
  <2> QED BY <1>3, <2>1, <2>2, <2>3, <2>4 DEF ParentStep
<1>4. CASE SendInvalid \/ Fork \/ HolderExits \/ LooseExits \/ \E a \in Artifacts : WriteFile(a) \/ RegisterFile(a)
  BY <1>4 DEF SendInvalid, Fork, HolderExits, LooseExits, OsSide, WriteFile, RegisterFile, fn, os
<1> QED BY <1>1, <1>2, <1>3, <1>4 DEF TaskNext, ParentStep, ChildStep

\* a result stays one
LEMMA ReturnedStays ==
  ASSUME TaskTypeOK, StartOnce, [TaskNext]_tvars, Returned
  PROVE  Returned'
BY ChildMoves DEF Returned, Finish, Disconnect, Exit, fn

LEMMA NextClaimed ==
  ASSUME TaskTypeOK, StartOnce, Claimed, [TaskNext]_tvars
  PROVE  Claimed'
<1>1. ASSUME NEW i \in DOMAIN toParent', toParent'[i].type = "completed" PROVE Returned'
  <2>1. CASE \E j \in DOMAIN toParent : toParent[j].type = "completed"
    BY <2>1, ReturnedStays DEF Claimed
  <2>2. CASE ret' = "completed" /\ child' = "finishing"
    BY <2>2 DEF Returned
  <2> QED BY <1>1, <2>1, <2>2, ClaimSources
<1>2. ASSUME terminal' = "completed" PROVE Returned'
  <2>1. terminal' = terminal \/ HandleTerminal
    <3>1. CASE SpawnFails \/ Late \/ StartFails \/ TimedOut \/ Cancelled \/ ProtocolEnds
      BY <3>1 DEF SpawnFails, Late, StartFails, TimedOut, Cancelled, ProtocolEnds, End
    <3>2. CASE ParentStep
      BY <3>1, <3>2 DEF ParentStep, Spawn, Start, StartTermination, Interrupt, Termination, HandleRegister, Commit,
                  HandleSystem, Reply, End, side
    <3>3. CASE ~ParentStep
      BY <3>3 DEF TaskNext, ChildStep, Hear, SendInvalid, Disconnect, Exit, Fork, HolderExits, LooseExits, OsSide, Finish, WriteFile,
                  RegisterFile, Expire, Cancel, Crash, ChildSide, side, tvars
    <3> QED BY <3>2, <3>3
  <2>2. CASE terminal' = terminal
    BY <1>2, <2>2, ReturnedStays DEF Claimed
  <2>3. CASE HandleTerminal /\ terminal' # terminal
    <3>1. Head(toParent).type = "completed"
      BY <1>2, <2>3 DEF HandleTerminal, Accept
    <3>2. 1 \in DOMAIN toParent /\ Head(toParent) = toParent[1]
      BY <2>3, TailFacts DEF HandleTerminal, Handling, TaskTypeOK
    <3> QED BY <3>1, <3>2, ReturnedStays DEF Claimed
  <2> QED BY <2>1, <2>2, <2>3
<1> QED BY <1>1, <1>2 DEF Claimed

\* before its start the child has done nothing, and no other step leaves the
\* runtime there
LEMMA BeforeStart ==
  ASSUME TaskTypeOK, StartOnce, [TaskNext]_tvars, parent' \in {"spawning", "spawned"}
  PROVE  \/ Spawn
         \/ parent' = parent /\ UNCHANGED <<toChild, toParent, handler, write>>
<1>1. CASE SpawnFails \/ Late \/ StartFails \/ TimedOut \/ Cancelled \/ ProtocolEnds
  BY <1>1 DEF SpawnFails, Late, StartFails, TimedOut, Cancelled, ProtocolEnds, End
<1>2. CASE Start \/ StartTermination \/ Interrupt \/ Termination \/ Crash
  BY <1>2 DEF Start, StartTermination, Interrupt, Termination, Crash, InUse, fn
<1>3. CASE HandleRegister \/ HandleTerminal \/ HandleSystem
  <2>1. toParent # <<>> /\ (parent' = parent \/ \E o : End(o))
    BY <1>3 DEF HandleRegister, HandleTerminal, HandleSystem, Handling, side
  <2> QED BY <2>1 DEF StartOnce, End
<1>4. CASE Commit \/ Reply
  <2>1. handler # Free /\ (parent' = parent \/ \E o : End(o))
    BY <1>4 DEF Commit, Reply
  <2> QED BY <2>1 DEF StartOnce, End
<1>5. CASE Hear \/ SendInvalid \/ Disconnect \/ Exit \/ Fork \/ HolderExits \/ LooseExits
           \/ (\E v \in Results : Finish(v)) \/ \E a \in Artifacts : WriteFile(a) \/ RegisterFile(a)
  <2>1. parent' = parent /\ handler' = handler
    BY <1>5 DEF Hear, SendInvalid, Disconnect, Exit, Fork, HolderExits, LooseExits, OsSide, Finish, WriteFile, RegisterFile,
            ChildSide, side
  <2>2. toChild = <<>> /\ child \in {"none", "booting", "exited"} /\ \A a \in Artifacts : write[a] = "idle"
    BY <2>1 DEF StartOnce
  <2> QED BY <1>5, <2>1, <2>2 DEF Hear, SendInvalid, Disconnect, Exit, Fork, HolderExits, LooseExits, OsSide, Finish, WriteFile,
            RegisterFile, fn
<1>6. CASE Expire \/ Cancel \/ UNCHANGED tvars
  BY <1>6 DEF Expire, Cancel, tvars, side, fn
<1> QED BY <1>1, <1>2, <1>3, <1>4, <1>5, <1>6 DEF TaskNext, ParentStep, ChildStep

\* only Start adds a start
LEMMA StartSources ==
  ASSUME TaskTypeOK, [TaskNext]_tvars, ~Start, NEW i \in DOMAIN toChild', toChild'[i].type = "start"
  PROVE  \/ ~Hear /\ i \in DOMAIN toChild /\ toChild[i].type = "start"
         \/ Hear /\ i \in Nat /\ i >= 1 /\ i + 1 \in DOMAIN toChild /\ toChild[i + 1].type = "start"
<1> DEFINE A == Answer \union {[type |-> "start"], [type |-> "abort"]}
<1>a. toChild \in Seq(A)
  BY DEF TaskTypeOK
<1>b. [type |-> "abort"] \in A
  OBVIOUS
<1>c. \A a \in Artifacts, o \in BOOLEAN : [type |-> "result", a |-> a, ok |-> o] \in A
  BY SMT DEF Answer
<1> HIDE DEF A
<1>1. CASE ~Hear /\ (\/ toChild' \in {toChild, <<>>}
                     \/ \E m \in A : m.type # "start" /\ toChild' = Append(toChild, m))
  BY <1>1, <1>a, AppendFacts
<1>2. CASE Hear
  BY <1>2, <1>a, TailFacts DEF Hear
<1>3. ASSUME NEW o, End(o), ~Hear PROVE ~Hear /\ i \in DOMAIN toChild /\ toChild[i].type = "start"
  BY <1>1, <1>3 DEF End
<1>4. CASE ~Hear /\ (SpawnFails \/ Late \/ StartFails \/ TimedOut \/ Cancelled \/ ProtocolEnds)
  BY <1>3, <1>4 DEF SpawnFails, Late, StartFails, TimedOut, Cancelled, ProtocolEnds
<1>5. CASE ~Hear /\ (StartTermination \/ Interrupt)
  BY <1>1, <1>5, <1>b DEF StartTermination, Interrupt, Send
<1>6. CASE ~Hear /\ Reply
  <2>1. CASE handler.fatal \/ ~linked
    BY <1>3, <1>6, <2>1 DEF Reply
  <2>2. CASE linked /\ ~handler.fatal
    <3>1. handler.a \in Artifacts /\ handler.ok \in BOOLEAN
      BY <1>6 DEF Reply, TaskTypeOK
    <3>2. [type |-> "result", a |-> handler.a, ok |-> handler.ok] \in A
          /\ [type |-> "result", a |-> handler.a, ok |-> handler.ok].type # "start"
      BY <1>c, <3>1
    <3> QED BY <1>1, <1>6, <2>2, <3>2 DEF Reply, Send
  <2> QED BY <2>1, <2>2
<1>7. CASE ~Hear /\ HandleSystem
  BY <1>1, <1>3, <1>7 DEF HandleSystem
<1>8. CASE ~Hear /\ (Spawn \/ Termination \/ HandleRegister \/ Commit \/ HandleTerminal \/ Crash)
  BY <1>1, <1>8 DEF Spawn, Termination, HandleRegister, Commit, HandleTerminal, Crash
<1>9. CASE ~Hear /\ (SendInvalid \/ Disconnect \/ Exit \/ Fork \/ HolderExits \/ LooseExits \/ Expire \/ Cancel \/ UNCHANGED tvars)
  BY <1>1, <1>9 DEF SendInvalid, Disconnect, Exit, Fork, HolderExits, LooseExits, OsSide, Expire, Cancel, tvars
<1>10. ASSUME ~Hear, NEW a \in Artifacts, WriteFile(a) \/ RegisterFile(a)
       PROVE  i \in DOMAIN toChild /\ toChild[i].type = "start"
  BY <1>1, <1>10 DEF WriteFile, RegisterFile
<1>11. ASSUME ~Hear, NEW v \in Results, Finish(v) PROVE i \in DOMAIN toChild /\ toChild[i].type = "start"
  BY <1>1, <1>11 DEF Finish
<1> QED BY <1>2, <1>4, <1>5, <1>6, <1>7, <1>8, <1>9, <1>10, <1>11 DEF TaskNext, ParentStep, ChildStep

LEMMA NextStart ==
  ASSUME TaskTypeOK, StartOnce, [TaskNext]_tvars
  PROVE  StartOnce'
<1>1. ASSUME NEW i \in DOMAIN toChild', toChild'[i].type = "start" PROVE i = 1 /\ child' = "booting"
  <2>1. CASE Start
    <3>1. toChild = <<>> /\ toChild' = Append(<<>>, [type |-> "start"]) /\ child = "booting" /\ child' = child
      BY <2>1 DEF Start, Send, StartOnce, Alive, os
    <3>2. toChild' = <<[type |-> "start"]>>
      BY <3>1
    <3> QED BY <3>1, <3>2
  <2>2. CASE ~Start /\ Hear
    <3>1. i \in Nat /\ i >= 1 /\ i + 1 \in DOMAIN toChild /\ toChild[i + 1].type = "start"
      BY <1>1, <2>2, StartSources
    <3>2. i + 1 = 1
      BY <3>1 DEF StartOnce
    <3> QED BY <3>1, <3>2
  <2>3. CASE ~Start /\ ~Hear
    <3>1. i \in DOMAIN toChild /\ toChild[i].type = "start"
      BY <1>1, <2>3, StartSources
    <3>2. i = 1 /\ child = "booting"
      BY <3>1 DEF StartOnce
    <3>3. ~Exit
      BY <1>1 DEF Exit
    <3> QED BY <2>3, <3>2, <3>3, ChildMoves DEF Finish, Disconnect
  <2> QED BY <2>1, <2>2, <2>3
<1>2. ASSUME parent' \in {"spawning", "spawned"}
      PROVE  /\ toChild' = <<>> /\ toParent' = <<>> /\ handler' = Free
             /\ \A a \in Artifacts : write'[a] = "idle"
             /\ parent' = "spawning" => child' = "none"
             /\ parent' = "spawned" => child' \in {"booting", "exited"}
  <2>1. CASE Spawn
    BY <2>1 DEF Spawn, StartOnce, fn
  <2>2. CASE ~Spawn
    <3>1. parent' = parent /\ UNCHANGED <<toChild, toParent, handler, write>>
      BY <1>2, <2>2, BeforeStart
    <3>2. /\ toChild = <<>> /\ (parent = "spawning" => child = "none")
          /\ (parent = "spawned" => child \in {"booting", "exited"})
      BY <1>2, <3>1 DEF StartOnce
    <3> QED BY <1>2, <2>2, <3>1, <3>2, ChildMoves DEF StartOnce, Hear, Finish, Disconnect, Exit, Alive
  <2> QED BY <2>1, <2>2
<1>3. linked' => child' \in Alive
  BY ChildMoves DEF StartOnce, Spawn, Finish, Disconnect, Exit, Alive
<1> QED BY <1>1, <1>2, <1>3 DEF StartOnce

-----------------------------------------------------------------------------
(* The end of the attempt                                                   *)

\* a step ends the attempt, and then it is one of these, or lets it go on
LEMMA EndMoves ==
  ASSUME TaskTypeOK, [TaskNext]_tvars
  PROVE  \/ parent' = "ended" /\ outcome' = "lost"
         \/ ProtocolEnds
         \/ \E o \in {"timed_out", "cancelled", "died", "failed"} : End(o)
         \/ outcome' = outcome /\ (parent' = "ended" <=> parent = "ended") /\ (killed => killed')
<1>1. CASE SpawnFails \/ Late \/ StartFails \/ TimedOut \/ Cancelled
  BY <1>1 DEF SpawnFails, Late, StartFails, TimedOut, Cancelled
<1>2. CASE HandleSystem \/ Reply
  BY <1>2 DEF HandleSystem, Reply, side, os
<1>3. CASE Spawn \/ Start \/ Interrupt \/ HandleRegister \/ Commit \/ HandleTerminal
  BY <1>3 DEF Spawn, Start, Interrupt, HandleRegister, Commit, HandleTerminal, Handling, InUse, os
<1>4. CASE StartTermination \/ Termination
  BY <1>4 DEF StartTermination, Termination, InUse, os
<1>5. CASE Crash
  BY <1>5 DEF Crash
<1>6. CASE Hear \/ SendInvalid \/ Disconnect \/ Exit \/ Fork \/ HolderExits \/ LooseExits
  BY <1>6 DEF Hear, SendInvalid, Disconnect, Exit, Fork, HolderExits, LooseExits, OsSide, ChildSide, side, os
<1>7. CASE (\E v \in Results : Finish(v)) \/ \E a \in Artifacts : WriteFile(a) \/ RegisterFile(a)
  BY <1>7 DEF Finish, WriteFile, RegisterFile, ChildSide, side, os
<1>8. CASE Expire \/ Cancel \/ UNCHANGED tvars
  BY <1>8 DEF Expire, Cancel, tvars, side, os
<1> QED BY <1>1, <1>2, <1>3, <1>4, <1>5, <1>6, <1>7, <1>8 DEF TaskNext, ParentStep, ChildStep

\* what is gone stays gone once the attempt is past its spawn
LEMMA GoneStays ==
  ASSUME TaskTypeOK, StartOnce, [TaskNext]_tvars, Gone, parent # "spawning"
  PROVE  Gone' /\ (child = "exited" => child' = "exited")
<1>1. child \in {"none", "exited"} /\ child' = child
  BY ChildMoves DEF Gone, Spawn, Finish, Disconnect, Exit, Alive
<1>2. ~holder'
  <2>1. holder' = holder \/ Fork \/ HolderExits \/ LooseExits
    <3>1. CASE ParentStep \/ Crash \/ Expire \/ Cancel \/ UNCHANGED tvars
      <4>1. CASE SpawnFails \/ Late \/ StartFails \/ TimedOut \/ Cancelled \/ ProtocolEnds
        BY <4>1 DEF SpawnFails, Late, StartFails, TimedOut, Cancelled, ProtocolEnds, End
      <4>2. CASE Spawn \/ Start \/ StartTermination \/ Interrupt \/ Termination
        BY <4>2 DEF Spawn, Start, StartTermination, Interrupt, Termination, os
      <4>3. CASE HandleRegister \/ Commit \/ HandleTerminal \/ HandleSystem \/ Reply
        BY <4>3 DEF HandleRegister, Commit, HandleTerminal, HandleSystem, Reply, End, os
      <4>4. CASE Crash \/ Expire \/ Cancel \/ UNCHANGED tvars
        BY <4>4 DEF Crash, Expire, Cancel, tvars, os
      <4> QED BY <3>1, <4>1, <4>2, <4>3, <4>4 DEF ParentStep
    <3>2. CASE ChildStep
      BY <3>2 DEF ChildStep, Hear, SendInvalid, Disconnect, Exit, Finish, WriteFile, RegisterFile, os
    <3> QED BY <3>1, <3>2 DEF TaskNext
  <2> QED BY <1>1, <2>1 DEF Gone, Fork, HolderExits, LooseExits
<1> QED BY <1>1, <1>2 DEF Gone

LEMMA NextEnd ==
  ASSUME TaskInv, TaskTypeOK', [TaskNext]_tvars
  PROVE  Over' /\ CompletedIsWhole' /\ NoOrphan'
<1>0. TaskTypeOK /\ StartOnce /\ Claimed /\ Over /\ CompletedIsWhole /\ NoOrphan
  BY DEF TaskInv
<1>1. CASE parent' = "ended" /\ outcome' = "lost"
  BY <1>1 DEF Over, CompletedIsWhole, NoOrphan
<1>2. CASE ProtocolEnds
  <2>1. PICK o \in {"timed_out", "failed", "completed"} :
          End(o) /\ (o = "completed" => terminal = "completed")
    <3>1. terminal \in {"none", "completed", "failed"}
      BY <1>0 DEF TaskTypeOK, Results
    <3>2. CASE expired
      BY <1>2, <3>2 DEF ProtocolEnds
    <3>3. CASE ~expired /\ terminal = "none"
      BY <1>2, <3>3 DEF ProtocolEnds
    <3>4. CASE ~expired /\ terminal # "none"
      BY <1>2, <3>1, <3>4 DEF ProtocolEnds
    <3> QED BY <3>2, <3>3, <3>4
  <2>2. Closed /\ Gone /\ parent = "protocol"
    BY <1>2 DEF ProtocolEnds, Closed, Gone
  <2>3. child' = child /\ holder' = holder /\ ret' = ret /\ outcome' = o /\ parent' = "ended"
    BY <2>1 DEF End, fn
  <2> QED BY <1>0, <2>1, <2>2, <2>3 DEF Over, CompletedIsWhole, NoOrphan, Claimed, Returned, Closed, Gone
<1>3. ASSUME NEW o \in {"timed_out", "cancelled", "died", "failed"}, End(o)
      PROVE  Over' /\ CompletedIsWhole' /\ NoOrphan'
  <2>1. /\ child' = child /\ holder' = holder /\ outcome' = o /\ parent' = "ended"
        /\ killed' = (killed \/ ~Closed)
    BY <1>3 DEF End
  <2>2. Closed => Gone'
    BY <2>1 DEF Closed, Gone
  <2> QED BY <1>3, <2>1, <2>2 DEF Over, CompletedIsWhole, NoOrphan
<1>4. CASE outcome' = outcome /\ (parent' = "ended" <=> parent = "ended") /\ (killed => killed')
  <2>1. Over'
    BY <1>0, <1>4 DEF Over
  <2>2. CASE outcome \in {"none", "lost"}
    BY <1>4, <2>1, <2>2 DEF CompletedIsWhole, NoOrphan
  <2>3. CASE outcome \notin {"none", "lost"}
    <3>1. parent # "spawning"
      BY <1>0, <2>3 DEF Over
    <3>2. Gone => Gone' /\ (child = "exited" => child' = "exited")
      BY <1>0, <3>1, GoneStays
    <3>3. NoOrphan'
      BY <1>0, <1>4, <2>3, <3>2 DEF NoOrphan
    <3>4. CompletedIsWhole'
      <4>1. SUFFICES ASSUME outcome = "completed"
                     PROVE  ret' = "completed" /\ child' = "exited" /\ ~holder'
        BY <1>4 DEF CompletedIsWhole
      <4>2. Gone /\ child = "exited" /\ Returned
        BY <1>0, <4>1 DEF CompletedIsWhole, Gone, Returned
      <4>3. Gone' /\ child' = "exited" /\ Returned'
        BY <1>0, <3>2, <4>2, ReturnedStays
      <4> QED BY <4>3 DEF Gone, Returned
    <3> QED BY <2>1, <3>3, <3>4
  <2> QED BY <2>2, <2>3
<1> QED BY <1>0, <1>1, <1>2, <1>3, <1>4, EndMoves

-----------------------------------------------------------------------------
(* What is too late stays too late                                          *)

\* what the steps do to a registration and to the protocol's end
LEMMA HandMoves ==
  ASSUME TaskTypeOK, [TaskNext]_tvars
  PROVE  /\ expired => expired'
         /\ \/ UNCHANGED <<row, handler, terminal, parent>>
            \/ \E o : End(o)
            \/ Spawn \/ Start \/ StartTermination \/ Interrupt \/ Crash
            \/ HandleRegister \/ Commit \/ Reply \/ HandleTerminal
<1>1. CASE SpawnFails \/ Late \/ StartFails \/ TimedOut \/ Cancelled \/ ProtocolEnds
  BY <1>1 DEF SpawnFails, Late, StartFails, TimedOut, Cancelled, ProtocolEnds, End, signals
<1>2. CASE Spawn \/ Start \/ StartTermination \/ Interrupt \/ Crash
  BY <1>2 DEF Spawn, Start, StartTermination, Interrupt, Crash, signals
<1>3. CASE HandleRegister \/ Commit \/ Reply \/ HandleTerminal
  <2>1. UNCHANGED signals
    <3>1. CASE Reply
      BY <3>1 DEF Reply, End
    <3> QED BY <1>3, <3>1 DEF HandleRegister, Commit, HandleTerminal
  <2> QED BY <1>3, <2>1 DEF signals
<1>4. CASE Termination \/ HandleSystem
  BY <1>4 DEF Termination, HandleSystem, End, side, signals
<1>5. CASE ChildStep
  <2>1. UNCHANGED ChildSide
    <3>1. CASE Hear \/ SendInvalid \/ Disconnect \/ Exit
      BY <3>1 DEF Hear, SendInvalid, Disconnect, Exit
    <3>2. CASE Fork \/ HolderExits \/ LooseExits
      BY <3>2 DEF Fork, HolderExits, LooseExits, OsSide
    <3>3. CASE \/ \E v \in Results : Finish(v)
              \/ \E a \in Artifacts : WriteFile(a) \/ RegisterFile(a)
      BY <3>3 DEF Finish, WriteFile, RegisterFile
    <3> QED BY <1>5, <3>1, <3>2, <3>3 DEF ChildStep
  <2> QED BY <2>1 DEF ChildSide, side, signals
<1>6. CASE Expire \/ Cancel \/ UNCHANGED tvars
  BY <1>6 DEF Expire, Cancel, tvars, side, signals
<1> QED BY <1>1, <1>2, <1>3, <1>4, <1>5, <1>6 DEF TaskNext, ParentStep

\* the handler takes a registration to the store in time only
LEMMA HandTakes ==
  ASSUME TaskTypeOK, [TaskNext]_tvars, handler' # Free, handler'.stage = "commit"
  PROVE  handler' = handler \/ (HandleRegister /\ ~Refuses)
<1>1. ASSUME NEW o, End(o) PROVE FALSE
  BY <1>1 DEF End
<1>2. CASE Spawn \/ Start \/ StartTermination \/ Interrupt \/ Crash \/ HandleTerminal
  BY <1>2 DEF Spawn, Start, StartTermination, Interrupt, Crash, HandleTerminal
<1>3. CASE Commit \/ Reply
  BY <1>1, <1>3 DEF Commit, Reply, Answering
<1>4. CASE HandleRegister
  BY <1>4 DEF HandleRegister, Answering
<1> QED BY <1>1, <1>2, <1>3, <1>4, HandMoves

\* only the store's transaction adds a row
LEMMA RowSources ==
  ASSUME TaskTypeOK, [TaskNext]_tvars, ~Commit
  PROVE  row' = row
BY HandMoves DEF End, Spawn, Start, StartTermination, Interrupt, Crash, HandleRegister, Reply, HandleTerminal

\* an accepted result, an interruption and the end are there to stay
LEMMA StopStays ==
  ASSUME TaskTypeOK, [TaskNext]_tvars
  PROVE  /\ terminal # "none" => terminal' # "none"
         /\ parent \in {"interrupted", "ended"} => parent' \in {"interrupted", "ended"}
<1>1. CASE \E o : End(o)
  BY <1>1 DEF End
<1>2. CASE Spawn \/ Start \/ StartTermination \/ Interrupt \/ Crash
  BY <1>2 DEF Spawn, Start, StartTermination, Interrupt, Crash, InUse
<1>3. CASE HandleRegister \/ Commit \/ HandleTerminal
  BY <1>3 DEF HandleRegister, Commit, HandleTerminal, Handling, Accept, Refuses
<1>4. CASE Reply
  BY <1>1, <1>4 DEF Reply
<1> QED BY <1>1, <1>2, <1>3, <1>4, HandMoves

\* steps after which the handler does not hold the same registration for the store
LEMMA HandChanges ==
  ASSUME handler' = handler, handler' # Free, handler'.stage = "commit"
  PROVE  ~(\E o : End(o)) /\ ~Crash /\ ~Interrupt /\ ~Commit /\ ~Reply /\ ~HandleTerminal
         /\ ~HandleRegister
BY DEF HandleRegister, End, Crash, Interrupt, Commit, Answering, Reply, HandleTerminal, Handling

LEMMA NextAtWork ==
  ASSUME TaskTypeOK, StartOnce, AtWork, [TaskNext]_tvars
  PROVE  AtWork'
<1> SUFFICES ASSUME handler' # Free, handler'.stage = "commit"
             PROVE  terminal' = "none" /\ parent' \in InUse
  BY DEF AtWork
<1>1. CASE HandleRegister /\ ~Refuses
  BY <1>1 DEF HandleRegister, Handling, Refuses
<1>2. CASE handler' = handler
  <2>1. terminal = "none" /\ parent \in InUse /\ parent \notin {"spawning", "spawned"}
    BY <1>2 DEF AtWork, StartOnce
  <2>2. ~(\E o : End(o)) /\ ~Crash /\ ~Interrupt /\ ~Commit /\ ~Reply /\ ~HandleTerminal
        /\ ~HandleRegister
    BY <1>2, HandChanges
  <2> QED BY <2>1, <2>2, <1>2, HandMoves DEF Spawn, Start, StartTermination, InUse
<1> QED BY <1>1, <1>2, HandTakes

-----------------------------------------------------------------------------
(* The theorems                                                             *)

LEMMA TaskInvariant == TaskSpec => []TaskInv
<1>1. TaskInit => TaskInv
  BY TaskInitInv
<1>2. TaskInv /\ [TaskNext]_tvars => TaskInv'
  <2> SUFFICES ASSUME TaskInv, [TaskNext]_tvars PROVE TaskInv'
    OBVIOUS
  <2>1. TaskTypeOK /\ Registrations /\ StartOnce /\ Claimed
    BY DEF TaskInv
  <2>2. TaskTypeOK'
    BY <2>1, NextType
  <2>3. Registrations' /\ StartOnce' /\ Claimed' /\ AtWork'
    BY <2>1, <2>2, NextRegistrations, NextStart, NextClaimed, NextAtWork DEF TaskInv
  <2>4. Over' /\ CompletedIsWhole' /\ NoOrphan'
    BY <2>2, NextEnd
  <2> QED BY <2>2, <2>3, <2>4 DEF TaskInv
<1> QED BY <1>1, <1>2, PTL DEF TaskSpec

\* For any number of artifacts: a registered artifact has its file and its writer is
\* told only what the store made of it, a completed attempt is that of a function that
\* returned, and no attempt ends with a process of its own unseen (runTaskProcess,
\* handleArtifactRegistration and the child of task-process-entry.ts).
THEOREM TaskAgrees == TaskSpec => []TaskConsistent
<1>1. TaskInv => TaskConsistent
  <2> SUFFICES ASSUME TaskInv PROVE TaskConsistent
    OBVIOUS
  <2>1. ArtifactsAgree
    BY DEF TaskInv, Registrations, Rows, ArtifactsAgree
  <2> QED BY <2>1 DEF TaskInv, TaskConsistent
<1> QED BY <1>1, TaskInvariant, PTL

\* For any number of artifacts: once it is too late for one that is not registered it
\* is too late for ever, although the deadline may pass while the store is at work on it
\* and messages of the child wait to be handled (runTaskProtocol,
\* handleArtifactRegistration).
THEOREM NoLateRegistration == TaskSpec => NoLateArtifact
<1>1. ASSUME TaskInv, [TaskNext]_tvars, NEW a \in Artifacts, TooLate(a)
      PROVE  TooLate(a)'
  <2>0. TaskTypeOK /\ AtWork /\ Over
    BY <1>1 DEF TaskInv
  <2>1. ~row'[a]
    <3>1. CASE Commit
      <4>1. handler.a # a
        BY <1>1, <2>0, <3>1 DEF Commit, AtWork, TooLate, InHand, InUse
      <4> QED BY <1>1, <2>0, <3>1, <4>1 DEF Commit, TooLate, TaskTypeOK
    <3>2. CASE ~Commit
      BY <1>1, <2>0, <3>2, RowSources DEF TooLate
    <3> QED BY <3>1, <3>2
  <2>2. CASE parent \in {"interrupted", "ended"}
    <3>1. parent' \in {"interrupted", "ended"}
      BY <1>1, <2>0, <2>2, StopStays
    <3> QED BY <2>1, <3>1 DEF TooLate
  <2>3. CASE terminal # "none"
    <3>1. terminal' # "none"
      BY <1>1, <2>0, <2>3, StopStays
    <3> QED BY <2>1, <3>1 DEF TooLate
  <2>4. CASE expired /\ ~InHand(a)
    <3>1. expired' /\ ~InHand(a)'
      BY <1>1, <2>0, <2>4, HandMoves, HandTakes DEF Refuses, InHand
    <3> QED BY <2>1, <3>1 DEF TooLate
  <2> QED BY <1>1, <2>2, <2>3, <2>4 DEF TooLate
<1>2. TaskInv /\ [TaskNext]_tvars => [\A a \in Artifacts : TooLate(a) => TooLate(a)']_tvars
  BY <1>1
<1> QED BY <1>2, TaskInvariant, PTL DEF TaskSpec, NoLateArtifact

=============================================================================
