---------------------------- MODULE HarnessProofs ----------------------------
(***************************************************************************)
(* Proofs about Harness for any tasks, launchers, keys and number of gated *)
(* calls.                                                                  *)
(***************************************************************************)
EXTENDS Harness, FiniteSetTheorems, TLAPS

-----------------------------------------------------------------------------
(* The inductive invariant.                                                *)

Queued == {t \in Task : task[t] = "queued"}

\* A call received was made, and so was every call that is queued.
CallsAreMade ==
    /\ IsFiniteSet(Queued)
    /\ calls + Cardinality(Queued) <= traps /\ traps <= MaxTraps

Unanswered == \A how \in {"CONTINUE", "EPERM"} : <<calls, how>> \notin outcome
Unchosen   == \A k \in Decision : <<calls, k>> \notin chosen

\* The call being handled is the last one received: it has no answer yet, and
\* the key about to be sent was pressed for it, or allow_all stands for it.
HandledIsOwed ==
    pc \in Handling =>
        /\ calls > 0 /\ Unanswered
        /\ pc = "wave" => calls \notin asked
        /\ pc = "ask" => calls \in asked /\ Unchosen
        /\ pc = "send" => IF calls \in asked THEN <<calls, key>> \in chosen ELSE key = "y"

HInv == IInv /\ CallsAreMade /\ HandledIsOwed

LEMMA InitHInv == Init => HInv
<1> SUFFICES ASSUME Init PROVE HInv
  OBVIOUS
<1>1. Queued = {}
  BY DEF Init, Queued
<1>2. IsFiniteSet(Queued) /\ Cardinality(Queued) = 0
  BY <1>1, FS_EmptySet
<1>3. CallsAreMade
  BY <1>2, TrapsAssumption DEF CallsAreMade, Init
<1>4. TypeOK
  BY LauncherAssumption, TaskAssumption
     DEF Init, TypeOK, HandingOver, Decision
<1> QED
  BY <1>3, <1>4 DEF Init, HInv, IInv, HeldIsHandled, HandledIsOwed, Handling

-----------------------------------------------------------------------------
(* The queue.                                                              *)

\* What is left of the queue is no more than it was.
LEMMA FewerQueued ==
    ASSUME TypeOK, CallsAreMade, Queued' \subseteq Queued, UNCHANGED <<calls, traps>>
    PROVE  CallsAreMade'
<1>1. IsFiniteSet(Queued') /\ Cardinality(Queued') <= Cardinality(Queued)
  BY FS_Subset DEF CallsAreMade
<1>2. Cardinality(Queued) \in Nat /\ Cardinality(Queued') \in Nat
  BY <1>1, FS_CardinalityType DEF CallsAreMade
<1> QED
  BY <1>1, <1>2, TrapsAssumption DEF CallsAreMade, TypeOK

-----------------------------------------------------------------------------
(* Types.                                                                  *)

TaskStates == {"none", "run", "queued", "held", "dead"}

\* The wake-up a queued call leaves behind when t gives it up.
WakeUp(t) == Cardinality({u \in {t} : task[u] = "queued"})

LEMMA WakeUpType == ASSUME NEW t PROVE WakeUp(t) \in Nat
<1>1. IsFiniteSet({t})
  BY FS_Singleton
<1>2. IsFiniteSet({u \in {t} : task[u] = "queued"})
  BY <1>1, FS_Subset
<1> QED
  BY <1>2, FS_CardinalityType DEF WakeUp

LEMMA GoneType ==
    ASSUME TypeOK, NEW t \in Task, Gone({t})
    PROVE  /\ task' \in [Task -> TaskStates] /\ stale' \in Nat
           /\ ends' \subseteq {"launcher", "child"}
           /\ \A u \in Task : task'[u] = task[u] \/ task'[u] = "dead"
           /\ UNCHANGED <<by, stage, inFlight, quiet, traps>>
<1>1. stale' = stale + WakeUp(t)
  BY Zenon DEF Gone, WakeUp
<1>2. stale' \in Nat
  BY <1>1, WakeUpType DEF TypeOK
<1> QED
  BY <1>2 DEF Gone, TypeOK, TaskStates

LEMMA InterruptType ==
    ASSUME TypeOK, NEW t \in Task, Interrupt(t)
    PROVE  stale' \in Nat
<1>1. stale' = stale + WakeUp(t)
  BY Zenon DEF Interrupt, WakeUp
<1> QED
  BY <1>1, WakeUpType DEF TypeOK

\* Steps outside the handling of calls change these variables alone.
LEMMA FrameType ==
    ASSUME TypeOK, UNCHANGED <<by, quiet, traps, loop>>,
           pc' \in HandingOver \cup Handling \cup Ended \cup {"loop", "kill", "wait"},
           stage' \in {"start", "filtered", "sent", "ready", "run"},
           ends' \subseteq {"launcher", "child"}, inFlight' \in BOOLEAN,
           task' \in [Task -> TaskStates], stale' \in Nat
    PROVE  TypeOK'
<1>1. UNCHANGED <<by, quiet, traps, cur, calls, allow_all, key, asked, chosen, outcome>>
  BY DEF loop, history
<1> QED
  BY <1>1 DEF TypeOK, TaskStates

LEMMA TypeStep == HInv /\ [Next]_vars => TypeOK'
<1> SUFFICES ASSUME HInv, [Next]_vars PROVE TypeOK'
  OBVIOUS
<1>0. TypeOK
  BY DEF HInv, IInv
<1>h. ASSUME pc \in Handling
      PROVE  cur \in Task /\ calls \in 1 .. calls /\ calls > 0
  BY <1>0, <1>h DEF HInv, IInv, HandledIsOwed, TypeOK
<1>g. ASSUME NEW t \in Task, Gone({t})
      PROVE  /\ task' \in [Task -> TaskStates] /\ stale' \in Nat
             /\ ends' \subseteq {"launcher", "child"}
             /\ UNCHANGED <<by, stage, inFlight, quiet, traps>>
  BY <1>0, <1>g, GoneType
<1>i. ASSUME NEW t \in Task, Interrupt(t) PROVE stale' \in Nat
  BY <1>0, <1>i, InterruptType
<1> USE <1>0 DEF TypeOK, HandingOver, Handling, Ended, Decision, TaskStates,
                 socket, calling, history, loop
<1>1. CASE Install \/ SendFd \/ CloseFds \/ Exec
  <2>1. stage' \in {"filtered", "sent", "ready", "run"} /\ UNCHANGED <<by, pc, calling, loop>>
    BY <1>1 DEF Install, SendFd, CloseFds, Exec, InChild
  <2>2. ends' \subseteq ends /\ inFlight' \in {inFlight, TRUE}
    BY <1>1 DEF Install, SendFd, CloseFds, Exec, InChild
  <2> QED
    BY <2>1, <2>2, FrameType
<1>2. CASE CloseEnd \/ RecvFd \/ Reap
  <2>1. /\ pc' \in {"recvfd", "up", "loop", "wait", "giveup", "failed"}
        /\ ends' \subseteq ends /\ inFlight' \in {inFlight, FALSE}
    BY <1>2 DEF CloseEnd, RecvFd, Reap
  <2>2. UNCHANGED <<by, stage, task, quiet, stale, traps, loop>>
    BY <1>2 DEF CloseEnd, RecvFd, Reap
  <2> QED
    BY <2>1, <2>2, FrameType
<1>3. CASE ChildFails \/ GiveUp \/ KillChild
  <2>1. Gone({Child}) /\ pc' \in {pc, "reap", "failed", "wait"} /\ UNCHANGED loop
    BY <1>3 DEF ChildFails, GiveUp, KillChild
  <2>2. /\ task' \in [Task -> TaskStates] /\ stale' \in Nat
        /\ ends' \subseteq {"launcher", "child"}
        /\ UNCHANGED <<by, stage, inFlight, quiet, traps>>
    BY <1>g, <2>1, TaskAssumption
  <2> QED
    BY <2>1, <2>2, FrameType
<1>4. ASSUME NEW t \in Task, Receive(t) PROVE TypeOK'
  <2>1. calls' \in Nat /\ 1 .. calls \subseteq 1 .. calls' /\ calls' \in 1 .. calls'
    BY <1>4 DEF Receive
  <2>2. /\ asked' \subseteq 1 .. calls'
        /\ chosen' \subseteq (1 .. calls') \X Decision
        /\ outcome' \subseteq (1 .. calls') \X {"CONTINUE", "EPERM"}
    BY <1>4, <2>1 DEF Receive
  <2> QED
    BY <1>4, <2>1, <2>2 DEF Receive
<1>5. CASE EndLoop
  BY <1>5, FrameType DEF EndLoop
<1>6. ASSUME NEW how \in {"CONTINUE", "EPERM"}, Reply(how), pc \in Handling
      PROVE  /\ task' \in [Task -> TaskStates]
             /\ outcome' \subseteq (1 .. calls) \X {"CONTINUE", "EPERM"}
  BY <1>6, <1>h DEF Reply
<1>7. CASE Wave
  BY <1>6, <1>7 DEF Wave
<1>8. CASE Send
  BY <1>6, <1>8 DEF Send
<1>9. CASE ReadKey
  <2>1. key' \in Decision
    BY <1>9, KeysAssumption DEF ReadKey
  <2>2. chosen' \subseteq (1 .. calls) \X Decision
    BY <1>9, <1>h, <2>1 DEF ReadKey
  <2> QED
    BY <1>9, <2>1, <2>2 DEF ReadKey
<1>10. CASE Finish
  BY <1>10 DEF Finish
<1>11. ASSUME NEW t \in Task, Trap(t) PROVE TypeOK'
  BY <1>11 DEF Trap
<1>12. ASSUME NEW t \in Task, NEW u \in Task, Fork(t, u) PROVE TypeOK'
  BY <1>12 DEF Fork
<1>13. ASSUME NEW t \in Task, Die(t) PROVE TypeOK'
  BY <1>13, <1>g DEF Die
<1>14. ASSUME NEW t \in Task, Interrupt(t) PROVE TypeOK'
  <2>1. task' \in [Task -> TaskStates] /\ stale' \in Nat
    BY <1>14, <1>i DEF Interrupt
  <2>2. UNCHANGED <<by, pc, socket, quiet, traps, loop>>
    BY <1>14 DEF Interrupt
  <2> QED
    BY <2>1, <2>2, FrameType
<1>15. CASE UNCHANGED vars
  BY <1>15 DEF vars
<1> QED
  BY <1>1, <1>2, <1>3, <1>4, <1>5, <1>7, <1>8, <1>9, <1>10, <1>11, <1>12, <1>13, <1>14, <1>15
     DEF Next, ChildStep, LauncherStep

-----------------------------------------------------------------------------
(* The invariant, step by step.                                            *)

\* Steps that receive nothing and answer nothing, and queue nothing.
LEMMA Aside ==
    ASSUME HInv, TypeOK', UNCHANGED <<loop, traps>>,
           pc' = pc \/ (pc \notin Handling /\ pc' \notin Handling),
           \A t \in Task : task'[t] \in {"held", "queued"} => task'[t] = task[t]
    PROVE  HInv'
<1>1. CallsAreMade'
  <2>1. Queued' \subseteq Queued /\ UNCHANGED calls
    BY DEF Queued, loop
  <2> QED
    BY <2>1, FewerQueued DEF HInv, IInv
<1>2. HeldIsHandled' /\ (cur' # NoTask <=> pc' \in Handling)
  BY DEF HInv, IInv, HeldIsHandled, loop
<1>3. HandledIsOwed'
  BY DEF HInv, HandledIsOwed, loop, history, Handling, Unanswered, Unchosen
<1> QED
  BY <1>1, <1>2, <1>3 DEF HInv, IInv

\* The answer frees the caller that is being handled.
LEMMA ReplyKeeps ==
    ASSUME HInv, TypeOK', pc \in Handling, pc' \notin Handling, cur' = NoTask,
           NEW how, Reply(how), UNCHANGED <<calls, traps, asked, chosen>>
    PROVE  HInv'
<1>1. \A t \in Task : /\ task'[t] \in {"held", "queued"} => task'[t] = task[t]
                      /\ task'[t] = "held" => t # cur
  BY DEF Reply, HInv, IInv, HeldIsHandled, TypeOK
<1>2. CallsAreMade'
  <2>1. Queued' \subseteq Queued
    <3> SUFFICES ASSUME NEW t \in Task, task'[t] = "queued" PROVE task[t] = "queued"
      BY DEF Queued
    <3> QED
      BY <1>1
  <2> QED
    BY <2>1, FewerQueued DEF HInv, IInv
<1>3. HeldIsHandled' /\ (cur' # NoTask <=> pc' \in Handling)
  <2>1. ASSUME NEW t \in Task, task'[t] = "held" PROVE FALSE
    BY <1>1, <2>1 DEF HInv, IInv, HeldIsHandled
  <2> QED
    BY <2>1 DEF HeldIsHandled
<1>4. HandledIsOwed'
  BY DEF HandledIsOwed
<1> QED
  BY <1>2, <1>3, <1>4 DEF HInv, IInv

\* A call that is received leaves the queue and has no history.
LEMMA ReceiveKeeps ==
    ASSUME HInv, TypeOK', NEW t \in Task, Receive(t)
    PROVE  HInv'
<1>1. /\ pc = "loop" /\ task[t] = "queued" /\ task' = [task EXCEPT ![t] = "held"]
      /\ cur' = t /\ calls' = calls + 1 /\ UNCHANGED <<traps, chosen, outcome>>
      /\ \/ pc' = "wave" /\ asked' = asked
         \/ pc' = "send" /\ asked' = asked /\ key' = "y"
         \/ pc' = "ask" /\ asked' = asked \cup {calls'}
  BY DEF Receive
<1>0. TypeOK
  BY DEF HInv, IInv
<1>2. CallsAreMade'
  <2>1. Queued' = Queued \ {t} /\ t \in Queued
    BY <1>0, <1>1 DEF Queued, TypeOK
  <2>2. IsFiniteSet(Queued)
    BY DEF HInv, CallsAreMade
  <2>3. IsFiniteSet(Queued') /\ Cardinality(Queued') = Cardinality(Queued) - 1
    BY <2>1, <2>2, FS_RemoveElement
  <2>4. Cardinality(Queued) \in Nat
    BY <2>2, FS_CardinalityType
  <2> QED
    BY <1>0, <1>1, <2>3, <2>4, TrapsAssumption DEF HInv, CallsAreMade, TypeOK
<1>3. HeldIsHandled' /\ (cur' # NoTask <=> pc' \in Handling)
  BY <1>0, <1>1, TaskAssumption DEF HInv, IInv, HeldIsHandled, Handling, TypeOK
<1>4. calls' > 0 /\ calls' \notin 1 .. calls
  BY <1>0, <1>1 DEF TypeOK
<1>5. Unanswered' /\ Unchosen' /\ calls' \notin asked
  <2>1. \A how : <<calls', how>> \notin outcome
    BY <1>0, <1>4 DEF TypeOK
  <2>2. \A k : <<calls', k>> \notin chosen
    BY <1>0, <1>4 DEF TypeOK
  <2> QED
    BY <1>0, <1>1, <1>4, <2>1, <2>2 DEF Unanswered, Unchosen, TypeOK
<1>6. HandledIsOwed'
  BY <1>1, <1>4, <1>5 DEF HandledIsOwed
<1> QED
  BY <1>2, <1>3, <1>6 DEF HInv, IInv

\* A call that is made joins the queue.
LEMMA TrapKeeps ==
    ASSUME HInv, TypeOK', NEW t \in Task, Trap(t)
    PROVE  HInv'
<1>1. /\ task[t] = "run" /\ task' = [task EXCEPT ![t] = "queued"]
      /\ traps < MaxTraps /\ traps' = traps + 1 /\ UNCHANGED <<pc, loop>>
  BY DEF Trap, Running
<1>0. TypeOK
  BY DEF HInv, IInv
<1>2. CallsAreMade'
  <2>1. Queued' = Queued \cup {t} /\ t \notin Queued
    BY <1>0, <1>1 DEF Queued, TypeOK
  <2>2. IsFiniteSet(Queued)
    BY DEF HInv, CallsAreMade
  <2>3. IsFiniteSet(Queued') /\ Cardinality(Queued') = Cardinality(Queued) + 1
    BY <2>1, <2>2, FS_AddElement
  <2>4. Cardinality(Queued) \in Nat
    BY <2>2, FS_CardinalityType
  <2> QED
    BY <1>0, <1>1, <2>3, <2>4, TrapsAssumption DEF HInv, CallsAreMade, TypeOK, loop
<1>3. HeldIsHandled' /\ (cur' # NoTask <=> pc' \in Handling)
  BY <1>0, <1>1 DEF HInv, IInv, HeldIsHandled, TypeOK, loop
<1>4. HandledIsOwed'
  BY <1>1 DEF HInv, HandledIsOwed, loop, history, Unanswered, Unchosen
<1> QED
  BY <1>2, <1>3, <1>4 DEF HInv, IInv

\* A key is read for the call on the screen.
LEMMA ReadKeyKeeps == HInv /\ TypeOK' /\ ReadKey => HInv'
<1> SUFFICES ASSUME HInv, TypeOK', ReadKey PROVE HInv'
  OBVIOUS
<1>1. /\ pc = "ask" /\ pc' = "send" /\ chosen' = chosen \cup {<<calls, key'>>}
      /\ UNCHANGED <<task, cur, calls, asked, outcome, traps>>
  BY DEF ReadKey, calling
<1>2. CallsAreMade'
  <2>1. Queued' \subseteq Queued
    BY <1>1 DEF Queued
  <2> QED
    BY <1>1, <2>1, FewerQueued DEF HInv, IInv
<1>3. HeldIsHandled' /\ (cur' # NoTask <=> pc' \in Handling)
  BY <1>1 DEF HInv, IInv, HeldIsHandled, Handling
<1>4. HandledIsOwed'
  BY <1>1 DEF HInv, HandledIsOwed, Handling, Unanswered
<1> QED
  BY <1>2, <1>3, <1>4 DEF HInv, IInv

LEMMA HInvStep == HInv /\ [Next]_vars => HInv'
<1> SUFFICES ASSUME HInv, [Next]_vars PROVE HInv'
  OBVIOUS
<1>t. TypeOK'
  BY TypeStep
<1>0. TypeOK
  BY DEF HInv, IInv
<1>g. ASSUME NEW t \in Task, Gone({t}), UNCHANGED loop,
             pc' = pc \/ (pc \notin Handling /\ pc' \notin Handling)
      PROVE  HInv'
  <2>1. \A u \in Task : task'[u] = task[u] \/ task'[u] = "dead"
    BY <1>g DEF Gone
  <2>2. UNCHANGED <<loop, traps>>
    BY <1>g DEF Gone
  <2> QED
    BY <1>t, <1>g, <2>1, <2>2, Aside
<1> USE DEF Handling, socket, calling
<1>1. CASE Install \/ SendFd \/ CloseFds \/ Exec
  BY <1>t, <1>1, Aside DEF Install, SendFd, CloseFds, Exec, InChild
<1>2. CASE CloseEnd \/ RecvFd \/ Reap \/ EndLoop
  BY <1>t, <1>2, Aside DEF CloseEnd, RecvFd, Reap, EndLoop
<1>3. CASE ChildFails \/ GiveUp \/ KillChild
  BY <1>3, <1>g, TaskAssumption DEF ChildFails, GiveUp, KillChild
<1>4. ASSUME NEW t \in Task, Receive(t) PROVE HInv'
  BY <1>t, <1>4, ReceiveKeeps
<1>5. CASE Wave
  BY <1>t, <1>5, ReplyKeeps DEF Wave
<1>6. CASE Send
  BY <1>t, <1>6, ReplyKeeps DEF Send
<1>7. CASE ReadKey
  BY <1>t, <1>7, ReadKeyKeeps
<1>8. CASE Finish
  BY <1>0, <1>t, <1>8, Aside DEF Finish, TypeOK
<1>9. ASSUME NEW t \in Task, Trap(t) PROVE HInv'
  BY <1>t, <1>9, TrapKeeps
<1>10. ASSUME NEW t \in Task, NEW u \in Task, Fork(t, u) PROVE HInv'
  BY <1>0, <1>t, <1>10, Aside DEF Fork, TypeOK
<1>11. ASSUME NEW t \in Task, Die(t) PROVE HInv'
  BY <1>11, <1>g DEF Die
<1>12. ASSUME NEW t \in Task, Interrupt(t) PROVE HInv'
  BY <1>0, <1>t, <1>12, Aside DEF Interrupt, TypeOK
<1>13. CASE UNCHANGED vars
  BY <1>t, <1>13, Aside DEF vars, loop, history
<1> QED
  BY <1>1, <1>2, <1>3, <1>4, <1>5, <1>6, <1>7, <1>8, <1>9, <1>10, <1>11, <1>12, <1>13
     DEF Next, ChildStep, LauncherStep

\* No received call is left frozen while the launcher does something else.
THEOREM HeldAreHandled == Spec => []IInv
<1>1. HInv => IInv
  BY DEF HInv
<1> QED
  BY <1>1, InitHInv, HInvStep, PTL DEF Spec

-----------------------------------------------------------------------------
(* The refinement.                                                         *)

LEMMA GateInit == Init => Gate!Init
BY DEF Init, Gate!Init

\* The call being handled, as the gate sees it.
LEMMA HandledIsAsked ==
    ASSUME HInv, pc \in Handling
    PROVE  /\ calls \in 1 .. MaxTraps /\ ~Gate!Answered(calls)
           /\ pc = "wave" => calls \in (1 .. calls) \ asked
           /\ pc = "ask" => calls \in asked /\ ~Gate!Chosen(calls)
           /\ pc = "send" => \/ calls \in asked /\ <<calls, key>> \in chosen
                             \/ calls \in (1 .. calls) \ asked /\ key = "y"
<1>1. calls \in Nat /\ traps \in Nat /\ Cardinality(Queued) \in Nat
  BY FS_CardinalityType DEF HInv, IInv, TypeOK, CallsAreMade
<1>2. calls > 0 /\ calls <= MaxTraps
  BY <1>1, TrapsAssumption DEF HInv, HandledIsOwed, CallsAreMade
<1>3. calls \in 1 .. MaxTraps /\ calls \in 1 .. calls
  BY <1>1, <1>2, TrapsAssumption
<1>4. ~Gate!Answered(calls)
  BY DEF HInv, HandledIsOwed, Unanswered, Gate!Answered
<1>5. pc = "ask" => calls \in asked /\ ~Gate!Chosen(calls)
  BY DEF HInv, HandledIsOwed, Unchosen, Gate!Chosen
<1> QED
  BY <1>3, <1>4, <1>5 DEF HInv, HandledIsOwed

LEMMA GateStep == HInv /\ [Next]_vars => [Gate!Next]_(Gate!vars)
<1> SUFFICES ASSUME HInv, [Next]_vars PROVE [Gate!Next]_(Gate!vars)
  OBVIOUS
<1>0. TypeOK
  BY DEF HInv, IInv
<1> USE DEF loop, history, Gate!vars
<1>1. CASE Install \/ SendFd \/ CloseFds \/ Exec
  BY <1>1 DEF Install, SendFd, CloseFds, Exec, InChild
<1>2. CASE CloseEnd \/ RecvFd \/ Reap \/ EndLoop
  BY <1>2 DEF CloseEnd, RecvFd, Reap, EndLoop
<1>3. CASE ChildFails \/ GiveUp \/ KillChild
  BY <1>3 DEF ChildFails, GiveUp, KillChild
<1>4. ASSUME NEW t \in Task, Trap(t) \/ Die(t) \/ Interrupt(t)
      PROVE  UNCHANGED Gate!vars
  BY <1>4 DEF Trap, Die, Interrupt
<1>5. ASSUME NEW t \in Task, NEW u \in Task, Fork(t, u) PROVE UNCHANGED Gate!vars
  BY <1>5 DEF Fork
<1>6. CASE UNCHANGED vars
  BY <1>6 DEF vars
<1>7. CASE Finish
  BY <1>7 DEF Finish, Gate!Next, Gate!Close
<1>8. ASSUME NEW t \in Task, Receive(t) PROVE Gate!Next
  <2>1. /\ pc = "loop" /\ calls' = calls + 1 /\ UNCHANGED <<chosen, outcome>>
        /\ pc' \in {"wave", "send", "ask"}
        /\ asked' = IF pc' = "ask" THEN asked \cup {calls'} ELSE asked
    BY <1>8 DEF Receive
  <2>2. calls \in Nat /\ asked \subseteq 1 .. calls
    BY <1>0 DEF TypeOK
  <2>3. 1 .. calls' = (1 .. calls) \cup {calls'} /\ calls' \notin 1 .. calls
    BY <2>1, <2>2
  <2>4. calls' \in 1 .. MaxTraps
    <3>1. t \in Queued
      BY <1>8 DEF Receive, Queued
    <3>2. IsFiniteSet(Queued) /\ Queued # {}
      BY <3>1 DEF HInv, CallsAreMade
    <3>3. Cardinality(Queued) \in Nat /\ Cardinality(Queued) # 0
      BY <3>2, FS_EmptySet, FS_CardinalityType
    <3> QED
      BY <1>0, <2>1, <3>3, TrapsAssumption DEF HInv, CallsAreMade, TypeOK
  <2>5. CASE pc' = "ask"
    <3>1. Gate!Ask(calls')
      BY <2>1, <2>2, <2>3, <2>5 DEF Gate!Ask
    <3> QED
      BY <2>4, <3>1 DEF Gate!Next
  <2>6. CASE pc' # "ask"
    <3>1. Gate!Wave(calls')
      BY <2>1, <2>2, <2>3, <2>6 DEF Gate!Wave
    <3> QED
      BY <2>4, <3>1 DEF Gate!Next
  <2> QED
    BY <2>5, <2>6
<1>9. ASSUME pc \in Handling, NEW how, Reply(how), UNCHANGED <<calls, asked, chosen>>,
             pc' # "done", Gate!Pass(calls) \/ Gate!Refuse(calls) \/ UNCHANGED outcome
      PROVE  [Gate!Next]_(Gate!vars)
  <2>1. calls \in 1 .. MaxTraps
    BY <1>9, HandledIsAsked
  <2>2. CASE UNCHANGED outcome
    BY <1>9, <2>2 DEF Handling
  <2> QED
    BY <1>9, <2>1, <2>2 DEF Gate!Next
<1>10. CASE Wave
  <2>1. /\ pc = "wave" /\ pc' = "loop" /\ Reply("CONTINUE")
        /\ UNCHANGED <<calls, asked, chosen>>
    BY <1>10 DEF Wave
  <2>2. ~Gate!Answered(calls) /\ calls \in (1 .. calls) \ asked
    BY <2>1, HandledIsAsked DEF Handling
  <2>3. Gate!Pass(calls) \/ UNCHANGED outcome
    BY <2>1, <2>2 DEF Gate!Pass, Reply
  <2> QED
    BY <1>9, <2>1, <2>3 DEF Handling
<1>11. CASE Send
  <2>1. /\ pc = "send" /\ pc' \in {"kill", "loop"}
        /\ Reply(IF IsRefused(key) THEN "EPERM" ELSE "CONTINUE")
        /\ UNCHANGED <<calls, asked, chosen>>
    BY <1>11 DEF Send
  <2>2. /\ ~Gate!Answered(calls)
        /\ \/ calls \in asked /\ <<calls, key>> \in chosen
           \/ calls \in (1 .. calls) \ asked /\ key = "y"
    BY <2>1, HandledIsAsked DEF Handling
  <2>3. key \in Decision
    BY <1>0 DEF TypeOK
  <2>4. CASE IsRefused(key)
    <3>1. key \in Refusals /\ key \in Decision \ (Decision \ Refusals) /\ key # "y"
      BY <2>3, <2>4 DEF IsRefused, Refusals
    <3>2. Gate!Refuse(calls) \/ UNCHANGED outcome
      BY <2>1, <2>2, <2>4, <3>1 DEF Gate!Refuse, Reply
    <3> QED
      BY <1>9, <2>1, <3>2 DEF Handling
  <2>5. CASE ~IsRefused(key)
    <3>1. key \in Decision \ Refusals
      BY <2>3, <2>5 DEF IsRefused
    <3>2. Gate!Pass(calls) \/ UNCHANGED outcome
      BY <2>1, <2>2, <2>5, <3>1 DEF Gate!Pass, Reply
    <3> QED
      BY <1>9, <2>1, <3>2 DEF Handling
  <2> QED
    BY <2>4, <2>5
<1>12. CASE ReadKey
  <2>1. /\ pc = "ask" /\ pc' = "send" /\ key' \in Decision
        /\ chosen' = chosen \cup {<<calls, key'>>}
        /\ UNCHANGED <<calls, asked, outcome>>
    BY <1>12, KeysAssumption DEF ReadKey, Decision
  <2>2. /\ calls \in 1 .. MaxTraps /\ ~Gate!Answered(calls)
        /\ calls \in asked /\ ~Gate!Chosen(calls)
    BY <2>1, HandledIsAsked DEF Handling
  <2>3. Gate!Choose(calls, key')
    BY <2>1, <2>2 DEF Gate!Choose
  <2> QED
    BY <2>1, <2>2, <2>3 DEF Gate!Next
<1> QED
  BY <1>1, <1>2, <1>3, <1>4, <1>5, <1>6, <1>7, <1>8, <1>10, <1>11, <1>12
     DEF Next, ChildStep, LauncherStep

\* Each call is answered once, and as the key pressed for it says.
THEOREM ImplementsGate == Spec => GateSpec
BY InitHInv, HInvStep, GateInit, GateStep, PTL DEF Spec, GateSpec, Gate!Spec
=============================================================================
