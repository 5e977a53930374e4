------------------------------- MODULE Harness -------------------------------
(***************************************************************************)
(* Programs that start a target under a seccomp filter: harness_run        *)
(* (src/src/seccomp_harness.cpp), its debugging variant (src/debug/        *)
(* edr_run.cpp), and the part of SeccompSupervisor::launch in which the    *)
(* child hands the listener over.  What follows that part of launch is     *)
(* the module SeccompSupervisor; here it ends in "up".                     *)
(*                                                                         *)
(* The launcher is one thread.  The child installs the filter, sends the   *)
(* listener over a socket pair and executes the target, which may fork;    *)
(* each of these tasks may die, or be interrupted in a gated call by a     *)
(* signal, at any moment.  Numbers of calls are those of NOTIF_RECV.       *)
(***************************************************************************)
EXTENDS Naturals, FiniteSets

CONSTANTS Task,       \* the child and its descendants
          Child,
          NoTask,     \* no call is being handled
          Launcher,   \* which of the programs: a subset of Launchers
          Keys,       \* keys the operator uses, of "y", "n", "k", "A"
          TtyFails,   \* whether reading a key may fail
          RecvEnds,   \* NOTIF_RECV fails once the last user of the filter is
                      \* gone: since Linux 6.11; before, it sleeps for ever
          MaxTraps    \* bound: gated calls in a behaviour

Launchers == {"launch", "harness_run", "debug"}

ASSUME TaskAssumption == Child \in Task /\ NoTask \notin Task
ASSUME LauncherAssumption == Launcher \subseteq Launchers
ASSUME KeysAssumption == Keys \subseteq {"y", "n", "k", "A"}
ASSUME SwitchAssumption == TtyFails \in BOOLEAN /\ RecvEnds \in BOOLEAN
ASSUME TrapsAssumption == MaxTraps \in Nat

Decision == {"y", "n", "k", "A", "none"}     \* "none": no key could be read
Refusals == {"n", "k"}

VARIABLES
    by,          \* the launcher
    pc,          \* where it is
    stage,       \* where the child is before it executes the target
    ends,        \* who has sv[1] open
    inFlight,    \* the listener is in the socket
    task,        \* the state of each task
    quiet,       \* its call is waved through
    stale,       \* wake-ups of NOTIF_RECV whose call has vanished
    cur,         \* the task whose call is being handled
    calls,       \* calls received
    traps,       \* gated calls made
    allow_all,
    key,         \* decision
    asked, chosen, outcome   \* history, for SyscallGate

vars == <<by, pc, stage, ends, inFlight, task, quiet, stale, cur, calls, traps,
          allow_all, key, asked, chosen, outcome>>
socket  == <<stage, ends, inFlight>>
calling == <<task, quiet, stale, traps>>
history == <<asked, chosen, outcome>>
loop    == <<cur, calls, allow_all, key, history>>

HandingOver == {"forked", "recvfd", "giveup", "reap"}
Handling    == {"wave", "ask", "send"}
Ended       == {"done", "failed", "up"}

TypeOK ==
    /\ by \in Launcher /\ pc \in HandingOver \cup Handling \cup Ended \cup {"loop", "kill", "wait"}
    /\ stage \in {"start", "filtered", "sent", "ready", "run"}
    /\ ends \subseteq {"launcher", "child"} /\ inFlight \in BOOLEAN
    /\ task \in [Task -> {"none", "run", "queued", "held", "dead"}]
    /\ quiet \in [Task -> BOOLEAN] /\ stale \in Nat /\ traps \in Nat
    /\ cur \in Task \cup {NoTask} /\ calls \in Nat /\ allow_all \in BOOLEAN
    /\ key \in Decision /\ asked \subseteq 1 .. calls
    /\ chosen \subseteq (1 .. calls) \X Decision
    /\ outcome \subseteq (1 .. calls) \X {"CONTINUE", "EPERM"}

\* Both processes hold both ends after the fork.
Init ==
    /\ by \in Launcher /\ pc = "forked" /\ stage = "start"
    /\ ends = {"launcher", "child"} /\ inFlight = FALSE
    /\ task = [t \in Task |-> IF t = Child THEN "run" ELSE "none"]
    /\ quiet = [t \in Task |-> FALSE] /\ stale = 0 /\ traps = 0
    /\ cur = NoTask /\ calls = 0 /\ allow_all = FALSE /\ key = "none"
    /\ asked = {} /\ chosen = {} /\ outcome = {}

-----------------------------------------------------------------------------
(* The child, until it executes the target.                                *)

\* Tasks of D are dead from now on; a queued call leaves its wake-up behind.
Gone(D) ==
    /\ task' = [t \in Task |-> IF t \in D THEN "dead" ELSE task[t]]
    /\ stale' = stale + Cardinality({t \in D : task[t] = "queued"})
    /\ ends' = IF Child \in D THEN ends \ {"child"} ELSE ends
    /\ UNCHANGED <<by, stage, inFlight, quiet, traps>>

InChild(from, to) ==
    /\ task[Child] = "run" /\ stage = from /\ stage' = to
    /\ UNCHANGED <<by, pc, calling, loop>>

Install == InChild("start", "filtered") /\ UNCHANGED <<ends, inFlight>>
SendFd  == InChild("filtered", "sent") /\ inFlight' = TRUE /\ UNCHANGED ends
CloseFds == InChild("sent", "ready") /\ ends' = ends \ {"child"} /\ UNCHANGED inFlight
Exec    == InChild("ready", "run") /\ UNCHANGED <<ends, inFlight>>

\* _exit(127), when one of the steps but the closing fails.
ChildFails ==
    /\ task[Child] = "run" /\ stage \in {"start", "filtered", "ready"}
    /\ Gone({Child}) /\ UNCHANGED <<pc, loop>>

-----------------------------------------------------------------------------
(* The launcher, until it has the listener.                                *)

\* The mutant keeps the child's end of the socket pair open.
KeepEnd ==
    /\ pc = "forked"
    /\ pc' = "recvfd"
    /\ UNCHANGED <<by, socket, calling, loop>>

CloseEnd ==
    /\ pc = "forked"
    /\ ends' = ends \ {"launcher"} /\ pc' = "recvfd"
    /\ UNCHANGED <<by, stage, inFlight, calling, loop>>

\* With the listener supervisor_loop() begins, or, where the sizes cannot be
\* asked for or memory is short, returns at once.
Begins(p) ==
    \/ by = "launch" /\ p = "up"
    \/ by # "launch" /\ p = "loop"
    \/ by = "harness_run" /\ p = "wait"

\* recvmsg() returns the message, or nothing once every sv[1] is closed.
RecvFd ==
    /\ pc = "recvfd"
    /\ \/ inFlight /\ inFlight' = FALSE
          /\ \E p \in {"up", "loop", "wait"} : Begins(p) /\ pc' = p
       \/ ~inFlight /\ ends = {} /\ pc' = "giveup" /\ UNCHANGED inFlight
    /\ UNCHANGED <<by, stage, ends, calling, loop>>

GiveUp ==
    /\ pc = "giveup"
    /\ Gone({Child}) /\ pc' = (IF by = "launch" THEN "reap" ELSE "failed")
    /\ UNCHANGED loop

Reap ==
    /\ pc = "reap" /\ task[Child] = "dead"
    /\ pc' = "failed"
    /\ UNCHANGED <<by, socket, calling, loop>>

-----------------------------------------------------------------------------
(* supervisor_loop().                                                      *)

AllDead == \A t \in Task : task[t] \in {"none", "dead"}

Receive(t) ==
    /\ pc = "loop" /\ task[t] = "queued"
    /\ task' = [task EXCEPT ![t] = "held"]
    /\ cur' = t /\ calls' = calls + 1
    /\ IF by # "debug" /\ quiet[t] THEN pc' = "wave" /\ UNCHANGED <<key, asked>>
       ELSE IF allow_all THEN pc' = "send" /\ key' = "y" /\ UNCHANGED asked
       ELSE pc' = "ask" /\ asked' = asked \cup {calls'} /\ UNCHANGED key
    /\ UNCHANGED <<by, socket, quiet, stale, traps, allow_all, chosen, outcome>>

RecvFailed == \/ stale > 0 /\ \A t \in Task : task[t] # "queued"
              \/ RecvEnds /\ AllDead

\* Any failure but EINTR ends the loop; the mutant tries again whatever failed.
RetryRecv ==
    /\ pc = "loop" /\ RecvFailed
    /\ stale' = IF stale > 0 THEN stale - 1 ELSE 0
    /\ UNCHANGED <<by, pc, socket, task, quiet, traps, loop>>

EndLoop ==
    /\ pc = "loop" /\ RecvFailed
    /\ stale' = IF stale > 0 THEN stale - 1 ELSE 0
    /\ pc' = "wait"
    /\ UNCHANGED <<by, socket, task, quiet, traps, loop>>

\* NOTIF_SEND fails when the caller no longer waits.
Reply(how) ==
    IF task[cur] = "held"
    THEN /\ task' = [task EXCEPT ![cur] = "run"]
         /\ outcome' = outcome \cup {<<calls, how>>}
    ELSE UNCHANGED <<task, outcome>>

\* The mutant forgets the answer.
WaveBy ==
    /\ pc = "wave" /\ pc' = "loop" /\ cur' = NoTask
    /\ UNCHANGED <<by, socket, calling, calls, allow_all, key, history>>

Wave ==
    /\ pc = "wave" /\ pc' = "loop" /\ cur' = NoTask
    /\ Reply("CONTINUE")
    /\ UNCHANGED <<by, socket, quiet, stale, traps, calls, allow_all, key, asked, chosen>>

ReadKey ==
    /\ pc = "ask"
    /\ key' \in Keys \cup (IF TtyFails THEN {"none"} ELSE {})
    /\ chosen' = chosen \cup {<<calls, key'>>}
    /\ allow_all' = (allow_all \/ key' = "A")
    /\ pc' = "send"
    /\ UNCHANGED <<by, socket, calling, cur, calls, asked, outcome>>

\* What a key answers; the mutant has lost the case of 'n'.
KillRefuses(k) == k = "k"
IsRefused(k)   == k \in Refusals

Send ==
    /\ pc = "send" /\ cur' = NoTask
    /\ Reply(IF IsRefused(key) THEN "EPERM" ELSE "CONTINUE")
    /\ pc' = IF key = "k" THEN "kill" ELSE "loop"
    /\ UNCHANGED <<by, socket, quiet, stale, traps, calls, allow_all, key, asked, chosen>>

\* Only the child is killed.
KillChild ==
    /\ pc = "kill"
    /\ Gone({Child}) /\ pc' = "wait"
    /\ UNCHANGED loop

\* waitpid(), and only then close(): every call still waiting fails with ENOSYS.
Finish ==
    /\ pc = "wait" /\ task[Child] = "dead"
    /\ pc' = "done"
    /\ task' = [t \in Task |-> IF task[t] \in {"queued", "held"} THEN "run" ELSE task[t]]
    /\ stale' = 0
    /\ UNCHANGED <<by, socket, quiet, traps, loop>>

-----------------------------------------------------------------------------
(* The target and its descendants.                                         *)

Running(t) == task[t] = "run" /\ stage = "run"

Trap(t) ==
    /\ Running(t) /\ by # "launch" /\ pc # "done" /\ traps < MaxTraps
    /\ task' = [task EXCEPT ![t] = "queued"]
    /\ quiet' \in {[quiet EXCEPT ![t] = q] : q \in BOOLEAN}
    /\ traps' = traps + 1
    /\ UNCHANGED <<by, pc, socket, stale, loop>>

Fork(t, u) ==
    /\ Running(t) /\ task[u] = "none"
    /\ task' = [task EXCEPT ![u] = "run"]
    /\ UNCHANGED <<by, pc, socket, quiet, stale, traps, loop>>

Die(t) ==
    /\ task[t] \in {"run", "queued", "held"}
    /\ Gone({t}) /\ UNCHANGED <<pc, loop>>

\* A signal handler runs: the call is restarted later, if at all.
Interrupt(t) ==
    /\ task[t] \in {"queued", "held"}
    /\ task' = [task EXCEPT ![t] = "run"]
    /\ stale' = stale + Cardinality({u \in {t} : task[u] = "queued"})
    /\ UNCHANGED <<by, pc, socket, quiet, traps, loop>>

ChildStep == Install \/ SendFd \/ CloseFds \/ Exec \/ ChildFails

LauncherStep ==
    \/ CloseEnd \/ RecvFd \/ GiveUp \/ Reap
    \/ \E t \in Task : Receive(t)
    \/ EndLoop \/ Wave \/ Send \/ KillChild \/ Finish

Next ==
    \/ ChildStep
    \/ LauncherStep
    \/ ReadKey
    \/ \E t \in Task : Trap(t) \/ Die(t) \/ Interrupt(t) \/ \E u \in Task : Fork(t, u)

Spec == Init /\ [][Next]_vars

\* Both processes are scheduled; no key, call, death or signal is owed.
FairSpec == Spec /\ WF_vars(ChildStep) /\ WF_vars(LauncherStep)

-----------------------------------------------------------------------------
(* Properties.                                                             *)

\* No caller is left frozen: while it waits for the answer to a call that was
\* received, the launcher is handling that very call.
HeldIsHandled ==
    \A t \in Task : task[t] = "held" => cur = t /\ pc \in Handling

IInv ==
    /\ TypeOK /\ HeldIsHandled
    /\ cur # NoTask <=> pc \in Handling

\* Each call is answered once, and as the key pressed for it says.
Gate == INSTANCE SyscallGate WITH
            Call <- 1 .. MaxTraps, Allows <- Decision \ Refusals,
            asked <- asked, waved <- (1 .. calls) \ asked,
            choice <- chosen, outcome <- outcome, open <- pc # "done"

GateSpec == Gate!Spec

\* launch() runs on the UI thread: whatever step of the child fails, and
\* whenever it is killed, the launcher does not wait for the listener for ever.
LauncherIsFreed == []<>(pc \notin HandingOver)

\* Once the target and all its descendants are gone the launcher ends, unless
\* it waits for a key: on a kernel whose NOTIF_RECV ends with the tree.
DeadTreeEnds == (RecvEnds /\ AllDead) ~> pc \in Ended \cup {"ask"}

-----------------------------------------------------------------------------
(* Claims the code does not keep.                                          *)

\* seccomp_harness.cpp:266, "done.", printed when the loop has ended.
DoneIsDone == pc = "wait" ~> pc = "done"

\* setup.sh:26, "WSL 2 environment detected", whose kernels are older: the
\* launcher ends with the tree on any kernel.
DeadTreeEndsAnywhere == AllDead ~> pc \in Ended \cup {"ask"}

\* seccomp_harness.cpp:245, "KILLED process group".
KilledGroupIsDead == pc = "wait" /\ key = "k" => AllDead

\* seccomp_harness.cpp:177, "each gated syscall FREEZES until you decide".
FrozenUntilDecided ==
    \A c \in outcome : c[1] \in asked => \E k \in Keys : <<c[1], k>> \in chosen
=============================================================================
