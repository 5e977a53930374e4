------------------------- MODULE SeccompSupervisor -------------------------
(***************************************************************************)
(* The in-process seccomp supervisor: src/src/seccomp_supervisor.cpp with  *)
(* the part of the UI thread that shows its prompts and resolves them      *)
(* (src/src/ui.cpp) and the kernel side it drives (SECCOMP_RET_USER_NOTIF, *)
(* external).                                                              *)
(*                                                                         *)
(* Threads.  The supervise thread runs the loop of supervise(), one action *)
(* per lock section or ioctl, with pc as its program counter.  The UI      *)
(* thread renders, handles keys, launches and stops; it is one thread, so  *)
(* ui says which call it is in the middle of and every other UI action     *)
(* waits for "idle".  The tasks of the supervised tree trap, fork and die  *)
(* at any moment.                                                          *)
(***************************************************************************)
EXTENDS Naturals, Sequences, FiniteSets

CONSTANTS Task,        \* tasks that may run under the filter
          Keys,        \* decisions whose key is bound in the keymap
          NoTask,      \* "no task": child_pid_ before the first launch
          Token,       \* values of token_seq_ that are handed out
          RecvEnds,    \* NOTIF_RECV returns once nobody uses the filter (Linux 6.11)
          MaxCalls,    \* bound: gated calls trapped in a behaviour
          MaxLaunch    \* bound: launches in a behaviour

ASSUME NoTaskAssumption == NoTask \notin Task
ASSUME RecvAssumption == RecvEnds \in BOOLEAN
ASSUME BoundsAssumption == MaxCalls \in Nat /\ MaxLaunch \in Nat
ASSUME TokenAssumption == Token \subseteq Nat \ {0} /\ 1 .. MaxCalls \subseteq Token

\* enum SeccompDecision without SD_PENDING
Decision == {"ALLOW", "DENY", "KILL", "BLACKLIST", "WHITELIST"}
Allows   == {"ALLOW", "WHITELIST"}

ASSUME KeysAssumption == Keys \subseteq Decision

TaskState == {"none", "run", "trapped", "received", "dead"}
PC        == {"off", "start", "top", "poll", "recv", "auto", "push", "arm", "check",
              "wait", "persist", "send", "commit", "kill", "exit", "ended"}
Outcome   == {"stored", "lost"}
UiPC      == {"idle", "resolve", "register", "stopping", "stopped"}
Modal     == {"NONE", "SECCOMP", "SUPOUT", "LAUNCH"}

VARIABLES
    \* kernel (external)
    task,            \* state of each task
    gen,             \* launch whose filter the task runs under
    scored,          \* whether the trapped call maps to a scored event
    calls,           \* gated calls trapped so far
    listener,        \* notify_fd_: launch it listens to, 0 when closed
    \* SeccompSupervisor
    launches,        \* launches so far
    child_pid,
    active,
    stop,
    skip_unmon,
    token_seq,
    prompts,         \* prompts_, as the sequence of their tokens
    awaiting_token,
    decision,        \* a Decision or "PENDING"
    \* locals of supervise()
    pc, cur, req, d,
    \* UI thread
    modal, sec_active, ui, ui_d,
    \* tracker, as far as the supervisor writes it
    supervised_roots,
    persisted,       \* <<token, decision, Outcome>> of seccomp_persist_hash
    evidence,        \* tokens committed by commit_syscall_evidence
    exit_seen,       \* tasks whose EXIT event the poller has ingested
    \* history
    waved,           \* tokens answered by the skip_unmon_ path
    chosen,          \* <<token, decision>> the operator pressed
    answers          \* <<token, response>> sent to the kernel

kernelVars  == <<task, gen, scored, calls, listener>>
sharedVars  == <<prompts, awaiting_token, decision>>
controlVars == <<launches, child_pid, active, stop, skip_unmon, token_seq>>
localVars   == <<pc, cur, req, d>>
uiVars      == <<modal, sec_active, ui, ui_d>>
trackerVars == <<supervised_roots, persisted, evidence, exit_seen>>
historyVars == <<waved, chosen, answers>>

vars == <<kernelVars, sharedVars, controlVars, localVars, uiVars,
          trackerVars, historyVars>>

TypeOK ==
    /\ task \in [Task -> TaskState] /\ gen \in [Task -> Nat]
    /\ scored \in [Task -> BOOLEAN] /\ calls \in Nat /\ listener \in Nat
    /\ launches \in Nat /\ child_pid \in Task \cup {NoTask} /\ active \in BOOLEAN
    /\ stop \in BOOLEAN /\ skip_unmon \in BOOLEAN /\ token_seq \in Nat \ {0}
    /\ prompts \in Seq(Nat) /\ awaiting_token \in Nat
    /\ decision \in Decision \cup {"PENDING"} /\ pc \in PC /\ cur \in Nat
    /\ req \in Task \cup {NoTask} /\ d \in Decision \cup {"PENDING"} /\ modal \in Modal
    /\ sec_active \in Nat /\ ui \in UiPC /\ ui_d \in Decision \cup {"PENDING"}
    /\ supervised_roots \subseteq Task /\ persisted \subseteq Nat \X Decision \X Outcome
    /\ evidence \subseteq Nat /\ exit_seen \subseteq Task /\ waved \subseteq Nat
    /\ chosen \subseteq Nat \X Decision
    /\ answers \subseteq Nat \X {"CONTINUE", "EPERM"}

\* token_seq_ starts above 0, which means "nothing awaited".
FirstToken == 1

Init ==
    /\ task = [t \in Task |-> "none"] /\ gen = [t \in Task |-> 0]
    /\ scored = [t \in Task |-> FALSE] /\ calls = 0 /\ listener = 0 /\ launches = 0
    /\ child_pid = NoTask /\ active = FALSE /\ stop = FALSE /\ skip_unmon = TRUE
    /\ token_seq = FirstToken /\ prompts = <<>> /\ awaiting_token = 0
    /\ decision = "PENDING" /\ pc = "off" /\ cur = 0 /\ req = NoTask /\ d = "PENDING"
    /\ modal = "NONE" /\ sec_active = 0 /\ ui = "idle" /\ ui_d = "PENDING"
    /\ supervised_roots = {} /\ persisted = {} /\ evidence = {} /\ exit_seen = {}
    /\ waved = {} /\ chosen = {} /\ answers = {}

-----------------------------------------------------------------------------
(* The kernel and the traced tree (external).                              *)

Live(t)  == task[t] \in {"run", "trapped", "received"}
Tree     == {t \in Task : listener # 0 /\ gen[t] = listener /\ Live(t)}
Waiting  == {t \in Tree : task[t] = "trapped"}

\* Calls held by a listener that is closed return ENOSYS.
ReleasedBy(l) ==
    [t \in Task |-> IF l # 0 /\ gen[t] = l /\ task[t] \in {"trapped", "received"}
                    THEN "run" ELSE task[t]]

Fork(t, c) ==
    /\ task[t] = "run" /\ task[c] = "none"
    /\ task' = [task EXCEPT ![c] = "run"] /\ gen' = [gen EXCEPT ![c] = gen[t]]
    /\ UNCHANGED <<scored, calls, listener, sharedVars, controlVars, localVars,
                   uiVars, trackerVars, historyVars>>

\* With the listener closed the call fails at once and nothing is held.
Trap(t, s) ==
    /\ task[t] = "run" /\ listener # 0 /\ gen[t] = listener /\ calls < MaxCalls
    /\ calls' = calls + 1 /\ task' = [task EXCEPT ![t] = "trapped"]
    /\ scored' = [scored EXCEPT ![t] = s]
    /\ UNCHANGED <<gen, listener, sharedVars, controlVars, localVars, uiVars,
                   trackerVars, historyVars>>

\* A task ends, or is killed while its call is held.
Die(t) ==
    /\ Live(t)
    /\ task' = [task EXCEPT ![t] = "dead"]
    /\ UNCHANGED <<gen, scored, calls, listener, sharedVars, controlVars,
                   localVars, uiVars, trackerVars, historyVars>>

-----------------------------------------------------------------------------
(* supervise(): the loop.                                                  *)

\* The mutant forgets the hang-up of an empty tree.
ReadableNoHangup == Waiting # {}
Readable         == Waiting # {} \/ Tree = {}

\* The sizes of notifications, and memory for one: without them the thread
\* returns at once, with the root registered and the listener open.
Start ==
    /\ pc = "start"
    /\ \/ pc' = "top" /\ UNCHANGED active
       \/ pc' = "off" /\ active' = FALSE
    /\ UNCHANGED <<kernelVars, sharedVars, launches, child_pid, stop, skip_unmon,
                   token_seq, cur, req, d, uiVars, trackerVars, historyVars>>

\* The loop's condition.
Top ==
    /\ pc = "top"
    /\ pc' = IF stop THEN "exit" ELSE "poll"
    /\ UNCHANGED <<kernelVars, sharedVars, controlVars, cur, req, d, uiVars,
                   trackerVars, historyVars>>

\* An empty tree raises POLLHUP.  After 200 ms, or EINTR, the loop goes round:
\* SIGCHLD is ignored, so waitpid never returns the child.  Any other error
\* ends it.
Poll ==
    /\ pc = "poll"
    /\ \/ Readable /\ pc' = "recv"
       \/ ~Readable /\ pc' = "top"
       \/ pc' = "exit"
    /\ UNCHANGED <<kernelVars, sharedVars, controlVars, cur, req, d, uiVars,
                   trackerVars, historyVars>>

\* NOTIF_RECV, the token, the prediction and the skip_unmon_ test.
Recv(t) ==
    /\ pc = "recv" /\ t \in Waiting /\ token_seq \in Token
    /\ task' = [task EXCEPT ![t] = "received"] /\ cur' = token_seq /\ req' = t
    /\ token_seq' = token_seq + 1
    /\ IF skip_unmon /\ ~scored[t]
       THEN pc' = "auto" /\ waved' = waved \cup {token_seq}
       ELSE pc' = "push" /\ UNCHANGED waved
    /\ UNCHANGED <<gen, scored, calls, listener, sharedVars, launches, child_pid,
                   active, stop, skip_unmon, d, uiVars, trackerVars, chosen,
                   answers>>

\* The call poll() saw is gone, or the tree is: NOTIF_RECV fails, the loop breaks.
\* For a tree that is gone, an older kernel sleeps in NOTIF_RECV for ever.
RecvFails ==
    /\ pc = "recv" /\ Waiting = {} /\ (Tree # {} \/ RecvEnds)
    /\ pc' = "exit"
    /\ UNCHANGED <<kernelVars, sharedVars, controlVars, cur, req, d, uiVars,
                   trackerVars, historyVars>>

\* NOTIF_SEND: wakes the task if it still waits, otherwise fails with ENOENT.
Respond(how) ==
    /\ task' = IF req \in Tree /\ task[req] = "received"
               THEN [task EXCEPT ![req] = "run"] ELSE task
    /\ answers' = answers \cup {<<cur, how>>}

SendAuto ==
    /\ pc = "auto" /\ Respond("CONTINUE")
    /\ req' = NoTask /\ pc' = "top"
    /\ UNCHANGED <<gen, scored, calls, listener, sharedVars, controlVars, cur,
                   d, uiVars, trackerVars, waved, chosen>>

Push ==
    /\ pc = "push"
    /\ prompts' = Append(prompts, cur) /\ pc' = "arm"
    /\ UNCHANGED <<kernelVars, awaiting_token, decision, controlVars, cur, req,
                   d, uiVars, trackerVars, historyVars>>

\* dec_mtx_ is taken only now, after the prompt became visible.  The mutant
\* keeps the decision of the previous call.
ArmWith(first) ==
    /\ pc = "arm"
    /\ awaiting_token' = cur /\ decision' = first /\ pc' = "check"
    /\ UNCHANGED <<kernelVars, prompts, controlVars, cur, req, d, uiVars,
                   trackerVars, historyVars>>
ArmStale == ArmWith(decision)
Arm      == ArmWith("PENDING")

\* The predicate of dec_cv_.wait; the mutant forgets stop_.
WaitOverOnDecision == decision # "PENDING"
WaitOver           == decision # "PENDING" \/ stop

\* What the wait returns; the mutant ignores the decision.
VerdictAllow == "ALLOW"
Verdict      == IF stop THEN "ALLOW" ELSE decision

\* The predicate evaluated under dec_mtx_, and what follows it there.
Check ==
    /\ pc = "check"
    /\ IF WaitOver
       THEN d' = Verdict /\ awaiting_token' = 0 /\ pc' = "persist"
       ELSE pc' = "wait" /\ UNCHANGED <<d, awaiting_token>>
    /\ UNCHANGED <<kernelVars, prompts, decision, controlVars, cur, req, uiVars,
                   trackerVars, historyVars>>

SpuriousWake ==
    /\ pc = "wait"
    /\ pc' = "check"
    /\ UNCHANGED <<kernelVars, sharedVars, controlVars, cur, req, d, uiVars,
                   trackerVars, historyVars>>

\* notify_all on dec_cv_; the mutant forgets it.
NotifyForgotten == pc' = pc
Notify          == pc' = IF pc = "wait" THEN "check" ELSE pc

\* Decisions that are remembered by hash; the mutant forgets one.
RemembersBlacklist == {"BLACKLIST"}
Remembers          == {"BLACKLIST", "WHITELIST"}

\* No hash of the binary is to be had, or add() fails: it is not remembered,
\* and the call is answered all the same.
Persist ==
    /\ pc = "persist"
    /\ IF d \in Remembers
       THEN \E o \in Outcome : persisted' = persisted \cup {<<cur, d, o>>}
       ELSE UNCHANGED persisted
    /\ pc' = "send"
    /\ UNCHANGED <<kernelVars, sharedVars, controlVars, cur, req, d, uiVars,
                   supervised_roots, evidence, exit_seen, historyVars>>

\* Calls scored after the answer; the mutant scores refused ones too.
CommitsAll == scored[req]
Commits    == scored[req] /\ d \in Allows

\* NOTIF_SEND of the verdict, and what comes after it.
Send ==
    /\ pc = "send"
    /\ Respond(IF d \in Allows THEN "CONTINUE" ELSE "EPERM")
    /\ pc' = IF d = "KILL" THEN "kill" ELSE IF Commits THEN "commit" ELSE "top"
    /\ req' = NoTask /\ d' = "PENDING"
    /\ UNCHANGED <<gen, scored, calls, listener, sharedVars, controlVars, cur,
                   uiVars, trackerVars, waved, chosen>>

\* commit_syscall_evidence, which finds no node when the process has been
\* collected meanwhile.  The mutant scores the call before it is answered.
CommitAt(p) ==
    /\ pc = p
    /\ evidence' \in {evidence, evidence \cup {cur}} /\ pc' = "top"
    /\ UNCHANGED <<kernelVars, sharedVars, controlVars, cur, req, d, uiVars,
                   supervised_roots, persisted, exit_seen, historyVars>>
CommitFirst == CommitAt("send")
Commit      == CommitAt("commit")

\* kill_supervised_tree reaches the descendants the tracker knows and
\* kill(-cp) those in the child's process group: some of the tree, and the
\* child itself.  Then the notify fd is closed.
Kill ==
    /\ pc = "kill"
    /\ \E K \in SUBSET Tree :
          /\ child_pid \in Tree => child_pid \in K
          /\ task' = [t \in Task |-> IF t \in K THEN "dead" ELSE ReleasedBy(listener)[t]]
    /\ listener' = 0 /\ pc' = "exit"
    /\ UNCHANGED <<gen, scored, calls, sharedVars, controlVars, cur, req, d,
                   uiVars, trackerVars, historyVars>>

\* unregister_supervised and mark_dead of the child.
Exit ==
    /\ pc = "exit"
    /\ supervised_roots' = supervised_roots \ {child_pid} /\ pc' = "ended"
    /\ UNCHANGED <<kernelVars, sharedVars, controlVars, cur, req, d, uiVars,
                   persisted, evidence, exit_seen, historyVars>>

Ended ==
    /\ pc = "ended"
    /\ active' = FALSE /\ pc' = "off"
    /\ UNCHANGED <<kernelVars, sharedVars, launches, child_pid, stop, skip_unmon,
                   token_seq, cur, req, d, uiVars, trackerVars, historyVars>>

SuperviseStep ==
    \/ Start \/ Top \/ Poll \/ (\E t \in Task : Recv(t)) \/ RecvFails \/ SendAuto
    \/ Push \/ Arm \/ Check \/ Persist \/ Send \/ Commit \/ Kill \/ Exit \/ Ended

-----------------------------------------------------------------------------
(* The UI thread.  Once it has called stop() it handles no more keys.      *)

UiReady == ui = "idle" /\ ~stop

\* The renderer: a pending prompt takes over the screen.
Render ==
    /\ UiReady /\ modal \in {"NONE", "SUPOUT"} /\ prompts # <<>>
    /\ sec_active' = Head(prompts) /\ modal' = "SECCOMP"
    /\ UNCHANGED <<kernelVars, sharedVars, controlVars, localVars, ui, ui_d,
                   trackerVars, historyVars>>

\* The front prompt leaves the queue if it is the resolved one; the mutant
\* leaves it there.
KeepFront(q, k) == q
PopFront(q, k)  == IF q # <<>> /\ Head(q) = k THEN Tail(q) ELSE q

\* resolve(), first lock section: the prompt leaves the queue.
Resolve(dd) ==
    /\ UiReady /\ modal = "SECCOMP"
    /\ prompts' = PopFront(prompts, sec_active)
    /\ chosen' = chosen \cup {<<sec_active, dd>>} /\ ui' = "resolve" /\ ui_d' = dd
    /\ UNCHANGED <<kernelVars, awaiting_token, decision, controlVars, localVars,
                   modal, sec_active, trackerVars, waved, answers>>

\* resolve(), second lock section: the decision counts only if it is awaited.
Deliver ==
    /\ ui = "resolve"
    /\ IF awaiting_token = sec_active
       THEN decision' = ui_d /\ Notify
       ELSE UNCHANGED <<decision, pc>>
    /\ ui' = "idle" /\ ui_d' = "PENDING" /\ modal' = "NONE"
    /\ UNCHANGED <<kernelVars, prompts, awaiting_token, controlVars, cur, req, d,
                   sec_active, trackerVars, historyVars>>

\* Keys that open and close the launch box and the output view.
Navigate(from, to) ==
    /\ UiReady /\ modal = from
    /\ modal' = to
    /\ UNCHANGED <<kernelVars, sharedVars, controlVars, localVars, sec_active,
                   ui, ui_d, trackerVars, historyVars>>

ToggleSkip ==
    /\ UiReady /\ modal = "SUPOUT"
    /\ skip_unmon' = ~skip_unmon
    /\ UNCHANGED <<kernelVars, sharedVars, launches, child_pid, active, stop,
                   token_seq, localVars, uiVars, trackerVars, historyVars>>

\* launch() and the thread it starts.  active_ is FALSE only after the last
\* loop ended, so the joins return; the previous notify fd is closed.
Launch(r) ==
    /\ UiReady /\ modal = "LAUNCH" /\ ~active /\ launches < MaxLaunch
    /\ task[r] = "none"
    /\ task' = [ReleasedBy(listener) EXCEPT ![r] = "run"]
    /\ gen' = [gen EXCEPT ![r] = launches + 1] /\ listener' = launches + 1
    /\ launches' = launches + 1 /\ child_pid' = r
    /\ supervised_roots' = supervised_roots \cup {r} /\ stop' = FALSE /\ active' = TRUE
    /\ pc' = "start" /\ ui' = "register"
    /\ UNCHANGED <<scored, calls, sharedVars, skip_unmon, token_seq, cur, req, d,
                   modal, sec_active, ui_d, persisted, evidence, exit_seen,
                   historyVars>>

\* launch() fails after the old notify fd was closed.
LaunchFails ==
    /\ UiReady /\ modal = "LAUNCH" /\ ~active /\ listener # 0
    /\ task' = ReleasedBy(listener) /\ listener' = 0 /\ modal' = "NONE"
    /\ UNCHANGED <<gen, scored, calls, sharedVars, controlVars, localVars,
                   sec_active, ui, ui_d, trackerVars, historyVars>>

\* The UI registers the child once more after launch() returned.
Register ==
    /\ ui = "register"
    /\ supervised_roots' = supervised_roots \cup ({child_pid} \ {NoTask})
    /\ ui' = "idle" /\ modal' = "SUPOUT"
    /\ UNCHANGED <<kernelVars, sharedVars, controlVars, localVars, sec_active,
                   ui_d, persisted, evidence, exit_seen, historyVars>>

\* stop(): the flag first, without a lock; then the decision under dec_mtx_.
StopFlag ==
    /\ UiReady
    /\ stop' = TRUE /\ ui' = "stopping"
    /\ UNCHANGED <<kernelVars, sharedVars, launches, child_pid, active,
                   skip_unmon, token_seq, localVars, modal, sec_active, ui_d,
                   trackerVars, historyVars>>

StopNotify ==
    /\ ui = "stopping"
    /\ decision' = "ALLOW"
    /\ Notify
    /\ ui' = "stopped"
    /\ UNCHANGED <<kernelVars, prompts, awaiting_token, controlVars, cur, req, d,
                   modal, sec_active, ui_d, trackerVars, historyVars>>

\* The destructor joins the thread and closes the notify fd.
Destroy ==
    /\ ui = "stopped" /\ pc = "off" /\ listener # 0
    /\ task' = ReleasedBy(listener) /\ listener' = 0
    /\ UNCHANGED <<gen, scored, calls, sharedVars, controlVars, localVars, uiVars,
                   trackerVars, historyVars>>

UiFinish == Deliver \/ Register \/ StopNotify \/ Destroy

\* Tracker::ingest of the EXIT event, on the poller thread.
IngestExit(t) ==
    /\ task[t] = "dead" /\ t \notin exit_seen
    /\ exit_seen' = exit_seen \cup {t} /\ supervised_roots' = supervised_roots \ {t}
    /\ UNCHANGED <<kernelVars, sharedVars, controlVars, localVars, uiVars,
                   persisted, evidence, historyVars>>

UiKeys ==
    \/ Render
    \/ \E dd \in Keys : Resolve(dd)
    \/ Navigate("NONE", "LAUNCH") \/ Navigate("LAUNCH", "NONE")
    \/ Navigate("NONE", "SUPOUT") \/ Navigate("SUPOUT", "NONE")
    \/ ToggleSkip
    \/ \E r \in Task : Launch(r)
    \/ LaunchFails
    \/ StopFlag

Environment ==
    \/ \E t, c \in Task : Fork(t, c)
    \/ \E t \in Task, s \in BOOLEAN : Trap(t, s)
    \/ \E t \in Task : Die(t)

Next == SuperviseStep \/ SpuriousWake \/ UiKeys \/ UiFinish
        \/ (\E t \in Task : IngestExit(t)) \/ Environment

Spec == Init /\ [][Next]_vars

\* The threads keep being scheduled; no key is ever owed, except that the
\* calls the UI has begun it finishes.
Fairness ==
    /\ WF_vars(SuperviseStep) /\ WF_vars(UiFinish)

FairSpec == Spec /\ Fairness

-----------------------------------------------------------------------------
(* Safety.                                                                 *)

ChosenBy(k, S) == \E dd \in S : <<k, dd>> \in chosen

\* A call is refused only if the operator refused that very call, and, until
\* shutdown, passes only if it was waved through or the operator allowed that
\* very call: no verdict is ever applied to another call (token matching in
\* resolve() and supervise()).
AnswerFollowsChoice ==
    \A a \in answers :
        /\ a[2] = "EPERM" => ChosenBy(a[1], Decision \ Allows)
        /\ a[2] = "CONTINUE" /\ ~stop => a[1] \in waved \/ ChosenBy(a[1], Allows)

\* Until shutdown at most one prompt is queued, it is that of the call the
\* supervise thread is holding, unanswered and not yet chosen for; and a
\* decision box on the screen shows exactly that prompt.  So a box never shows
\* a call that has already been let go, and nothing is left for the next launch.
PromptIsCurrent ==
    ~stop =>
        /\ prompts # <<>> =>
              /\ prompts = <<cur>>
              /\ pc \in {"arm", "check", "wait"}
              /\ ~ChosenBy(cur, Decision)
        /\ modal = "SECCOMP" /\ ui = "idle" => prompts = <<sec_active>>

\* A binary that the operator wants remembered is put to the reputation store,
\* successfully or not, before the call it was decided on is answered; and
\* nothing is put to the store but that, once for each call.
StoreAskedBeforeAnswer ==
    /\ \A a \in answers, dd \in {"BLACKLIST", "WHITELIST"} :
           <<a[1], dd>> \in chosen /\ (a[2] = "EPERM" \/ ~stop)
               => \E o \in Outcome : <<a[1], dd, o>> \in persisted
    /\ \A p \in persisted : <<p[1], p[2]>> \in chosen
    /\ \A p, q \in persisted : p[1] = q[1] => p = q

\* Evidence is scored only for a call that was asked about and has passed.
EvidenceOnlyWhenAllowed ==
    \A k \in evidence : /\ <<k, "CONTINUE">> \in answers
                        /\ <<k, "EPERM">> \notin answers
                        /\ k \notin waved

\* Both: what a decision changes outside the supervisor is what the kernel was told.
EffectsMatchAnswers == StoreAskedBeforeAnswer /\ EvidenceOnlyWhenAllowed

\* The supervisor implements the gate: what it asked about is every token it
\* handed out and did not wave through.
Gate == INSTANCE SyscallGate WITH
            Call    <- Token,
            asked   <- (1 .. token_seq - 1) \ waved,
            choice  <- chosen,
            outcome <- answers,
            open    <- ~stop

GateSpec == Gate!Spec

-----------------------------------------------------------------------------
(* Liveness.                                                               *)

AnsweredToken(k) == \E a \in answers : a[1] = k

\* A decision that reached the waiting supervisor is answered to the kernel.
DeliveredDecisionIsAnswered ==
    \A k \in Token :
        (awaiting_token = k /\ decision # "PENDING") ~> AnsweredToken(k)

\* After stop() no call stays held: the wait is released, the loop ends and
\* closing the notify fd frees whatever was never received.
StopReleasesEverything ==
    stop ~> [](\A t \in Task : task[t] \notin {"trapped", "received"})

\* When the whole tree has ended while the loop was not at a call, the supervisor
\* ends too and the next launch is not refused: on a kernel whose NOTIF_RECV ends.
DeadTreeEndsSupervision ==
    (RecvEnds /\ pc \in {"start", "top", "poll", "recv"} /\ listener # 0 /\ Tree = {})
        ~> ~active

-----------------------------------------------------------------------------
(* Claims of the user interface that the code does not keep.               *)

\* ui.cpp:341, "(held in-kernel until you decide)": once the operator has
\* decided, the call is answered.
HeldOnlyUntilDecided ==
    \A k \in Token : ChosenBy(k, Decision) ~> AnsweredToken(k)

\* ui.cpp:350, "Deny - the syscall returns EPERM (it fails)".
DenyMeansEPERM ==
    \A a \in answers : <<a[1], "DENY">> \in chosen => a[2] # "CONTINUE"

\* ui.cpp:353, "REMEMBER THIS BINARY (by hash, saved to disk)": what is put to
\* the store is stored.
RememberedIsStored == \A p \in persisted : p[3] = "stored"

\* seccomp_supervisor.cpp:341, "[supervised process ended]": when the loop has
\* ended by itself, no task of the tree still runs under its open listener.
EndedMeansEnded ==
    pc = "off" /\ ~stop => Tree = {}

\* tracker.cpp:186, "[SECCOMP] supervision ended for pid=%u": once the loop and
\* the launching key handler are done and every exit was ingested, no root
\* stays registered.
NoRootAfterEnd ==
    /\ pc = "off" /\ ui = "idle"
    /\ \A t \in Task : task[t] \in {"none", "dead"} /\ (task[t] = "dead" => t \in exit_seen)
    => supervised_roots = {}
=============================================================================
