---------------------- MODULE SeccompSupervisorProofs ----------------------
(***************************************************************************)
(* Proofs about SeccompSupervisor for any number of tasks, calls and       *)
(* launches.                                                               *)
(***************************************************************************)
EXTENDS SeccompSupervisor, TLAPS

-----------------------------------------------------------------------------
(* The inductive invariant the proofs use.                                 *)

\* pc where supervise() owes the kernel an answer to cur.
Owing == {"auto", "push", "arm", "check", "wait", "persist", "send"}

\* Tokens are handed out in order: no history mentions a later one.
TokensInOrder ==
    /\ cur < token_seq
    /\ \A c \in chosen : c[1] < token_seq
    /\ \A a \in answers : a[1] < token_seq
    /\ \A k \in waved : k < token_seq

\* The call being held is the last one received and has no answer yet.
CurrentIsOwed ==
    pc \in Owing =>
        /\ cur = token_seq - 1
        /\ cur # 0
        /\ ~AnsweredToken(cur)
        /\ cur \in waved <=> pc = "auto"
        /\ pc = "push" => ~ChosenBy(cur, Decision)

CurrentIsToken == pc \in Owing => cur \in Token

\* dec_mtx_ state: what is awaited, and where a decision came from.
AwaitedIsCurrent ==
    /\ awaiting_token = IF pc \in {"check", "wait"} THEN cur ELSE 0
    /\ pc \in {"check", "wait"} /\ decision # "PENDING" /\ ~stop
           => <<cur, decision>> \in chosen
    /\ pc \in {"persist", "send"} =>
           /\ d \in Decision
           /\ <<cur, d>> \in chosen \/ (stop /\ d = "ALLOW")

\* Between its two lock sections resolve() carries the choice for cur.
ResolveCarriesChoice ==
    /\ ui \in {"stopping", "stopped"} <=> stop
    /\ ui = "resolve" =>
           /\ prompts = <<>>
           /\ sec_active = cur
           /\ pc \in {"arm", "check", "wait"}
           /\ pc \in {"check", "wait"} => decision = "PENDING"
           /\ ui_d \in Decision
           /\ <<cur, ui_d>> \in chosen

IInv ==
    /\ TypeOK
    /\ ~active => pc = "off"
    /\ TokensInOrder /\ CurrentIsOwed /\ CurrentIsToken /\ AwaitedIsCurrent
    /\ ResolveCarriesChoice /\ PromptIsCurrent /\ AnswerFollowsChoice


LEMMA ReleasedType ==
    ASSUME task \in [Task -> TaskState], NEW l
    PROVE  ReleasedBy(l) \in [Task -> TaskState]
BY DEF ReleasedBy, TaskState

\* The initial state and every step of every thread respect the types.
LEMMA TypeInit == Init => TypeOK
<1> SUFFICES ASSUME Init PROVE TypeOK
  OBVIOUS
<1>1. /\ task \in [Task -> TaskState]
      /\ gen \in [Task -> Nat]
      /\ scored \in [Task -> BOOLEAN]
  BY DEF Init, TaskState
<1>2. prompts \in Seq(Nat)
  BY DEF Init, FirstToken
<1>3. active \in BOOLEAN /\ stop \in BOOLEAN /\ skip_unmon \in BOOLEAN
  BY DEF Init, FirstToken
<1>4. /\ persisted \subseteq Nat \X Decision \X Outcome
      /\ chosen \subseteq Nat \X Decision
      /\ answers \subseteq Nat \X {"CONTINUE", "EPERM"}
  BY DEF Init, FirstToken
<1> QED
  BY <1>1, <1>2, <1>3, <1>4 DEF Init, FirstToken, TypeOK, PC, UiPC, Modal

LEMMA TypeStep == TypeOK /\ [Next]_vars => TypeOK'
<1> SUFFICES ASSUME TypeOK, [Next]_vars PROVE TypeOK'
  OBVIOUS
<1> USE DEF TypeOK, PC, UiPC, Modal, Decision, Allows, Outcome,
            kernelVars, sharedVars, controlVars, localVars, uiVars,
            trackerVars, historyVars
<1>1. CASE Poll
  BY <1>1 DEF Poll
<1>2. CASE RecvFails
  BY <1>2 DEF RecvFails
<1>3. CASE SendAuto
  <2>1. task' \in [Task -> TaskState]
    BY <1>3 DEF SendAuto, Respond, TaskState
  <2>2. answers' \subseteq Nat \X {"CONTINUE", "EPERM"}
    BY <1>3 DEF SendAuto, Respond
  <2> QED
    BY <1>3, <2>1, <2>2 DEF SendAuto
<1>4. CASE Push
  BY <1>4 DEF Push
<1>5. CASE Arm
  BY <1>5 DEF Arm, ArmWith
<1>6. CASE Check
  BY <1>6 DEF Check, Verdict, WaitOver
<1>7. CASE Persist
  BY <1>7 DEF Persist, Remembers
<1>8. CASE Send
  <2>1. task' \in [Task -> TaskState]
    BY <1>8 DEF Send, Respond, TaskState
  <2>2. answers' \subseteq Nat \X {"CONTINUE", "EPERM"}
    BY <1>8 DEF Send, Respond
  <2> QED
    BY <1>8, <2>1, <2>2 DEF Send
<1>9. CASE Kill
  <2>1. ReleasedBy(listener) \in [Task -> TaskState]
    BY ReleasedType
  <2>2. task' \in [Task -> TaskState]
    BY <1>9, <2>1 DEF Kill, TaskState
  <2> QED
    BY <1>9, <2>2 DEF Kill
<1>10. CASE Exit
  BY <1>10 DEF Exit
<1>11. CASE Ended
  <2>1. active' \in BOOLEAN
    BY <1>11 DEF Ended
  <2> QED
    BY <1>11, <2>1 DEF Ended
<1>12. CASE SpuriousWake
  BY <1>12 DEF SpuriousWake
<1>13. CASE Render
  BY <1>13 DEF Render
<1>14. CASE ToggleSkip
  BY <1>14 DEF ToggleSkip
<1>15. CASE LaunchFails
  BY <1>15, ReleasedType DEF LaunchFails
<1>16. CASE StopFlag
  BY <1>16 DEF StopFlag
<1>17. CASE Deliver
  <2>1. pc' \in PC /\ decision' \in Decision \cup {"PENDING"}
    BY <1>17 DEF Deliver, Notify
  <2> QED
    BY <1>17, <2>1 DEF Deliver
<1>18. CASE Register
  BY <1>18 DEF Register
<1>19. CASE StopNotify
  BY <1>19 DEF StopNotify, Notify
<1>20. CASE Destroy
  BY <1>20, ReleasedType DEF Destroy
<1>21. ASSUME NEW t \in Task, Recv(t) PROVE TypeOK'
  <2>1. task' \in [Task -> TaskState]
    BY <1>21 DEF Recv, TaskState
  <2>2. token_seq' \in Nat \ {0} /\ cur' \in Nat
    BY <1>21 DEF Recv
  <2>3. waved' \subseteq Nat /\ pc' \in PC
    BY <1>21 DEF Recv
  <2> QED
    BY <1>21, <2>1, <2>2, <2>3 DEF Recv
<1>22. ASSUME NEW dd \in Keys, Resolve(dd) PROVE TypeOK'
  <2>1. prompts' \in Seq(Nat)
    BY <1>22 DEF Resolve, PopFront
  <2>2. chosen' \subseteq Nat \X Decision /\ ui_d' \in Decision
    BY <1>22, KeysAssumption DEF Resolve
  <2> QED
    BY <1>22, <2>1, <2>2 DEF Resolve
<1>23. ASSUME NEW r \in Task, Launch(r) PROVE TypeOK'
  <2>1. ReleasedBy(listener) \in [Task -> TaskState]
    BY ReleasedType
  <2>2. task' \in [Task -> TaskState]
    BY <1>23, <2>1 DEF Launch, TaskState
  <2>3. active' \in BOOLEAN /\ stop' \in BOOLEAN
    BY <1>23 DEF Launch
  <2>4. gen' \in [Task -> Nat]
    BY <1>23 DEF Launch
  <2> QED
    BY <1>23, <2>2, <2>3, <2>4 DEF Launch
<1>24. ASSUME NEW t \in Task, IngestExit(t) PROVE TypeOK'
  BY <1>24 DEF IngestExit
<1>25. ASSUME NEW t \in Task, NEW c \in Task, Fork(t, c) PROVE TypeOK'
  BY <1>25 DEF Fork, TaskState
<1>26. ASSUME NEW t \in Task, NEW s \in BOOLEAN, Trap(t, s) PROVE TypeOK'
  BY <1>26 DEF Trap, TaskState
<1>27. ASSUME NEW t \in Task, Die(t) PROVE TypeOK'
  BY <1>27 DEF Die, TaskState
<1>28. ASSUME NEW from \in Modal, NEW to \in Modal, Navigate(from, to) PROVE TypeOK'
  BY <1>28 DEF Navigate
<1>29. CASE UNCHANGED vars
  BY <1>29 DEF vars
<1>30. CASE Start
  <2>1. active' \in BOOLEAN /\ pc' \in PC
    BY <1>30 DEF Start
  <2> QED
    BY <1>30, <2>1 DEF Start
<1>31. CASE Top
  BY <1>31 DEF Top
<1>32. CASE Commit
  BY <1>32 DEF Commit, CommitAt
<1> QED
  BY <1>1, <1>2, <1>3, <1>4, <1>5, <1>6, <1>7, <1>8, <1>9, <1>10, <1>11, <1>12, <1>13, <1>14, <1>15, <1>16, <1>17, <1>18, <1>19, <1>20, <1>21, <1>22, <1>23, <1>24, <1>25, <1>26, <1>27, <1>28, <1>29, <1>30, <1>31, <1>32
     DEF Next, SuperviseStep, UiKeys, UiFinish, Environment

\* Every variable keeps its type, for every value of the constants.
THEOREM TypeCorrect == Spec => []TypeOK
BY TypeInit, TypeStep, PTL DEF Spec

\* The inductive invariant holds initially and is kept by every step.
LEMMA InvInit == Init => IInv
<1> SUFFICES ASSUME Init PROVE IInv
  OBVIOUS
<1>1. TypeOK
  BY TypeInit
<1> QED
  BY <1>1 DEF Init, FirstToken, IInv, TokensInOrder, CurrentIsOwed, AwaitedIsCurrent,
     CurrentIsToken, ResolveCarriesChoice, PromptIsCurrent,
     AnswerFollowsChoice, Owing

LEMMA InvStep == IInv /\ [Next]_vars => IInv'
<1> SUFFICES ASSUME IInv, [Next]_vars PROVE IInv'
  OBVIOUS
<1>t. TypeOK'
  BY TypeStep DEF IInv
<1>0. /\ cur \in Nat
      /\ token_seq \in Nat \ {0}
      /\ prompts \in Seq(Nat)
      /\ decision \in Decision \cup {"PENDING"}
      /\ d \in Decision \cup {"PENDING"}
      /\ pc \in PC
      /\ chosen \subseteq Nat \X Decision
      /\ answers \subseteq Nat \X {"CONTINUE", "EPERM"}
  BY DEF IInv, TypeOK
<1> USE DEF TokensInOrder, CurrentIsOwed, AwaitedIsCurrent,
            ResolveCarriesChoice, PromptIsCurrent, AnswerFollowsChoice,
            CurrentIsToken, AnsweredToken, ChosenBy, Owing, Decision, Allows, PC, Modal,
            kernelVars, sharedVars, controlVars, localVars, uiVars,
            trackerVars, historyVars
<1>1. CASE Poll
  BY <1>t, <1>0, <1>1 DEF IInv, Poll
<1>2. CASE RecvFails
  BY <1>t, <1>0, <1>2 DEF IInv, RecvFails
<1>3. CASE SendAuto
  BY <1>t, <1>0, <1>3 DEF IInv, SendAuto, Respond
<1>4. CASE Push
  <2>1. ~stop => prompts = <<>>
    BY <1>4 DEF IInv, Push
  <2>2. ~stop => prompts' = <<cur>>
    BY <1>0, <1>4, <2>1 DEF Push
  <2>3. ui # "resolve" /\ (~stop /\ modal = "SECCOMP" => ui # "idle")
    BY <1>4, <2>1 DEF IInv, Push
  <2>4. PromptIsCurrent'
    BY <1>4, <2>2, <2>3 DEF IInv, Push
  <2>5. ResolveCarriesChoice'
    BY <1>4, <2>3 DEF IInv, Push
  <2>6. UNCHANGED <<active, cur, chosen, answers, waved, token_seq, d, stop,
                    awaiting_token, decision>> /\ pc = "push" /\ pc' = "arm"
    BY <1>4 DEF Push
  <2>7. TokensInOrder' /\ CurrentIsOwed' /\ AwaitedIsCurrent'
    BY <2>6 DEF IInv
  <2>8. AnswerFollowsChoice'
    BY <2>6 DEF IInv
  <2> QED
    BY <1>t, <2>4, <2>5, <2>6, <2>7, <2>8 DEF IInv
<1>5. CASE Arm
  BY <1>t, <1>0, <1>5 DEF IInv, Arm, ArmWith
<1>6. CASE Check
  BY <1>t, <1>0, <1>6 DEF IInv, Check, Verdict, WaitOver
<1>7. CASE Persist
  BY <1>t, <1>0, <1>7 DEF IInv, Persist
<1>8. CASE Send
  <2>1. /\ answers' = answers \cup
              {<<cur, IF d \in Allows THEN "CONTINUE" ELSE "EPERM">>}
        /\ pc = "send" /\ pc' \in {"kill", "top", "commit"}
        /\ UNCHANGED <<active, cur, chosen, waved, token_seq, stop, prompts,
                       awaiting_token, decision, ui, ui_d, modal, sec_active>>
    BY <1>8 DEF Send, Respond
  <2>2. d \in Decision /\ (<<cur, d>> \in chosen \/ (stop /\ d \in Allows))
    BY <2>1 DEF IInv
  <2>3. AnswerFollowsChoice'
    <3> SUFFICES ASSUME NEW a \in answers'
                 PROVE  /\ a[2] = "EPERM" => ChosenBy(a[1], Decision \ Allows)'
                        /\ a[2] = "CONTINUE" /\ ~stop'
                               => a[1] \in waved' \/ ChosenBy(a[1], Allows)'
      OBVIOUS
    <3>1. CASE a \in answers
      BY <2>1, <3>1 DEF IInv
    <3>2. CASE a = <<cur, IF d \in Allows THEN "CONTINUE" ELSE "EPERM">>
      <4>1. a[1] = cur /\ a[2] = IF d \in Allows THEN "CONTINUE" ELSE "EPERM"
        BY <3>2
      <4>2. a[2] = "EPERM" => d \in Decision \ Allows /\ <<cur, d>> \in chosen
        BY <2>2, <4>1
      <4>3. a[2] = "CONTINUE" /\ ~stop => d \in Allows /\ <<cur, d>> \in chosen
        BY <2>2, <4>1
      <4> QED
        BY <2>1, <4>1, <4>2, <4>3
    <3> QED
      BY <2>1, <3>1, <3>2
  <2>4. TokensInOrder'
    BY <2>1 DEF IInv
  <2>5. /\ CurrentIsOwed' /\ AwaitedIsCurrent' /\ ResolveCarriesChoice'
        /\ PromptIsCurrent'
    BY <2>1 DEF IInv
  <2> QED
    BY <1>t, <2>1, <2>3, <2>4, <2>5 DEF IInv
<1>9. CASE Kill
  BY <1>t, <1>0, <1>9 DEF IInv, Kill
<1>10. CASE Exit
  BY <1>t, <1>0, <1>10 DEF IInv, Exit
<1>11. CASE Ended
  BY <1>t, <1>0, <1>11 DEF IInv, Ended
<1>12. CASE SpuriousWake
  BY <1>t, <1>0, <1>12 DEF IInv, SpuriousWake
<1>13. CASE Render
  BY <1>t, <1>0, <1>13 DEF IInv, Render, UiReady
<1>14. CASE ToggleSkip
  BY <1>t, <1>0, <1>14 DEF IInv, ToggleSkip, UiReady
<1>15. CASE LaunchFails
  BY <1>t, <1>0, <1>15 DEF IInv, LaunchFails, UiReady
<1>16. CASE StopFlag
  BY <1>t, <1>0, <1>16 DEF IInv, StopFlag, UiReady
<1>17. CASE Deliver
  BY <1>t, <1>0, <1>17 DEF IInv, Deliver, Notify
<1>18. CASE Register
  BY <1>t, <1>0, <1>18 DEF IInv, Register
<1>19. CASE StopNotify
  BY <1>t, <1>0, <1>19 DEF IInv, StopNotify, Notify
<1>20. CASE Destroy
  BY <1>t, <1>0, <1>20 DEF IInv, Destroy
<1>21. ASSUME NEW t \in Task, Recv(t) PROVE IInv'
  <2>1. /\ cur' = token_seq /\ token_seq' = token_seq + 1
        /\ pc = "recv" /\ pc' \in {"auto", "push"}
        /\ waved' = IF pc' = "auto" THEN waved \cup {token_seq} ELSE waved
        /\ UNCHANGED <<active, chosen, answers, stop, prompts, awaiting_token,
                       decision, d, ui, ui_d, modal, sec_active>>
    BY <1>21 DEF Recv
  <2>2. TokensInOrder'
    <3>1. /\ \A c \in chosen : c[1] \in Nat
          /\ \A a \in answers : a[1] \in Nat
      BY <1>0
    <3>2. /\ \A c \in chosen : c[1] < token_seq + 1
          /\ \A a \in answers : a[1] < token_seq + 1
      BY <1>0, <3>1 DEF IInv
    <3>3. waved \subseteq Nat
      BY DEF IInv, TypeOK
    <3>4. \A k \in waved \cup {token_seq} : k < token_seq + 1
      BY <1>0, <3>3 DEF IInv
    <3> QED
      BY <1>0, <2>1, <3>2, <3>4
  <2>3. ~ChosenBy(token_seq, Decision) /\ ~AnsweredToken(token_seq)
        /\ token_seq \notin waved
    BY <1>0 DEF IInv
  <2>4. CurrentIsOwed'
    BY <1>0, <2>1, <2>3
  <2>5. AwaitedIsCurrent' /\ ResolveCarriesChoice' /\ PromptIsCurrent'
    BY <2>1 DEF IInv
  <2>6. AnswerFollowsChoice'
    BY <2>1 DEF IInv
  <2>7. CurrentIsToken'
    BY <1>21, <2>1 DEF Recv
  <2> QED
    BY <1>t, <2>1, <2>2, <2>4, <2>5, <2>6, <2>7 DEF IInv
<1>22. ASSUME NEW dd \in Keys, Resolve(dd) PROVE IInv'
  <2>1. /\ ~stop /\ ui = "idle" /\ modal = "SECCOMP"
        /\ ui' = "resolve" /\ ui_d' = dd
        /\ chosen' = chosen \cup {<<sec_active, dd>>}
        /\ UNCHANGED <<active, cur, pc, answers, waved, token_seq, d, stop,
                       awaiting_token, decision, modal, sec_active>>
    BY <1>22 DEF Resolve, UiReady
  <2>2. prompts = <<sec_active>> /\ sec_active = cur
    BY <2>1 DEF IInv
  <2>3. prompts' = <<>>
    BY <1>0, <1>22, <2>2 DEF Resolve, PopFront
  <2>4. dd \in Decision
    BY KeysAssumption
  <2>5. pc \in {"arm", "check", "wait"} /\ ~ChosenBy(cur, Decision)
    BY <2>1, <2>2 DEF IInv
  <2>6. pc \in {"check", "wait"} => decision = "PENDING"
    BY <1>0, <2>1, <2>5 DEF IInv
  <2>7. ResolveCarriesChoice'
    BY <2>1, <2>2, <2>3, <2>4, <2>5, <2>6 DEF IInv
  <2>8. PromptIsCurrent'
    BY <2>1, <2>3
  <2>9. TokensInOrder' /\ CurrentIsOwed'
    BY <2>1, <2>2, <2>5 DEF IInv
  <2>10. AwaitedIsCurrent' /\ AnswerFollowsChoice'
    BY <2>1, <2>5 DEF IInv
  <2> QED
    BY <1>t, <2>1, <2>7, <2>8, <2>9, <2>10 DEF IInv
<1>23. ASSUME NEW r \in Task, Launch(r) PROVE IInv'
  BY <1>t, <1>0, <1>23 DEF IInv, Launch, UiReady
<1>24. ASSUME NEW t \in Task, IngestExit(t) PROVE IInv'
  BY <1>t, <1>0, <1>24 DEF IInv, IngestExit
<1>25. ASSUME NEW t \in Task, NEW c \in Task, Fork(t, c) PROVE IInv'
  <2>1. UNCHANGED <<sharedVars, controlVars, localVars, uiVars, historyVars>>
    BY <1>25 DEF Fork
  <2> QED
    BY <1>t, <2>1 DEF IInv
<1>26. ASSUME NEW t \in Task, NEW s \in BOOLEAN, Trap(t, s) PROVE IInv'
  BY <1>t, <1>0, <1>26 DEF IInv, Trap
<1>27. ASSUME NEW t \in Task, Die(t) PROVE IInv'
  BY <1>t, <1>0, <1>27 DEF IInv, Die
<1>28. ASSUME NEW from \in Modal, NEW to \in Modal \ {"SECCOMP"}, Navigate(from, to) PROVE IInv'
  BY <1>t, <1>0, <1>28 DEF IInv, Navigate, UiReady
<1>29. CASE UNCHANGED vars
  BY <1>t, <1>29 DEF IInv, vars
<1>30. CASE Start
  BY <1>t, <1>0, <1>30 DEF IInv, Start
<1>31. CASE Top
  BY <1>t, <1>0, <1>31 DEF IInv, Top
<1>32. CASE Commit
  BY <1>t, <1>0, <1>32 DEF IInv, Commit, CommitAt
<1> QED
  BY <1>1, <1>2, <1>3, <1>4, <1>5, <1>6, <1>7, <1>8, <1>9, <1>10, <1>11, <1>12, <1>13, <1>14, <1>15, <1>16, <1>17, <1>18, <1>19, <1>20, <1>21, <1>22, <1>23, <1>24, <1>25, <1>26, <1>27, <1>28, <1>29, <1>30, <1>31, <1>32
     DEF Next, SuperviseStep, UiKeys, UiFinish, Environment

LEMMA InvCorrect == Spec => []IInv
BY InvInit, InvStep, PTL DEF Spec

\* No verdict is ever applied to another call than the one it was given for.
THEOREM AnswersFollowChoices == Spec => []AnswerFollowsChoice
<1>1. IInv => AnswerFollowsChoice
  BY DEF IInv
<1> QED
  BY <1>1, InvCorrect, PTL

\* Until shutdown the box on the screen shows the call that is being held.
THEOREM PromptsAreCurrent == Spec => []PromptIsCurrent
<1>1. IInv => PromptIsCurrent
  BY DEF IInv
<1> QED
  BY <1>1, InvCorrect, PTL

-----------------------------------------------------------------------------
(* What is recorded of a call, and when.                                   *)

\* pc while the call being held has not been put to the store.
Unasked == {"auto", "push", "arm", "check", "wait", "persist"}

\* Besides the two properties: a call is chosen for once, one that was waved
\* through never; nothing is put to the store for a call before its turn; the
\* decision about to be sent has been; and a call about to be scored has passed.
Records ==
    /\ StoreAskedBeforeAnswer /\ EvidenceOnlyWhenAllowed
    /\ \A c1, c2 \in chosen : c1[1] = c2[1] => c1 = c2
    /\ \A k \in waved : ~ChosenBy(k, Decision)
    /\ pc \in Unasked => \A p \in persisted : p[1] # cur
    /\ pc = "send" /\ d \in Remembers => \E o \in Outcome : <<cur, d, o>> \in persisted
    /\ pc = "commit" => /\ <<cur, "CONTINUE">> \in answers
                        /\ <<cur, "EPERM">> \notin answers
                        /\ cur \notin waved

\* Steps that add nothing to the records and send nothing.
Recorded == <<chosen, waved, answers, persisted, evidence>>

LEMMA RecordsIdle ==
    ASSUME Records, UNCHANGED Recorded, stop => stop',
           pc' \in Unasked => pc \in Unasked /\ UNCHANGED cur,
           pc' = "send" => pc = "send" /\ UNCHANGED <<cur, d>>,
           pc' = "commit" => pc = "commit" /\ UNCHANGED cur
    PROVE  Records'
BY DEF Records, Recorded, StoreAskedBeforeAnswer, EvidenceOnlyWhenAllowed, ChosenBy

\* The answer to the call being held is recorded last.
LEMMA RecordsSend == IInv /\ Records /\ Send => Records'
<1> SUFFICES ASSUME IInv, Records, Send PROVE Records'
  OBVIOUS
<1> DEFINE how == IF d \in Allows THEN "CONTINUE" ELSE "EPERM"
<1>1. /\ pc = "send" /\ pc' \in {"kill", "top", "commit"}
      /\ pc' = "commit" => d \in Allows
      /\ answers' = answers \cup {<<cur, how>>}
      /\ UNCHANGED <<chosen, waved, persisted, evidence, stop, cur>>
  BY DEF Send, Respond, Commits, controlVars, trackerVars
<1>2. /\ ~AnsweredToken(cur) /\ cur \notin waved
      /\ d \in Decision
      /\ <<cur, d>> \in chosen \/ (stop /\ d \in Allows)
  BY <1>1 DEF IInv, CurrentIsOwed, AwaitedIsCurrent, Owing, Allows
<1>3. StoreAskedBeforeAnswer'
  <2>1. ASSUME NEW a \in answers', NEW dd \in {"BLACKLIST", "WHITELIST"},
               <<a[1], dd>> \in chosen, a[2] = "EPERM" \/ ~stop
        PROVE  \E o \in Outcome : <<a[1], dd, o>> \in persisted
    <3>1. CASE a \in answers
      BY <2>1, <3>1 DEF Records, StoreAskedBeforeAnswer
    <3>2. CASE a = <<cur, how>>
      <4>1. <<cur, d>> \in chosen
        BY <1>2, <2>1, <3>2
      <4>2. <<cur, dd>> = <<cur, d>>
        BY <2>1, <3>2, <4>1 DEF Records
      <4>3. d \in Remembers
        BY <4>2 DEF Remembers
      <4> QED
        BY <1>1, <3>2, <4>2, <4>3 DEF Records
    <3> QED
      BY <1>1, <2>1, <3>1, <3>2
  <2> QED
    BY <1>1, <2>1 DEF Records, StoreAskedBeforeAnswer
<1>4. EvidenceOnlyWhenAllowed'
  <2> SUFFICES ASSUME NEW k \in evidence
               PROVE  /\ <<k, "CONTINUE">> \in answers' /\ <<k, "EPERM">> \notin answers'
                      /\ k \notin waved
    BY <1>1 DEF EvidenceOnlyWhenAllowed
  <2>1. /\ <<k, "CONTINUE">> \in answers /\ <<k, "EPERM">> \notin answers
        /\ k \notin waved
    BY DEF Records, EvidenceOnlyWhenAllowed
  <2>2. k # cur
    BY <1>2, <2>1 DEF AnsweredToken
  <2> QED
    BY <1>1, <2>1, <2>2
<1>5. pc' = "commit" => /\ <<cur, "CONTINUE">> \in answers'
                       /\ <<cur, "EPERM">> \notin answers'
  BY <1>1, <1>2 DEF AnsweredToken
<1> QED
  BY <1>1, <1>2, <1>3, <1>4, <1>5 DEF Records, ChosenBy, Unasked

\* What is scored has been answered.
LEMMA RecordsCommit == Records /\ Commit => Records'
<1> SUFFICES ASSUME Records, Commit PROVE Records'
  OBVIOUS
<1>1. /\ pc = "commit" /\ pc' = "top"
      /\ evidence' \in {evidence, evidence \cup {cur}}
      /\ UNCHANGED <<chosen, waved, persisted, answers, stop>>
  BY DEF Commit, CommitAt, controlVars, historyVars
<1>2. EvidenceOnlyWhenAllowed'
  BY <1>1 DEF Records, EvidenceOnlyWhenAllowed
<1> QED
  BY <1>1, <1>2 DEF Records, StoreAskedBeforeAnswer, ChosenBy, Unasked

\* A call that is waved through was never on the screen.
LEMMA RecordsSendAuto == IInv /\ Records /\ SendAuto => Records'
<1> SUFFICES ASSUME IInv, Records, SendAuto PROVE Records'
  OBVIOUS
<1>1. /\ pc = "auto" /\ pc' = "top"
      /\ answers' = answers \cup {<<cur, "CONTINUE">>}
      /\ UNCHANGED <<chosen, waved, persisted, evidence, stop>>
  BY DEF SendAuto, Respond, controlVars, trackerVars
<1>2. cur \in waved
  BY <1>1 DEF IInv, CurrentIsOwed, Owing
<1>3. ~ChosenBy(cur, Decision)
  BY <1>2 DEF Records
<1>4. StoreAskedBeforeAnswer'
  <2>1. ASSUME NEW a \in answers', NEW dd \in {"BLACKLIST", "WHITELIST"},
               <<a[1], dd>> \in chosen, a[2] = "EPERM" \/ ~stop
        PROVE  \E o \in Outcome : <<a[1], dd, o>> \in persisted
    <3>1. a[1] # cur
      BY <1>3, <2>1 DEF ChosenBy, Decision
    <3>2. a \in answers
      BY <1>1, <2>1, <3>1
    <3> QED
      BY <2>1, <3>2 DEF Records, StoreAskedBeforeAnswer
  <2> QED
    BY <1>1, <2>1 DEF Records, StoreAskedBeforeAnswer
<1>5. EvidenceOnlyWhenAllowed'
  BY <1>1 DEF Records, EvidenceOnlyWhenAllowed
<1> QED
  BY <1>1, <1>4, <1>5 DEF Records, ChosenBy, Unasked

\* A new token has no history.
LEMMA RecordsRecv ==
    ASSUME IInv, Records, NEW t \in Task, Recv(t)
    PROVE  Records'
<1>1. /\ pc' \in {"auto", "push"} /\ cur' = token_seq
      /\ (waved' = waved) \/ waved' = waved \cup {token_seq}
      /\ UNCHANGED <<chosen, answers, persisted, evidence, stop>>
  BY DEF Recv, trackerVars
<1>2. token_seq \in Nat
  BY DEF IInv, TypeOK
<1>3. (\A c \in chosen : c[1] # token_seq) /\ (\A a \in answers : a[1] # token_seq)
  BY <1>2 DEF IInv, TokensInOrder
<1>4. EvidenceOnlyWhenAllowed'
  BY <1>1, <1>3 DEF Records, EvidenceOnlyWhenAllowed
<1>5. \A k \in waved' : ~ChosenBy(k, Decision)'
  <2>1. ASSUME NEW dd, <<token_seq, dd>> \in chosen PROVE FALSE
    <3>1. <<token_seq, dd>>[1] # token_seq
      BY <1>3, <2>1
    <3> QED
      BY <3>1
  <2>2. ~ChosenBy(token_seq, Decision)
    BY <2>1 DEF ChosenBy
  <2> QED
    BY <1>1, <2>2 DEF Records, ChosenBy
<1>6. \A p \in persisted : p[1] # token_seq
  <2> SUFFICES ASSUME NEW p \in persisted PROVE p[1] # token_seq
    OBVIOUS
  <2>1. <<p[1], p[2]>> \in chosen
    BY DEF Records, StoreAskedBeforeAnswer
  <2>2. <<p[1], p[2]>>[1] # token_seq
    BY <1>3, <2>1
  <2> QED
    BY <2>2
<1> QED
  BY <1>1, <1>4, <1>5, <1>6 DEF Records, StoreAskedBeforeAnswer

\* The choice is for the call being held, which has neither answer nor choice.
LEMMA RecordsResolve ==
    ASSUME IInv, Records, NEW dd \in Keys, Resolve(dd)
    PROVE  Records'
<1>1. /\ chosen' = chosen \cup {<<sec_active, dd>>}
      /\ ~stop /\ modal = "SECCOMP" /\ ui = "idle"
      /\ UNCHANGED <<answers, waved, persisted, evidence, stop, pc, cur, d>>
  BY DEF Resolve, UiReady, trackerVars, controlVars, localVars
<1>2. prompts = <<sec_active>>
  BY <1>1 DEF IInv, PromptIsCurrent
<1>3. prompts # <<>> /\ sec_active = cur
  BY <1>1, <1>2 DEF IInv, PromptIsCurrent
<1>4. pc \in {"arm", "check", "wait"} /\ ~ChosenBy(cur, Decision)
  BY <1>1, <1>3 DEF IInv, PromptIsCurrent
<1>5. ~AnsweredToken(cur) /\ cur \notin waved
  BY <1>4 DEF IInv, CurrentIsOwed, Owing
<1>6. ASSUME NEW c \in chosen PROVE c[1] # cur
  <2>1. c = <<c[1], c[2]>> /\ c[2] \in Decision
    BY DEF IInv, TypeOK
  <2> QED
    BY <1>4, <2>1 DEF ChosenBy
<1>7. StoreAskedBeforeAnswer'
  BY <1>1, <1>3, <1>5 DEF Records, StoreAskedBeforeAnswer, AnsweredToken
<1>8. EvidenceOnlyWhenAllowed'
  BY <1>1 DEF Records, EvidenceOnlyWhenAllowed
<1>9. \A c1, c2 \in chosen' : c1[1] = c2[1] => c1 = c2
  BY <1>1, <1>3, <1>6 DEF Records
<1>10. \A k \in waved' : ~ChosenBy(k, Decision)'
  BY <1>1, <1>3, <1>5 DEF Records, ChosenBy
<1> QED
  BY <1>1, <1>4, <1>7, <1>8, <1>9, <1>10 DEF Records

\* The decision was chosen for the call being held; before shutdown overrides
\* it, that is, and shutdown has nothing remembered.
LEMMA RecordsPersist == IInv /\ Records /\ Persist => Records'
<1> SUFFICES ASSUME IInv, Records, Persist PROVE Records'
  OBVIOUS
<1>1. /\ pc = "persist" /\ pc' = "send"
      /\ UNCHANGED <<chosen, waved, answers, evidence, stop, cur, d>>
  BY DEF Persist, controlVars, historyVars
<1>2. \A p \in persisted : p[1] # cur
  BY <1>1 DEF Records, Unasked
<1>3. CASE d \notin Remembers
  BY <1>1, <1>3 DEF Persist, Records, StoreAskedBeforeAnswer,
                    EvidenceOnlyWhenAllowed, ChosenBy, Unasked
<1>4. CASE d \in Remembers
  <2>1. PICK o \in Outcome : persisted' = persisted \cup {<<cur, d, o>>}
    BY <1>4 DEF Persist
  <2>2. <<cur, d>> \in chosen
    BY <1>1, <1>4 DEF IInv, AwaitedIsCurrent, Remembers
  <2>3. StoreAskedBeforeAnswer'
    <3>1. ASSUME NEW a \in answers', NEW dd \in {"BLACKLIST", "WHITELIST"},
                 <<a[1], dd>> \in chosen', a[2] = "EPERM" \/ ~stop'
          PROVE  \E e \in Outcome : <<a[1], dd, e>> \in persisted'
      <4>1. PICK e \in Outcome : <<a[1], dd, e>> \in persisted
        BY <1>1, <3>1 DEF Records, StoreAskedBeforeAnswer
      <4> QED
        BY <2>1, <4>1
    <3>2. ASSUME NEW p \in persisted' PROVE <<p[1], p[2]>> \in chosen'
      BY <1>1, <2>1, <2>2, <3>2 DEF Records, StoreAskedBeforeAnswer
    <3>3. ASSUME NEW p \in persisted', NEW q \in persisted', p[1] = q[1]
          PROVE  p = q
      BY <1>2, <2>1, <3>3 DEF Records, StoreAskedBeforeAnswer
    <3> QED
      BY <3>1, <3>2, <3>3 DEF StoreAskedBeforeAnswer
  <2>4. EvidenceOnlyWhenAllowed'
    BY <1>1 DEF Records, EvidenceOnlyWhenAllowed
  <2>5. \A k \in waved' : ~ChosenBy(k, Decision)'
    BY <1>1 DEF Records, ChosenBy
  <2>6. \E e \in Outcome : <<cur, d, e>> \in persisted'
    BY <2>1
  <2>7. \A c1, c2 \in chosen' : c1[1] = c2[1] => c1 = c2
    BY <1>1 DEF Records
  <2> QED
    BY <1>1, <2>3, <2>4, <2>5, <2>6, <2>7 DEF Records, Unasked
<1> QED
  BY <1>3, <1>4

LEMMA RecordsStep == IInv /\ Records /\ [Next]_vars => Records'
<1> SUFFICES ASSUME IInv, Records, [Next]_vars PROVE Records'
  OBVIOUS
<1> USE DEF kernelVars, sharedVars, controlVars, localVars, uiVars,
            trackerVars, historyVars, Recorded, Unasked
<1>1. CASE Poll
  BY <1>1, RecordsIdle DEF Poll
<1>2. CASE RecvFails
  BY <1>2, RecordsIdle DEF RecvFails
<1>3. CASE Push
  BY <1>3, RecordsIdle DEF Push
<1>4. CASE Arm
  BY <1>4, RecordsIdle DEF Arm, ArmWith
<1>5. CASE Check
  BY <1>5, RecordsIdle DEF Check
<1>6. CASE Kill
  BY <1>6, RecordsIdle DEF Kill
<1>7. CASE Exit
  BY <1>7, RecordsIdle DEF Exit
<1>8. CASE Ended
  BY <1>8, RecordsIdle DEF Ended
<1>9. CASE SpuriousWake
  BY <1>9, RecordsIdle DEF SpuriousWake
<1>10. CASE Render
  BY <1>10, RecordsIdle DEF Render
<1>11. CASE ToggleSkip
  BY <1>11, RecordsIdle DEF ToggleSkip
<1>12. CASE LaunchFails
  BY <1>12, RecordsIdle DEF LaunchFails
<1>13. CASE StopFlag
  BY <1>13, RecordsIdle DEF StopFlag
<1>14. CASE Deliver
  BY <1>14, RecordsIdle DEF Deliver, Notify
<1>15. CASE Register
  BY <1>15, RecordsIdle DEF Register
<1>16. CASE StopNotify
  BY <1>16, RecordsIdle DEF StopNotify, Notify
<1>17. CASE Destroy
  BY <1>17, RecordsIdle DEF Destroy
<1>18. ASSUME NEW f \in Modal, NEW g \in Modal, Navigate(f, g) PROVE Records'
  BY <1>18, RecordsIdle DEF Navigate
<1>19. ASSUME NEW r \in Task, Launch(r) PROVE Records'
  BY <1>19, RecordsIdle DEF Launch, UiReady
<1>20. ASSUME NEW t \in Task, IngestExit(t) PROVE Records'
  BY <1>20, RecordsIdle DEF IngestExit
<1>21. ASSUME NEW t \in Task, NEW c \in Task, Fork(t, c) PROVE Records'
  BY <1>21, RecordsIdle DEF Fork
<1>22. ASSUME NEW t \in Task, NEW s \in BOOLEAN, Trap(t, s) PROVE Records'
  BY <1>22, RecordsIdle DEF Trap
<1>23. ASSUME NEW t \in Task, Die(t) PROVE Records'
  BY <1>23, RecordsIdle DEF Die
<1>24. CASE UNCHANGED vars
  BY <1>24, RecordsIdle DEF vars
<1>25. CASE Start
  BY <1>25, RecordsIdle DEF Start
<1>26. CASE Top
  BY <1>26, RecordsIdle DEF Top
<1> QED
  BY <1>1, <1>2, <1>3, <1>4, <1>5, <1>6, <1>7, <1>8, <1>9, <1>10, <1>11, <1>12, <1>13, <1>14, <1>15, <1>16, <1>17, <1>18, <1>19, <1>20, <1>21, <1>22, <1>23, <1>24, <1>25, <1>26, RecordsSend, RecordsCommit, RecordsSendAuto, RecordsRecv, RecordsResolve, RecordsPersist
     DEF Next, SuperviseStep, UiKeys, UiFinish, Environment, Modal

LEMMA RecordsCorrect == Spec => [](IInv /\ Records)
<1>1. Init => Records
  BY DEF Init, Records, StoreAskedBeforeAnswer, EvidenceOnlyWhenAllowed
<1> QED
  BY <1>1, InvInit, InvStep, RecordsStep, PTL DEF Spec

\* The store is asked, and only for what the operator wants remembered, once and
\* before the call it was decided on is answered.
THEOREM StoreAskedFirst == Spec => []StoreAskedBeforeAnswer
<1>1. Records => StoreAskedBeforeAnswer
  BY DEF Records
<1> QED
  BY <1>1, RecordsCorrect, PTL

\* Evidence is scored only for calls that were asked about and passed.
THEOREM EvidenceIsOfAllowed == Spec => []EvidenceOnlyWhenAllowed
<1>1. Records => EvidenceOnlyWhenAllowed
  BY DEF Records
<1> QED
  BY <1>1, RecordsCorrect, PTL

\* What a decision changes outside the supervisor is what the kernel was told.
THEOREM EffectsFollowAnswers == Spec => []EffectsMatchAnswers
<1>1. StoreAskedBeforeAnswer /\ EvidenceOnlyWhenAllowed => EffectsMatchAnswers
  BY DEF EffectsMatchAnswers
<1> QED
  BY <1>1, StoreAskedFirst, EvidenceIsOfAllowed, PTL

-----------------------------------------------------------------------------
(* The refinement.                                                         *)

\* The threads, the prompt queue and the condition variable implement the gate.
LEMMA GateInit == Init => Gate!Init
BY DEF Init, FirstToken, Gate!Init

LEMMA GateStep == IInv /\ [Next]_vars => [Gate!Next]_(Gate!vars)
<1> SUFFICES ASSUME IInv, [Next]_vars PROVE [Gate!Next]_(Gate!vars)
  OBVIOUS
<1> USE DEF kernelVars, sharedVars, controlVars, localVars, uiVars,
            trackerVars, historyVars, Gate!vars
<1>1. CASE Poll
  BY <1>1 DEF Poll
<1>2. CASE RecvFails
  BY <1>2 DEF RecvFails
<1>3. CASE Push
  BY <1>3 DEF Push
<1>4. CASE Arm
  BY <1>4 DEF Arm, ArmWith
<1>5. CASE Check
  BY <1>5 DEF Check, Verdict, WaitOver
<1>6. CASE Persist
  BY <1>6 DEF Persist
<1>7. CASE Kill
  BY <1>7 DEF Kill
<1>8. CASE Exit
  BY <1>8 DEF Exit
<1>9. CASE Ended
  BY <1>9 DEF Ended
<1>10. CASE SpuriousWake
  BY <1>10 DEF SpuriousWake
<1>11. CASE Render
  BY <1>11 DEF Render
<1>12. CASE ToggleSkip
  BY <1>12 DEF ToggleSkip
<1>13. CASE LaunchFails
  BY <1>13 DEF LaunchFails
<1>14. CASE Deliver
  BY <1>14 DEF Deliver
<1>15. CASE Register
  BY <1>15 DEF Register
<1>16. CASE StopNotify
  BY <1>16 DEF StopNotify
<1>17. CASE Destroy
  BY <1>17 DEF Destroy
<1>18. ASSUME NEW t \in Task, IngestExit(t) PROVE [Gate!Next]_(Gate!vars)
  BY <1>18 DEF IngestExit
<1>19. ASSUME NEW t \in Task, NEW c \in Task, Fork(t, c) PROVE [Gate!Next]_(Gate!vars)
  BY <1>19 DEF Fork
<1>20. ASSUME NEW t \in Task, NEW s \in BOOLEAN, Trap(t, s) PROVE [Gate!Next]_(Gate!vars)
  BY <1>20 DEF Trap
<1>21. ASSUME NEW t \in Task, Die(t) PROVE [Gate!Next]_(Gate!vars)
  BY <1>21 DEF Die
<1>22. ASSUME NEW from \in Modal, NEW to \in Modal \ {"SECCOMP"}, Navigate(from, to) PROVE [Gate!Next]_(Gate!vars)
  BY <1>22 DEF Navigate
<1>23. ASSUME NEW r \in Task, Launch(r) PROVE [Gate!Next]_(Gate!vars)
  BY <1>23 DEF Launch, UiReady
<1>24. CASE UNCHANGED vars
  BY <1>24 DEF vars
<1>30. CASE Start
  BY <1>30 DEF Start
<1>31. CASE Top
  BY <1>31 DEF Top
<1>32. CASE Commit
  BY <1>32 DEF Commit, CommitAt
<1>25. CASE StopFlag
  BY <1>25 DEF StopFlag, Gate!Next, Gate!Close
<1>26. ASSUME NEW t \in Task, Recv(t) PROVE Gate!Next
  <2>1. /\ token_seq \in Token /\ token_seq' = token_seq + 1
        /\ pc' \in {"auto", "push"}
        /\ waved' = IF pc' = "auto" THEN waved \cup {token_seq} ELSE waved
        /\ UNCHANGED <<chosen, answers, stop>>
    BY <1>26 DEF Recv
  <2>2. token_seq \in Nat \ {0} /\ waved \subseteq Nat
    BY DEF IInv, TypeOK
  <2>3. token_seq \notin waved
    BY <2>2 DEF IInv, TokensInOrder
  <2>4. 1 .. token_seq' - 1 = (1 .. token_seq - 1) \cup {token_seq}
    BY <2>1, <2>2
  <2>5. CASE pc' = "auto"
    <3>1. Gate!Wave(token_seq)
      BY <2>1, <2>2, <2>3, <2>4, <2>5 DEF Gate!Wave
    <3> QED
      BY <2>1, <3>1 DEF Gate!Next
  <2>6. CASE pc' = "push"
    <3>1. Gate!Ask(token_seq)
      BY <2>1, <2>2, <2>3, <2>4, <2>6 DEF Gate!Ask
    <3> QED
      BY <2>1, <3>1 DEF Gate!Next
  <2> QED
    BY <2>1, <2>5, <2>6
<1>cur. ASSUME pc \in Owing
        PROVE  /\ cur \in Token
               /\ ~Gate!Answered(cur)
               /\ pc # "auto" => cur \in (1 .. token_seq - 1) \ waved
  <2>1. cur = token_seq - 1 /\ cur # 0 /\ ~AnsweredToken(cur)
        /\ (cur \in waved <=> pc = "auto")
    BY <1>cur DEF IInv, CurrentIsOwed
  <2>2. cur \in Nat /\ token_seq \in Nat
    BY DEF IInv, TypeOK
  <2>3. ~Gate!Answered(cur)
    BY <2>1 DEF AnsweredToken, Gate!Answered
  <2>4. cur \in Token
    BY <1>cur DEF IInv, CurrentIsToken
  <2> QED
    BY <2>1, <2>2, <2>3, <2>4
<1>27. CASE SendAuto
  <2>1. pc = "auto" /\ answers' = answers \cup {<<cur, "CONTINUE">>}
        /\ UNCHANGED <<token_seq, waved, chosen, stop>>
    BY <1>27 DEF SendAuto, Respond
  <2>2. cur \in waved /\ cur \in Token /\ ~Gate!Answered(cur)
    BY <1>cur, <2>1 DEF IInv, CurrentIsOwed, Owing
  <2>3. Gate!Pass(cur)
    BY <2>1, <2>2 DEF Gate!Pass
  <2> QED
    BY <2>2, <2>3 DEF Gate!Next
<1>28. CASE Send
  <2>1. /\ pc = "send"
        /\ answers' = answers \cup
              {<<cur, IF d \in Allows THEN "CONTINUE" ELSE "EPERM">>}
        /\ UNCHANGED <<token_seq, waved, chosen, stop>>
    BY <1>28 DEF Send, Respond
  <2>2. /\ cur \in Token /\ ~Gate!Answered(cur)
        /\ cur \in (1 .. token_seq - 1) \ waved
    BY <1>cur, <2>1 DEF Owing
  <2>3. d \in Decision /\ (<<cur, d>> \in chosen \/ (stop /\ d \in Allows))
    BY <2>1 DEF IInv, AwaitedIsCurrent, Allows
  <2>4. CASE d \in Allows
    <3>1. Gate!Pass(cur)
      BY <2>1, <2>2, <2>3, <2>4 DEF Gate!Pass
    <3> QED
      BY <2>2, <3>1 DEF Gate!Next
  <2>5. CASE d \notin Allows
    <3>1. Gate!Refuse(cur)
      BY <2>1, <2>2, <2>3, <2>5 DEF Gate!Refuse
    <3> QED
      BY <2>2, <3>1 DEF Gate!Next
  <2> QED
    BY <2>4, <2>5
<1>29. ASSUME NEW dd \in Keys, Resolve(dd) PROVE Gate!Next
  <2>1. /\ ~stop /\ ui = "idle" /\ modal = "SECCOMP"
        /\ chosen' = chosen \cup {<<sec_active, dd>>}
        /\ UNCHANGED <<token_seq, waved, answers, stop>>
    BY <1>29 DEF Resolve, UiReady
  <2>2. prompts = <<sec_active>> /\ prompts # <<>>
    BY <2>1 DEF IInv, PromptIsCurrent
  <2>3. /\ sec_active = cur
        /\ pc \in {"arm", "check", "wait"}
        /\ ~ChosenBy(cur, Decision)
    BY <2>1, <2>2 DEF IInv, PromptIsCurrent
  <2>4. /\ cur \in Token /\ ~Gate!Answered(cur)
        /\ cur \in (1 .. token_seq - 1) \ waved
    BY <1>cur, <2>3 DEF Owing
  <2>5. dd \in Decision /\ ~Gate!Chosen(cur)
    BY <2>3, KeysAssumption DEF ChosenBy, Gate!Chosen
  <2>6. Gate!Choose(cur, dd)
    BY <2>1, <2>3, <2>4, <2>5 DEF Gate!Choose
  <2> QED
    BY <2>4, <2>5, <2>6 DEF Gate!Next
<1> QED
  BY <1>1, <1>2, <1>3, <1>4, <1>5, <1>6, <1>7, <1>8, <1>9, <1>10, <1>11, <1>12, <1>13, <1>14, <1>15, <1>16, <1>17, <1>18, <1>19, <1>20, <1>21, <1>22, <1>23, <1>24, <1>25, <1>26, <1>27, <1>28, <1>29, <1>30, <1>31, <1>32
     DEF Next, SuperviseStep, UiKeys, UiFinish, Environment, Modal

THEOREM ImplementsGate == Spec => GateSpec
BY InvCorrect, GateInit, GateStep, PTL DEF Spec, GateSpec, Gate!Spec
=============================================================================
