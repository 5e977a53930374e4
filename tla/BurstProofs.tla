----------------------------- MODULE BurstProofs -----------------------------
(* Proofs about Burst, for any processes, threads, lineages, weights and    *)
(* ceilings.  What concerns one window is about processes of one thread;    *)
(* that blocked_tgids has room for every process is assumed where needed.   *)
EXTENDS Burst, FiniteSetTheorems, WellFoundedInduction, TLAPS

RoomForAll == IsFiniteSet(Proc) /\ Cardinality(Proc) <= Room

-----------------------------------------------------------------------------
(* Types.                                                                  *)

LEMMA InitIInv == Init => IInv
<1> SUFFICES ASSUME Init PROVE IInv
  OBVIOUS
<1> USE HomesAssumption, LineagesAssumption, NumbersAssumption
          DEF HomesAssumption, LineagesAssumption, NumbersAssumption
<1>1. TypeOK
  BY DEF Init, TypeOK, NoEpoch, Kind
<1>2. Epochs
  BY DEF Init, Epochs, NoEpoch, InProbe
<1>3. ASSUME NEW t \in Thread PROVE WindowOf(t)
  <2>1. of[t] \in Proc /\ pc[t] = "idle"
    BY DEF Init
  <2> QED
    BY <2>1 DEF Init, WindowOf, Settled, InProbe, NoEpoch
<1> QED
  BY <1>1, <1>2, <1>3 DEF IInv

LEMMA ProbingType == TypeOK /\ (\E t \in Thread : Probing(t)) => TypeOK'
<1> SUFFICES ASSUME TypeOK, NEW t \in Thread, Probing(t) PROVE TypeOK'
  OBVIOUS
<1> USE HomesAssumption, NumbersAssumption DEF HomesAssumption, NumbersAssumption
<1>0. of \in [Thread -> Proc] /\ Weights \cup {0} \subseteq Nat
  BY DEF TypeOK
<1>1. of[t] \in Proc /\ w[t] \in Nat /\ ep[t] \in Nat /\ sum[t] \in Nat
      /\ win[of[t]] \in [sum : Nat, epoch : Nat]
  BY <1>0 DEF TypeOK
<1>2. Onward(t) \in {"hook", "idle"}
  BY DEF Onward
<1> USE <1>1, <1>2 DEF TypeOK, Goto, InProbe, InHook, tracked, call, adding, walk, hooked, weighed
<1>3. CASE Skip(t)
  BY <1>3 DEF Skip
<1>4. CASE Count(t)
  BY <1>4 DEF Count
<1>5. CASE Look(t)
  BY <1>5 DEF Look
<1>6. CASE Insert(t)
  BY <1>6 DEF Insert
<1>7. CASE Zero(t)
  BY <1>7 DEF Zero
<1>8. CASE Stamp(t)
  BY <1>8 DEF Stamp
<1>9. CASE Load(t)
  BY <1>9 DEF Load
<1>10. CASE Store(t)
  <2>1. sum' = [sum EXCEPT ![t] = sum[t] + w[t]] /\ sum' \in [Thread -> Nat]
    BY <1>10 DEF Store
  <2>2. win' = [win EXCEPT ![of[t]].sum = sum'[t]] /\ sum'[t] \in Nat
    BY <1>10, <2>1 DEF Store
  <2>3. win' \in [Proc -> [sum : Nat, epoch : Nat]]
    BY <2>2
  <2> QED
    BY <1>10, <2>1, <2>3 DEF Store
<1>11. CASE Check(t)
  <2>1. /\ \E place \in {"arm", "hook", "idle"} : pc' = [pc EXCEPT ![t] = place]
        /\ eased' \subseteq eased
        /\ UNCHANGED <<tracked, blocked, win, call, adding, walk, weighed, hooked>>
    BY <1>11 DEF Check
  <2> QED
    BY <2>1
<1>12. CASE Arm(t)
  BY <1>12 DEF Arm, AddBlock
<1> QED
  BY <1>3, <1>4, <1>5, <1>6, <1>7, <1>8, <1>9, <1>10, <1>11, <1>12 DEF Probing

LEMMA CallingType ==
    ASSUME TypeOK, NEW t \in Thread,
           \/ \E k \in Kind, x \in Weights : Call(t, k, x)
           \/ Hook(t) \/ LookExempt(t) \/ LookBlocked(t)
    PROVE  TypeOK'
<1> USE HomesAssumption, NumbersAssumption DEF HomesAssumption, NumbersAssumption
<1>0. of \in [Thread -> Proc] /\ of[t] \in Proc
  BY DEF TypeOK
<1>1. Passed(t) \in {"probe", "idle"}
  BY DEF Passed
<1>2. Demands(of[t]) \subseteq Proc
  BY DEF Demands, TypeOK
<1>3. ASSUME NEW v \in {"pass", "deny"}, Return(t, v) PROVE TypeOK'
  BY <1>0, <1>1, <1>3 DEF Return, TypeOK, Goto, tracked, call, weighed
<1> USE <1>0, <1>1 DEF TypeOK, Goto, InProbe, InHook, tracked, call, adding, walk, hooked, weighed
<1>4. ASSUME NEW k \in Kind, NEW x \in Weights, Call(t, k, x) PROVE TypeOK'
  BY <1>4 DEF Call
<1>5. CASE Hook(t)
  BY <1>2, <1>5 DEF Hook
<1>6. CASE LookExempt(t)
  BY <1>3, <1>6 DEF LookExempt
<1>7. CASE LookBlocked(t)
  <2>1. CASE at[t] \notin blocked /\ ~Stops(t)
    <3>1. parent[at[t]] \in Proc
      BY <2>1 DEF Stops, Top
    <3>2. at' = [at EXCEPT ![t] = parent[at[t]]] /\ level' = [level EXCEPT ![t] = @ + 1]
          /\ pc' = [pc EXCEPT ![t] = "exempt?"]
          /\ UNCHANGED <<tracked, blocked, win, call, adding, weighed, eased, hooked>>
      BY <1>7, <2>1 DEF LookBlocked
    <3>3. at' \in [Thread -> Proc] /\ level' \in [Thread -> Nat]
      BY <3>1, <3>2
    <3> QED
      BY <3>2, <3>3
  <2> QED
    BY <1>3, <1>7, <2>1 DEF LookBlocked
<1> QED
  BY <1>4, <1>5, <1>6, <1>7

LEMMA TrackerType ==
    ASSUME TypeOK,
           \/ Bump \/ set_enforcement
           \/ \E p \in Proc : \/ arm_block(p) \/ disarm_block(p) \/ kernel_exempt(p)
                              \/ Reparent(p) \/ Evict(p)
    PROVE  TypeOK'
<1> USE DEF TypeOK, tracked, call, adding, walk, hooked, weighed
<1>1. CASE Bump
  BY <1>1 DEF Bump
<1>2. ASSUME Changes,
             enforce_on' \in BOOLEAN, blocked' \subseteq Proc, exempt' \subseteq Proc,
             parent' \in [Proc -> Proc \cup {Outside}], eased' \subseteq Thread
      PROVE  TypeOK'
  <2>1. must' \in [Thread -> SUBSET Proc] /\ trusted' \subseteq Thread
    BY <1>2 DEF Changes
  <2> QED
    BY <1>2, <2>1 DEF Changes
<1>3. CASE set_enforcement
  BY <1>2, <1>3 DEF set_enforcement
<1>4. ASSUME NEW p \in Proc, arm_block(p) \/ disarm_block(p) \/ kernel_exempt(p) \/ Reparent(p)
      PROVE  TypeOK'
  <2>1. CASE arm_block(p)
    BY <1>2, <2>1 DEF arm_block, AddBlock
  <2>2. CASE disarm_block(p)
    BY <1>2, <2>2 DEF disarm_block, ThreadsOf
  <2>3. CASE kernel_exempt(p)
    BY <1>2, <2>3 DEF kernel_exempt
  <2>4. CASE Reparent(p)
    BY <1>2, <2>4 DEF Reparent
  <2> QED
    BY <1>4, <2>1, <2>2, <2>3, <2>4
<1>5. ASSUME NEW p \in Proc, Evict(p) PROVE TypeOK'
  <2>1. NoEpoch \in Nat
    BY NumbersAssumption DEF NumbersAssumption, NoEpoch
  <2> QED
    BY <1>5, <2>1 DEF Evict
<1> QED
  BY <1>1, <1>3, <1>4, <1>5

LEMMA TypeStep == TypeOK /\ [Next]_vars => TypeOK'
<1> SUFFICES ASSUME TypeOK, [Next]_vars PROVE TypeOK'
  OBVIOUS
<1>1. CASE UNCHANGED vars
  BY <1>1 DEF vars, TypeOK
<1> QED
  BY <1>1, ProbingType, CallingType, TrackerType DEF Next

-----------------------------------------------------------------------------
(* The window of a process of one thread.                                  *)

\* A step of t does not touch the window of another process.
LEMMA OtherWindows ==
    ASSUME IInv, NEW t \in Thread, NEW u \in Thread, u # t, Alone(u),
           UNCHANGED <<of, epoch, before>>,
           \A p \in Proc : p # of[t] => win'[p] = win[p] /\ spent'[p] = spent[p],
           pc'[u] = pc[u], w'[u] = w[u], ep'[u] = ep[u], sum'[u] = sum[u]
    PROVE  WindowOf(u)'
<1>1. of[u] \in Proc /\ of[u] # of[t]
  BY HomesAssumption DEF HomesAssumption, IInv, TypeOK, Alone, ThreadsOf
<1>2. win'[of[u]] = win[of[u]] /\ spent'[of[u]] = spent[of[u]]
  BY <1>1
<1>3. WindowOf(u)
  BY DEF IInv
<1> QED
  BY <1>1, <1>2, <1>3 DEF WindowOf, Underway, Settled, AtMost, InWindow

\* Each step of burst_add keeps the window of its own process.
LEMMA OwnWindow ==
    ASSUME IInv, NEW t \in Thread, Alone(t), Probing(t)
    PROVE  WindowOf(t)'
<1> USE NumbersAssumption DEF NumbersAssumption
<1>0. /\ of[t] \in Proc /\ w[t] \in Nat /\ ep[t] \in Nat /\ sum[t] \in Nat /\ epoch \in Nat
      /\ win[of[t]] \in [sum : Nat, epoch : Nat]
      /\ win[of[t]].sum \in Nat /\ win[of[t]].epoch \in Nat
      /\ spent[of[t]] \in Nat /\ before[of[t]] \in Nat
  <2>1. of \in [Thread -> Proc] /\ Weights \cup {0} \subseteq Nat
    BY HomesAssumption DEF HomesAssumption, IInv, TypeOK
  <2> QED
    BY <2>1 DEF IInv, TypeOK
<1>1. WindowOf(t)
  BY DEF IInv
<1>2. Onward(t) \notin InProbe
  BY DEF Onward, InProbe
<1>3. pc' \in [Thread -> STRING] \/ pc \in [Thread -> {"idle", "probe"} \cup InProbe \cup InHook]
  BY DEF IInv, TypeOK
<1>4. epoch <= MaxEpoch /\ (win[of[t]].epoch <= epoch \/ win[of[t]].epoch = NoEpoch)
  BY <1>0 DEF IInv, Epochs
<1> USE <1>0, <1>1 DEF Goto, tracked, call, adding, walk, hooked, weighed
<1>5. CASE Skip(t)
  BY <1>2, <1>3, <1>5 DEF Skip, WindowOf, Settled, InProbe
<1>6. CASE Count(t)
  <2>1. /\ pc[t] \notin InProbe /\ pc'[t] = "look" /\ ep'[t] = epoch
        /\ spent'[of[t]] = spent[of[t]] + w[t]
    BY <1>3, <1>6 DEF Count, InProbe, IInv, TypeOK
  <2>2. Settled(t) /\ UNCHANGED <<of, epoch, win, w, before>>
    BY <1>6, <2>1 DEF Count, WindowOf
  <2>3. InWindow(t)' = spent[of[t]] + w[t]
    BY <2>1, <2>2 DEF InWindow
  <2>4. Underway(t)'
    BY <2>1, <2>2, <2>3 DEF Settled, Underway, AtMost
  <2> QED
    BY <2>1, <2>4 DEF WindowOf, InProbe
<1>7. CASE Look(t)
  BY <1>3, <1>4, <1>7 DEF Look, WindowOf, Underway, AtMost, InWindow, InProbe, NoEpoch
<1>8. CASE Insert(t)
  BY <1>3, <1>8 DEF Insert, WindowOf, Underway, AtMost, InWindow, InProbe, IInv, TypeOK
<1>9. CASE Zero(t)
  BY <1>3, <1>9 DEF Zero, WindowOf, Underway, AtMost, InWindow, InProbe, IInv, TypeOK
<1>10. CASE Stamp(t)
  BY <1>3, <1>10 DEF Stamp, WindowOf, Underway, AtMost, InWindow, InProbe, IInv, TypeOK
<1>11. CASE Load(t)
  BY <1>3, <1>11 DEF Load, WindowOf, Underway, AtMost, InWindow, InProbe, IInv, TypeOK
<1>12. CASE Store(t)
  BY <1>3, <1>12 DEF Store, WindowOf, Underway, AtMost, InWindow, InProbe, IInv, TypeOK
<1>13. CASE Check(t)
  BY <1>2, <1>3, <1>13 DEF Check, WindowOf, Underway, Settled, AtMost, InWindow, InProbe, Reaches
<1>14. CASE Arm(t)
  BY <1>2, <1>3, <1>14 DEF Arm, WindowOf, Underway, Settled, AtMost, InWindow, InProbe
<1> QED
  BY <1>5, <1>6, <1>7, <1>8, <1>9, <1>10, <1>11, <1>12, <1>13, <1>14 DEF Probing

LEMMA EpochsStep == IInv /\ [Next]_vars => Epochs'
<1> SUFFICES ASSUME IInv, [Next]_vars PROVE Epochs'
  OBVIOUS
<1> USE NumbersAssumption DEF NumbersAssumption
<1>0. /\ of \in [Thread -> Proc] /\ epoch \in Nat /\ epoch <= MaxEpoch
      /\ win \in [Proc -> [sum : Nat, epoch : Nat]] /\ ep \in [Thread -> Nat]
      /\ pc \in [Thread -> {"idle", "probe"} \cup InProbe \cup InHook]
  BY HomesAssumption DEF HomesAssumption, IInv, TypeOK, Epochs
<1> DEFINE Kept == /\ epoch' = epoch
                   /\ \A t \in Thread : pc'[t] \in InProbe => ep'[t] = ep[t] /\ pc[t] \in InProbe
<1>1. ASSUME Kept, win' = win PROVE Epochs'
  BY <1>0, <1>1 DEF IInv, Epochs
<1>2. ASSUME NEW t \in Thread, Probing(t) PROVE Epochs'
  <2>0. of[t] \in Proc /\ Onward(t) \notin InProbe
    BY <1>0 DEF Onward, InProbe
  <2> USE <1>0, <2>0 DEF Goto, tracked, adding
  <2>1. CASE Skip(t)
    <3>1. Kept /\ win' = win
      BY <2>1 DEF Skip
    <3> QED
      BY <1>1, <3>1
  <2>2. CASE Count(t)
    BY <2>2 DEF Count, IInv, Epochs, InProbe
  <2>3. CASE Look(t) \/ Load(t) \/ Check(t) \/ Arm(t)
    <3>1. Kept /\ win' = win
      BY <2>3 DEF Look, Load, Check, Arm, InProbe
    <3> QED
      BY <1>1, <3>1
  <2>4. CASE Insert(t) \/ Zero(t) \/ Stamp(t) \/ Store(t)
    <3>1. Kept /\ pc[t] \in InProbe
      BY <2>4 DEF Insert, Zero, Stamp, Store, InProbe
    <3>2. \A p \in Proc : win'[p].epoch = win[p].epoch \/ win'[p].epoch = ep[t]
      BY <2>4 DEF Insert, Zero, Stamp, Store
    <3> QED
      BY <3>1, <3>2 DEF IInv, Epochs
  <2> QED
    BY <1>2, <2>1, <2>2, <2>3, <2>4 DEF Probing
<1>3. ASSUME NEW t \in Thread,
             \/ \E k \in Kind, x \in Weights : Call(t, k, x)
             \/ Hook(t) \/ LookExempt(t) \/ LookBlocked(t)
      PROVE  Epochs'
  <2>1. Passed(t) \notin InProbe
    BY DEF Passed, InProbe
  <2>2. Kept /\ win' = win
    BY <1>0, <1>3, <2>1 DEF Call, Hook, LookExempt, LookBlocked, Return, Goto, tracked, adding, InProbe
  <2> QED
    BY <1>1, <2>2
<1>4. CASE Bump
  BY <1>0, <1>4 DEF Bump, adding, IInv, Epochs, NoEpoch
<1>5. CASE set_enforcement \/ \E p \in Proc : arm_block(p) \/ disarm_block(p)
                                             \/ kernel_exempt(p) \/ Reparent(p)
  <2>1. Kept /\ win' = win
    BY <1>5 DEF set_enforcement, arm_block, disarm_block, kernel_exempt, Reparent, Changes, adding
  <2> QED
    BY <1>1, <2>1
<1>6. ASSUME NEW p \in Proc, Evict(p) PROVE Epochs'
  BY <1>0, <1>6 DEF Evict, tracked, adding, IInv, Epochs
<1>7. CASE UNCHANGED vars
  BY <1>1, <1>7 DEF vars
<1> QED
  BY <1>2, <1>3, <1>4, <1>5, <1>6, <1>7 DEF Next

\* Steps outside burst_add leave every window as it is.
LEMMA QuietWindows ==
    ASSUME IInv, NEW u \in Thread, Alone(u),
           UNCHANGED <<of, epoch, win, spent, before, ep>>,
           pc[u] \in InProbe \/ pc'[u] \in InProbe
               => pc'[u] = pc[u] /\ w'[u] = w[u] /\ sum'[u] = sum[u]
    PROVE  WindowOf(u)'
<1>1. WindowOf(u)
  BY DEF IInv
<1>2. CASE pc[u] \in InProbe \/ pc'[u] \in InProbe
  BY <1>1, <1>2 DEF WindowOf, Underway, Settled, AtMost, InWindow
<1>3. CASE pc[u] \notin InProbe /\ pc'[u] \notin InProbe
  BY <1>1, <1>3 DEF WindowOf, Settled
<1> QED
  BY <1>2, <1>3

\* The tracker starts a window: what is under way belongs to the last one.
LEMMA BumpWindows ==
    ASSUME IInv, Bump, NEW u \in Thread
    PROVE  Alone(u) => WindowOf(u)'
<1> SUFFICES ASSUME Alone(u) PROVE WindowOf(u)'
  OBVIOUS
<1> USE NumbersAssumption DEF NumbersAssumption
<1>1. /\ WindowOf(u) /\ of[u] \in Proc /\ epoch \in Nat /\ epoch < MaxEpoch
      /\ ep[u] \in Nat /\ win[of[u]].epoch \in Nat /\ win[of[u]].sum \in Nat
      /\ sum[u] \in Nat /\ spent[of[u]] \in Nat
  BY HomesAssumption DEF HomesAssumption, IInv, TypeOK, Bump
<1>2. /\ epoch' = epoch + 1 /\ UNCHANGED <<of, win, pc, w, ep, sum>>
      /\ before' = spent /\ spent'[of[u]] = 0
  BY <1>1 DEF Bump, call, adding
<1>3. win[of[u]].epoch # epoch'
  BY <1>1, <1>2 DEF IInv, Epochs, NoEpoch
<1>4. CASE pc[u] \in InProbe
  <2>1. ep[u] = epoch /\ Underway(u)
    BY <1>1, <1>4 DEF Bump, WindowOf
  <2>2. InWindow(u)' = InWindow(u)
    BY <1>1, <1>2, <2>1 DEF InWindow
  <2> QED
    BY <1>1, <1>2, <1>4, <2>1, <2>2 DEF WindowOf, Underway, AtMost
<1>5. CASE pc[u] \notin InProbe
  BY <1>2, <1>3, <1>5 DEF WindowOf, Settled
<1> QED
  BY <1>4, <1>5

LEMMA IInvStep == IInv /\ [Next]_vars => IInv'
<1> SUFFICES ASSUME IInv, [Next]_vars PROVE IInv'
  OBVIOUS
<1>1. TypeOK' /\ Epochs'
  BY TypeStep, EpochsStep DEF IInv
<1>2. of' = of
  <2>1. ASSUME NEW t \in Thread, Probing(t) PROVE of' = of
    BY <2>1 DEF Probing, tracked, Skip, Count, Look, Insert, Zero, Stamp, Load, Store, Check, Arm
  <2>2. ASSUME NEW t \in Thread, NEW k \in Kind, NEW x \in Weights, Call(t, k, x) PROVE of' = of
    BY <2>2 DEF Call
  <2>3. ASSUME NEW t \in Thread, Hook(t) \/ LookExempt(t) \/ LookBlocked(t) PROVE of' = of
    BY <2>3 DEF Hook, LookExempt, LookBlocked, Return, tracked
  <2>4. CASE Bump \/ set_enforcement
    BY <2>4 DEF Bump, set_enforcement, Changes
  <2>5. ASSUME NEW p \in Proc, arm_block(p) \/ disarm_block(p) \/ kernel_exempt(p)
                              \/ Reparent(p) \/ Evict(p)
        PROVE  of' = of
    BY <2>5 DEF arm_block, disarm_block, kernel_exempt, Reparent, Changes, Evict, tracked
  <2>6. CASE UNCHANGED vars
    BY <2>6 DEF vars
  <2> QED
    BY <2>1, <2>2, <2>3, <2>4, <2>5, <2>6 DEF Next
<1> SUFFICES ASSUME NEW u \in Thread, Alone(u)' PROVE WindowOf(u)'
  BY <1>1 DEF IInv
<1>3. Alone(u)
  BY <1>2 DEF Alone, ThreadsOf
<1>0. /\ of \in [Thread -> Proc] /\ pc \in [Thread -> {"idle", "probe"} \cup InProbe \cup InHook]
      /\ w \in [Thread -> Weights \cup {0}] /\ sum \in [Thread -> Nat] /\ ep \in [Thread -> Nat]
      /\ win \in [Proc -> [sum : Nat, epoch : Nat]] /\ spent \in [Proc -> Nat]
  BY HomesAssumption DEF HomesAssumption, IInv, TypeOK
<1>4. ASSUME NEW t \in Thread, Probing(t) PROVE WindowOf(u)'
  <2>1. CASE t = u
    BY <1>3, <1>4, <2>1, OwnWindow
  <2>2. CASE t # u
    <3>1. UNCHANGED <<of, epoch, before>>
      BY <1>4 DEF Probing, tracked, weighed, Skip, Count, Look, Insert, Zero, Stamp, Load, Store, Check, Arm
    <3>2. \A p \in Proc : p # of[t] => win'[p] = win[p] /\ spent'[p] = spent[p]
      BY <1>0, <1>4 DEF Probing, weighed, Skip, Count, Look, Insert, Zero, Stamp, Load, Store, Check, Arm
    <3>3. pc'[u] = pc[u] /\ w'[u] = w[u] /\ ep'[u] = ep[u] /\ sum'[u] = sum[u]
      BY <1>0, <1>4, <2>2 DEF Probing, Goto, call, adding, Skip, Count, Look, Insert, Zero, Stamp, Load,
                              Store, Check, Arm
    <3> QED
      BY <1>3, <2>2, <3>1, <3>2, <3>3, OtherWindows
  <2> QED
    BY <2>1, <2>2
<1>5. ASSUME NEW t \in Thread,
             \/ \E k \in Kind, x \in Weights : Call(t, k, x)
             \/ Hook(t) \/ LookExempt(t) \/ LookBlocked(t)
      PROVE  WindowOf(u)'
  <2>1. Passed(t) \notin InProbe
    BY DEF Passed, InProbe
  <2>2. UNCHANGED <<of, epoch, win, spent, before, ep>>
    BY <1>5 DEF Call, Hook, LookExempt, LookBlocked, Return, tracked, adding, weighed
  <2>3. pc[u] \in InProbe \/ pc'[u] \in InProbe
            => pc'[u] = pc[u] /\ w'[u] = w[u] /\ sum'[u] = sum[u]
    BY <1>0, <1>5, <2>1 DEF Call, Hook, LookExempt, LookBlocked, Return, Goto, call, adding, InProbe
  <2> QED
    BY <1>3, <2>2, <2>3, QuietWindows
<1>6. CASE \/ set_enforcement \/ UNCHANGED vars
           \/ \E p \in Proc : arm_block(p) \/ disarm_block(p) \/ kernel_exempt(p) \/ Reparent(p)
  <2>1. UNCHANGED <<of, epoch, win, spent, before, ep, pc, w, sum>>
    BY <1>6 DEF vars, set_enforcement, arm_block, disarm_block, kernel_exempt, Reparent, Changes,
                call, adding, weighed
  <2> QED
    BY <1>3, <2>1, QuietWindows
<1>7. ASSUME NEW p \in Proc, Evict(p) PROVE WindowOf(u)'
  <2>1. /\ UNCHANGED <<of, epoch, spent, before, ep, pc, w, sum>>
        /\ win' = [win EXCEPT ![p] = [sum |-> 0, epoch |-> NoEpoch]] /\ p \in Evicts
    BY <1>7 DEF Evict, tracked, call, adding, weighed
  <2>2. CASE of[u] = p
    <3>1. pc[u] \notin InProbe
      BY <1>7, <2>2 DEF Evict, ThreadsOf
    <3>2. NoEpoch # epoch /\ win'[p].epoch = NoEpoch
      BY <1>0, <2>1, NumbersAssumption DEF NumbersAssumption, NoEpoch, IInv, Epochs, TypeOK
    <3> QED
      BY <2>1, <2>2, <3>1, <3>2 DEF WindowOf, Settled
  <2>3. CASE of[u] # p
    <3>1. win'[of[u]] = win[of[u]] /\ WindowOf(u)
      BY <1>0, <1>3, <2>1, <2>3 DEF IInv
    <3> QED
      BY <2>1, <3>1 DEF WindowOf, Underway, Settled, AtMost, InWindow
  <2> QED
    BY <2>2, <2>3
<1> QED
  BY <1>3, <1>4, <1>5, <1>6, <1>7, BumpWindows DEF Next

-----------------------------------------------------------------------------
(* What is armed.                                                          *)

\* With room for every process, an update of blocked_tgids succeeds.
LEMMA BlockAdded ==
    ASSUME RoomForAll, blocked \subseteq Proc, NEW p \in Proc, AddBlock(p)
    PROVE  blocked' = blocked \cup {p}
<1>1. CASE p \in blocked
  BY <1>1 DEF AddBlock
<1>2. CASE p \notin blocked
  <2>1. IsFiniteSet(blocked) /\ Cardinality(blocked) <= Cardinality(Proc)
        /\ (Cardinality(blocked) = Cardinality(Proc) => blocked = Proc)
    BY FS_Subset DEF RoomForAll
  <2>2. Cardinality(blocked) < Cardinality(Proc)
    BY <1>2, <2>1, FS_CardinalityType DEF RoomForAll
  <2>3. Cardinality(blocked) \in Nat /\ Cardinality(Proc) \in Nat /\ Room \in Nat
    BY <2>1, FS_CardinalityType, NumbersAssumption DEF RoomForAll, NumbersAssumption
  <2> QED
    BY <2>2, <2>3 DEF AddBlock, RoomForAll
<1> QED
  BY <1>1, <1>2

\* A sum that reached the ceiling has left its mark when burst_add is over,
\* whatever other threads of the process were adding.
Marked ==
    \A t \in Thread :
        pc[t] \notin InProbe /\ Reaches(sum[t]) => of[t] \in blocked \/ t \in eased

AInv == TypeOK /\ Marked

\* Only disarm_block takes an entry away, and it eases every thread concerned.
LEMMA OnlyDisarmEases ==
    ASSUME TypeOK, [Next]_vars, NEW t \in Thread, RoomForAll
    PROVE  /\ of' = of
           /\ of[t] \in blocked \/ t \in eased
                => of[t]' \in blocked' \/ t \in eased' \/ Check(t)
<1>1. of \in [Thread -> Proc] /\ blocked \subseteq Proc
  BY HomesAssumption DEF HomesAssumption, TypeOK
<1>2. ASSUME NEW u \in Thread, Arm(u) PROVE blocked' = blocked \cup {of[u]}
  BY <1>1, <1>2, BlockAdded DEF Arm
<1>3. ASSUME NEW u \in Thread, Probing(u)
      PROVE  /\ of' = of /\ blocked \subseteq blocked'
             /\ eased' = eased \/ (Check(u) /\ eased' = eased \ {u})
  <2>1. CASE Arm(u)
    BY <1>2, <2>1 DEF Arm, tracked
  <2>2. CASE Check(u)
    BY <2>2 DEF Check, tracked
  <2> QED
    BY <1>3, <2>1, <2>2 DEF Probing, tracked, Skip, Count, Look, Insert, Zero, Stamp, Load, Store
<1>4. ASSUME NEW u \in Thread,
             \/ \E k \in Kind, x \in Weights : Call(u, k, x)
             \/ Hook(u) \/ LookExempt(u) \/ LookBlocked(u)
      PROVE  UNCHANGED <<of, blocked, eased>>
  BY <1>4 DEF Call, Hook, LookExempt, LookBlocked, Return, tracked
<1>5. ASSUME NEW p \in Proc,
             arm_block(p) \/ kernel_exempt(p) \/ Reparent(p) \/ Evict(p)
      PROVE  of' = of /\ blocked \subseteq blocked' /\ eased' = eased
  BY <1>5 DEF arm_block, AddBlock, kernel_exempt, Reparent, Evict, Changes, tracked
<1>6. ASSUME NEW p \in Proc, disarm_block(p)
      PROVE  of' = of /\ blocked' = blocked \ {p} /\ eased' = eased \cup ThreadsOf(p)
  BY <1>6 DEF disarm_block, Changes
<1>7. CASE Bump \/ set_enforcement \/ UNCHANGED vars
  BY <1>7 DEF Bump, set_enforcement, Changes, vars
<1> QED
  BY <1>1, <1>3, <1>4, <1>5, <1>6, <1>7 DEF Next, ThreadsOf

LEMMA InitAInv == Init => AInv
<1> SUFFICES ASSUME Init PROVE AInv
  OBVIOUS
<1>1. \A t \in Thread : sum[t] = 0
  BY DEF Init
<1> QED
  BY <1>1, InitIInv, NumbersAssumption DEF NumbersAssumption, IInv, AInv, Marked, Reaches

\* Where a thread leaves burst_add with a sum that reaches the ceiling.
LEMMA LeavesMarked ==
    ASSUME TypeOK, [Next]_vars, RoomForAll, NEW t \in Thread, Check(t) \/ Arm(t),
           pc'[t] \notin InProbe, pc[t] = "check" => Reaches(sum[t])
    PROVE  of[t]' \in blocked'
<1>1. of \in [Thread -> Proc] /\ blocked \subseteq Proc
      /\ pc \in [Thread -> {"idle", "probe"} \cup InProbe \cup InHook]
  BY HomesAssumption DEF HomesAssumption, TypeOK
<1>2. CASE Arm(t)
  BY <1>1, <1>2, BlockAdded DEF Arm, tracked
<1>3. CASE Check(t)
  <2>1. pc'[t] = IF of[t] \in blocked THEN Onward(t) ELSE "arm"
    BY <1>1, <1>3 DEF Check, Goto
  <2>2. of[t] \in blocked
    BY <2>1 DEF InProbe
  <2> QED
    BY <1>3, <2>2 DEF Check, tracked
<1> QED
  BY <1>2, <1>3

\* What a step does to the place and the sum of a thread.
LEMMA ThreadMoves ==
    ASSUME TypeOK, [Next]_vars, NEW t \in Thread, pc'[t] \notin InProbe
    PROVE  /\ pc[t] \in InProbe => (Check(t) \/ Arm(t)) /\ sum'[t] = sum[t] /\ spent' = spent
           /\ pc[t] \notin InProbe => sum'[t] = sum[t] \/ sum'[t] = 0
<1>1. /\ of \in [Thread -> Proc] /\ pc \in [Thread -> {"idle", "probe"} \cup InProbe \cup InHook]
      /\ sum \in [Thread -> Nat]
  BY HomesAssumption DEF HomesAssumption, TypeOK
<1>2. ASSUME NEW u \in Thread, Probing(u), u # t PROVE pc'[t] = pc[t] /\ sum'[t] = sum[t]
  BY <1>1, <1>2 DEF Probing, Goto, adding, Skip, Count, Look, Insert, Zero, Stamp, Load, Store, Check, Arm
<1>3. CASE Probing(t)
  <2>1. CASE Skip(t)
    BY <2>1 DEF Skip, adding, InProbe
  <2>2. CASE Check(t) \/ Arm(t)
    BY <2>2 DEF Check, Arm, adding, weighed, InProbe
  <2>3. CASE Count(t) \/ Look(t) \/ Insert(t) \/ Zero(t) \/ Stamp(t) \/ Load(t) \/ Store(t)
    BY <1>1, <2>3 DEF Count, Look, Insert, Zero, Stamp, Load, Store, Goto, InProbe
  <2> QED
    BY <1>3, <2>1, <2>2, <2>3 DEF Probing
<1>4. ASSUME NEW u \in Thread,
             \/ \E k \in Kind, x \in Weights : Call(u, k, x)
             \/ Hook(u) \/ LookExempt(u) \/ LookBlocked(u)
      PROVE  /\ pc[t] \in InProbe => pc'[t] = pc[t]
             /\ sum'[t] = sum[t] \/ sum'[t] = 0
  BY <1>1, <1>4 DEF Call, Hook, LookExempt, LookBlocked, Return, Goto, adding, InProbe
<1>5. CASE \/ Bump \/ set_enforcement \/ UNCHANGED vars
           \/ \E p \in Proc : arm_block(p) \/ disarm_block(p) \/ kernel_exempt(p) \/ Reparent(p) \/ Evict(p)
  BY <1>5 DEF Bump, set_enforcement, arm_block, disarm_block, kernel_exempt, Reparent, Evict, Changes,
              adding, vars
<1> QED
  BY <1>2, <1>3, <1>4, <1>5 DEF Next

LEMMA AInvStep == RoomForAll /\ AInv /\ [Next]_vars => AInv'
<1> SUFFICES ASSUME RoomForAll, AInv, [Next]_vars PROVE AInv'
  OBVIOUS
<1>1. TypeOK'
  BY TypeStep DEF AInv
<1> SUFFICES ASSUME NEW t \in Thread, pc'[t] \notin InProbe, Reaches(sum[t])'
             PROVE  of[t]' \in blocked' \/ t \in eased'
  BY <1>1 DEF AInv, Marked
<1>2. Ceiling > 0 /\ Ceiling \in Nat
  BY NumbersAssumption DEF NumbersAssumption
<1>3. sum'[t] # 0 /\ Reaches(sum'[t])
  BY <1>2 DEF Reaches
<1>4. CASE pc[t] \in InProbe
  BY <1>3, <1>4, ThreadMoves, LeavesMarked DEF AInv
<1>5. CASE pc[t] \notin InProbe
  <2>1. sum'[t] = sum[t] /\ ~Check(t)
    BY <1>3, <1>5, ThreadMoves DEF AInv, Check, InProbe
  <2>2. of[t] \in blocked \/ t \in eased
    BY <1>3, <1>5, <2>1 DEF AInv, Marked
  <2> QED
    BY <2>1, <2>2, OnlyDisarmEases DEF AInv
<1> QED
  BY <1>4, <1>5

\* When the hook of a call that reached the ceiling begins, its process is armed
\* unless it has been disarmed since.
THEOREM HookFindsArmed == ASSUME RoomForAll PROVE Spec => []ArmedBeforeHook
<1>1. AInv => ArmedBeforeHook
  BY DEF AInv, Marked, ArmedBeforeHook, InProbe
<1> QED
  BY InitAInv, AInvStep, <1>1, PTL DEF Spec

-----------------------------------------------------------------------------
(* A burst in one window.                                                  *)

CInv == IInv /\ CaughtInWindow

LEMMA InitCInv == Init => CInv
<1> SUFFICES ASSUME Init PROVE CInv
  OBVIOUS
<1>1. of \in [Thread -> Proc] /\ \A p \in Proc : spent[p] = 0
  BY HomesAssumption DEF HomesAssumption, Init
<1> QED
  BY <1>1, InitIInv, NumbersAssumption DEF NumbersAssumption, CInv, CaughtInWindow

\* What t's process has spent grows only by its own step Count.
LEMMA SpentMoves ==
    ASSUME TypeOK, [Next]_vars, NEW t \in Thread, Alone(t), pc'[t] \notin InProbe
    PROVE  spent'[of[t]] = spent[of[t]] \/ spent'[of[t]] = 0
<1>1. /\ of \in [Thread -> Proc] /\ of[t] \in Proc /\ spent \in [Proc -> Nat]
      /\ pc \in [Thread -> {"idle", "probe"} \cup InProbe \cup InHook]
  BY HomesAssumption DEF HomesAssumption, TypeOK
<1>2. ASSUME NEW u \in Thread, Probing(u) PROVE spent'[of[t]] = spent[of[t]]
  <2>1. CASE Count(u)
    <3>1. u # t
      BY <1>1, <2>1 DEF Count, Goto, InProbe
    <3>2. of[u] # of[t]
      BY <3>1 DEF Alone, ThreadsOf
    <3> QED
      BY <1>1, <2>1, <3>2 DEF Count
  <2> QED
    BY <1>2, <2>1 DEF Probing, weighed, Skip, Look, Insert, Zero, Stamp, Load, Store, Check, Arm
<1>3. CASE Bump
  BY <1>1, <1>3 DEF Bump
<1>4. ASSUME NEW u \in Thread,
             \/ \E k \in Kind, x \in Weights : Call(u, k, x)
             \/ Hook(u) \/ LookExempt(u) \/ LookBlocked(u)
      PROVE  spent' = spent
  BY <1>4 DEF Call, Hook, LookExempt, LookBlocked, Return, weighed
<1>5. CASE \/ set_enforcement \/ UNCHANGED vars
           \/ \E p \in Proc : arm_block(p) \/ disarm_block(p) \/ kernel_exempt(p) \/ Reparent(p) \/ Evict(p)
  BY <1>5 DEF set_enforcement, arm_block, disarm_block, kernel_exempt, Reparent, Evict, Changes,
              weighed, vars
<1> QED
  BY <1>2, <1>3, <1>4, <1>5 DEF Next

LEMMA CInvStep == RoomForAll /\ CInv /\ [Next]_vars => CInv'
<1> SUFFICES ASSUME RoomForAll, CInv, [Next]_vars PROVE CInv'
  OBVIOUS
<1>1. IInv'
  BY IInvStep DEF CInv
<1>2. Ceiling > 0 /\ Ceiling \in Nat /\ TypeOK /\ IInv
  BY NumbersAssumption DEF NumbersAssumption, CInv, IInv
<1>3. \A t \in Thread : of[t]' = of[t]
  BY <1>2, OnlyDisarmEases
<1> SUFFICES ASSUME NEW t \in Thread, Alone(t)', of[t]' \notin Evicts, pc'[t] \notin InProbe,
                    spent[of[t]]' >= Ceiling
             PROVE  of[t]' \in blocked' \/ t \in eased'
  BY <1>1 DEF CInv, CaughtInWindow
<1>4. Alone(t) /\ of[t] \notin Evicts
  BY <1>3 DEF Alone, ThreadsOf
<1>5. spent'[of[t]] = spent[of[t]] /\ spent[of[t]] >= Ceiling
  BY <1>2, <1>3, <1>4, SpentMoves
<1>6. CASE pc[t] \in InProbe
  <2>1. Check(t) \/ Arm(t)
    BY <1>2, <1>6, ThreadMoves
  <2>2. Underway(t)
    BY <1>2, <1>4, <1>6 DEF IInv, WindowOf
  <2>3. pc[t] = "check" => Reaches(sum[t])
    BY <1>2, <1>4, <1>5, <2>2 DEF Underway, AtMost, InWindow, Reaches
  <2> QED
    BY <1>2, <2>1, <2>3, LeavesMarked
<1>7. CASE pc[t] \notin InProbe
  <2>1. ~Check(t) /\ (of[t] \in blocked \/ t \in eased)
    BY <1>4, <1>5, <1>7 DEF CInv, CaughtInWindow, Check, InProbe
  <2> QED
    BY <1>2, <2>1, OnlyDisarmEases
<1> QED
  BY <1>6, <1>7

\* Every window is accounted for.
THEOREM WindowsAreKept == Spec => []IInv
BY InitIInv, IInvStep, PTL DEF Spec

\* A burst of a process of one thread within one window is caught.
THEOREM BurstsAreCaught == ASSUME RoomForAll PROVE Spec => []CaughtInWindow
<1>1. CInv => CaughtInWindow
  BY DEF CInv
<1> QED
  BY InitCInv, CInvStep, <1>1, PTL DEF Spec

\* And what is caught is a burst within one window.
THEOREM CaughtAreBursts == Spec => []TripsAreEarned
<1>1. IInv => TripsAreEarned
  <2> SUFFICES ASSUME IInv, NEW t \in Thread, Alone(t), pc[t] = "arm"
               PROVE  InWindow(t) >= Ceiling
    BY DEF TripsAreEarned
  <2>1. Underway(t)
    BY DEF IInv, WindowOf, InProbe
  <2>2. /\ sum[t] \in Nat /\ Ceiling \in Nat /\ InWindow(t) \in Nat
    BY HomesAssumption, NumbersAssumption
       DEF HomesAssumption, NumbersAssumption, IInv, TypeOK, InWindow
  <2> QED
    BY <2>1, <2>2 DEF Underway, AtMost
<1> QED
  BY InitIInv, IInvStep, <1>1, PTL DEF Spec

\* Both: armed for bursts and for nothing else.
THEOREM ArmedForBursts == ASSUME RoomForAll PROVE Spec => []BurstsAreArmed
<1>1. Spec => []CaughtInWindow
  BY BurstsAreCaught
<1>2. CaughtInWindow /\ TripsAreEarned => BurstsAreArmed
  BY DEF BurstsAreArmed
<1> QED
  BY <1>1, <1>2, CaughtAreBursts, PTL

-----------------------------------------------------------------------------
(* The walk of is_blocked over ancestors, of any depth and even in circles. *)

\* A set of numbers that is not empty has a least one.
LEMMA LeastNat ==
    ASSUME NEW T, T \subseteq Nat, T # {}
    PROVE  \E x \in T : \A y \in T : x <= y
<1> DEFINE R == {ss \in Nat \X Nat : ss[1] < ss[2]}
<1>1. IsWellFoundedOn(R, Nat)
  BY NatLessThanWellFounded DEF OpToRel
<1>2. PICK x \in T : \A y \in T : ~(<<y, x>> \in R)
  <2> HIDE DEF R
  <2> QED
    BY <1>1, WFMin
<1>3. ASSUME NEW y \in T PROVE x <= y
  <2>1. SUFFICES ASSUME y < x PROVE <<y, x>> \in R
    BY <1>2
  <2>2. <<y, x>> \in Nat \X Nat /\ <<y, x>>[1] = y /\ <<y, x>>[2] = x
    OBVIOUS
  <2> QED
    BY <2>1, <2>2, Zenon
<1> QED
  BY <1>3

\* The line of ancestors and who demands denial, of lineages and maps r, b, x.
Line(r, p) ==
    LET up[k \in 0 .. Depth] ==
            IF k = 0 THEN p
            ELSE IF up[k - 1] \in Top THEN up[k - 1] ELSE r[up[k - 1]]
    IN  up
Clear(r, x, p, k) == \A j \in 0 .. k : Line(r, p)[j] \notin x \cup Top
Wanted(r, b, x, on, p) ==
    {q \in b : on /\ \E k \in 0 .. Depth : Line(r, p)[k] = q /\ Clear(r, x, p, k)}

LEMMA DemandsAre ==
    ASSUME NEW t \in Thread
    PROVE  /\ Demands(of[t]) = Wanted(parent, blocked, exempt, enforce_on, of[t])
           /\ Demands(of[t])' = Wanted(parent', blocked', exempt', enforce_on', of'[t])
  BY DEF Demands, Wanted, Clear, Up, Line

\* The line of ancestors exists.
LEMMA LineDef ==
    ASSUME NEW r, NEW p
    PROVE  Line(r, p) = [k \in 0 .. Depth |->
                            IF k = 0 THEN p
                            ELSE IF Line(r, p)[k - 1] \in Top THEN Line(r, p)[k - 1]
                            ELSE r[Line(r, p)[k - 1]]]
<1> DEFINE Next1(v) == IF v \in Top THEN v ELSE r[v]
           Ok(m, f) == f = [k \in 0 .. m |-> IF k = 0 THEN p ELSE Next1(f[k - 1])]
           Bad == {m \in Nat : \A f : ~Ok(m, f)}
<1>1. ASSUME Bad # {} PROVE FALSE
  <2>1. PICK m \in Bad : \A y \in Bad : m <= y
    BY <1>1, LeastNat
  <2>2. CASE m = 0
    <3> DEFINE g == [k \in 0 .. 0 |-> p]
    <3>1. Ok(0, g)
      OBVIOUS
    <3> QED
      BY <2>1, <2>2, <3>1
  <2>3. CASE m # 0
    <3>0. m \in Nat
      BY <2>1
    <3>1. m - 1 \in Nat /\ m - 1 \notin Bad
      <4> HIDE DEF Bad
      <4> QED
        BY <2>1, <2>3, <3>0
    <3>2. PICK f : Ok(m - 1, f)
      <4> HIDE DEF Ok
      <4> QED
        BY <3>1
    <3> DEFINE g == [k \in 0 .. m |-> IF k = 0 THEN p ELSE Next1(f[k - 1])]
    <3> HIDE DEF Next1
    <3>3. \A k \in 0 .. m - 1 : f[k] = IF k = 0 THEN p ELSE Next1(f[k - 1])
      BY <3>1, <3>2
    <3>a. \A k \in 0 .. m : g[k] = IF k = 0 THEN p ELSE Next1(f[k - 1])
      OBVIOUS
    <3>b. \A k \in 0 .. m - 1 : k \in 0 .. m /\ g[k] = f[k]
      BY <3>0, <3>1, <3>3, <3>a
    <3>4. \A k \in 0 .. m : g[k] = IF k = 0 THEN p ELSE Next1(g[k - 1])
      <4> HIDE DEF g
      <4>1. \A k \in 0 .. m : k # 0 => k - 1 \in 0 .. m - 1
        BY <3>0, <3>1
      <4> QED
        BY <3>a, <3>b, <4>1
    <3>5. Ok(m, g)
      <4> HIDE DEF g
      <4>1. g = [k \in 0 .. m |-> g[k]]
        BY DEF g
      <4> QED
        BY <3>4, <4>1
    <3> QED
      BY <2>1, <3>5
  <2> QED
    BY <2>2, <2>3
<1>2. PICK g : Ok(Depth, g)
  BY <1>1, NumbersAssumption DEF NumbersAssumption
<1> DEFINE up[k \in 0 .. Depth] ==
               IF k = 0 THEN p ELSE IF up[k - 1] \in Top THEN up[k - 1] ELSE r[up[k - 1]]
<1>3. up = [k \in 0 .. Depth |->
               IF k = 0 THEN p ELSE IF up[k - 1] \in Top THEN up[k - 1] ELSE r[up[k - 1]]]
  BY <1>2
<1>4. Line(r, p) = up
  BY DEF Line
<1> HIDE DEF up
<1> QED
  BY <1>3, <1>4

LEMMA LineAt ==
    ASSUME NEW r, NEW p, NEW k \in 0 .. Depth
    PROVE  /\ k = 0 => Line(r, p)[k] = p
           /\ k # 0 /\ Line(r, p)[k - 1] \notin Top => Line(r, p)[k] = r[Line(r, p)[k - 1]]
<1> DEFINE c == Line(r, p)
           step(j) == IF j = 0 THEN p ELSE IF c[j - 1] \in Top THEN c[j - 1] ELSE r[c[j - 1]]
<1>1. c = [j \in 0 .. Depth |-> step(j)]
  BY LineDef
<1> HIDE DEF c
<1> QED
  BY <1>1 DEF c

\* What is reached below Outside and Self was reached before parents died.
LEMMA LineKeeps ==
    ASSUME NEW r, NEW s \in [Proc -> Proc \cup {Outside}],
           \A v \in Proc : s[v] = r[v] \/ s[v] = Outside,
           NEW p \in Proc, NEW k \in 0 .. Depth, \A j \in 0 .. k : Line(s, p)[j] \notin Top
    PROVE  \A j \in 0 .. k : Line(s, p)[j] = Line(r, p)[j]
<1> DEFINE c == Line(s, p)
           d == Line(r, p)
           Bad == {j \in 0 .. k : c[j] # d[j] \/ c[j] \notin Proc}
<1>0. Depth \in Nat /\ k \in Nat
  BY NumbersAssumption DEF NumbersAssumption
<1>1. ASSUME Bad # {} PROVE FALSE
  <2>0. Bad \subseteq Nat
    BY <1>0
  <2>1. PICK j \in Bad : \A y \in Bad : j <= y
    <3> HIDE DEF Bad
    <3> QED
      BY <1>1, <2>0, LeastNat
  <2>2. j \in 0 .. Depth /\ j \in 0 .. k
    BY <1>0, <2>1
  <2>3. j # 0
    BY <2>1, <2>2, LineAt
  <2>4. j - 1 \in 0 .. k /\ j - 1 \notin Bad
    <3>1. j - 1 \in 0 .. k /\ ~(j <= j - 1)
      BY <1>0, <2>2, <2>3
    <3> HIDE DEF Bad
    <3> QED
      BY <2>1, <3>1
  <2>5. c[j - 1] = d[j - 1] /\ c[j - 1] \in Proc /\ c[j - 1] \notin Top /\ c[j] \notin Top
    BY <2>2, <2>4
  <2>6. c[j] = s[c[j - 1]] /\ d[j] = r[d[j - 1]]
    <3> HIDE DEF Bad
    <3> QED
      BY <2>2, <2>3, <2>5, LineAt
  <2>7. c[j] # Outside
    BY <2>5 DEF Top
  <2> QED
    BY <2>1, <2>5, <2>6, <2>7
<1> QED
  BY <1>1

\* The walk has passed nobody who has wanted denial all the time.
OnWalk(r, x, p, who, n, a) ==
    \A k \in 0 .. Depth :
        Line(r, p)[k] \in who /\ Clear(r, x, p, k) => n <= k /\ Line(r, p)[n] = a

Walks(t) == pc[t] \in {"exempt?", "blocked?"}

WalkOf(t) ==
    /\ must[t] \subseteq Wanted(parent, blocked, exempt, enforce_on, of[t])
    /\ t \in trusted => of[t] \in exempt
    /\ Walks(t) => /\ OnWalk(parent, exempt, of[t], must[t], level[t], at[t])
                   /\ t \in trusted => pc[t] = "exempt?" /\ at[t] = of[t]
    /\ pc[t] \notin InHook => /\ verdict[t] = "pass" => must[t] = {}
                              /\ verdict[t] = "deny" => t \notin trusted

WInv == TypeOK /\ \A t \in Thread : WalkOf(t)

\* More entries in blocked_tgids make no demand go away.
LEMMA MoreWanted ==
    ASSUME NEW r, NEW b, NEW c, b \subseteq c, NEW x, NEW on, NEW p
    PROVE  Wanted(r, b, x, on, p) \subseteq Wanted(r, c, x, on, p)
  BY DEF Wanted

\* A thread whose walk a step does not concern.
Still(t) ==
    /\ of' = of /\ parent' = parent /\ exempt' = exempt /\ enforce_on' = enforce_on
    /\ blocked \subseteq blocked'
    /\ must'[t] = must[t] /\ (t \in trusted' <=> t \in trusted) /\ verdict'[t] = verdict[t]
    /\ Walks(t)' => Walks(t) /\ pc'[t] = pc[t] /\ level'[t] = level[t] /\ at'[t] = at[t]
    /\ pc'[t] \notin InHook => pc[t] \notin InHook

LEMMA WalkStays == ASSUME NEW t \in Thread, WalkOf(t), Still(t) PROVE WalkOf(t)'
<1>1. must[t] \subseteq Wanted(parent, blocked', exempt, enforce_on, of[t])
  BY MoreWanted DEF WalkOf, Still
<1> QED
  BY <1>1 DEF WalkOf, Walks, Still

\* burst_add and the windows leave the walks alone.
LEMMA AddingWalks ==
    ASSUME WInv, NEW t \in Thread,
           (\E u \in Thread : Probing(u)) \/ Bump \/ (\E p \in Proc : Evict(p)) \/ UNCHANGED vars
    PROVE  WalkOf(t)'
<1>0. /\ pc \in [Thread -> {"idle", "probe"} \cup InProbe \cup InHook] /\ WalkOf(t)
  BY DEF WInv, TypeOK
<1>1. ASSUME NEW u \in Thread, Probing(u)
      PROVE  /\ UNCHANGED <<of, parent, exempt, enforce_on, must, trusted, verdict, level, at>>
             /\ blocked \subseteq blocked' /\ pc[u] \in {"probe"} \cup InProbe
             /\ \E place \in {"hook", "idle"} \cup InProbe : pc' = [pc EXCEPT ![u] = place]
  <2>1. Onward(u) \in {"hook", "idle"}
    BY DEF Onward
  <2>2. CASE Arm(u)
    BY <2>1, <2>2 DEF Arm, AddBlock, tracked, walk, hooked, Goto, InProbe
  <2>3. CASE Check(u)
    BY <2>1, <2>3 DEF Check, tracked, walk, hooked, Goto, InProbe
  <2>4. CASE Look(u)
    BY <2>4 DEF Look, tracked, walk, hooked, Goto, InProbe
  <2>5. CASE Skip(u) \/ Count(u) \/ Insert(u) \/ Zero(u) \/ Stamp(u) \/ Load(u) \/ Store(u)
    BY <2>1, <2>5 DEF Skip, Count, Insert, Zero, Stamp, Load, Store, tracked, walk, hooked, Goto, InProbe
  <2> QED
    BY <1>1, <2>2, <2>3, <2>4, <2>5 DEF Probing
<1>2. ASSUME NEW u \in Thread, Probing(u) PROVE WalkOf(t)'
  <2>1. PICK place \in {"hook", "idle"} \cup InProbe : pc' = [pc EXCEPT ![u] = place]
    BY <1>1, <1>2
  <2>2. pc[u] \in {"probe"} \cup InProbe
    BY <1>1, <1>2
  <2>3. /\ Walks(t)' => Walks(t) /\ pc'[t] = pc[t]
        /\ pc'[t] \notin InHook => pc[t] \notin InHook
    BY <1>0, <2>1, <2>2 DEF Walks, InHook, InProbe
  <2>4. Still(t)
    BY <1>1, <1>2, <2>3 DEF Still
  <2> QED
    BY <1>0, <2>4, WalkStays
<1>3. CASE Bump \/ (\E p \in Proc : Evict(p)) \/ UNCHANGED vars
  <2>1. UNCHANGED <<of, parent, exempt, enforce_on, blocked, must, trusted, verdict, level, at, pc>>
    BY <1>3 DEF Bump, Evict, vars, tracked, walk, hooked
  <2>2. Still(t)
    BY <2>1 DEF Still, Walks
  <2> QED
    BY <1>0, <2>2, WalkStays
<1> QED
  BY <1>2, <1>3

\* A hook that begins finds every demand ahead of it.
LEMMA HookWalks ==
    ASSUME WInv, NEW u \in Thread, Hook(u), NEW t \in Thread
    PROVE  WalkOf(t)'
<1>0. /\ pc \in [Thread -> {"idle", "probe"} \cup InProbe \cup InHook] /\ WalkOf(t)
      /\ at \in [Thread -> Proc] /\ level \in [Thread -> Nat] /\ must \in [Thread -> SUBSET Proc]
      /\ verdict \in [Thread -> {"none", "pass", "deny"}] /\ trusted \subseteq Thread
  BY DEF WInv, TypeOK
<1>1. /\ UNCHANGED <<of, parent, exempt, enforce_on, blocked>>
      /\ \A v \in Thread \ {u} : /\ pc'[v] = pc[v] /\ at'[v] = at[v] /\ level'[v] = level[v]
                                  /\ must'[v] = must[v] /\ verdict'[v] = verdict[v]
      /\ trusted' = trusted \cup {u} \/ trusted' = trusted \ {u}
  BY <1>0 DEF Hook, tracked, Goto
<1>2. CASE t # u
  <2>0. t \in Thread \ {u} /\ (t \in trusted' <=> t \in trusted)
    BY <1>1, <1>2
  <2>1. /\ pc'[t] = pc[t] /\ at'[t] = at[t] /\ level'[t] = level[t]
        /\ must'[t] = must[t] /\ verdict'[t] = verdict[t]
    BY <1>1, <2>0
  <2>2. Still(t)
    BY <1>1, <2>0, <2>1 DEF Still, Walks
  <2> QED
    BY <1>0, <2>2, WalkStays
<1>3. CASE t = u
  <2> DEFINE W == Wanted(parent, blocked, exempt, enforce_on, of[u])
  <2>1. /\ at'[u] = of[u] /\ level'[u] = 0 /\ must'[u] = Demands(of[u])
        /\ u \in trusted' <=> of[u] \in exempt
    BY <1>0 DEF Hook
  <2>2. must'[u] = W
    BY <2>1, DemandsAre
  <2>3. Line(parent, of[u])[0] = of[u] /\ 0 \in 0 .. Depth /\ \A k \in 0 .. Depth : 0 <= k /\ 0 \in 0 .. k
    BY LineAt, NumbersAssumption DEF NumbersAssumption
  <2>4. OnWalk(parent, exempt, of[u], W, 0, of[u])
    BY <2>3 DEF OnWalk
  <2>5. CASE enforce_on /\ of[u] # Self
    <3>1. pc'[u] = "exempt?"
      BY <1>0, <2>5 DEF Hook, Goto
    <3> HIDE DEF W
    <3> QED
      BY <1>1, <1>3, <2>1, <2>2, <2>4, <3>1 DEF W, WalkOf, Walks, InHook
  <2>6. CASE ~(enforce_on /\ of[u] # Self)
    <3>1. pc'[u] = Passed(u) /\ verdict'[u] = "pass"
      BY <1>0, <2>6 DEF Hook, Goto
    <3>2. W = {}
      <4>1. CASE ~enforce_on
        BY <4>1 DEF Wanted
      <4>2. CASE of[u] = Self
        BY <2>3, <4>2 DEF Wanted, Clear, Top
      <4> QED
        BY <2>6, <4>1, <4>2
    <3> HIDE DEF W
    <3>3. Passed(u) \notin {"exempt?", "blocked?"}
      BY DEF Passed
    <3> QED
      BY <1>1, <1>3, <2>1, <2>2, <3>1, <3>2, <3>3 DEF W, WalkOf, Walks
  <2> QED
    BY <2>5, <2>6
<1> QED
  BY <1>2, <1>3

\* A call begins with nobody to demand anything.
LEMMA CallWalks ==
    ASSUME WInv, NEW u \in Thread, NEW k \in Kind, NEW x \in Weights, Call(u, k, x), NEW t \in Thread
    PROVE  WalkOf(t)'
<1>0. /\ pc \in [Thread -> {"idle", "probe"} \cup InProbe \cup InHook] /\ WalkOf(t)
      /\ must \in [Thread -> SUBSET Proc] /\ verdict \in [Thread -> {"none", "pass", "deny"}]
  BY DEF WInv, TypeOK
<1>1. /\ UNCHANGED <<of, parent, exempt, enforce_on, blocked, trusted, at, level>>
      /\ \A v \in Thread \ {u} : pc'[v] = pc[v] /\ must'[v] = must[v] /\ verdict'[v] = verdict[v]
      /\ must'[u] = {} /\ verdict'[u] = "none" /\ pc'[u] \in {"hook", "probe"}
  BY <1>0 DEF Call, walk, Goto
<1>2. CASE t # u
  <2>1. Still(t)
    BY <1>1, <1>2 DEF Still, Walks
  <2> QED
    BY <1>0, <2>1, WalkStays
<1>3. CASE t = u
  BY <1>0, <1>1, <1>3 DEF WalkOf, Walks
<1> QED
  BY <1>2, <1>3

\* A walk that ends as it should.
LEMMA ReturnWalks ==
    ASSUME WInv, NEW u \in Thread, NEW v \in {"pass", "deny"}, Return(u, v),
           v = "pass" => must[u] = {}, v = "deny" => u \notin trusted, NEW t \in Thread
    PROVE  WalkOf(t)'
<1>0. /\ pc \in [Thread -> {"idle", "probe"} \cup InProbe \cup InHook] /\ WalkOf(t)
      /\ at \in [Thread -> Proc] /\ level \in [Thread -> Nat]
      /\ verdict \in [Thread -> {"none", "pass", "deny"}]
  BY DEF WInv, TypeOK
<1>1. /\ UNCHANGED <<of, parent, exempt, enforce_on, blocked, trusted, must>>
      /\ \A x \in Thread \ {u} : /\ pc'[x] = pc[x] /\ verdict'[x] = verdict[x]
                                  /\ level'[x] = level[x] /\ at'[x] = at[x]
      /\ verdict'[u] = v /\ pc'[u] \in {"idle", "probe"}
  BY <1>0 DEF Return, tracked, Goto, Passed
<1>2. CASE t # u
  <2>1. Still(t)
    BY <1>1, <1>2 DEF Still, Walks
  <2> QED
    BY <1>0, <2>1, WalkStays
<1>3. CASE t = u
  BY <1>0, <1>1, <1>3 DEF WalkOf, Walks
<1> QED
  BY <1>2, <1>3

\* Who demands denial is found from here on: somewhere on the line, and not exempt before.
LEMMA AheadOf ==
    ASSUME WInv, NEW t \in Thread, Walks(t), NEW q \in must[t]
    PROVE  /\ q \in blocked
           /\ \E k \in 0 .. Depth :
                  /\ Line(parent, of[t])[k] = q /\ Clear(parent, exempt, of[t], k)
                  /\ level[t] <= k /\ level[t] \in 0 .. k /\ level[t] \in 0 .. Depth
                  /\ Line(parent, of[t])[level[t]] = at[t] /\ at[t] \notin exempt \cup Top
<1>0. WalkOf(t) /\ level[t] \in Nat /\ Depth \in Nat
  BY NumbersAssumption DEF NumbersAssumption, WInv, TypeOK
<1>1. q \in Wanted(parent, blocked, exempt, enforce_on, of[t])
  BY <1>0 DEF WalkOf
<1>2. PICK k \in 0 .. Depth : Line(parent, of[t])[k] = q /\ Clear(parent, exempt, of[t], k)
  BY <1>1 DEF Wanted
<1>3. level[t] <= k /\ Line(parent, of[t])[level[t]] = at[t]
  BY <1>0, <1>2 DEF WalkOf, OnWalk
<1>4. level[t] \in 0 .. k /\ level[t] \in 0 .. Depth
  BY <1>0, <1>2, <1>3
<1>5. at[t] \notin exempt \cup Top
  BY <1>2, <1>3, <1>4 DEF Clear
<1> QED
  BY <1>1, <1>2, <1>3, <1>4, <1>5 DEF Wanted

LEMMA LookExemptWalks ==
    ASSUME WInv, NEW u \in Thread, LookExempt(u), NEW t \in Thread
    PROVE  WalkOf(t)'
<1>0. /\ pc \in [Thread -> {"idle", "probe"} \cup InProbe \cup InHook] /\ WalkOf(t) /\ WalkOf(u)
      /\ pc[u] = "exempt?" /\ Walks(u) /\ must[u] \subseteq Proc
  BY DEF WInv, TypeOK, LookExempt, Walks
<1>1. CASE at[u] \in exempt
  <2>1. must[u] = {}
    <3>1. \A q \in must[u] : at[u] \notin exempt
      BY <1>0, AheadOf
    <3> QED
      BY <1>1, <3>1
  <2>2. Return(u, "pass")
    BY <1>1 DEF LookExempt
  <2> QED
    BY <2>1, <2>2, ReturnWalks
<1>2. CASE at[u] \notin exempt
  <2>1. /\ UNCHANGED <<of, parent, exempt, enforce_on, blocked, trusted, must, verdict, at, level>>
        /\ \A x \in Thread \ {u} : pc'[x] = pc[x]
        /\ pc'[u] = "blocked?"
    BY <1>0, <1>2 DEF LookExempt, tracked, walk, hooked, Goto
  <2>2. CASE t # u
    <3>1. Still(t)
      BY <2>1, <2>2 DEF Still, Walks
    <3> QED
      BY <1>0, <3>1, WalkStays
  <2>3. CASE t = u
    <3>1. u \notin trusted
      BY <1>0, <1>2 DEF WalkOf
    <3> QED
      BY <1>0, <2>1, <2>3, <3>1 DEF WalkOf, Walks, InHook
  <2> QED
    BY <2>2, <2>3
<1> QED
  BY <1>1, <1>2

LEMMA LookBlockedWalks ==
    ASSUME WInv, NEW u \in Thread, LookBlocked(u), NEW t \in Thread
    PROVE  WalkOf(t)'
<1>0. /\ pc \in [Thread -> {"idle", "probe"} \cup InProbe \cup InHook] /\ WalkOf(t) /\ WalkOf(u)
      /\ pc[u] = "blocked?" /\ Walks(u) /\ must[u] \subseteq Proc /\ u \notin trusted
      /\ at \in [Thread -> Proc] /\ level \in [Thread -> Nat] /\ level[u] \in Nat /\ Depth \in Nat
  BY NumbersAssumption DEF NumbersAssumption, WInv, TypeOK, LookBlocked, Walks, WalkOf
<1>1. CASE at[u] \in blocked
  <2>1. Return(u, "deny")
    BY <1>1 DEF LookBlocked
  <2> QED
    BY <1>0, <2>1, ReturnWalks
<1>2. ASSUME at[u] \notin blocked, NEW k \in 0 .. Depth, Line(parent, of[u])[k] \in must[u],
             Clear(parent, exempt, of[u], k)
      PROVE  /\ level[u] + 1 <= k /\ level[u] + 1 \in 0 .. Depth
             /\ Line(parent, of[u])[level[u] + 1] = parent[at[u]] /\ parent[at[u]] \notin Top
  <2>1. level[u] <= k /\ Line(parent, of[u])[level[u]] = at[u]
    BY <1>0, <1>2 DEF WalkOf, OnWalk
  <2>2. Line(parent, of[u])[k] \in blocked
    BY <1>0, <1>2, AheadOf
  <2>3. level[u] # k
    BY <1>2, <2>1, <2>2
  <2>4. /\ level[u] + 1 <= k /\ level[u] + 1 \in 0 .. Depth /\ level[u] + 1 \in 0 .. k
        /\ level[u] \in 0 .. k /\ level[u] + 1 # 0 /\ (level[u] + 1) - 1 = level[u]
    BY <1>0, <2>1, <2>3
  <2>5. at[u] \notin Top
    BY <1>2, <2>1, <2>4 DEF Clear
  <2>6. Line(parent, of[u])[level[u] + 1] = parent[at[u]]
    BY <2>1, <2>4, <2>5, LineAt
  <2> QED
    BY <1>2, <2>4, <2>6 DEF Clear
<1>3. CASE at[u] \notin blocked /\ Stops(u)
  <2>1. must[u] = {}
    <3> SUFFICES ASSUME NEW q \in must[u] PROVE FALSE
      OBVIOUS
    <3>1. PICK k \in 0 .. Depth : Line(parent, of[u])[k] = q /\ Clear(parent, exempt, of[u], k)
      BY <1>0, AheadOf
    <3>2. level[u] + 1 \in 0 .. Depth /\ parent[at[u]] \notin Top
      BY <1>2, <1>3, <3>1
    <3> QED
      BY <1>0, <1>3, <3>2 DEF Stops
  <2>2. Return(u, "pass")
    BY <1>3 DEF LookBlocked
  <2> QED
    BY <2>1, <2>2, ReturnWalks
<1>4. CASE at[u] \notin blocked /\ ~Stops(u)
  <2>1. /\ UNCHANGED <<of, parent, exempt, enforce_on, blocked, trusted, must, verdict>>
        /\ \A x \in Thread \ {u} : pc'[x] = pc[x] /\ at'[x] = at[x] /\ level'[x] = level[x]
        /\ pc'[u] = "exempt?" /\ at'[u] = parent[at[u]] /\ level'[u] = level[u] + 1
    BY <1>0, <1>4 DEF LookBlocked, tracked, hooked, Goto
  <2>2. CASE t # u
    <3>1. Still(t)
      BY <2>1, <2>2 DEF Still, Walks
    <3> QED
      BY <1>0, <3>1, WalkStays
  <2>3. CASE t = u
    <3>1. OnWalk(parent, exempt, of[u], must[u], level[u] + 1, parent[at[u]])
      BY <1>2, <1>4 DEF OnWalk
    <3> QED
      BY <1>0, <2>1, <2>3, <3>1 DEF WalkOf, Walks, InHook
  <2> QED
    BY <2>2, <2>3
<1> QED
  BY <1>1, <1>3, <1>4

\* A change of the maps, or a parent that dies, while a walk is under way.
LEMMA ChangeWalks ==
    ASSUME WInv, Changes, NEW t \in Thread, parent' \in [Proc -> Proc \cup {Outside}],
           \A v \in Proc : parent'[v] = parent[v] \/ parent'[v] = Outside
    PROVE  WalkOf(t)'
<1> DEFINE L == Line(parent, of[t])
           M == Line(parent', of[t])
<1>0. WalkOf(t) /\ must \in [Thread -> SUBSET Proc] /\ Depth \in Nat /\ level[t] \in Nat
  BY NumbersAssumption DEF NumbersAssumption, WInv, TypeOK
<1>1. /\ UNCHANGED <<of, pc, at, level, verdict>>
      /\ must'[t] = must[t] \cap Demands(of[t])' /\ trusted' = {x \in trusted : of[x] \in exempt'}
  BY DEF Changes, walk
<1>2. must'[t] \subseteq must[t] /\ must'[t] \subseteq Wanted(parent', blocked', exempt', enforce_on', of[t])
  BY <1>1, DemandsAre
<1>3. ASSUME Walks(t), NEW k \in 0 .. Depth, M[k] \in must'[t], Clear(parent', exempt', of[t], k)
      PROVE  level[t] <= k /\ M[level[t]] = at[t]
  <2>1. k \in Nat /\ \A j \in 0 .. k : M[j] \notin Top /\ j \in 0 .. Depth
    BY <1>0, <1>3 DEF Clear
  <2>2. \A j \in 0 .. k : M[j] = L[j]
    <3>1. of[t] \in Proc
      BY HomesAssumption DEF HomesAssumption, WInv, TypeOK
    <3> QED
      BY <2>1, <3>1, LineKeeps
  <2>3. k \in 0 .. k /\ L[k] \in must[t]
    BY <1>2, <1>3, <2>1, <2>2
  <2>4. PICK i \in 0 .. Depth : /\ L[i] = L[k] /\ Clear(parent, exempt, of[t], i)
                               /\ level[t] <= i /\ level[t] \in 0 .. i /\ L[level[t]] = at[t]
    BY <1>3, <2>3, AheadOf
  <2>5. level[t] <= k
    <3>1. CASE i <= k
      BY <1>0, <2>1, <2>4, <3>1
    <3>2. CASE k <= i
      <4>1. Clear(parent, exempt, of[t], k)
        <5>1. \A j \in 0 .. k : j \in 0 .. i
          BY <2>1, <2>4, <3>2
        <5> QED
          BY <2>4, <5>1 DEF Clear
      <4> QED
        BY <1>0, <1>3, <2>3, <4>1 DEF WalkOf, OnWalk
    <3> QED
      BY <2>1, <2>4, <3>1, <3>2
  <2>6. level[t] \in 0 .. k
    BY <1>0, <2>1, <2>5
  <2> QED
    BY <2>2, <2>4, <2>5, <2>6
<1>4. Walks(t) => OnWalk(parent', exempt', of[t], must'[t], level[t], at[t])
  BY <1>3 DEF OnWalk
<1>5. t \in trusted' => t \in trusted /\ of[t] \in exempt'
  BY <1>1
<1>6. must[t] = {} => must'[t] = {}
  BY <1>2
<1> HIDE DEF L, M
<1> QED
  BY <1>0, <1>1, <1>2, <1>4, <1>5, <1>6 DEF WalkOf, Walks

LEMMA WInvStep == WInv /\ [Next]_vars => WInv'
<1> SUFFICES ASSUME WInv, [Next]_vars PROVE WInv'
  OBVIOUS
<1>0. TypeOK' /\ TypeOK
  BY TypeStep DEF WInv
<1> SUFFICES ASSUME NEW t \in Thread PROVE WalkOf(t)'
  BY <1>0 DEF WInv
<1>1. CASE (\E u \in Thread : Probing(u)) \/ Bump \/ (\E p \in Proc : Evict(p)) \/ UNCHANGED vars
  BY <1>1, AddingWalks
<1>2. CASE \E u \in Thread : \E k \in Kind, x \in Weights : Call(u, k, x)
  BY <1>2, CallWalks
<1>3. CASE \E u \in Thread : Hook(u)
  BY <1>3, HookWalks
<1>4. CASE \E u \in Thread : LookExempt(u)
  BY <1>4, LookExemptWalks
<1>5. CASE \E u \in Thread : LookBlocked(u)
  BY <1>5, LookBlockedWalks
<1>6. ASSUME Changes, parent' = parent PROVE WalkOf(t)'
  BY <1>0, <1>6, ChangeWalks DEF TypeOK
<1>7. CASE set_enforcement \/ (\E p \in Proc : arm_block(p) \/ disarm_block(p) \/ kernel_exempt(p))
  BY <1>6, <1>7 DEF set_enforcement, arm_block, disarm_block, kernel_exempt
<1>8. ASSUME NEW p \in Proc, Reparent(p) PROVE WalkOf(t)'
  <2>1. Changes /\ parent' = [parent EXCEPT ![p] = Outside] /\ parent \in [Proc -> Proc \cup {Outside}]
    BY <1>0, <1>8 DEF Reparent, TypeOK
  <2>2. \A v \in Proc : parent'[v] = parent[v] \/ parent'[v] = Outside
    BY <2>1
  <2> QED
    BY <1>0, <2>1, <2>2, ChangeWalks DEF TypeOK
<1> QED
  BY <1>1, <1>2, <1>3, <1>4, <1>5, <1>7, <1>8 DEF Next

LEMMA InitWInv == Init => WInv
<1> SUFFICES ASSUME Init PROVE WInv
  OBVIOUS
<1>1. TypeOK
  BY InitIInv DEF IInv
<1>2. \A t \in Thread : /\ pc[t] = "idle" /\ must[t] = {} /\ t \notin trusted /\ verdict[t] = "none"
  BY DEF Init
<1> QED
  BY <1>1, <1>2 DEF WInv, WalkOf, Walks

\* The walk of is_blocked, one map lookup at a time while the tracker changes the maps and
\* parents die, decides no worse than one made at once, for any lineage and depth.
THEOREM WalksAreJust == Spec => []HookIsJust
<1>1. WInv => HookIsJust
  BY DEF WInv, WalkOf, HookIsJust, InHook
<1> QED
  BY InitWInv, WInvStep, <1>1, PTL DEF Spec
=============================================================================
