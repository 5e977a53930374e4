-------------------------------- MODULE Burst --------------------------------
(***************************************************************************)
(* The kernel's half of enforcement (bpf/edr.bpf.c): burst_add, which sums  *)
(* the weights of a process's risky calls in a window and arms the process  *)
(* when the sum reaches the ceiling, and the LSM hooks, which look for the  *)
(* caller and its ancestors in the maps.  Both run in the caller's context, *)
(* so threads of one process run them at the same time, while the tracker   *)
(* (user space) changes the maps and starts windows.                        *)
(*                                                                         *)
(* One action is one map call or one access to a map's value.  Weights are  *)
(* in units of the fixed point; a 64-bit sum of 32-bit weights does not     *)
(* overflow in a window.  The classes of calls that hooks deny are all on,  *)
(* as in rules.json.                                                        *)
(***************************************************************************)
EXTENDS Naturals, FiniteSets

CONSTANTS Thread, Proc,
          Outside,      \* the tgids 0 and 1
          Self,         \* self_tgid
          Homes,        \* which process each thread belongs to: the choices
          Lineages,     \* who is whose real_parent at first: the choices
          Weights,      \* of calls; 0 is not counted
          Ceiling,      \* burst_ceiling_fp
          Depth,        \* ancestors that are looked at
          Room,         \* size of blocked_tgids
          Evicts,       \* processes whose entry burst_win, when full, may throw out
          MaxCalls, MaxEpoch, MaxChanges   \* bounds

ASSUME SelfAssumption == Self \in Proc /\ Outside \notin Proc
ASSUME HomesAssumption == Homes \subseteq [Thread -> Proc]
ASSUME LineagesAssumption == Lineages \subseteq [Proc -> Proc \cup {Outside}]
ASSUME NumbersAssumption ==
    /\ Weights \subseteq Nat /\ Ceiling \in Nat \ {0} /\ Depth \in Nat /\ Room \in Nat
    /\ MaxCalls \in Nat /\ MaxEpoch \in Nat /\ MaxChanges \in Nat
ASSUME EvictsAssumption == Evicts \subseteq Proc

\* Whether the probe of a call runs before its hook (mprotect, ptrace, execve),
\* after it (setuid, connect), or without one (memfd_create, unshare, bpf).
Kind == {"before", "after", "none"}

NoEpoch == MaxEpoch + 1     \* not in burst_win

VARIABLES
    of, parent,
    enforce_on, blocked, exempt, epoch,   \* the maps
    win,                                  \* burst_win
    pc, kind, w, ep, sum,                 \* each thread's call and burst_add
    at, level,                            \* and its walk in is_blocked
    calls, changes,
    spent, before,    \* history: weights counted in this window and the last
    eased,            \* history: threads whose process was disarmed since their last check
    must,             \* who has demanded denial since the hook began
    trusted,          \* the caller has been exempt since the hook began
    verdict

vars == <<of, parent, enforce_on, blocked, exempt, epoch, win, pc, kind, w, ep, sum,
          at, level, calls, changes, spent, before, eased, must, trusted, verdict>>
tracked == <<of, parent, enforce_on, exempt, epoch, calls, changes>>
call    == <<kind, w>>
adding  == <<ep, sum>>
walk    == <<at, level>>
hooked  == <<must, trusted, verdict>>
weighed == <<spent, before>>

InProbe == {"look", "insert", "zero", "stamp", "load", "store", "check", "arm"}
InHook  == {"hook", "exempt?", "blocked?"}

TypeOK ==
    /\ of \in Homes /\ parent \in [Proc -> Proc \cup {Outside}]
    /\ enforce_on \in BOOLEAN /\ blocked \subseteq Proc /\ exempt \subseteq Proc
    /\ epoch \in Nat /\ win \in [Proc -> [sum : Nat, epoch : Nat]]
    /\ pc \in [Thread -> {"idle", "probe"} \cup InProbe \cup InHook]
    /\ kind \in [Thread -> Kind] /\ w \in [Thread -> Weights \cup {0}]
    /\ ep \in [Thread -> Nat] /\ sum \in [Thread -> Nat]
    /\ at \in [Thread -> Proc] /\ level \in [Thread -> Nat]
    /\ calls \in Nat /\ changes \in Nat
    /\ spent \in [Proc -> Nat] /\ before \in [Proc -> Nat]
    /\ eased \subseteq Thread /\ must \in [Thread -> SUBSET Proc]
    /\ trusted \subseteq Thread /\ verdict \in [Thread -> {"none", "pass", "deny"}]

Init ==
    /\ of \in Homes /\ parent \in Lineages
    /\ enforce_on = TRUE /\ blocked = {} /\ exempt = {} /\ epoch = 0
    /\ win = [p \in Proc |-> [sum |-> 0, epoch |-> NoEpoch]]
    /\ pc = [t \in Thread |-> "idle"] /\ kind = [t \in Thread |-> "none"]
    /\ w = [t \in Thread |-> 0] /\ ep = [t \in Thread |-> 0] /\ sum = [t \in Thread |-> 0]
    /\ at = of /\ level = [t \in Thread |-> 0]
    /\ calls = 0 /\ changes = 0
    /\ spent = [p \in Proc |-> 0] /\ before = [p \in Proc |-> 0]
    /\ eased = {} /\ must = [t \in Thread |-> {}] /\ trusted = {}
    /\ verdict = [t \in Thread |-> "none"]

-----------------------------------------------------------------------------
(* Ancestors.                                                              *)

\* The task k real_parents up; nobody is looked at beyond Outside and Self.
Top == {Outside, Self}
Up(p) ==
    LET up[k \in 0 .. Depth] ==
            IF k = 0 THEN p
            ELSE IF up[k - 1] \in Top THEN up[k - 1] ELSE parent[up[k - 1]]
    IN  up

\* No reparenting happens during this walk that could change what it finds.
in_self_tree(p) == \E k \in 0 .. Depth : Up(p)[k] = Self

\* Who demands that calls of p be denied, when everything is read at once.
Demands(p) ==
    {q \in blocked : enforce_on /\ \E k \in 0 .. Depth :
        Up(p)[k] = q /\ \A j \in 0 .. k : Up(p)[j] \notin exempt \cup Top}

-----------------------------------------------------------------------------
(* A call, and burst_add.                                                  *)

Goto(t, place) == pc' = [pc EXCEPT ![t] = place]

Call(t, k, x) ==
    /\ pc[t] = "idle" /\ calls < MaxCalls
    /\ calls' = calls + 1
    /\ kind' = [kind EXCEPT ![t] = k] /\ w' = [w EXCEPT ![t] = x]
    /\ verdict' = [verdict EXCEPT ![t] = "none"] /\ must' = [must EXCEPT ![t] = {}]
    /\ Goto(t, IF k = "after" THEN "hook" ELSE "probe")
    /\ UNCHANGED <<of, parent, enforce_on, blocked, exempt, epoch, win, adding, walk,
                   changes, weighed, eased, trusted>>

\* Where a probe, and a hook that lets the call pass, return to.
Onward(t) == IF kind[t] = "before" THEN "hook" ELSE "idle"
Passed(t) == IF kind[t] = "after" THEN "probe" ELSE "idle"

\* A call that is not counted.
Skip(t) ==
    /\ pc[t] = "probe"
    /\ w[t] = 0 \/ of[t] \in exempt \/ in_self_tree(of[t])
    /\ Goto(t, Onward(t))
    /\ UNCHANGED <<tracked, blocked, win, call, adding, walk, weighed, eased, hooked>>

Count(t) ==
    /\ pc[t] = "probe"
    /\ w[t] # 0 /\ of[t] \notin exempt /\ ~in_self_tree(of[t])
    /\ ep' = [ep EXCEPT ![t] = epoch]
    /\ spent' = [spent EXCEPT ![of[t]] = @ + w[t]]
    /\ Goto(t, "look")
    /\ UNCHANGED <<tracked, blocked, win, call, sum, walk, before, eased, hooked>>

Look(t) ==
    /\ pc[t] = "look"
    /\ Goto(t, IF win[of[t]].epoch = NoEpoch THEN "insert"
               ELSE IF win[of[t]].epoch # ep[t] THEN "zero" ELSE "load")
    /\ UNCHANGED <<tracked, blocked, win, call, adding, walk, weighed, eased, hooked>>

Insert(t) ==
    /\ pc[t] = "insert"
    /\ win' = [win EXCEPT ![of[t]] = [sum |-> w[t], epoch |-> ep[t]]]
    /\ sum' = [sum EXCEPT ![t] = w[t]]
    /\ Goto(t, "check")
    /\ UNCHANGED <<tracked, blocked, call, ep, walk, weighed, eased, hooked>>

\* The mutant keeps the sum of the old window.
ZeroNot(t) ==
    /\ pc[t] = "zero"
    /\ Goto(t, "stamp")
    /\ UNCHANGED <<tracked, blocked, win, call, adding, walk, weighed, eased, hooked>>

Zero(t) ==
    /\ pc[t] = "zero"
    /\ win' = [win EXCEPT ![of[t]].sum = 0]
    /\ Goto(t, "stamp")
    /\ UNCHANGED <<tracked, blocked, call, adding, walk, weighed, eased, hooked>>

\* The mutant forgets to note the window, so that the next call zeroes again.
StampNot(t) ==
    /\ pc[t] = "stamp"
    /\ Goto(t, "load")
    /\ UNCHANGED <<tracked, blocked, win, call, adding, walk, weighed, eased, hooked>>

Stamp(t) ==
    /\ pc[t] = "stamp"
    /\ win' = [win EXCEPT ![of[t]].epoch = ep[t]]
    /\ Goto(t, "load")
    /\ UNCHANGED <<tracked, blocked, call, adding, walk, weighed, eased, hooked>>

\* sum_fp += w_fp is a load and a store; sum is then what was stored.
Load(t) ==
    /\ pc[t] = "load"
    /\ sum' = [sum EXCEPT ![t] = win[of[t]].sum]
    /\ Goto(t, "store")
    /\ UNCHANGED <<tracked, blocked, win, call, ep, walk, weighed, eased, hooked>>

Store(t) ==
    /\ pc[t] = "store"
    /\ sum' = [sum EXCEPT ![t] = @ + w[t]]
    /\ win' = [win EXCEPT ![of[t]].sum = sum'[t]]
    /\ Goto(t, "check")
    /\ UNCHANGED <<tracked, blocked, call, ep, walk, weighed, eased, hooked>>

Reaches(s) == s >= Ceiling

Check(t) ==
    /\ pc[t] = "check"
    /\ IF Reaches(sum[t])
       THEN /\ Goto(t, IF of[t] \in blocked THEN Onward(t) ELSE "arm")
            /\ eased' = eased \ {t}
       ELSE Goto(t, Onward(t)) /\ UNCHANGED eased
    /\ UNCHANGED <<tracked, blocked, win, call, adding, walk, weighed, hooked>>

\* An update of a full map fails; the event is sent all the same.
AddBlock(p) ==
    IF p \in blocked \/ Cardinality(blocked) < Room
    THEN blocked' = blocked \cup {p} ELSE UNCHANGED blocked

\* The mutant spares itself the update while nothing is enforced.
ArmIfLive(t) ==
    /\ pc[t] = "arm"
    /\ IF enforce_on THEN AddBlock(of[t]) ELSE UNCHANGED blocked
    /\ Goto(t, Onward(t))
    /\ UNCHANGED <<tracked, win, call, adding, walk, weighed, eased, hooked>>

Arm(t) ==
    /\ pc[t] = "arm"
    /\ AddBlock(of[t])
    /\ Goto(t, Onward(t))
    /\ UNCHANGED <<tracked, win, call, adding, walk, weighed, eased, hooked>>

-----------------------------------------------------------------------------
(* The hooks.                                                              *)

Hook(t) ==
    /\ pc[t] = "hook"
    /\ IF enforce_on /\ of[t] # Self
       THEN Goto(t, "exempt?") /\ UNCHANGED verdict
       ELSE Goto(t, Passed(t)) /\ verdict' = [verdict EXCEPT ![t] = "pass"]
    /\ at' = [at EXCEPT ![t] = of[t]] /\ level' = [level EXCEPT ![t] = 0]
    /\ must' = [must EXCEPT ![t] = Demands(of[t])]
    /\ trusted' = IF of[t] \in exempt THEN trusted \cup {t} ELSE trusted \ {t}
    /\ UNCHANGED <<tracked, blocked, win, call, adding, weighed, eased>>

Return(t, v) ==
    /\ verdict' = [verdict EXCEPT ![t] = v]
    /\ Goto(t, IF v = "pass" THEN Passed(t) ELSE "idle")
    /\ at' = [at EXCEPT ![t] = of[t]] /\ level' = [level EXCEPT ![t] = 0]
    /\ sum' = [sum EXCEPT ![t] = 0]
    /\ UNCHANGED <<tracked, blocked, win, call, ep, weighed, eased, must, trusted>>

LookExempt(t) ==
    /\ pc[t] = "exempt?"
    /\ IF at[t] \in exempt THEN Return(t, "pass")
       ELSE /\ Goto(t, "blocked?")
            /\ UNCHANGED <<tracked, blocked, win, call, adding, walk, weighed, eased, hooked>>

\* The mutant counts the caller as the first of the Depth.
StopsEarly(t) == level[t] + 1 >= Depth \/ parent[at[t]] \in Top
Stops(t)      == level[t] = Depth \/ parent[at[t]] \in Top

LookBlocked(t) ==
    /\ pc[t] = "blocked?"
    /\ IF at[t] \in blocked THEN Return(t, "deny")
       ELSE IF Stops(t) THEN Return(t, "pass")
       ELSE /\ at' = [at EXCEPT ![t] = parent[at[t]]]
            /\ level' = [level EXCEPT ![t] = @ + 1]
            /\ Goto(t, "exempt?")
            /\ UNCHANGED <<tracked, blocked, win, call, adding, weighed, eased, hooked>>

-----------------------------------------------------------------------------
(* The tracker and the world.                                              *)

\* burst_add takes less than a window: nobody is in it with an older epoch.
Bump ==
    /\ epoch < MaxEpoch
    /\ \A t \in Thread : pc[t] \in InProbe => ep[t] = epoch
    /\ epoch' = epoch + 1
    /\ before' = spent /\ spent' = [p \in Proc |-> 0]
    /\ UNCHANGED <<of, parent, enforce_on, exempt, calls, changes, blocked, win, pc, call,
                   adding, walk, eased, hooked>>

\* A change of the maps or of the lineage; who no longer demands denial, and
\* which callers are no longer exempt, is noted.
Changes ==
    /\ changes < MaxChanges /\ changes' = changes + 1
    /\ UNCHANGED <<of, epoch, calls, win, pc, call, adding, walk, weighed, verdict>>
    /\ must' = [t \in Thread |-> must[t] \cap Demands(of[t])']
    /\ trusted' = {t \in trusted : of[t] \in exempt'}

ThreadsOf(p) == {t \in Thread : of[t] = p}

set_enforcement ==
    /\ enforce_on' = ~enforce_on
    /\ UNCHANGED <<parent, blocked, exempt, eased>>
    /\ Changes

arm_block(p) ==
    /\ p \notin blocked /\ AddBlock(p)
    /\ UNCHANGED <<parent, enforce_on, exempt, eased>>
    /\ Changes

disarm_block(p) ==
    /\ p \in blocked /\ blocked' = blocked \ {p}
    /\ eased' = eased \cup ThreadsOf(p)
    /\ UNCHANGED <<parent, enforce_on, exempt>>
    /\ Changes

kernel_exempt(p) ==
    /\ exempt' = IF p \in exempt THEN exempt \ {p} ELSE exempt \cup {p}
    /\ UNCHANGED <<parent, enforce_on, blocked, eased>>
    /\ Changes

\* The parent of p dies.
Reparent(p) ==
    /\ parent[p] \in Proc \ Top /\ parent' = [parent EXCEPT ![p] = Outside]
    /\ UNCHANGED <<enforce_on, blocked, exempt, eased>>
    /\ Changes

\* burst_win is an LRU map; an entry in use is not the oldest.
Evict(p) ==
    /\ p \in Evicts /\ win[p].epoch # NoEpoch
    /\ \A t \in ThreadsOf(p) : pc[t] \notin InProbe
    /\ win' = [win EXCEPT ![p] = [sum |-> 0, epoch |-> NoEpoch]]
    /\ UNCHANGED <<tracked, blocked, pc, call, adding, walk, weighed, eased, hooked>>

Probing(t) ==
    \/ Skip(t) \/ Count(t) \/ Look(t) \/ Insert(t) \/ Zero(t) \/ Stamp(t)
    \/ Load(t) \/ Store(t) \/ Check(t) \/ Arm(t)

Next ==
    \/ \E t \in Thread :
          \/ \E k \in Kind, x \in Weights : Call(t, k, x)
          \/ Probing(t) \/ Hook(t) \/ LookExempt(t) \/ LookBlocked(t)
    \/ Bump \/ set_enforcement
    \/ \E p \in Proc : \/ arm_block(p) \/ disarm_block(p) \/ kernel_exempt(p)
                       \/ Reparent(p) \/ Evict(p)

Spec == Init /\ [][Next]_vars

-----------------------------------------------------------------------------
(* Properties.                                                             *)

Alone(t) == ThreadsOf(of[t]) = {t}

\* A process of one thread whose calls in one window reach the ceiling is armed
\* when the last of them leaves burst_add, until the tracker disarms it.
CaughtInWindow ==
    \A t \in Thread :
        /\ Alone(t) /\ of[t] \notin Evicts
        /\ pc[t] \notin InProbe /\ spent[of[t]] >= Ceiling
        => of[t] \in blocked \/ t \in eased

\* And burst_add arms it only if its calls in the window reach the ceiling, when
\* the tracker starts the next window meanwhile as well.
InWindow(t) == IF ep[t] = epoch THEN spent[of[t]] ELSE before[of[t]]
TripsAreEarned ==
    \A t \in Thread : Alone(t) /\ pc[t] = "arm" => InWindow(t) >= Ceiling

\* Both: a process of one thread is armed for its bursts and for nothing else.
BurstsAreArmed == CaughtInWindow /\ TripsAreEarned

\* Between its calls, the entry of t's process is what it has spent in this
\* window, or is of an older one and nothing has been spent.
Settled(t) ==
    LET v == win[of[t]]
    IN  /\ v.epoch = epoch => /\ v.sum <= spent[of[t]]
                              /\ of[t] \notin Evicts => v.sum = spent[of[t]]
        /\ v.epoch # epoch /\ of[t] \notin Evicts => spent[of[t]] = 0

\* Inside burst_add, what it still has to store and its weight make up the window.
AtMost(t, s) == s <= InWindow(t) /\ (of[t] \notin Evicts => s = InWindow(t))

Underway(t) ==
    LET v == win[of[t]]
    IN  /\ ep[t] <= epoch /\ epoch <= ep[t] + 1
        /\ ep[t] # epoch => spent[of[t]] = 0
        /\ w[t] <= InWindow(t)
        /\ pc[t] = "look" /\ v.epoch = ep[t] => AtMost(t, v.sum + w[t])
        /\ pc[t] = "look" /\ v.epoch # ep[t] => AtMost(t, w[t])
        /\ pc[t] \in {"insert", "zero", "stamp"} => AtMost(t, w[t])
        /\ pc[t] = "stamp" => v.sum = 0
        /\ pc[t] = "load" => v.epoch = ep[t] /\ AtMost(t, v.sum + w[t])
        /\ pc[t] = "store" => v.epoch = ep[t] /\ AtMost(t, sum[t] + w[t])
        /\ pc[t] \in {"check", "arm"} => v.epoch = ep[t] /\ v.sum = sum[t] /\ AtMost(t, sum[t])
        /\ pc[t] = "arm" => sum[t] >= Ceiling

WindowOf(t) == IF pc[t] \in InProbe THEN Underway(t) ELSE Settled(t)

\* No entry is of a window to come.
Epochs ==
    /\ epoch <= MaxEpoch
    /\ \A p \in Proc : win[p].epoch <= epoch \/ win[p].epoch = NoEpoch
    /\ \A t \in Thread : pc[t] \in InProbe => ep[t] <= epoch

\* The invariant the proofs use: what burst_add knows at each of its steps about
\* the window of a process of one thread.
IInv == TypeOK /\ Epochs /\ \A t \in Thread : Alone(t) => WindowOf(t)

\* The mprotect or ptrace that reaches the ceiling is itself denied: when its hook
\* begins its probe, or another thread's, has armed the process.
ArmedBeforeHook ==
    \A t \in Thread :
        pc[t] = "hook" /\ kind[t] = "before" /\ Reaches(sum[t])
            => of[t] \in blocked \/ t \in eased

\* A walk that takes many steps while the maps change decides no worse than one
\* made at once: a caller that somebody has wanted denied all the time is denied,
\* and one that has been exempt all the time is not.
HookIsJust ==
    \A t \in Thread : pc[t] \in {"idle", "probe"} =>
        /\ verdict[t] = "pass" => must[t] = {}
        /\ verdict[t] = "deny" => t \notin trusted

-----------------------------------------------------------------------------
(* Claims the code does not keep, or keeps only on one thread.              *)

\* ui.cpp:275, "kernel already blocked it": as CaughtInWindow, for any process.
BurstIsCaught ==
    \A p \in Proc :
        (\A t \in ThreadsOf(p) : pc[t] \notin InProbe) /\ spent[p] >= Ceiling
            => p \in blocked \/ ThreadsOf(p) \subseteq eased

\* tracker.cpp:1039, "(weight %.1f in window)": the sum is that of one window.
SumIsOfWindow ==
    \A t \in Thread : pc[t] = "arm" => sum[t] <= InWindow(t)
=============================================================================
