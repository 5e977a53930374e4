------------------------------ MODULE ProcTree ------------------------------
(***************************************************************************)
(* The tracker's process tree: how FORK, EXIT, EXEC and scored events      *)
(* build it (poller thread), how tick() and purge_dead() take dead nodes   *)
(* out of it (engine and UI threads), the watchlist, and how the           *)
(* supervisor's thread uses it to mute, score and kill a supervised tree   *)
(* (src/src/tracker.cpp, src/src/seccomp_supervisor.cpp).                  *)
(*                                                                         *)
(* One action is one section of g_lock_.  A node is named by its pid and a *)
(* number; `of' says which process of that pid it was made for.  Children  *)
(* are the nodes whose parent pointer leads to a node; the pointer is      *)
(* weak, so it is empty once the parent is gone.                           *)
(*                                                                         *)
(* Abstracted: a score is a level, 0 below the floors of badges and        *)
(* collection, 1 and above worth keeping (gc_forensic_keep, equal to       *)
(* WATCH_THRESHOLD); any of the dead nodes may be old enough to collect;   *)
(* comms are trusted (in exempt_comms) or not.  Prompts, blocks, verdicts  *)
(* and hashes are in Tracker; auto-kill is off, as shipped, and tick then  *)
(* only logs, so the dwell timer is left out.                              *)
(***************************************************************************)
EXTENDS Naturals, Sequences, FiniteSets, SequencesExt

CONSTANTS
    Pid,
    NoPid,        \* no process, or one outside Pid
    Seeded,       \* pids running when the engine starts
    Threads,      \* pids used as ids of threads that are not leaders
    Strays,       \* pids that processes outside Pid give to children
    RootPid,      \* pids a launched program may get, {} for no supervision
    RootShared,   \* whether those pids serve other processes too
    Leaves,       \* pids of supervised processes that start their own group
    Trusts,       \* whether a comm may be in exempt_comms, a subset of BOOLEAN
    Loses,        \* whether the full ring may drop an event
    EarlyFork,    \* whether the launched program forks before it is registered
    EarlyEnd,     \* whether the supervise loop may end before its tree
    SlowReuse,    \* whether a pid is not reused while its events, or a kill of it, are due
    WatchMax,     \* capacity of the watchlist, 20 in the code
    MaxLevel,     \* bound: levels of a score
    MaxInc,       \* bound: processes per pid
    MaxNode,      \* bound: nodes per pid at a time
    MaxScored,    \* bound: scored events
    RingSize      \* bound: events in the ring

ASSUME PidAssumption    == /\ IsFiniteSet(Pid) /\ NoPid \notin Pid
                           /\ Seeded \cup Threads \cup Strays \cup RootPid \cup Leaves \subseteq Pid
ASSUME SwitchAssumption == /\ {RootShared, Loses, EarlyFork, EarlyEnd, SlowReuse} \subseteq BOOLEAN
                           /\ Trusts \subseteq BOOLEAN /\ Trusts # {}
ASSUME BoundsAssumption == /\ {WatchMax, MaxInc, MaxNode} \subseteq Nat \ {0}
                           /\ {MaxLevel, MaxScored, RingSize} \subseteq Nat

Level == 0 .. MaxLevel
Uid   == Pid \X (1 .. MaxNode)
Proc  == Pid \X (1 .. MaxInc)
None  == <<>>
Max2(a, b) == IF a < b THEN b ELSE a
With(f, u, x) == [v \in DOMAIN f \cup {u} |-> IF v = u THEN x ELSE f[v]]

VARIABLES
    \* kernel (external): the latest process of each pid
    proc, ring,
    \* tracker
    node,        \* nodes_, a function on the nodes there are
    roots,       \* roots_
    cur,         \* pid_to_uid_
    supRoots,    \* supervised_roots_
    watch,       \* watchlist_, a function on the nodes watched
    \* launch() and the supervise thread
    pc,
    call,        \* pid of the call held
    root,        \* child_pid_
    victims,
    \* bound
    scored

treeVars == <<node, roots, cur>>
supVars  == <<pc, call, root, victims>>
vars == <<proc, ring, treeVars, supRoots, watch, supVars, scored>>

(* Processes and their events.                                             *)

Process == [inc : 0 .. MaxInc, state : {"none", "up", "dying"},
            par : Proc \cup {None}, desc : BOOLEAN, group : BOOLEAN, trusted : BOOLEAN]
Event == [type : {"FORK", "EXIT", "EXEC", "RISKY"}, pid : Pid, inc : 1 .. MaxInc,
          ppid : Pid \cup {NoPid}, trusted : BOOLEAN]
PNode == [of : 1 .. MaxInc, par : Uid \cup {None}, dead : BOOLEAN,
          exempt : BOOLEAN, supervised : BOOLEAN, risk : Level, peak : Level,
          badgePeak : Level]
Watched == [peak : Level, dead : BOOLEAN]

Up(p)    == proc[p].state = "up"
There(p) == proc[p].state # "none"

\* Orphans are adopted by init, which is outside Pid.
Ppid(p) == LET k == proc[p].par
           IN IF k # None /\ There(k[1]) /\ proc[k[1]].inc = k[2] THEN k[1] ELSE NoPid

Ev(type, p, ppid, trusted) ==
    [type |-> type, pid |-> p, inc |-> proc'[p].inc, ppid |-> ppid, trusted |-> trusted]

Emit(e) == \/ Len(ring) < RingSize /\ ring' = Append(ring, e)
           \/ Loses /\ UNCHANGED ring

Unseen(p) == \E i \in 1 .. Len(ring) : ring[i].pid = p

Born(q, par, desc, group, trusted) ==
    /\ ~There(q) /\ proc[q].inc < MaxInc
    /\ SlowReuse => ~Unseen(q) /\ q \notin victims
    /\ proc' = [proc EXCEPT ![q] = [inc |-> @.inc + 1, state |-> "up", par |-> par,
                                    desc |-> desc, group |-> group, trusted |-> trusted]]

Fork(p, q) ==
    /\ Up(p) /\ (q \in RootPid => RootShared)
    /\ proc[p].desc /\ pc = "launched" => EarlyFork
    /\ Born(q, <<p, proc[p].inc>>, proc[p].desc, proc[p].group /\ q \notin Leaves,
            proc[p].trusted)
    /\ Emit(Ev("FORK", q, p, proc[p].trusted))
    /\ UNCHANGED <<treeVars, supRoots, watch, supVars, scored>>

\* The same by a process outside Pid.
ForkOutside(q) ==
    /\ q \in Strays /\ Born(q, None, FALSE, FALSE, FALSE)
    /\ Emit(Ev("FORK", q, NoPid, FALSE))
    /\ UNCHANGED <<treeVars, supRoots, watch, supVars, scored>>

\* The launched program is taken to outlive launch().
Die(p) ==
    /\ There(p) /\ ~(proc[p].desc /\ pc = "launched")
    /\ proc' = [proc EXCEPT ![p].state = "none"]
    /\ IF p \in Threads THEN UNCHANGED ring
       ELSE Emit(Ev("EXIT", p, Ppid(p), proc[p].trusted))
    /\ UNCHANGED <<treeVars, supRoots, watch, supVars, scored>>

\* The event of an execve carries the comm of before it.
Exec(p) ==
    /\ Up(p) /\ scored < MaxScored
    /\ \E t \in Trusts : proc' = [proc EXCEPT ![p].trusted = t]
    /\ Emit(Ev("EXEC", p, Ppid(p), proc[p].trusted))
    /\ scored' = scored + 1
    /\ UNCHANGED <<treeVars, supRoots, watch, supVars>>

Risky(p) ==
    /\ Up(p) /\ scored < MaxScored
    /\ UNCHANGED proc
    /\ Emit(Ev("RISKY", p, Ppid(p), proc[p].trusted))
    /\ scored' = scored + 1
    /\ UNCHANGED <<treeVars, supRoots, watch, supVars>>

(* The tree.                                                               *)

\* u, its parent and so on, None after the last.
Chain(n, u) ==
    LET up[k \in 1 .. Cardinality(Uid)] ==
            IF k = 1 THEN u ELSE IF up[k - 1] = None THEN None ELSE n[up[k - 1]].par
    IN up

\* The nodes from u up its parent pointers, u first.
Lineage(n, u) ==
    LET up == Chain(n, u)
    IN [k \in {k \in 1 .. Cardinality(Uid) : up[k] # None} |-> up[k]]

Ancestry(n, u) == {Lineage(n, u)[k] : k \in DOMAIN Lineage(n, u)}

Supervised(n, u) == \E v \in Ancestry(n, u) : n[v].supervised \/ v[1] \in supRoots

\* What snapshot() shows: the nodes under roots_.
Seen(n, r) == {u \in DOMAIN n : Ancestry(n, u) \cap r # {}}

Lookup(c, p) == IF p \in Pid /\ c[p] # 0 THEN <<p, c[p]>> ELSE None
Node(p) == Lookup(cur, p)

Tree == [node |-> node, roots |-> roots, cur |-> cur]
Becomes(t) == node' = t.node /\ roots' = t.roots /\ cur' = t.cur

Free(t, p)  == {i \in 1 .. MaxNode : <<p, i>> \notin DOMAIN t.node}
Fresh(t, p) == <<p, CHOOSE i \in Free(t, p) : \A j \in Free(t, p) : i <= j>>

\* A new node under the latest node of its parent's pid, or under roots_.
Added(t, p, of, ppid, exempt, supervised) ==
    LET par == Lookup(t.cur, ppid)
        u   == Fresh(t, p)
        x   == [of |-> of, par |-> par, dead |-> FALSE, exempt |-> exempt,
                supervised |-> supervised, risk |-> 0, peak |-> 0, badgePeak |-> 0]
    IN [node  |-> With(t.node, u, x),
        roots |-> IF par = None THEN t.roots \cup {u} ELSE t.roots,
        cur   |-> [t.cur EXCEPT ![p] = u[2]]]

\* Mutant of Inherits.
InheritsPid(t, p, ppid) ==
    \E u \in {Lookup(t.cur, p), Lookup(t.cur, ppid)} \ {None} :
        t.node[u].supervised \/ u[1] \in supRoots \/ p \in supRoots

\* Mutant of Inherits.
InheritsNever(t, p, ppid) == p \in supRoots

\* The flag a node made from an event starts with.
Inherits(t, p, ppid) ==
    LET par == Lookup(t.cur, ppid)
    IN \/ p \in supRoots
       \/ par # None /\ (t.node[par].supervised \/ par[1] \in supRoots)

Dead(x) == [x EXCEPT !.dead = TRUE]

\* Mutant of SuccessorOf.
SuccessorBeside(t, p) == t

\* A FORK for a pid whose node is not known to be dead ends that node.
SuccessorOf(t, p) ==
    LET u == Lookup(t.cur, p)
    IN IF u = None THEN t ELSE [t EXCEPT !.node[u] = Dead(@)]

Erased(n, S) == [u \in DOMAIN n \ S |->
                    [n[u] EXCEPT !.par = IF @ \in S THEN None ELSE @]]

\* Mutant of Erase.
EraseStale(n, S) ==
    /\ node' = Erased(n, S) /\ roots' = roots \ S
    /\ supRoots' = supRoots \ {u[1] : u \in S}
    /\ UNCHANGED cur

\* Erased nodes leave the parent's children or roots_, pid_to_uid_, and with them goes
\* whatever supervised_roots_ has for their pid.
Erase(n, S) ==
    /\ node' = Erased(n, S) /\ roots' = roots \ S
    /\ cur' = [p \in Pid |-> IF <<p, cur[p]>> \in S THEN 0 ELSE cur[p]]
    /\ supRoots' = supRoots \ {u[1] : u \in S}

(* Scores and the watchlist.                                               *)

Keep(x) == Max2(x.peak, x.badgePeak)

Lowest(w) == {v \in DOMAIN w : \A o \in DOMAIN w : w[v].peak <= w[o].peak}
Entry(x)  == [peak |-> x.peak, dead |-> x.dead]

\* Mutant of Admits.
AdmitsAny(low, x) == TRUE

\* Whether a full watchlist gives its lowest place to x.
Admits(low, x) == low.peak < x.peak

\* update_watchlist: the watchlists it may leave, for the hash order picks one of several
\* lowest entries.
Watching(w, n, u) ==
    IF n[u].exempt \/ n[u].peak = 0 THEN {w}
    ELSE IF u \in DOMAIN w \/ Cardinality(DOMAIN w) < WatchMax THEN {With(w, u, Entry(n[u]))}
    ELSE {IF Admits(w[low], n[u])
          THEN With([v \in DOMAIN w \ {low} |-> w[v]], u, Entry(n[u]))
          ELSE w : low \in Lowest(w)}

WatchingAll(w, n, us) ==
    LET after[k \in 0 .. Len(us)] ==
            IF k = 0 THEN {w} ELSE UNION {Watching(v, n, us[k]) : v \in after[k - 1]}
    IN after[Len(us)]

\* Mutant of WatchDead.
WatchUntold(w, u) == w

WatchDead(w, u) == IF u \in DOMAIN w THEN [w EXCEPT ![u].dead = TRUE] ELSE w

\* The nodes evidence of u may reach: u and its ancestors below the first exempt one.
Reach(n, u) ==
    LET l == Lineage(n, u)
        k == CHOOSE k \in 1 .. Len(l) :
                 /\ \A j \in 2 .. k : ~n[l[j]].exempt
                 /\ k = Len(l) \/ n[l[k + 1]].exempt
    IN SubSeq(l, 1, k)

Lifted(n, us, level) ==
    [v \in DOMAIN n |->
        IF \E k \in 1 .. Len(us) : us[k] = v
        THEN LET to == level[CHOOSE k \in 1 .. Len(us) : us[k] = v]
             IN [n[v] EXCEPT !.risk = to, !.peak = Max2(@, to)]
        ELSE n[v]]

\* add_evidence and backprop: the new levels are any, since older evidence decays first.
Evidence(t, u, exempt) ==
    \E k \in 1 .. Len(Reach(t.node, u)) :
        LET us == SubSeq(Reach(t.node, u), 1, k)
        IN \E level \in [1 .. k -> Level] :
               LET n == Lifted(t.node, us, level)
               IN /\ Becomes([t EXCEPT !.node = [n EXCEPT ![u].exempt = exempt]])
                  /\ watch' \in WatchingAll(watch, n, us)

\* The end of ingest: the event of a node that is not exempt is evidence against it.
Judged(t, u) == IF t.node[u].exempt THEN Becomes(t) /\ UNCHANGED watch ELSE Evidence(t, u, FALSE)

(* The poller: ingest().                                                   *)

Took(type) == /\ ring # <<>> /\ Head(ring).type = type /\ ring' = Tail(ring)
              /\ UNCHANGED <<proc, supVars, scored>>

IngestFork ==
    /\ Took("FORK") /\ Free(Tree, Head(ring).pid) # {}
    /\ LET e == Head(ring)
           t == SuccessorOf(Tree, e.pid)
           s == Added(t, e.pid, e.inc, e.ppid, e.trusted, Inherits(t, e.pid, e.ppid))
       IN Judged(s, Lookup(s.cur, e.pid))
    /\ UNCHANGED supRoots

IngestExit ==
    /\ Took("EXIT")
    /\ LET p == Head(ring).pid
           u == Node(p)
       IN IF u = None THEN UNCHANGED <<treeVars, supRoots, watch>>
          ELSE /\ node' = [node EXCEPT ![u] = Dead(@)]
               /\ watch' = WatchDead(watch, u)
               /\ supRoots' = supRoots \ {p}
               /\ UNCHANGED <<roots, cur>>

\* ensure_node, what an EXEC does to trust, and the evidence.
IngestScored ==
    /\ ring # <<>> /\ Head(ring).type \in {"EXEC", "RISKY"} /\ Took(Head(ring).type)
    /\ LET e == Head(ring)
           t == IF Node(e.pid) # None THEN Tree
                ELSE Added(Tree, e.pid, e.inc, e.ppid, e.trusted, Inherits(Tree, e.pid, e.ppid))
           u == Lookup(t.cur, e.pid)
           s == IF e.type = "RISKY" THEN t ELSE [t EXCEPT !.node[u].exempt = e.trusted]
       IN /\ Node(e.pid) = None => Free(Tree, e.pid) # {}
          /\ Judged(s, u)
    /\ UNCHANGED supRoots

(* The engine: tick().                                                     *)

\* responsible_launcher: the topmost ancestor that is not exempt.
Launcher(n, u) ==
    LET l     == Lineage(n, u)
        above == {k \in DOMAIN l \ {1} : ~n[l[k]].exempt}
    IN IF above = {} THEN None ELSE l[CHOOSE k \in above : \A j \in above : j <= k]

BadgeRisk(n, u) ==
    LET hot == {n[v].risk : v \in {v \in DOMAIN n : ~n[v].exempt /\ Launcher(n, v) = u}}
    IN CHOOSE r \in hot \cup {0} : \A q \in hot : q <= r

Badged(n) == [u \in DOMAIN n |-> [n[u] EXCEPT !.badgePeak = Max2(@, BadgeRisk(n, u))]]

\* Scores of nodes that are not exempt decay, to any lower level.
Decayed(n) ==
    {[u \in DOMAIN n |-> [n[u] EXCEPT !.risk = level[u]]] :
        level \in {l \in [DOMAIN n -> Level] :
                      \A u \in DOMAIN n : IF n[u].exempt THEN l[u] = n[u].risk
                                                        ELSE l[u] <= n[u].risk}}

\* Mutant of Forensic.
ForensicOwn(x) == x.peak > 0

\* Nodes gc_sweep and purge_dead keep for good.
Forensic(x) == Keep(x) > 0

\* What gc_sweep erases when it is old enough; a level of 0 is below
\* gc_tomb_risk_floor too.  How long a node is kept depends on when it died and on
\* a peak below the level of 1, so any of them may be.
Collectable(n) == {u \in DOMAIN n : n[u].dead /\ ~Forensic(n[u])}

\* The nodes tick() looks at for the watchlist come in any order.
Watchable(n) == {u \in DOMAIN n : ~n[u].exempt /\ ~n[u].dead /\ n[u].peak > 0}

Tick ==
    /\ UNCHANGED <<proc, ring, supVars, scored>>
    /\ \E n \in {Badged(d) : d \in Decayed(node)} :
           /\ \E S \in SUBSET Collectable(n) : Erase(n, S)
           /\ \E us \in SetToSeqs(Watchable(n)) : watch' \in WatchingAll(watch, n, us)

(* The UI: purge_dead(false).                                              *)

LiveChild(n, u) == \E v \in DOMAIN n : n[v].par = u /\ ~n[v].dead

Purge ==
    LET S == {u \in DOMAIN node : node[u].dead /\ ~LiveChild(node, u) /\ ~Forensic(node[u])}
    IN /\ S # {}
       /\ Erase(node, S)
       /\ watch' = [u \in DOMAIN watch \ S |-> watch[u]]
       /\ UNCHANGED <<proc, ring, supVars, scored>>

(* Launch and the supervise thread.                                        *)

\* The child is still in the EDR's process group, which makes its node exempt.
Launch(q) ==
    /\ pc = "none" /\ q \in RootPid /\ Born(q, None, TRUE, TRUE, TRUE)
    /\ Emit(Ev("FORK", q, NoPid, TRUE))
    /\ pc' = "launched" /\ root' = q
    /\ UNCHANGED <<treeVars, supRoots, watch, call, victims, scored>>

Register ==
    /\ pc = "launched" /\ pc' = "idle" /\ supRoots' = supRoots \cup {root}
    /\ node' = IF Node(root) = None THEN node
               ELSE [node EXCEPT ![Node(root)].supervised = TRUE, ![Node(root)].exempt = FALSE]
    /\ UNCHANGED <<proc, ring, roots, cur, watch, call, root, victims, scored>>

\* synth_node: a process no event told of, read from /proc.
Synth(t, p, supervised) ==
    Added(t, p, proc[p].inc, Ppid(p), ~supervised /\ proc[p].trusted, supervised)

\* The nearest root of supervision above p, p included, as /proc tells it.
RootAbove(p) ==
    LET up[k \in 1 .. Cardinality(Pid)] ==
            IF k = 1 THEN p ELSE IF up[k - 1] = NoPid THEN NoPid ELSE Ppid(up[k - 1])
        hits == {k \in 1 .. Cardinality(Pid) : up[k] \in supRoots}
    IN IF hits = {} THEN NoPid ELSE up[CHOOSE k \in hits : \A j \in hits : k <= j]

\* predict_for_syscall: the node of the held call's process and that of its root.
Predict(p) ==
    /\ pc = "idle" /\ Up(p) /\ proc[p].desc
    /\ Node(p) = None => Free(Tree, p) # {}
    /\ LET t == IF Node(p) = None THEN Synth(Tree, p, p \in supRoots) ELSE Tree
           u == Lookup(t.cur, p)
           c == RootAbove(p)
           known == \/ \E v \in Ancestry(t.node, u) : v[1] \in supRoots
                    \/ c = NoPid \/ Lookup(t.cur, c) # None
       IN IF known THEN Becomes(t)
          ELSE Free(t, c) # {} /\ Becomes(Synth(t, c, TRUE))
    /\ pc' = "asked" /\ call' = p
    /\ UNCHANGED <<proc, ring, supRoots, watch, root, victims, scored>>

Answered(to) == pc = "asked" /\ pc' = to /\ call' = NoPid /\ UNCHANGED <<root, victims>>

Refuse == /\ Answered("idle")
          /\ UNCHANGED <<proc, ring, treeVars, supRoots, watch, scored>>

\* commit_syscall_evidence scores the call even of an exempt process.
Allow ==
    /\ Answered("idle")
    /\ IF Node(call) = None \/ scored = MaxScored
       THEN UNCHANGED <<treeVars, watch, scored>>
       ELSE /\ scored' = scored + 1
            /\ LET u == Node(call)
               IN Evidence([Tree EXCEPT !.node[u].exempt = FALSE], u, node[u].exempt)
    /\ UNCHANGED <<proc, ring, supRoots>>

Kill == /\ Answered("kill")
        /\ UNCHANGED <<proc, ring, treeVars, supRoots, watch, scored>>

\* Mutant of Victims.
VictimsDead(n, r) ==
    {u[1] : u \in {u \in DOMAIN n : r \in Ancestry(n, u)}}

\* kill_supervised_tree walks down from the root and stops at dead nodes.
Victims(n, r) ==
    {u[1] : u \in {u \in DOMAIN n :
        LET l == Lineage(n, u)
        IN \E k \in 1 .. Len(l) : l[k] = r /\ \A j \in 1 .. k : ~n[l[j]].dead}}

Collect ==
    /\ pc = "kill" /\ pc' = "signal"
    /\ victims' = IF Node(root) = None THEN {} ELSE Victims(node, Node(root))
    /\ UNCHANGED <<proc, ring, treeVars, supRoots, watch, call, root, scored>>

Signal(p) ==
    /\ pc = "signal" /\ p \in victims
    /\ victims' = victims \ {p}
    /\ proc' = [proc EXCEPT ![p].state = IF @ = "up" THEN "dying" ELSE @]
    /\ UNCHANGED <<ring, treeVars, supRoots, watch, pc, call, root, scored>>

SignalGroup ==
    /\ pc = "signal" /\ victims = {}
    /\ pc' = "unregister"
    /\ proc' = [p \in Pid |-> IF Up(p) /\ proc[p].group
                              THEN [proc[p] EXCEPT !.state = "dying"] ELSE proc[p]]
    /\ UNCHANGED <<ring, treeVars, supRoots, watch, call, root, victims, scored>>

\* The loop also ends when nothing is left behind the listener, or on an error.
LoopEnds ==
    /\ pc = "idle"
    /\ EarlyEnd \/ \A p \in Pid : ~(There(p) /\ proc[p].desc)
    /\ pc' = "unregister"
    /\ UNCHANGED <<proc, ring, treeVars, supRoots, watch, call, root, victims, scored>>

Unregister ==
    /\ pc = "unregister" /\ pc' = "mark" /\ supRoots' = supRoots \ {root}
    /\ UNCHANGED <<proc, ring, treeVars, watch, call, root, victims, scored>>

MarkDead ==
    /\ pc = "mark" /\ pc' = "done"
    /\ LET u == Node(root)
       IN IF u = None THEN UNCHANGED <<node, supRoots, watch>>
          ELSE /\ node' = [node EXCEPT ![u] = [Dead(@) EXCEPT !.supervised = FALSE]]
               /\ watch' = WatchDead(watch, u)
               /\ supRoots' = supRoots \ {root}
    /\ UNCHANGED <<proc, ring, roots, cur, call, root, victims, scored>>

(* The specification.                                                      *)

\* A child comes after its parent.
Lineages == {par \in [Seeded -> Seeded \cup {NoPid}] :
                \E rank \in [Seeded -> 1 .. Cardinality(Seeded)] :
                    \A p \in Seeded : par[p] # NoPid => rank[par[p]] < rank[p]}

\* Probes are attached before seed_from_proc reads /proc: the FORK of a process it finds
\* may still be in the ring.
Init ==
    \E par \in Lineages :
        /\ proc = [p \in Pid |->
                      [inc |-> IF p \in Seeded THEN 1 ELSE 0,
                       state |-> IF p \in Seeded THEN "up" ELSE "none",
                       par |-> IF p \in Seeded /\ par[p] # NoPid THEN <<par[p], 1>> ELSE None,
                       desc |-> FALSE, group |-> FALSE, trusted |-> FALSE]]
        /\ ring \in {<<>>} \cup
                    {<<[type |-> "FORK", pid |-> p, inc |-> 1, ppid |-> par[p],
                        trusted |-> FALSE]>> : p \in {p \in Seeded : \A q \in Seeded : par[q] # p}}
        /\ node = [u \in Seeded \X {1} |->
                      [of |-> 1, par |-> IF par[u[1]] = NoPid THEN None ELSE <<par[u[1]], 1>>,
                       dead |-> FALSE, exempt |-> FALSE, supervised |-> FALSE,
                       risk |-> 0, peak |-> 0, badgePeak |-> 0]]
        /\ roots = {u \in Seeded \X {1} : par[u[1]] = NoPid}
        /\ cur = [p \in Pid |-> IF p \in Seeded THEN 1 ELSE 0]
        /\ supRoots = {} /\ watch = << >>
        /\ pc = "none" /\ call = NoPid /\ root = NoPid /\ victims = {}
        /\ scored = 0

Poller == IngestFork \/ IngestExit \/ IngestScored
Kernel == \E p \in Pid :
              Die(p) \/ Exec(p) \/ Risky(p) \/ ForkOutside(p) \/ \E q \in Pid : Fork(p, q)
Supervise ==
    \/ Register \/ Refuse \/ Allow \/ Kill \/ Collect \/ SignalGroup \/ LoopEnds
    \/ Unregister \/ MarkDead
    \/ \E p \in Pid : Launch(p) \/ Predict(p) \/ Signal(p)

Next == Poller \/ Tick \/ Kernel \/ Supervise \/ Purge

Spec == Init /\ [][Next]_vars

TypeOK ==
    /\ proc \in [Pid -> Process] /\ ring \in Seq(Event)
    /\ DOMAIN node \subseteq Uid /\ node \in [DOMAIN node -> PNode]
    /\ roots \subseteq DOMAIN node /\ cur \in [Pid -> 0 .. MaxNode]
    /\ \A p \in Pid : Node(p) # None => Node(p) \in DOMAIN node
    /\ supRoots \subseteq Pid
    /\ DOMAIN watch \subseteq Uid /\ watch \in [DOMAIN watch -> Watched]
    /\ pc \in {"none", "launched", "idle", "asked", "kill", "signal", "unregister", "mark",
               "done"}
    /\ call \in Pid \cup {NoPid} /\ root \in Pid \cup {NoPid} /\ victims \subseteq Pid
    /\ scored \in 0 .. MaxScored

(* Properties.                                                             *)

\* Once its events are read, the nodes not marked dead are exactly one per process: what
\* start-up, synthesis, reuse and collection do to a process never leaves it without a live
\* node, or with two, or a live node without a process.
SettledTreeIsTrue ==
    ring = <<>> =>
        /\ \A p \in Pid : Up(p) => Node(p) # None /\ ~node[Node(p)].dead
        /\ \A u \in DOMAIN node : ~node[u].dead => u = Node(u[1]) /\ There(u[1])

Followed(p) ==
    /\ Node(p) # None /\ node[Node(p)].of = proc[p].inc
    /\ \A i \in 1 .. Len(ring) : ring[i].type = "FORK" => ring[i].pid # p

\* Every process of the supervised tree stays muted while it is supervised, whatever ended
\* or was collected above it.
MutedTree ==
    \A p \in Pid :
        Up(p) /\ proc[p].desc /\ Followed(p) /\ pc \in {"idle", "asked", "kill", "signal"}
        => Supervised(node, Node(p))

\* No other process is muted: reuse of a pid does not carry supervision over.
OnlyTreeIsMuted ==
    \A p \in Pid : There(p) /\ Followed(p) /\ Supervised(node, Node(p)) => proc[p].desc

\* Both: the launched tree is muted and nothing else.
ExactlyTreeIsMuted == MutedTree /\ OnlyTreeIsMuted

\* Killing the supervised tree signals nobody else.
KillHitsTheTree == \A p \in Pid : proc[p].state = "dying" => proc[p].desc

\* A forensic node is never taken out of the engine.
ForensicKept ==
    [][\A u \in DOMAIN node : Keep(node[u]) > 0 => u \in DOMAIN node']_vars

\* The watchlist names nodes the engine still has, and says which are dead.
WatchTellsDeath ==
    \A u \in DOMAIN watch : u \in DOMAIN node /\ watch[u].dead = node[u].dead

\* After a tick nothing alive that was left out had a higher peak than what is watched.
WatchHoldsWorst ==
    [][Tick =>
        \A u \in DOMAIN node' \ DOMAIN watch' :
            ~node'[u].dead /\ ~node'[u].exempt /\ node'[u].peak > 0
            => /\ Cardinality(DOMAIN watch') = WatchMax
               /\ \A v \in DOMAIN watch' : watch'[v].peak >= node'[u].peak]_vars

(* What the program and its tests say.                                     *)

\* ui_repman.cpp:31 "purge dead processes from tree": live ones stay in the tree.
PurgeLeavesLiving ==
    [][Purge => \A u \in Seen(node, roots) : ~node[u].dead => u \in Seen(node', roots')]_vars

\* The same line: what is purged is dead.
PurgeTakesDead ==
    [][Purge => \A p \in Pid : Up(p) /\ Node(p) # None => Node(p) \in DOMAIN node']_vars

\* scenario_4_four_stage.sh:15 "the dead node persists in tree + watchlist"
ForensicStaysInTree ==
    [][\A u \in Seen(node, roots) : node[u].dead /\ node[u].peak > 0
            => u \in Seen(node', roots')]_vars

\* tracker.cpp:1521 "killed supervised tree": no process of the tree whose node is alive is
\* left out, unless the signal to the group reaches it.
KillReachesTree ==
    [][Collect => \A p \in Pid :
           Up(p) /\ proc[p].desc /\ ~proc[p].group /\ Followed(p) /\ ~node[Node(p)].dead
           => p \in victims']_vars

\* ui.cpp:351 "Kill - deny and terminate the process": what the kill picks is in the tree.
KillPicksTheTree ==
    [][Collect => \A p \in Pid : Up(p) /\ Followed(p) /\ p \in victims' => proc[p].desc]_vars

\* ui.cpp:141 "live=": nodes counted as live belong to something that runs.
LiveAreAlive == ring = <<>> => \A u \in DOMAIN node : ~node[u].dead => There(u[1])
=============================================================================
