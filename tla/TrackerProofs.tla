--------------------------- MODULE TrackerProofs ---------------------------
(***************************************************************************)
(* Proofs about Tracker for any pids, binaries, rules and bounds.          *)
(***************************************************************************)
EXTENDS Tracker, FiniteSetTheorems, TLAPS

-----------------------------------------------------------------------------
(* The invariant types rest on: a node is never ahead of the processes its *)
(* pid has had, because events are read in the order they were made.       *)

\* A process has a binary and a number.
Started == \A p \in Pid : life[p] # "none" => exe[p] \in Bin /\ inc[p] >= 1

\* e comes later than number i of its pid; a FORK begins a process of its own.
After(i, e) == IF e.type = "FORK" THEN i < e.inc ELSE i <= e.inc

\* Events of a pid are in the order of its processes.
InOrder ==
    \A k \in 1 .. Len(ring) :
        /\ ring[k].inc <= inc[ring[k].pid]
        /\ \A j \in 1 .. k - 1 : ring[j].pid = ring[k].pid => After(ring[j].inc, ring[k])

\* A pid has no more nodes than it has had processes, those of unread FORKs left out.
Behind ==
    /\ \A p \in Pid : cur[p] <= inc[p]
    /\ \A k \in 1 .. Len(ring) : After(cur[ring[k].pid], ring[k])

\* Between two sections a thread still names a node.
Answering == {"ask", "remember", "flag", "arm", "disarm", "unflag", "signal"}
Placed ==
    /\ poll \in {"lift", "lifted"} => pnode \in Pid \X (0 .. MaxInc)
    /\ poll \in {"ask", "stopped"} => pnode \in Uid
    /\ ui \in Answering => asked \in Uid

IInv == TypeOK /\ Started /\ InOrder /\ Behind /\ Placed

LEMMA BlankType == Blank \in Node
  BY BoundsAssumption DEF Blank, Node

LEMMA InitIInv == Init => IInv
<1> SUFFICES ASSUME Init PROVE IInv
  OBVIOUS
<1>2. TypeOK
  BY BlankType, BinAssumption, PidAssumption, BoundsAssumption
     DEF Init, TypeOK, PollPC, UiPC, NoUid, Decision
<1> QED
  BY <1>2, BoundsAssumption DEF Init, IInv, Started, InOrder, Behind, Placed, Answering

-----------------------------------------------------------------------------
(* The helpers.                                                            *)

LEMMA AtType == ASSUME TypeOK, NEW u \in Uid PROVE At(u) \in Node
<1>1. u[1] \in Pid /\ u[2] \in 1 .. MaxInc
  BY DEF Uid
<1>2. node \in [Pid -> [1 .. MaxInc -> Node]]
  BY DEF TypeOK
<1> QED
  BY <1>1, <1>2 DEF At

LEMMA NowType ==
    ASSUME TypeOK, NEW p \in Pid
    PROVE  /\ Now(p) \in Pid \X (0 .. MaxInc)
           /\ Has(Now(p)) => Now(p) \in Uid /\ cur[p] \in 1 .. MaxInc
           /\ ~Has(Now(p)) => cur[p] = 0
           /\ Now(p)[1] = p /\ Now(p)[2] = cur[p]
  BY BoundsAssumption DEF TypeOK, Now, Has, Uid

\* Put changes the node it names.
LEMMA PutNode ==
    ASSUME TypeOK, NEW u \in Uid, NEW n \in Node, Put(u, n)
    PROVE  /\ node' \in [Pid -> [1 .. MaxInc -> Node]]
           /\ \A v \in Uid : node'[v[1]][v[2]] = IF v = u THEN n ELSE At(v)
<1>1. u[1] \in Pid /\ u[2] \in 1 .. MaxInc /\ u = <<u[1], u[2]>>
  BY DEF Uid
<1>2. node \in [Pid -> [1 .. MaxInc -> Node]]
  BY DEF TypeOK
<1>3. node' \in [Pid -> [1 .. MaxInc -> Node]]
  BY <1>1, <1>2 DEF Put
<1>4. ASSUME NEW v \in Uid PROVE node'[v[1]][v[2]] = IF v = u THEN n ELSE At(v)
  <2>1. v[1] \in Pid /\ v[2] \in 1 .. MaxInc /\ v = <<v[1], v[2]>>
    BY DEF Uid
  <2>2. CASE v[1] # u[1]
    BY <1>1, <1>2, <2>1, <2>2 DEF Put, At
  <2>3. CASE v[1] = u[1]
    <3>1. node'[v[1]] = [node[u[1]] EXCEPT ![u[2]] = n]
      BY <1>1, <1>2, <2>3 DEF Put
    <3>2. v = u <=> v[2] = u[2]
      BY <1>1, <2>1, <2>3, Zenon
    <3>3. node[u[1]] \in [1 .. MaxInc -> Node]
      BY <1>1, <1>2
    <3>4. node'[v[1]][v[2]] = IF v[2] = u[2] THEN n ELSE node[u[1]][v[2]]
      BY <2>1, <2>3, <3>1, <3>3
    <3> QED
      BY <2>3, <3>2, <3>4 DEF At
  <2> QED
    BY <2>2, <2>3
<1> QED
  BY <1>3, <1>4

\* What is emitted follows what the ring holds, as far as there is room.
LEMMA EmitRing ==
    ASSUME TypeOK, NEW es \in Seq(Event), Emit(es)
    PROVE  /\ ring' \in Seq(Event)
           /\ Len(ring) <= Len(ring') /\ Len(ring') <= Len(ring) + Len(es)
           /\ \A k \in 1 .. Len(ring) : ring'[k] = ring[k]
           /\ \A k \in 1 .. Len(ring') : k > Len(ring) =>
                  /\ k - Len(ring) \in 1 .. Len(es)
                  /\ ring'[k] = es[k - Len(ring)]
<1> DEFINE n == IF Len(ring) > RingSize THEN Len(ring)
                ELSE IF Len(ring) + Len(es) > RingSize THEN RingSize ELSE Len(ring) + Len(es)
<1>1. ring \in Seq(Event) /\ Len(ring) \in Nat /\ Len(es) \in Nat
  BY DEF TypeOK
<1>2. n \in Nat /\ Len(ring) <= n /\ n <= Len(ring) + Len(es)
  BY <1>1, BoundsAssumption
<1>3. ring \o es \in Seq(Event) /\ Len(ring \o es) = Len(ring) + Len(es)
  BY <1>1
<1>4. ring' = SubSeq(ring \o es, 1, n)
  BY DEF Emit
<1> HIDE DEF n
<1>5. ring' \in Seq(Event) /\ Len(ring') = n
  BY <1>1, <1>2, <1>3, <1>4
<1>6. \A k \in 1 .. n : ring'[k] = (ring \o es)[k]
  BY <1>1, <1>2, <1>3, <1>4
<1> QED
  BY <1>1, <1>2, <1>5, <1>6

LEMMA EmitOne ==
    ASSUME TypeOK, NEW e \in Event, Emit(<<e>>)
    PROVE  /\ ring' \in Seq(Event)
           /\ Len(ring) <= Len(ring')
           /\ \A k \in 1 .. Len(ring) : ring'[k] = ring[k]
           /\ \A k \in 1 .. Len(ring') : k > Len(ring) => ring'[k] = e
<1>1. <<e>> \in Seq(Event) /\ Len(<<e>>) = 1 /\ <<e>>[1] = e
  OBVIOUS
<1> DEFINE es == <<e>>
<1>2. es \in Seq(Event) /\ Len(es) = 1 /\ es[1] = e /\ Emit(es)
  BY <1>1
<1> HIDE DEF es
<1>3. /\ ring' \in Seq(Event) /\ Len(ring) <= Len(ring')
      /\ \A k \in 1 .. Len(ring) : ring'[k] = ring[k]
      /\ \A k \in 1 .. Len(ring') : k > Len(ring) =>
             k - Len(ring) \in 1 .. Len(es) /\ ring'[k] = es[k - Len(ring)]
  BY <1>2, EmitRing
<1>4. ASSUME NEW k \in 1 .. Len(ring'), k > Len(ring) PROVE ring'[k] = e
  <2>1. k - Len(ring) = 1
    BY <1>2, <1>3, <1>4
  <2> QED
    BY <1>2, <1>3, <1>4, <2>1
<1> QED
  BY <1>3, <1>4

LEMMA PopRing ==
    ASSUME TypeOK, ring # <<>>, ring' = Tail(ring)
    PROVE  /\ ring' \in Seq(Event) /\ Len(ring') = Len(ring) - 1 /\ Len(ring) >= 1
           /\ \A k \in 1 .. Len(ring') : k + 1 \in 1 .. Len(ring) /\ ring'[k] = ring[k + 1]
           /\ Head(ring) = ring[1] /\ ring[1] \in Event
  BY DEF TypeOK

LEMMA SignalLife ==
    ASSUME TypeOK, NEW p, NEW sig, Signal(p, sig)
    PROVE  /\ life' \in [Pid -> {"none", "run", "stopped", "dying", "dead"}]
           /\ \A q \in Pid : life'[q] = "none" <=> life[q] = "none"
           /\ \A q \in Pid : life'[q] = "dead" <=> life[q] = "dead"
           /\ \A q \in Pid : life'[q] = "stopped" =>
                  life[q] = "stopped" \/ (q \in Group(p) /\ sig = "STOP")
  BY DEF TypeOK, Signal, Alive

\* The event of a process that runs.
LEMMA EvType ==
    ASSUME NEW p \in Pid, inc'[p] \in 1 .. MaxInc, exe[p] \in Bin, NEW f \in Bin \cup {NoBin},
           NEW ty \in {"FORK", "EXIT", "EXEC", "RISKY", "TRIP"}
    PROVE  Ev(ty, p, f) \in Event
<1> DEFINE k == InTree(p, inc'[p])
<1>1. k \in BOOLEAN
  BY DEF InTree
<1>2. Ev(ty, p, f) = [type |-> ty, pid |-> p, inc |-> inc'[p], exe |-> exe[p], file |-> f,
                      kin |-> k]
  BY DEF Ev
<1> HIDE DEF k
<1> QED
  BY <1>1, <1>2 DEF Event

\* What an event says of its process's parent: supervised, unless the process left the tree.
KinOf(e, gone) ==
    /\ e.kin => e.pid \in Supervised
    /\ e.pid \in Supervised /\ ~e.kin => e.type # "FORK" /\ <<e.pid, e.inc>> \in gone

LEMMA ForkType ==
    ASSUME NEW p \in Pid, inc'[p] \in 1 .. MaxInc, NEW b \in Bin
    PROVE  LET e == Forked(p, b)
           IN  /\ e \in Event /\ e.pid = p /\ e.inc = inc'[p] /\ e.type = "FORK"
               /\ KinOf(e, left')
<1> DEFINE k == p \in Supervised
           e == Forked(p, b)
<1>1. k \in BOOLEAN
  OBVIOUS
<1>2. e = [type |-> "FORK", pid |-> p, inc |-> inc'[p], exe |-> b, file |-> NoBin, kin |-> k]
  BY DEF Forked
<1> HIDE DEF e, k
<1>3. e.kin = k /\ e.pid = p /\ e.inc = inc'[p] /\ e.type = "FORK"
  BY <1>2
<1>4. KinOf(e, left')
  BY <1>3 DEF KinOf, k
<1>5. e \in Event
  BY <1>1, <1>2 DEF Event
<1> QED
  BY <1>3, <1>4, <1>5 DEF e

LEMMA EventType ==
    ASSUME NEW e \in Event
    PROVE  e.pid \in Pid /\ e.inc \in 1 .. MaxInc /\ e.inc \in Nat
  BY BoundsAssumption DEF Event

LEMMA EnsureType ==
    ASSUME TypeOK, NEW e \in Event
    PROVE  /\ EnsureUid(e.pid) \in Uid /\ EnsureUid(e.pid)[1] = e.pid
           /\ Made(e) \in Node /\ EnsureNode(e) \in Node
<1>1. e.pid \in Pid /\ e.inc \in 1 .. MaxInc
  BY DEF Event
<1>2. Made(e) \in Node
  <2>1. \A i \in 0 .. MaxInc, y \in BOOLEAN, z \in BOOLEAN, w \in BOOLEAN :
            [Blank EXCEPT !.of = i, !.exempt = y, !.sup = z, !.new = w] \in Node
    BY BlankType DEF Node
  <2>4. e.inc \in 0 .. MaxInc
    BY <1>1
  <2> DEFINE x == e.exe \in Shells
             f == e.type = "FORK"
  <2>2. x \in BOOLEAN /\ f \in BOOLEAN /\ e.kin \in BOOLEAN
    BY DEF Event
  <2>3. Made(e) = [Blank EXCEPT !.of = e.inc, !.exempt = x, !.sup = e.kin, !.new = f]
    BY DEF Made
  <2> HIDE DEF x, f
  <2> QED
    BY <2>1, <2>2, <2>3, <2>4
<1>3. CASE Has(Now(e.pid))
  BY <1>1, <1>2, <1>3, NowType, AtType DEF EnsureUid, EnsureNode
<1>4. CASE ~Has(Now(e.pid))
  BY <1>1, <1>2, <1>4, BoundsAssumption DEF EnsureUid, EnsureNode, Uid
<1> QED
  BY <1>3, <1>4

LEMMA JudgedType ==
    ASSUME NEW n \in Node, NEW e \in Event
    PROVE  /\ Renamed(n, e) \in Node /\ Renamed(n, e).hash \in Bin \cup {NoBin}
           /\ Judged(Renamed(n, e)) \in Node
<1>1. Renamed(n, e) \in Node
  <2>1. \A x \in BOOLEAN, f \in Bin \cup {NoBin} : [n EXCEPT !.exempt = x, !.hash = f] \in Node
    BY DEF Node
  <2>2. (e.exe \in Shells) \in BOOLEAN
    OBVIOUS
  <2>3. (IF e.exe \in Shells THEN NoBin ELSE e.file) \in Bin \cup {NoBin}
    BY DEF Event
  <2> QED
    BY <2>1, <2>2, <2>3, Zenon DEF Renamed
<1> DEFINE r == Renamed(n, e)
<1> HIDE DEF r
<1>2. ASSUME r \in Node PROVE Judged(r) \in Node
  <2> DEFINE ex == Verdict(r.hash) = "allow"
             bl == r.blocked \/ Verdict(r.hash) = "block"
  <2>1. \A x \in BOOLEAN, y \in BOOLEAN : [r EXCEPT !.checked = TRUE, !.exempt = x, !.blocked = y] \in Node
    BY <1>2 DEF Node
  <2>2. ex \in BOOLEAN /\ bl \in BOOLEAN
    OBVIOUS
  <2>3. Judged(r) = IF ~Consults(r) THEN r
                    ELSE [r EXCEPT !.checked = TRUE, !.exempt = ex, !.blocked = bl]
    BY Zenon DEF Judged
  <2> HIDE DEF ex, bl
  <2> QED
    BY <1>2, <2>1, <2>2, <2>3
<1> QED
  BY <1>1, <1>2 DEF r, Node

LEMMA OnDiskType ==
    ASSUME TypeOK, NEW p \in Pid PROVE OnDisk(p) \in Bin \cup {NoBin}
  BY DEF TypeOK, OnDisk

LEMMA PromptHashType ==
    ASSUME TypeOK, NEW p \in Pid, NEW n \in Node, NEW h \in Bin \cup {NoBin}
    PROVE  PromptHash(n, p, h) \in Bin \cup {NoBin}
  BY OnDiskType DEF PromptHash, Node

LEMMA EnqueuedType ==
    ASSUME TypeOK, NEW u \in Uid
    PROVE  Enqueued(u) \in Seq(Uid)
<1>1. queue \in Seq(Uid)
  BY DEF TypeOK
<1> QED
  BY <1>1 DEF Enqueued

\* The tail of ingest leaves its node, perhaps suspended and in the queue.
LEMMA ScoreType ==
    ASSUME TypeOK, NEW u \in Uid, NEW n \in Node, NEW h \in Bin \cup {NoBin}, NEW hot,
           Score(u, n, h, hot)
    PROVE  /\ life' \in [Pid -> {"none", "run", "stopped", "dying", "dead"}]
           /\ \A q \in Pid : life'[q] = "none" <=> life[q] = "none"
           /\ node' \in [Pid -> [1 .. MaxInc -> Node]]
           /\ thash' \in [Pid -> Bin \cup {NoBin}]
           /\ queue' \in Seq(Uid)
<1>1. u[1] \in Pid
  BY DEF Uid
<1>2. CASE Suspends(n, hot)
  <2> DEFINE k == PromptHash(n, u[1], h)
  <2>1. k \in Bin \cup {NoBin}
    BY <1>1, PromptHashType
  <2> HIDE DEF k
  <2>2. [n EXCEPT !.frozen = TRUE, !.pending = TRUE, !.hash = k] \in Node
    BY <2>1 DEF Node
  <2>3. /\ Signal(u[1], "STOP")
        /\ Put(u, [n EXCEPT !.frozen = TRUE, !.pending = TRUE, !.hash = k])
        /\ thash' = [thash EXCEPT ![u[1]] = IF n.hash = NoBin THEN k ELSE h]
        /\ queue' = Enqueued(u)
    BY <1>2 DEF Score, k
  <2>4. thash' \in [Pid -> Bin \cup {NoBin}]
    BY <2>1, <2>3 DEF TypeOK
  <2> QED
    BY <2>2, <2>3, <2>4, SignalLife, PutNode, EnqueuedType
<1>3. CASE ~Suspends(n, hot)
  <2>1. Put(u, n) /\ thash' = [thash EXCEPT ![u[1]] = h] /\ UNCHANGED <<life, queue>>
    BY <1>3 DEF Score
  <2> QED
    BY <2>1, PutNode DEF TypeOK
<1> QED
  BY <1>2, <1>3

-----------------------------------------------------------------------------
(* Types.                                                                  *)

\* A step of the kernel moves its own variables.
LEMMA KernelFrame ==
    ASSUME TypeOK, UNCHANGED <<nodeVars, queue, ruleVars, pollVars, uiVars>>,
           life' \in [Pid -> {"none", "run", "stopped", "dying", "dead"}],
           inc' \in [Pid -> 0 .. MaxInc], exe' \in [Pid -> Bin \cup {NoBin}],
           execing' \in [Pid -> Bin \cup {NoBin}], left' \subseteq Pid \X (1 .. MaxInc),
           armed' \in [Pid -> 0 .. MaxInc], kexempt' \subseteq Pid, ring' \in Seq(Event),
           risky' \in Nat, execs' \in Nat
    PROVE  TypeOK'
  BY DEF TypeOK, nodeVars, ruleVars, pollVars, uiVars

LEMMA KernelType ==
    ASSUME TypeOK, Started, Kernel
    PROVE  TypeOK'
<1> PICK p \in Pid : \/ Die(p) \/ ExecCheck(p) \/ Daemonise(p)
                     \/ \E b \in Parents : Fork(p, b)
                     \/ \E b \in Bin : ExecEnter(p, b)
                     \/ \E ceiling \in BOOLEAN : Risky(p, ceiling)
  BY Zenon DEF Kernel
<1> DEFINE ran == life[p] # "none"
<1>0. /\ inc[p] \in 0 .. MaxInc /\ inc[p] \in Nat
      /\ ran => exe[p] \in Bin /\ inc[p] \in 1 .. MaxInc
  BY BoundsAssumption DEF TypeOK, Started
<1>1. CASE Die(p)
  <2>1. Ev("EXIT", p, NoBin) \in Event
    BY <1>0, <1>1, EvType DEF Die
  <2>2. ring' \in Seq(Event)
    BY <1>1, <2>1, EmitOne DEF Die
  <2> QED
    BY <1>1, <2>2, KernelFrame DEF Die, TypeOK, mapVars, boundVars
<1>2. CASE ExecCheck(p)
  BY <1>2, KernelFrame DEF ExecCheck, TypeOK, mapVars, boundVars
<1>3. CASE Daemonise(p)
  <2>1. InTree(p, inc[p]) /\ life[p] = "run" /\ left' = left \cup {<<p, inc[p]>>}
    BY <1>3 DEF Daemonise
  <2>2. left' \subseteq Pid \X (1 .. MaxInc)
    BY <1>0, <2>1 DEF TypeOK
  <2> QED
    BY <1>3, <2>2, KernelFrame DEF Daemonise, TypeOK, mapVars, boundVars
<1>4. ASSUME NEW b \in Parents, Fork(p, b) PROVE TypeOK'
  <2>1. b \in Bin
    BY BinAssumption
  <2>2. inc' \in [Pid -> 0 .. MaxInc] /\ inc'[p] \in 1 .. MaxInc
    BY <1>0, <1>4, BoundsAssumption DEF Fork, TypeOK
  <2> DEFINE e == Forked(p, b)
  <2>3. e \in Event /\ Emit(<<e>>)
    BY <1>4, <2>1, <2>2, ForkType DEF Fork
  <2> HIDE DEF e
  <2>4. ring' \in Seq(Event)
    BY <2>3, EmitOne
  <2> QED
    BY <1>4, <2>1, <2>2, <2>4, KernelFrame DEF Fork, TypeOK, mapVars, boundVars
<1>5. ASSUME NEW b \in Bin, ExecEnter(p, b) PROVE TypeOK'
  <2>1. Ev("EXEC", p, b) \in Event
    BY <1>0, <1>5, EvType DEF ExecEnter
  <2>2. ring' \in Seq(Event)
    BY <1>5, <2>1, EmitOne DEF ExecEnter
  <2>3. risky' \in Nat /\ execs' \in Nat
    BY <1>5 DEF ExecEnter, TypeOK
  <2> QED
    BY <1>5, <2>2, <2>3, KernelFrame DEF ExecEnter, TypeOK, mapVars
<1>6. ASSUME NEW ceiling \in BOOLEAN, Risky(p, ceiling) PROVE TypeOK'
  <2>1. Ev("TRIP", p, NoBin) \in Event /\ Ev("RISKY", p, NoBin) \in Event
    BY <1>0, <1>6, EvType DEF Risky, procVars
  <2>2. /\ <<Ev("TRIP", p, NoBin), Ev("RISKY", p, NoBin)>> \in Seq(Event)
        /\ <<Ev("RISKY", p, NoBin)>> \in Seq(Event)
    BY <2>1
  <2>3. ring' \in Seq(Event)
    BY <1>6, <2>2, EmitRing DEF Risky
  <2>4. armed' \in [Pid -> 0 .. MaxInc]
    BY <1>0, <1>6 DEF Risky, TypeOK
  <2>5. risky' \in Nat /\ execs' \in Nat
    BY <1>6 DEF Risky, TypeOK
  <2> QED
    BY <1>6, <2>3, <2>4, <2>5, KernelFrame DEF Risky, TypeOK, procVars
<1> QED
  BY <1>1, <1>2, <1>3, <1>4, <1>5, <1>6

\* A step of the poller moves these.
LEMMA PollerFrame ==
    ASSUME TypeOK, UNCHANGED <<inc, exe, execing, left, ruleVars, uiVars, boundVars>>,
           life' \in [Pid -> {"none", "run", "stopped", "dying", "dead"}],
           armed' \in [Pid -> 0 .. MaxInc], kexempt' \subseteq Pid, ring' \in Seq(Event),
           cur' \in [Pid -> 0 .. MaxInc], node' \in [Pid -> [1 .. MaxInc -> Node]],
           thash' \in [Pid -> Bin \cup {NoBin}], queue' \in Seq(Uid), poll' \in PollPC,
           pnode' \in (Pid \X (0 .. MaxInc)) \cup {NoUid}
    PROVE  TypeOK'
  BY DEF TypeOK, ruleVars, uiVars, boundVars

LEMMA TrustType ==
    ASSUME TypeOK, NEW p \in Pid, NEW on, Trust(p, on)
    PROVE  kexempt' \subseteq Pid
  BY DEF TypeOK, Trust

\* A FORK is read while its pid has a node to spare.
LEMMA ForkRoom ==
    ASSUME IInv, Top("FORK")
    PROVE  /\ Head(ring) = ring[1] /\ ring[1] \in Event
           /\ cur[ring[1].pid] \in Nat /\ cur[ring[1].pid] + 1 \in 1 .. MaxInc
           /\ cur[ring[1].pid] + 1 <= ring[1].inc /\ ring[1].inc <= inc[ring[1].pid]
<1>1. ring \in Seq(Event) /\ ring # <<>> /\ Head(ring) = ring[1] /\ ring[1] \in Event
  BY DEF IInv, TypeOK, Top
<1>2. 1 \in 1 .. Len(ring) /\ ring[1].type = "FORK"
  BY <1>1 DEF Top
<1>3. ring[1].pid \in Pid /\ ring[1].inc \in 1 .. MaxInc
  BY <1>1 DEF Event
<1>4. cur[ring[1].pid] \in 0 .. MaxInc
  BY <1>3 DEF IInv, TypeOK
<1>5. cur[ring[1].pid] < ring[1].inc /\ ring[1].inc <= inc[ring[1].pid]
  BY <1>2 DEF IInv, Behind, InOrder, After
<1> QED
  BY <1>1, <1>3, <1>4, <1>5, BoundsAssumption

\* The node of a FORK follows the pid's last one, which dies.
LEMMA ForkNode ==
    ASSUME IInv, IngestFork
    PROVE  LET e == ring[1]
               p == e.pid
           IN  /\ node' \in [Pid -> [1 .. MaxInc -> Node]]
               /\ cur' = [cur EXCEPT ![p] = @ + 1]
               /\ \A q \in Pid \ {p} : node'[q] = node[q]
               /\ \A i \in 1 .. MaxInc :
                      node'[p][i] = IF i = cur[p] + 1 THEN Made(e)
                                    ELSE IF i = cur[p] THEN [node[p][i] EXCEPT !.dead = TRUE]
                                    ELSE node[p][i]
<1> DEFINE e == ring[1]
           p == e.pid
<1>1. Top("FORK")
  BY DEF IngestFork
<1>2. Head(ring) = e /\ e \in Event /\ p \in Pid
  BY <1>1, ForkRoom DEF Event
<1>3. node \in [Pid -> [1 .. MaxInc -> Node]] /\ TypeOK
  BY DEF IInv, TypeOK
<1> DEFINE made(i) == IF i = cur[p] + 1 THEN Made(e)
                      ELSE IF i = cur[p] THEN [node[p][i] EXCEPT !.dead = TRUE]
                      ELSE node[p][i]
<1>4. \A i \in 1 .. MaxInc : made(i) \in Node
  <2> SUFFICES ASSUME NEW i \in 1 .. MaxInc PROVE made(i) \in Node
    OBVIOUS
  <2>1. Made(e) \in Node /\ node[p][i] \in Node
    BY <1>2, <1>3, EnsureType
  <2>2. [node[p][i] EXCEPT !.dead = TRUE] \in Node
    BY <2>1 DEF Node
  <2> QED
    BY <2>1, <2>2
<1>5. DOMAIN node[p] = 1 .. MaxInc
  BY <1>2, <1>3
<1>6. node' = [node EXCEPT ![p] = [i \in 1 .. MaxInc |-> made(i)]] /\ cur' = [cur EXCEPT ![p] = @ + 1]
  BY <1>2, <1>5 DEF IngestFork
<1> HIDE DEF made
<1>7. /\ node' \in [Pid -> [1 .. MaxInc -> Node]]
      /\ \A q \in Pid \ {p} : node'[q] = node[q]
      /\ \A i \in 1 .. MaxInc : node'[p][i] = made(i)
  BY <1>2, <1>3, <1>4, <1>6
<1> QED
  BY <1>6, <1>7 DEF made

LEMMA IngestForkType == IInv /\ IngestFork => TypeOK'
<1> SUFFICES ASSUME IInv, IngestFork PROVE TypeOK'
  OBVIOUS
<1>0. TypeOK /\ Top("FORK") /\ ring # <<>> /\ ring' = Tail(ring)
  BY DEF IInv, IngestFork, Top
<1>1. ring[1].pid \in Pid /\ Head(ring) = ring[1]
  BY <1>0, ForkRoom DEF Event
<1>2. node' \in [Pid -> [1 .. MaxInc -> Node]] /\ cur' = [cur EXCEPT ![ring[1].pid] = @ + 1]
  BY ForkNode
<1>3. cur' \in [Pid -> 0 .. MaxInc]
  BY <1>0, <1>1, <1>2, ForkRoom DEF TypeOK
<1>4. kexempt' \subseteq Pid
  BY <1>0, <1>1 DEF IngestFork, Trust, TypeOK
<1>5. ring' \in Seq(Event)
  BY <1>0, PopRing
<1> QED
  BY <1>0, <1>2, <1>3, <1>4, <1>5, PollerFrame DEF IngestFork, TypeOK, procVars, pollVars

LEMMA IngestExitType == TypeOK /\ IngestExit => TypeOK'
<1> SUFFICES ASSUME TypeOK, IngestExit PROVE TypeOK'
  OBVIOUS
<1>0. ring # <<>> /\ ring' = Tail(ring)
  BY DEF IngestExit, Top
<1> DEFINE p == Head(ring).pid
<1>1. p \in Pid /\ ring' \in Seq(Event)
  BY <1>0, PopRing DEF Event
<1>2. CASE Has(Now(p))
  <2>1. Now(p) \in Uid /\ At(Now(p)) \in Node
    BY <1>1, <1>2, NowType, AtType
  <2>2. [At(Now(p)) EXCEPT !.dead = TRUE, !.blocked = FALSE] \in Node
    BY <2>1 DEF Node
  <2>3. node' \in [Pid -> [1 .. MaxInc -> Node]]
    BY <1>2, <2>1, <2>2, PutNode DEF IngestExit
  <2>4. /\ armed' \in {armed, [armed EXCEPT ![p] = 0]} /\ Trust(p, FALSE)
        /\ thash' = [thash EXCEPT ![p] = NoBin]
    BY <1>2 DEF IngestExit
  <2>5. /\ armed' \in [Pid -> 0 .. MaxInc] /\ kexempt' \subseteq Pid
        /\ thash' \in [Pid -> Bin \cup {NoBin}]
    <3>1. /\ armed \in [Pid -> 0 .. MaxInc] /\ 0 \in 0 .. MaxInc
          /\ kexempt \subseteq Pid /\ thash \in [Pid -> Bin \cup {NoBin}]
      BY BoundsAssumption DEF TypeOK
    <3> QED
      BY <1>1, <2>4, <3>1 DEF Trust
  <2> QED
    BY <1>1, <2>3, <2>5, PollerFrame DEF IngestExit, TypeOK, procVars, pollVars
<1>3. CASE ~Has(Now(p))
  BY <1>1, <1>3, PollerFrame DEF IngestExit, TypeOK, procVars, pollVars
<1> QED
  BY <1>2, <1>3

LEMMA IngestRiskyType == ASSUME TypeOK, NEW hot, IngestRisky(hot) PROVE TypeOK'
<1> DEFINE e == Head(ring)
           n == EnsureNode(e)
<1>0. ring # <<>> /\ ring' = Tail(ring)
  BY DEF IngestRisky, Top
<1>1. e \in Event /\ e.pid \in Pid /\ ring' \in Seq(Event)
  BY <1>0, PopRing DEF Event
<1>2. EnsureUid(e.pid) \in Uid /\ n \in Node /\ thash[e.pid] \in Bin \cup {NoBin}
  BY <1>1, EnsureType DEF TypeOK
<1>3. /\ Score(EnsureUid(e.pid), n, thash[e.pid], hot) /\ Ensure(e.pid)
      /\ \E on : Trust(e.pid, on)
      /\ UNCHANGED <<inc, exe, execing, left, armed, ruleVars, pollVars, uiVars, boundVars>>
  BY DEF IngestRisky
<1>4. kexempt' \subseteq Pid /\ cur' \in [Pid -> 0 .. MaxInc]
  <2>1. kexempt' \subseteq Pid
    BY <1>1, <1>3, TrustType
  <2>2. cur \in [Pid -> 0 .. MaxInc] /\ 1 \in 0 .. MaxInc
    BY BoundsAssumption DEF TypeOK
  <2> QED
    BY <1>1, <1>3, <2>1, <2>2 DEF Ensure
<1> HIDE DEF n, e
<1>5. /\ life' \in [Pid -> {"none", "run", "stopped", "dying", "dead"}]
      /\ node' \in [Pid -> [1 .. MaxInc -> Node]]
      /\ thash' \in [Pid -> Bin \cup {NoBin}] /\ queue' \in Seq(Uid)
  BY <1>2, <1>3, ScoreType
<1> QED
  BY <1>1, <1>3, <1>4, <1>5, PollerFrame DEF TypeOK, pollVars

LEMMA IngestExecType == ASSUME TypeOK, NEW hot, IngestExec(hot) PROVE TypeOK'
<1> DEFINE e == Head(ring)
           r == Renamed(EnsureNode(e), e)
           n == Judged(r)
<1>0. ring # <<>> /\ ring' = Tail(ring)
  BY DEF IngestExec, Top
<1>1. e \in Event /\ e.pid \in Pid /\ ring' \in Seq(Event)
  BY <1>0, PopRing DEF Event
<1>2. EnsureUid(e.pid) \in Uid /\ EnsureNode(e) \in Node
  BY <1>1, EnsureType
<1>3. n \in Node
  BY <1>1, <1>2, JudgedType
<1>4. n.hash \in Bin \cup {NoBin} /\ n.of \in 0 .. MaxInc
  BY <1>3 DEF Node
<1>5. /\ Score(EnsureUid(e.pid), n, n.hash, hot) /\ Ensure(e.pid)
      /\ Trust(e.pid, n.exempt)
      /\ armed' = IF Consults(r) /\ Verdict(r.hash) = "block"
                  THEN [armed EXCEPT ![e.pid] = n.of] ELSE armed
      /\ UNCHANGED <<inc, exe, execing, left, ruleVars, pollVars, uiVars, boundVars>>
  BY DEF IngestExec
<1> HIDE DEF n, r, e
<1>6. kexempt' \subseteq Pid /\ cur' \in [Pid -> 0 .. MaxInc]
  <2>1. kexempt' \subseteq Pid
    BY <1>1, <1>5 DEF Trust, TypeOK
  <2>2. cur' \in [Pid -> 0 .. MaxInc]
    <3>1. cur \in [Pid -> 0 .. MaxInc] /\ 1 \in 0 .. MaxInc
      BY BoundsAssumption DEF TypeOK
    <3>2. cur' = [cur EXCEPT ![e.pid] = IF @ = 0 THEN 1 ELSE @]
      BY <1>5 DEF Ensure
    <3> QED
      BY <1>1, <3>1, <3>2
  <2> QED
    BY <2>1, <2>2
<1>7. armed' \in [Pid -> 0 .. MaxInc]
  BY <1>1, <1>4, <1>5 DEF TypeOK
<1>8. /\ life' \in [Pid -> {"none", "run", "stopped", "dying", "dead"}]
      /\ node' \in [Pid -> [1 .. MaxInc -> Node]]
      /\ thash' \in [Pid -> Bin \cup {NoBin}] /\ queue' \in Seq(Uid)
  BY <1>2, <1>3, <1>4, <1>5, ScoreType
<1> QED
  BY <1>1, <1>5, <1>6, <1>7, <1>8, PollerFrame DEF TypeOK, pollVars

LEMMA IngestTripType == TypeOK /\ IngestTrip => TypeOK'
<1> SUFFICES ASSUME TypeOK, IngestTrip PROVE TypeOK'
  OBVIOUS
<1> DEFINE p == Head(ring).pid
           h == IF thash[p] # NoBin THEN thash[p] ELSE OnDisk(p)
<1>0. ring # <<>> /\ ring' = Tail(ring)
  BY DEF IngestTrip, Top
<1>1. p \in Pid /\ ring' \in Seq(Event)
  BY <1>0, PopRing DEF Event
<1>2. h \in Bin \cup {NoBin}
  BY <1>1, OnDiskType DEF TypeOK
<1>3. thash' \in [Pid -> Bin \cup {NoBin}]
  <2>1. thash' = [thash EXCEPT ![p] = h]
    BY DEF IngestTrip
  <2> HIDE DEF h
  <2> QED
    BY <1>1, <1>2, <2>1 DEF TypeOK
<1>4. node' \in [Pid -> [1 .. MaxInc -> Node]]
  <2>1. CASE Has(Now(p))
    <3>1. Now(p) \in Uid /\ At(Now(p)) \in Node
      BY <1>1, <2>1, NowType, AtType
    <3>2. [At(Now(p)) EXCEPT !.blocked = TRUE] \in Node
      BY <3>1 DEF Node
    <3> QED
      BY <2>1, <3>1, <3>2, PutNode DEF IngestTrip
  <2> QED
    BY <2>1 DEF IngestTrip, TypeOK
<1>5. poll' \in {"idle", "lift", "ask"} /\ pnode' \in {NoUid, Now(p)}
  <2>1. poll' = CASE Verdict(h) = "block" -> "idle"
                  [] Verdict(h) = "allow" -> "lift"
                  [] Verdict(h) = "none"  -> IF Has(Now(p)) THEN "ask" ELSE "idle"
    BY DEF IngestTrip
  <2>2. Verdict(h) \in {"block", "allow", "none"}
    BY DEF Verdict
  <2>3. poll' \in {"idle", "lift", "ask"}
    BY <2>1, <2>2
  <2>4. pnode' = IF poll' = "idle" THEN NoUid ELSE Now(p)
    BY DEF IngestTrip
  <2> QED
    BY <2>3, <2>4
<1>6. pnode' \in (Pid \X (0 .. MaxInc)) \cup {NoUid}
  BY <1>1, <1>5, NowType
<1>7. poll' \in PollPC
  BY <1>5 DEF PollPC
<1> QED
  BY <1>1, <1>3, <1>4, <1>6, <1>7, PollerFrame DEF IngestTrip, TypeOK, procVars, mapVars

\* Between the sections of a trip.
LEMMA TripType == IInv /\ (Lift \/ Lifted \/ Ask \/ Stopped) => TypeOK'
<1> SUFFICES ASSUME IInv, Lift \/ Lifted \/ Ask \/ Stopped PROVE TypeOK'
  OBVIOUS
<1>0. TypeOK
  BY DEF IInv
<1>1. CASE Lift
  <2>1. armed' \in [Pid -> 0 .. MaxInc]
    <3>1. armed \in [Pid -> 0 .. MaxInc] /\ 0 \in 0 .. MaxInc
      BY <1>0, BoundsAssumption DEF TypeOK
    <3> QED
      BY <1>1, <3>1 DEF Lift
  <2>2. poll' \in PollPC
    BY <1>1 DEF Lift, PollPC
  <2> QED
    BY <1>0, <1>1, <2>1, <2>2, PollerFrame DEF Lift, TypeOK, procVars, nodeVars
<1>2. CASE Lifted
  <2>1. pnode \in Pid \X (0 .. MaxInc) /\ poll' \in PollPC /\ pnode' = NoUid
    BY <1>2 DEF IInv, Placed, Lifted, PollPC
  <2>2. node' \in [Pid -> [1 .. MaxInc -> Node]] /\ kexempt' \subseteq Pid
    <3>1. CASE Has(pnode)
      <4>1. pnode \in Uid /\ At(pnode) \in Node
        BY <1>0, <2>1, <3>1, AtType, BoundsAssumption DEF Has, Uid
      <4>2. [At(pnode) EXCEPT !.blocked = FALSE, !.exempt = TRUE] \in Node
        BY <4>1 DEF Node
      <4>3. node' \in [Pid -> [1 .. MaxInc -> Node]]
        BY <1>0, <1>2, <3>1, <4>1, <4>2, PutNode DEF Lifted
      <4> QED
        BY <1>0, <1>2, <2>1, <3>1, <4>3 DEF Lifted, Trust, TypeOK
    <3>2. CASE ~Has(pnode)
      BY <1>0, <1>2, <3>2 DEF Lifted, TypeOK
    <3> QED
      BY <3>1, <3>2
  <2> QED
    BY <1>0, <1>2, <2>1, <2>2, PollerFrame DEF Lifted, TypeOK, procVars
<1>3. CASE Ask
  <2>1. life' \in [Pid -> {"none", "run", "stopped", "dying", "dead"}]
    BY <1>0, <1>3, SignalLife DEF Ask, TypeOK
  <2>2. poll' \in PollPC /\ pnode' \in {pnode, NoUid}
    BY <1>3 DEF Ask, PollPC
  <2> QED
    BY <1>0, <1>3, <2>1, <2>2, PollerFrame DEF Ask, TypeOK, mapVars, nodeVars
<1>4. CASE Stopped
  <2> DEFINE n == At(pnode)
             k == PromptHash(n, pnode[1], thash[pnode[1]])
  <2>1. pnode \in Uid /\ pnode[1] \in Pid
    BY <1>4 DEF IInv, Placed, Stopped, Uid
  <2>2. n \in Node /\ thash[pnode[1]] \in Bin \cup {NoBin}
    BY <1>0, <2>1, AtType DEF TypeOK
  <2>3. k \in Bin \cup {NoBin}
    BY <1>0, <2>1, <2>2, PromptHashType
  <2>4. /\ Put(pnode, [n EXCEPT !.frozen = TRUE, !.pending = TRUE, !.hash = k])
        /\ thash' = [thash EXCEPT ![pnode[1]] = IF n.hash = NoBin THEN k ELSE @]
        /\ queue' = Enqueued(pnode) /\ poll' = "idle" /\ pnode' = NoUid
    BY <1>4 DEF Stopped
  <2> HIDE DEF k, n
  <2>5. [n EXCEPT !.frozen = TRUE, !.pending = TRUE, !.hash = k] \in Node
    BY <2>2, <2>3 DEF Node
  <2>6. node' \in [Pid -> [1 .. MaxInc -> Node]]
    BY <1>0, <2>1, <2>4, <2>5, PutNode
  <2>7. thash' \in [Pid -> Bin \cup {NoBin}]
    BY <1>0, <2>1, <2>3, <2>4 DEF TypeOK
  <2>8. queue' \in Seq(Uid) /\ poll' \in PollPC
    BY <1>0, <2>1, <2>4, EnqueuedType DEF PollPC
  <2> QED
    BY <1>0, <1>4, <2>4, <2>6, <2>7, <2>8, PollerFrame DEF Stopped, TypeOK, procVars, mapVars
<1> QED
  BY <1>1, <1>2, <1>3, <1>4

LEMMA PollerType == IInv /\ Poller => TypeOK'
<1> SUFFICES ASSUME IInv, Poller PROVE TypeOK'
  OBVIOUS
<1>0. TypeOK
  BY DEF IInv
<1>1. CASE IngestTripMuted
  <2>1. ring' \in Seq(Event)
    BY <1>0, <1>1, PopRing DEF IngestTripMuted, Top
  <2> QED
    BY <1>0, <1>1, <2>1, PollerFrame
       DEF IngestTripMuted, TypeOK, procVars, mapVars, nodeVars, pollVars
<1> QED
  BY <1>0, <1>1, IngestForkType, IngestExitType, IngestRiskyType, IngestExecType,
     IngestTripType, TripType DEF Poller

\* A step of the UI thread moves these.
LEMMA UiFrame ==
    ASSUME TypeOK, UNCHANGED <<inc, exe, execing, left, ring, cur, thash, pollVars, boundVars>>,
           life' \in [Pid -> {"none", "run", "stopped", "dying", "dead"}],
           armed' \in [Pid -> 0 .. MaxInc], kexempt' \subseteq Pid,
           node' \in [Pid -> [1 .. MaxInc -> Node]], queue' \in Seq(Uid),
           black' \subseteq Bin, white' \subseteq Bin, paused' \subseteq Bin,
           ui' \in UiPC, asked' \in Uid \cup {NoUid}, dec' \in Decision, target' \subseteq Pid,
           rem' \in Bin \cup {NoBin},
           said' \in [Pid -> [1 .. MaxInc -> Decision \cup {"none"}]]
    PROVE  TypeOK'
  BY DEF TypeOK, pollVars, boundVars

LEMMA SaysType ==
    ASSUME TypeOK, NEW u \in Uid, NEW d \in Decision, Says(u, d)
    PROVE  said' \in [Pid -> [1 .. MaxInc -> Decision \cup {"none"}]]
<1>1. u[1] \in Pid /\ u[2] \in 1 .. MaxInc
  BY DEF Uid
<1>2. said \in [Pid -> [1 .. MaxInc -> Decision \cup {"none"}]]
  BY DEF TypeOK
<1> QED
  BY <1>1, <1>2 DEF Says

\* The flags an answer may move.
LEMMA FlagsType ==
    ASSUME NEW n \in Node, NEW a \in BOOLEAN, NEW b \in BOOLEAN, NEW c \in BOOLEAN,
           NEW d \in BOOLEAN
    PROVE  /\ [n EXCEPT !.pending = a, !.frozen = b, !.blocked = c, !.exempt = d] \in Node
           /\ [n EXCEPT !.frozen = b, !.blocked = c, !.exempt = d] \in Node
           /\ [n EXCEPT !.blocked = c] \in Node
<1>1. [n EXCEPT !.pending = a, !.frozen = b, !.blocked = c, !.exempt = d] \in Node
  BY DEF Node
<1>2. [n EXCEPT !.frozen = b, !.blocked = c, !.exempt = d] \in Node
  BY DEF Node
<1>3. [n EXCEPT !.blocked = c] \in Node
  BY DEF Node
<1> QED
  BY <1>1, <1>2, <1>3

LEMMA AnsweredType ==
    ASSUME NEW n \in Node, NEW d \in Decision
    PROVE  Answered(n, d) \in Node
<1> DEFINE fr == CASE d \in {"b", "y", "w"} -> FALSE
                   [] d = "n"               -> TRUE
                   [] OTHER                 -> n.frozen
           bl == (n.blocked \/ d = "b") /\ d # "w"
           ex == n.exempt \/ d = "w"
<1>1. fr \in BOOLEAN
  BY DEF Node
<1>2. bl \in BOOLEAN /\ ex \in BOOLEAN
  OBVIOUS
<1>3. Answered(n, d) = [n EXCEPT !.pending = FALSE, !.frozen = fr, !.blocked = bl, !.exempt = ex]
  BY Zenon DEF Answered
<1> HIDE DEF fr, bl, ex
<1>4. [n EXCEPT !.pending = FALSE, !.frozen = fr, !.blocked = bl, !.exempt = ex] \in Node
  BY <1>1, <1>2, FlagsType
<1> QED
  BY <1>3, <1>4, Zenon

LEMMA PressType == ASSUME IInv, NEW d \in Decision, Press(d) PROVE TypeOK'
<1>0. TypeOK /\ asked \in Uid /\ asked[1] \in Pid
  BY DEF IInv, Press, Placed, Answering, Uid
<1>1. At(asked) \in Node /\ Answered(At(asked), d) \in Node
  BY <1>0, AtType, AnsweredType
<1>2. node' \in [Pid -> [1 .. MaxInc -> Node]]
  BY <1>0, <1>1, PutNode DEF Press
<1>3. rem' \in Bin \cup {NoBin}
  <2>1. At(asked).hash \in Bin \cup {NoBin} /\ thash[asked[1]] \in Bin \cup {NoBin}
    BY <1>0, <1>1 DEF TypeOK, Node
  <2> QED
    BY <2>1 DEF Press
<1>4. kexempt' \subseteq Pid
  BY <1>0 DEF Press, Trust, TypeOK
<1>5. ui' \in UiPC
  BY DEF Press, AfterAnswer, Decision, UiPC
<1>6. CASE d = "x"
  <2>1. said' \in [Pid -> [1 .. MaxInc -> Decision \cup {"none"}]] /\ asked' = NoUid
    BY <1>0, <1>6, SaysType DEF Press
  <2> QED
    BY <1>0, <1>2, <1>3, <1>4, <1>5, <2>1, UiFrame DEF Press, TypeOK, procVars, ruleVars
<1>7. CASE d # "x"
  BY <1>0, <1>2, <1>3, <1>4, <1>5, <1>7, UiFrame DEF Press, TypeOK, procVars, ruleVars
<1> QED
  BY <1>6, <1>7

LEMMA ResolveType == IInv /\ Resolve => TypeOK'
<1> SUFFICES ASSUME IInv, Resolve PROVE TypeOK'
  OBVIOUS
<1>0. TypeOK /\ asked \in Uid /\ asked[1] \in Pid
  BY DEF IInv, Placed, Answering, Uid, Resolve, Remember, Flag, Arm, Disarm, Unflag, SendSignal
<1>1. At(asked) \in Node /\ At(asked).of \in 0 .. MaxInc
  BY <1>0, AtType DEF Node
<1>2. CASE Remember
  <2> DEFINE h == IF rem # NoBin THEN rem ELSE OnDisk(asked[1])
  <2>1. {h} \ {NoBin} \subseteq Bin
    BY <1>0, OnDiskType DEF TypeOK
  <2>2. black' \subseteq Bin /\ white' \subseteq Bin /\ paused' \subseteq Bin
    BY <1>0, <1>2, <2>1 DEF Remember, TypeOK
  <2>3. ui' \in UiPC
    BY <1>2 DEF Remember, UiPC
  <2> QED
    BY <1>0, <1>2, <2>2, <2>3, UiFrame DEF Remember, TypeOK, procVars, mapVars, nodeVars
<1>3. CASE Flag
  <2> DEFINE bl == dec = "d"
             ex == At(asked).exempt \/ dec = "l"
  <2>1. bl \in BOOLEAN /\ ex \in BOOLEAN
    OBVIOUS
  <2>2. Put(asked, [At(asked) EXCEPT !.frozen = FALSE, !.blocked = bl, !.exempt = ex])
    BY <1>3 DEF Flag
  <2> HIDE DEF bl, ex
  <2>3. node' \in [Pid -> [1 .. MaxInc -> Node]]
    BY <1>0, <1>1, <2>1, <2>2, FlagsType, PutNode
  <2>4. kexempt' \subseteq Pid /\ ui' \in UiPC
    BY <1>0, <1>3 DEF Flag, Trust, TypeOK, UiPC
  <2> QED
    BY <1>0, <1>3, <2>3, <2>4, UiFrame DEF Flag, TypeOK, procVars, ruleVars
<1>4. CASE Arm \/ Disarm
  <2>1. armed \in [Pid -> 0 .. MaxInc] /\ 0 \in 0 .. MaxInc
    BY <1>0, BoundsAssumption DEF TypeOK
  <2>2. armed' \in [Pid -> 0 .. MaxInc] /\ ui' \in UiPC
    BY <1>0, <1>1, <1>4, <2>1 DEF Arm, Disarm, UiPC
  <2> QED
    BY <1>0, <1>4, <2>2, UiFrame DEF Arm, Disarm, TypeOK, procVars, nodeVars, ruleVars
<1>5. CASE Unflag
  <2>1. node' \in [Pid -> [1 .. MaxInc -> Node]] /\ ui' \in UiPC
    BY <1>0, <1>1, <1>5, FlagsType, PutNode DEF Unflag, UiPC
  <2> QED
    BY <1>0, <1>5, <2>1, UiFrame DEF Unflag, TypeOK, procVars, mapVars, ruleVars
<1>6. CASE SendSignal
  <2>1. life' \in [Pid -> {"none", "run", "stopped", "dying", "dead"}]
    BY <1>0, <1>6, SignalLife DEF SendSignal
  <2>2. said' \in [Pid -> [1 .. MaxInc -> Decision \cup {"none"}]]
    <3>1. dec \in Decision /\ Says(asked, dec)
      BY <1>0, <1>6 DEF TypeOK, SendSignal
    <3> QED
      BY <1>0, <3>1, SaysType
  <2>3. ui' \in UiPC /\ asked' = NoUid /\ dec' \in Decision /\ rem' = NoBin
    BY <1>6 DEF SendSignal, UiPC, Decision
  <2> QED
    BY <1>0, <1>6, <2>1, <2>2, <2>3, UiFrame DEF SendSignal, TypeOK, mapVars, nodeVars, ruleVars
<1> QED
  BY <1>2, <1>3, <1>4, <1>5, <1>6 DEF Resolve

\* The block of the latest node of p is taken off or put on.
LEMMA RetakeType ==
    ASSUME TypeOK, NEW p \in Pid, Unblock(p) \/ Reblock(p)
    PROVE  /\ armed' \in [Pid -> 0 .. MaxInc]
           /\ node' \in [Pid -> [1 .. MaxInc -> Node]]
<1>1. UNCHANGED <<armed, node>> \/
      /\ Has(Now(p))
      /\ \E i \in {0, At(Now(p)).of} : armed' = [armed EXCEPT ![p] = i]
      /\ \E b \in BOOLEAN : Put(Now(p), [At(Now(p)) EXCEPT !.blocked = b])
  BY Zenon DEF Unblock, Reblock, Reblockable
<1>2. CASE UNCHANGED <<armed, node>>
  BY <1>2 DEF TypeOK
<1>3. CASE Has(Now(p))
  <2>1. Now(p) \in Uid /\ At(Now(p)) \in Node
    BY <1>3, NowType, AtType
  <2>2. At(Now(p)).of \in 0 .. MaxInc /\ 0 \in 0 .. MaxInc /\ armed \in [Pid -> 0 .. MaxInc]
    BY <2>1, BoundsAssumption DEF Node, TypeOK
  <2>3. ASSUME NEW b \in BOOLEAN, Put(Now(p), [At(Now(p)) EXCEPT !.blocked = b])
        PROVE  node' \in [Pid -> [1 .. MaxInc -> Node]]
    BY <2>1, <2>3, FlagsType, PutNode
  <2> QED
    BY <1>1, <1>2, <2>2, <2>3
<1> QED
  BY <1>1, <1>2, <1>3

LEMMA ManageType == TypeOK /\ Manage => TypeOK'
<1> SUFFICES ASSUME TypeOK, Manage PROVE TypeOK'
  OBVIOUS
<1>1. CASE Flush
  <2>1. armed' \in [Pid -> 0 .. MaxInc] /\ ui' \in UiPC
    BY <1>1, BoundsAssumption DEF Flush, UiPC
  <2> QED
    BY <1>1, <2>1, UiFrame DEF Flush, TypeOK, procVars, nodeVars, ruleVars
<1>2. CASE Flushed
  <2>1. ASSUME NEW p \in Pid, NEW i \in 1 .. MaxInc
        PROVE  [node[p][i] EXCEPT !.blocked = FALSE] \in Node
    <3>1. node \in [Pid -> [1 .. MaxInc -> Node]]
      BY DEF TypeOK
    <3>2. node[p][i] \in Node
      BY <3>1
    <3> QED
      BY <3>2, FlagsType
  <2>2. node' \in [Pid -> [1 .. MaxInc -> Node]]
    BY <1>2, <2>1 DEF Flushed
  <2>3. ui' \in UiPC
    BY <1>2 DEF Flushed, UiPC
  <2> QED
    BY <1>2, <2>2, <2>3, UiFrame DEF Flushed, TypeOK, procVars, mapVars, ruleVars
<1>3. CASE Collect \/ Managed
  <2>1. ui' \in UiPC
    BY <1>3 DEF Collect, Managed, UiPC
  <2>2. target' \subseteq Pid /\ rem' \in Bin \cup {NoBin}
    BY <1>3 DEF Collect, Managed, TypeOK
  <2> QED
    BY <1>3, <2>1, <2>2, UiFrame DEF Collect, Managed, TypeOK, procVars, mapVars, nodeVars, ruleVars
<1>4. ASSUME NEW b \in Bin, PauseRule(b) \/ RemoveRule(b) PROVE TypeOK'
  <2>1. ui' \in UiPC
    BY <1>4 DEF PauseRule, RemoveRule, UiPC
  <2>2. /\ black' \subseteq Bin /\ white' \subseteq Bin /\ paused' \subseteq Bin
        /\ rem' \in Bin \cup {NoBin}
    BY <1>4 DEF PauseRule, RemoveRule, TypeOK
  <2> QED
    BY <1>4, <2>1, <2>2, UiFrame DEF PauseRule, RemoveRule, TypeOK, procVars, mapVars, nodeVars
<1>5. ASSUME NEW p \in Pid, Unblock(p) \/ Reblock(p) PROVE TypeOK'
  <2>1. armed' \in [Pid -> 0 .. MaxInc] /\ node' \in [Pid -> [1 .. MaxInc -> Node]]
    BY <1>5, RetakeType
  <2>2. target' \subseteq Pid
    BY <1>5 DEF Unblock, Reblock, TypeOK
  <2> QED
    BY <1>5, <2>1, <2>2, UiFrame DEF Unblock, Reblock, TypeOK, procVars, ruleVars
<1> QED
  BY <1>1, <1>2, <1>3, <1>4, <1>5 DEF Manage

LEMMA TypeStep == IInv /\ [Next]_vars => TypeOK'
<1> SUFFICES ASSUME IInv, [Next]_vars PROVE TypeOK'
  OBVIOUS
<1>0. TypeOK /\ Started
  BY DEF IInv
<1>1. CASE Take
  <2>1. queue' \in Seq(Uid) /\ asked' \in Uid /\ ui' \in UiPC
    BY <1>0, <1>1 DEF Take, TypeOK, UiPC
  <2> QED
    BY <1>0, <1>1, <2>1, UiFrame DEF Take, TypeOK, procVars, mapVars, nodeVars, ruleVars
<1>2. CASE UNCHANGED vars
  BY <1>0, <1>2 DEF TypeOK, vars, procVars, mapVars, nodeVars, ruleVars, pollVars, uiVars, boundVars
<1> QED
  BY <1>0, <1>1, <1>2, KernelType, PollerType, PressType, ResolveType, ManageType DEF Next

-----------------------------------------------------------------------------
(* The order of events.                                                    *)

\* A step of process p: what it adds to the ring tells of the process it is then.
Emitting(p) ==
    /\ UNCHANGED <<cur, node>>
    /\ inc' = inc \/ inc' = [inc EXCEPT ![p] = @ + 1]
    /\ ring' \in Seq(Event) /\ Len(ring) <= Len(ring')
    /\ \A k \in 1 .. Len(ring) : ring'[k] = ring[k]
    /\ \A k \in 1 .. Len(ring') : k > Len(ring) =>
           /\ ring'[k].pid = p /\ ring'[k].inc = inc'[p]
           /\ ring'[k].type = "FORK" => k = Len(ring) + 1 /\ inc'[p] = inc[p] + 1
           /\ ring'[k].type = "EXIT" => life'[p] = "dead"
           /\ KinOf(ring'[k], left')

\* No event, or one taken from the ring; the pid's node may then be its next one.
Still   == UNCHANGED <<inc, ring, cur>>
Reading ==
    LET e == ring[1]
    IN  /\ ring # <<>> /\ ring' = Tail(ring) /\ UNCHANGED inc
        /\ \/ UNCHANGED cur
           \/ e.type = "FORK" /\ cur' = [cur EXCEPT ![e.pid] = @ + 1]
           \/ e.type # "FORK" /\ cur[e.pid] = 0 /\ cur' = [cur EXCEPT ![e.pid] = 1]

LEMMA EvIs ==
    ASSUME NEW p, NEW f, NEW ty
    PROVE  /\ Ev(ty, p, f).pid = p /\ Ev(ty, p, f).inc = inc'[p] /\ Ev(ty, p, f).type = ty
           /\ ty # "FORK" /\ UNCHANGED left => KinOf(Ev(ty, p, f), left')
<1> DEFINE k == InTree(p, inc'[p])
<1>1. Ev(ty, p, f) = [type |-> ty, pid |-> p, inc |-> inc'[p], exe |-> exe[p], file |-> f,
                      kin |-> k]
  BY DEF Ev
<1>2. k <=> p \in Supervised /\ <<p, inc'[p]>> \notin left
  BY DEF InTree
<1> HIDE DEF k
<1>3. /\ Ev(ty, p, f).pid = p /\ Ev(ty, p, f).inc = inc'[p] /\ Ev(ty, p, f).type = ty
      /\ Ev(ty, p, f).kin <=> k
  BY <1>1
<1>4. ASSUME ty # "FORK", UNCHANGED left PROVE KinOf(Ev(ty, p, f), left')
  BY <1>2, <1>3, <1>4 DEF KinOf
<1> QED
  BY <1>3, <1>4

LEMMA KernelEmits ==
    ASSUME TypeOK, Started, Kernel
    PROVE  \E p \in Pid : Emitting(p)
<1> PICK p \in Pid : \/ Die(p) \/ ExecCheck(p) \/ Daemonise(p)
                     \/ \E b \in Parents : Fork(p, b)
                     \/ \E b \in Bin : ExecEnter(p, b)
                     \/ \E ceiling \in BOOLEAN : Risky(p, ceiling)
  BY Zenon DEF Kernel
<1> SUFFICES Emitting(p)
  OBVIOUS
<1>0. /\ inc[p] \in 0 .. MaxInc /\ ring \in Seq(Event)
      /\ life[p] # "none" => exe[p] \in Bin /\ inc[p] \in 1 .. MaxInc
  BY BoundsAssumption DEF TypeOK, Started
<1>e. ASSUME NEW e \in Event, Emit(<<e>>), UNCHANGED <<cur, node>>,
             inc' = inc \/ inc' = [inc EXCEPT ![p] = @ + 1], e.pid = p, e.inc = inc'[p],
             e.type = "FORK" => inc'[p] = inc[p] + 1, e.type = "EXIT" => life'[p] = "dead",
             KinOf(e, left')
      PROVE  Emitting(p)
  <2>1. Len(ring') <= Len(ring) + 1
    <3>1. <<e>> \in Seq(Event) /\ Len(<<e>>) = 1
      OBVIOUS
    <3> QED
      BY <1>e, <3>1, EmitRing
  <2>2. /\ ring' \in Seq(Event) /\ Len(ring) <= Len(ring')
        /\ \A k \in 1 .. Len(ring) : ring'[k] = ring[k]
        /\ \A k \in 1 .. Len(ring') : k > Len(ring) => ring'[k] = e
    BY <1>e, EmitOne
  <2>3. \A k \in 1 .. Len(ring') : k > Len(ring) => k = Len(ring) + 1
    BY <1>0, <2>1, <2>2
  <2> QED
    BY <1>e, <2>2, <2>3 DEF Emitting
<1>1. CASE Die(p)
  <2>1. /\ Ev("EXIT", p, NoBin) \in Event /\ Emit(<<Ev("EXIT", p, NoBin)>>)
        /\ UNCHANGED <<inc, left, cur, node>> /\ life'[p] = "dead"
    BY <1>0, <1>1, EvType DEF Die, nodeVars, TypeOK
  <2> QED
    BY <1>e, <2>1, EvIs
<1>2. CASE ExecCheck(p) \/ Daemonise(p)
  BY <1>0, <1>2 DEF ExecCheck, Daemonise, Emitting, nodeVars
<1>4. ASSUME NEW b \in Parents, Fork(p, b) PROVE Emitting(p)
  <2> DEFINE e == Forked(p, b)
  <2>1. b \in Bin
    BY BinAssumption
  <2>2. /\ inc' = [inc EXCEPT ![p] = @ + 1] /\ inc'[p] \in 1 .. MaxInc
        /\ inc'[p] = inc[p] + 1
    BY <1>0, <1>4, BoundsAssumption DEF Fork, TypeOK
  <2>3. e \in Event /\ e.pid = p /\ e.inc = inc'[p] /\ e.type = "FORK" /\ KinOf(e, left')
    BY <2>1, <2>2, ForkType
  <2>4. Emit(<<e>>) /\ UNCHANGED <<cur, node>>
    BY <1>4 DEF Fork, nodeVars
  <2> HIDE DEF e
  <2> QED
    BY <1>e, <2>2, <2>3, <2>4
<1>5. ASSUME NEW b \in Bin, ExecEnter(p, b) PROVE Emitting(p)
  <2>1. /\ Ev("EXEC", p, b) \in Event /\ Emit(<<Ev("EXEC", p, b)>>)
        /\ UNCHANGED <<inc, left, cur, node>>
    BY <1>0, <1>5, EvType DEF ExecEnter, nodeVars
  <2> QED
    BY <1>e, <2>1, EvIs
<1>6. ASSUME NEW ceiling \in BOOLEAN, Risky(p, ceiling) PROVE Emitting(p)
  <2>0. UNCHANGED <<inc, left, cur, node, life>>
    BY <1>6 DEF Risky, procVars, nodeVars
  <2>1. Ev("TRIP", p, NoBin) \in Event /\ Ev("RISKY", p, NoBin) \in Event
    BY <1>0, <1>6, <2>0, EvType DEF Risky
  <2>2. CASE Emit(<<Ev("RISKY", p, NoBin)>>)
    BY <1>e, <2>0, <2>1, <2>2, EvIs
  <2>3. CASE Emit(<<Ev("TRIP", p, NoBin), Ev("RISKY", p, NoBin)>>)
    <3> DEFINE es == <<Ev("TRIP", p, NoBin), Ev("RISKY", p, NoBin)>>
    <3>1. es \in Seq(Event) /\ Len(es) = 2
      BY <2>1
    <3>2. \A k \in 1 .. 2 : /\ es[k].pid = p /\ es[k].inc = inc'[p]
                           /\ es[k].type \in {"TRIP", "RISKY"} /\ KinOf(es[k], left')
      BY <2>0, EvIs
    <3> HIDE DEF es
    <3>3. /\ ring' \in Seq(Event) /\ Len(ring) <= Len(ring')
          /\ \A k \in 1 .. Len(ring) : ring'[k] = ring[k]
          /\ \A k \in 1 .. Len(ring') : k > Len(ring) =>
                 k - Len(ring) \in 1 .. Len(es) /\ ring'[k] = es[k - Len(ring)]
      BY <2>3, <3>1, EmitRing DEF es
    <3> QED
      BY <2>0, <3>1, <3>2, <3>3 DEF Emitting
  <2> QED
    BY <1>6, <2>2, <2>3 DEF Risky
<1> QED
  BY <1>1, <1>2, <1>4, <1>5, <1>6

LEMMA PollerReads ==
    ASSUME IInv, Poller
    PROVE  Still \/ Reading
<1>0. TypeOK /\ ring \in Seq(Event)
  BY DEF IInv, TypeOK
<1>1. CASE IngestFork
  <2>1. cur' = [cur EXCEPT ![ring[1].pid] = @ + 1]
    BY <1>1, ForkNode
  <2>2. Head(ring) = ring[1]
    BY <1>0, <1>1 DEF IngestFork, Top
  <2> QED
    BY <1>1, <2>1, <2>2 DEF IngestFork, Top, Reading, procVars
<1>2. CASE IngestExit
  BY <1>2 DEF IngestExit, Top, Reading, procVars
<1>3. ASSUME NEW hot, IngestRisky(hot) \/ IngestExec(hot) PROVE Reading
  <2>1. ring # <<>> /\ Head(ring) = ring[1] /\ ring[1].type # "FORK" /\ ring[1].pid \in Pid
    <3>1. Top("RISKY") \/ Top("EXEC")
      BY <1>3 DEF IngestRisky, IngestExec
    <3>2. ring # <<>> /\ Head(ring).type # "FORK"
      BY <3>1 DEF Top
    <3>3. Head(ring) = ring[1] /\ ring[1] \in Event
      BY <1>0, <3>2
    <3> QED
      BY <3>2, <3>3 DEF Event
  <2>2. Ensure(ring[1].pid) /\ ring' = Tail(ring) /\ UNCHANGED inc
    BY <1>3, <2>1 DEF IngestRisky, IngestExec
  <2>3. cur \in [Pid -> 0 .. MaxInc]
    BY <1>0 DEF TypeOK
  <2>4. CASE cur[ring[1].pid] = 0
    <3>1. cur' = [cur EXCEPT ![ring[1].pid] = 1]
      BY <2>2, <2>4 DEF Ensure
    <3> QED
      BY <2>1, <2>2, <2>4, <3>1 DEF Reading
  <2>5. CASE cur[ring[1].pid] # 0
    BY <2>1, <2>2, <2>3, <2>5 DEF Ensure, Reading
  <2> QED
    BY <2>4, <2>5
<1>4. CASE IngestTripMuted \/ IngestTrip
  BY <1>4 DEF IngestTripMuted, IngestTrip, Top, Reading, procVars, nodeVars
<1>5. CASE Lift \/ Lifted \/ Ask \/ Stopped
  BY <1>5 DEF Lift, Lifted, Ask, Stopped, Still, procVars, nodeVars
<1> QED
  BY <1>1, <1>2, <1>3, <1>4, <1>5 DEF Poller

LEMMA StartedStep == IInv /\ [Next]_vars => Started'
<1> SUFFICES ASSUME IInv, [Next]_vars PROVE Started'
  OBVIOUS
<1>0. TypeOK /\ Started
  BY DEF IInv
<1>1. ASSUME UNCHANGED <<inc, exe>>, \A q \in Pid : life'[q] = "none" <=> life[q] = "none"
      PROVE  Started'
  BY <1>0, <1>1 DEF Started
<1>2. CASE Kernel
  <2> PICK p \in Pid : \/ Die(p) \/ ExecCheck(p) \/ Daemonise(p)
                       \/ \E b \in Parents : Fork(p, b)
                       \/ \E b \in Bin : ExecEnter(p, b)
                       \/ \E ceiling \in BOOLEAN : Risky(p, ceiling)
    BY <1>2, Zenon DEF Kernel
  <2>1. CASE Die(p)
    BY <1>0, <2>1 DEF Die, Started, TypeOK
  <2>2. CASE ExecCheck(p)
    BY <1>0, <2>2 DEF ExecCheck, Started, TypeOK, Alive
  <2>3. CASE Daemonise(p) \/ \E ceiling \in BOOLEAN : Risky(p, ceiling)
    BY <1>1, <2>3 DEF Daemonise, Risky, procVars
  <2>4. ASSUME NEW b \in Parents, Fork(p, b) PROVE Started'
    <3>1. b \in Bin
      BY BinAssumption
    <3>2. /\ inc \in [Pid -> 0 .. MaxInc] /\ exe \in [Pid -> Bin \cup {NoBin}]
          /\ life \in [Pid -> {"none", "run", "stopped", "dying", "dead"}]
      BY <1>0 DEF TypeOK
    <3> QED
      BY <1>0, <2>4, <3>1, <3>2, BoundsAssumption DEF Fork, Started
  <2>5. CASE \E b \in Bin : ExecEnter(p, b)
    BY <1>1, <2>5 DEF ExecEnter
  <2> QED
    BY <2>1, <2>2, <2>3, <2>4, <2>5
<1>3. CASE Poller
  <2>1. ASSUME NEW hot, IngestRisky(hot) \/ IngestExec(hot)
        PROVE  UNCHANGED <<inc, exe>> /\ \A q \in Pid : life'[q] = "none" <=> life[q] = "none"
    <3>1. \E u, n, h : Score(u, n, h, hot)
      BY <2>1, Zenon DEF IngestRisky, IngestExec
    <3>2. \A q \in Pid : life'[q] = "none" <=> life[q] = "none"
      BY <1>0, <3>1, SignalLife DEF Score
    <3> QED
      BY <2>1, <3>2 DEF IngestRisky, IngestExec
  <2>2. CASE Ask
    BY <1>0, <1>1, <2>2, SignalLife DEF Ask
  <2> QED
    BY <1>1, <1>3, <2>1, <2>2
       DEF Poller, IngestFork, IngestExit, IngestTripMuted, IngestTrip, Lift, Lifted, Stopped, procVars
<1>4. CASE Take \/ (\E d \in Decision : Press(d)) \/ Manage \/ UNCHANGED vars
  BY <1>1, <1>4 DEF Take, Press, Manage, Flush, Flushed, Collect, Managed, PauseRule, RemoveRule,
                    Unblock, Reblock, vars, procVars
<1>5. CASE Resolve
  <2>1. CASE SendSignal
    BY <1>0, <1>1, <2>1, SignalLife DEF SendSignal
  <2> QED
    BY <1>1, <1>5, <2>1 DEF Resolve, Remember, Flag, Arm, Disarm, Unflag, procVars
<1> QED
  BY <1>2, <1>3, <1>4, <1>5 DEF Next

\* What the steps of the UI thread and of the poller between two events leave alone.
LEMMA UiIsStill ==
    Take \/ (\E d \in Decision : Press(d)) \/ Resolve \/ Manage \/ UNCHANGED vars => Still
  BY DEF Still, Take, Press, Resolve, Remember, Flag, Arm, Disarm, Unflag, SendSignal, Manage,
         Flush, Flushed, Collect, Managed, PauseRule, RemoveRule, Unblock, Reblock,
         vars, procVars, nodeVars

LEMMA StepKinds ==
    ASSUME IInv, [Next]_vars
    PROVE  Still \/ Reading \/ \E p \in Pid : Emitting(p)
  BY KernelEmits, PollerReads, UiIsStill DEF IInv, Next

LEMMA OrderStep == IInv /\ [Next]_vars => InOrder' /\ Behind'
<1> SUFFICES ASSUME IInv, [Next]_vars PROVE InOrder' /\ Behind'
  OBVIOUS
<1>0. /\ TypeOK /\ TypeOK' /\ InOrder /\ Behind
      /\ ring \in Seq(Event) /\ ring' \in Seq(Event)
      /\ inc \in [Pid -> 0 .. MaxInc] /\ cur \in [Pid -> 0 .. MaxInc]
      /\ inc' \in [Pid -> 0 .. MaxInc] /\ cur' \in [Pid -> 0 .. MaxInc] /\ MaxInc \in Nat
  BY TypeStep, BoundsAssumption DEF IInv, TypeOK
<1>a. \A q \in Pid : inc[q] \in Nat /\ inc'[q] \in Nat /\ cur[q] \in Nat /\ cur'[q] \in Nat
  <2>1. \A i \in 0 .. MaxInc : i \in Nat
    BY BoundsAssumption
  <2> QED
    BY <1>0, <2>1
<1>1. CASE Still
  BY <1>0, <1>1 DEF Still, InOrder, Behind
<1>2. CASE Reading
  <2> DEFINE e == ring[1]
  <2>1. /\ Len(ring') = Len(ring) - 1 /\ Len(ring) >= 1 /\ e \in Event
        /\ \A k \in 1 .. Len(ring') : k + 1 \in 1 .. Len(ring) /\ ring'[k] = ring[k + 1]
    BY <1>0, <1>2, PopRing DEF Reading
  <2>2. /\ \A k \in 1 .. Len(ring) : ring[k] \in Event
        /\ \A k \in 1 .. Len(ring') : ring'[k] \in Event
    BY <1>0
  <2>3. InOrder'
    <3> SUFFICES ASSUME NEW k \in 1 .. Len(ring')
                 PROVE  /\ ring'[k].inc <= inc'[ring'[k].pid]
                        /\ \A j \in 1 .. k - 1 : ring'[j].pid = ring'[k].pid =>
                               After(ring'[j].inc, ring'[k])
      BY DEF InOrder, After
    <3>1. k + 1 \in 1 .. Len(ring) /\ ring'[k] = ring[k + 1] /\ inc' = inc
      BY <1>2, <2>1 DEF Reading
    <3>2. \A j \in 1 .. k - 1 : j + 1 \in 1 .. (k + 1) - 1 /\ ring'[j] = ring[j + 1]
      BY <2>1
    <3> QED
      BY <1>0, <3>1, <3>2 DEF InOrder
  <2>4. Behind'
    <3> DEFINE p == e.pid
    <3>1. p \in Pid /\ 1 \in 1 .. Len(ring)
      BY <2>1 DEF Event
    <3>2. After(cur[p], e) /\ e.inc <= inc[p] /\ e.inc \in 1 .. MaxInc
      BY <1>0, <2>1, <3>1 DEF Behind, InOrder, Event
    <3>3. \A q \in Pid : cur'[q] = cur[q] \/ (q = p /\ cur'[q] <= e.inc)
      <4>1. CASE UNCHANGED cur
        BY <4>1
      <4>2. CASE e.type = "FORK" /\ cur' = [cur EXCEPT ![p] = @ + 1]
        BY <1>0, <3>1, <3>2, <4>2 DEF After
      <4>3. CASE cur[p] = 0 /\ cur' = [cur EXCEPT ![p] = 1]
        BY <1>0, <3>1, <3>2, <4>3
      <4> QED
        BY <1>2, <4>1, <4>2, <4>3, Zenon DEF Reading
    <3>4. \A q \in Pid : cur'[q] <= inc'[q]
      <4>1. inc' = inc /\ e.inc \in Nat
        BY <1>2, <3>2, BoundsAssumption DEF Reading
      <4>2. \A q \in Pid : cur[q] <= inc[q]
        BY <1>0 DEF Behind
      <4> QED
        BY <1>a, <3>2, <3>3, <4>1, <4>2
    <3>5. ASSUME NEW k \in 1 .. Len(ring') PROVE After(cur'[ring'[k].pid], ring'[k])
      <4>1. k + 1 \in 1 .. Len(ring) /\ ring'[k] = ring[k + 1] /\ 1 \in 1 .. (k + 1) - 1
        BY <2>1
      <4> DEFINE f == ring[k + 1]
      <4>2. f \in Event /\ After(cur[f.pid], f) /\ (f.pid = p => After(e.inc, f))
        BY <1>0, <2>2, <4>1 DEF Behind, InOrder
      <4>3. f.pid \in Pid /\ f.inc \in Nat /\ cur[f.pid] \in Nat /\ cur'[f.pid] \in Nat
        BY <1>a, <4>2 DEF Event
      <4>4. ring'[k] = f
        BY <4>1
      <4> HIDE DEF f
      <4>5. After(cur'[f.pid], f)
        BY <3>2, <3>3, <4>2, <4>3 DEF After
      <4> QED
        BY <4>4, <4>5, Zenon
    <3> QED
      BY <3>4, <3>5 DEF Behind, After
  <2> QED
    BY <2>3, <2>4
<1>3. ASSUME NEW p \in Pid, Emitting(p) PROVE InOrder' /\ Behind'
  <2>1. inc'[p] \in {inc[p], inc[p] + 1} /\ \A q \in Pid \ {p} : inc'[q] = inc[q]
    BY <1>0, <1>3 DEF Emitting
  <2>2. /\ \A k \in 1 .. Len(ring) : ring[k] \in Event
        /\ \A k \in 1 .. Len(ring') : ring'[k] \in Event
    BY <1>0
  <2>3. \A k \in 1 .. Len(ring) : ring[k].pid \in Pid /\ ring[k].inc \in Nat
    BY <2>2 DEF Event
  <2>4. \A q \in Pid : inc[q] \in Nat /\ inc'[q] \in Nat /\ inc[q] <= inc'[q] /\ cur[q] \in Nat
    BY <1>a, <2>1
  <2>5. InOrder'
    <3> SUFFICES ASSUME NEW k \in 1 .. Len(ring')
                 PROVE  /\ ring'[k].inc <= inc'[ring'[k].pid]
                        /\ \A j \in 1 .. k - 1 : ring'[j].pid = ring'[k].pid =>
                               After(ring'[j].inc, ring'[k])
      BY DEF InOrder, After
    <3>1. CASE k <= Len(ring)
      <4>1. k \in 1 .. Len(ring) /\ ring'[k] = ring[k] /\ \A j \in 1 .. k - 1 : ring'[j] = ring[j]
        BY <1>0, <1>3, <3>1 DEF Emitting
      <4>2. /\ ring[k].inc <= inc[ring[k].pid]
            /\ \A j \in 1 .. k - 1 : ring[j].pid = ring[k].pid => After(ring[j].inc, ring[k])
        BY <1>0, <4>1 DEF InOrder
      <4>3. ring[k].inc <= inc'[ring[k].pid]
        BY <2>3, <2>4, <4>1, <4>2
      <4> QED
        BY <4>1, <4>2, <4>3
    <3>2. CASE k > Len(ring)
      <4>1. /\ ring'[k].pid = p /\ ring'[k].inc = inc'[p]
            /\ ring'[k].type = "FORK" => k = Len(ring) + 1 /\ inc'[p] = inc[p] + 1
        BY <1>3, <3>2 DEF Emitting
      <4>2. ASSUME NEW j \in 1 .. k - 1, ring'[j].pid = p PROVE After(ring'[j].inc, ring'[k])
        <5>1. CASE j <= Len(ring)
          <6>1. j \in 1 .. Len(ring) /\ ring'[j] = ring[j]
            BY <1>0, <1>3, <5>1 DEF Emitting
          <6>2. ring[j].inc <= inc[p] /\ ring[j].inc \in Nat
            BY <1>0, <2>3, <4>2, <6>1 DEF InOrder
          <6> QED
            BY <2>4, <4>1, <6>1, <6>2 DEF After
        <5>2. CASE j > Len(ring)
          <6>1. j \in 1 .. Len(ring') /\ ring'[j].inc = inc'[p] /\ k # Len(ring) + 1
            BY <1>0, <1>3, <5>2 DEF Emitting
          <6> QED
            BY <2>4, <4>1, <6>1 DEF After
        <5> QED
          BY <1>0, <5>1, <5>2
      <4> QED
        BY <2>4, <4>1, <4>2
    <3> QED
      BY <1>0, <3>1, <3>2
  <2>6. Behind'
    <3>1. cur' = cur /\ \A q \in Pid : cur'[q] <= inc'[q]
      BY <1>0, <1>3, <2>4 DEF Emitting, Behind
    <3>2. ASSUME NEW k \in 1 .. Len(ring') PROVE After(cur'[ring'[k].pid], ring'[k])
      <4>1. CASE k <= Len(ring)
        <5>1. k \in 1 .. Len(ring) /\ ring'[k] = ring[k]
          BY <1>0, <1>3, <4>1 DEF Emitting
        <5> QED
          BY <1>0, <3>1, <5>1 DEF Behind
      <4>2. CASE k > Len(ring)
        <5>1. /\ ring'[k].pid = p /\ ring'[k].inc = inc'[p]
              /\ ring'[k].type = "FORK" => inc'[p] = inc[p] + 1
          BY <1>3, <4>2 DEF Emitting
        <5>2. cur[p] <= inc[p]
          BY <1>0 DEF Behind
        <5> QED
          BY <2>4, <3>1, <5>1, <5>2 DEF After
      <4> QED
        BY <1>0, <4>1, <4>2
    <3> QED
      BY <3>1, <3>2 DEF Behind, After
  <2> QED
    BY <2>5, <2>6
<1> QED
  BY <1>1, <1>2, <1>3, StepKinds

LEMMA PlacedStep == IInv /\ [Next]_vars => Placed'
<1> SUFFICES ASSUME IInv, [Next]_vars PROVE Placed'
  OBVIOUS
<1>0. TypeOK /\ TypeOK' /\ Placed
  BY TypeStep DEF IInv
<1>1. CASE UNCHANGED <<poll, pnode>>
  <2>1. CASE UNCHANGED <<ui, asked>>
    BY <1>0, <1>1, <2>1 DEF Placed
  <2>2. CASE Take
    BY <1>0, <1>1, <2>2 DEF Placed, Take, TypeOK, Answering
  <2>3. CASE (\E d \in Decision : Press(d)) \/ Resolve
    <3>1. asked' = asked \/ ui' = "idle"
      BY <2>3 DEF Press, AfterAnswer, Resolve, Remember, Flag, Arm, Disarm, Unflag, SendSignal
    <3>2. asked \in Uid
      BY <1>0, <2>3 DEF Press, Resolve, Remember, Flag, Arm, Disarm, Unflag, SendSignal,
                        Placed, Answering
    <3> QED
      BY <1>0, <1>1, <3>1, <3>2 DEF Placed, Answering
  <2>4. CASE Manage
    BY <1>0, <1>1, <2>4 DEF Manage, Flush, Flushed, Collect, Managed, PauseRule, RemoveRule,
                            Unblock, Reblock, Placed, Answering
  <2>5. UNCHANGED <<ui, asked>> \/ Take \/ (\E d \in Decision : Press(d)) \/ Resolve \/ Manage
    BY <1>1 DEF Next, Kernel, Die, ExecCheck, Daemonise, Fork, ExecEnter, Risky, uiVars, vars,
                Poller, IngestFork, IngestExit, IngestRisky, IngestExec, IngestTripMuted,
                IngestTrip, Lift, Lifted, Ask, Stopped
  <2> QED
    BY <2>1, <2>2, <2>3, <2>4, <2>5
<1>2. CASE IngestTrip
  <2>1. Head(ring).pid \in Pid
    BY <1>0, <1>2, PopRing DEF IngestTrip, Top, Event
  <2> DEFINE p == Head(ring).pid
  <2>2. /\ Now(p) \in Pid \X (0 .. MaxInc)
        /\ Has(Now(p)) => Now(p) \in Uid
    BY <1>0, <2>1, NowType
  <2>3. UNCHANGED uiVars /\ pnode' = IF poll' = "idle" THEN NoUid ELSE Now(p)
    BY <1>2 DEF IngestTrip
  <2>4. poll' \in {"idle", "lift"} \/ (poll' = "ask" /\ Has(Now(p)))
    <3> DEFINE h == IF thash[p] # NoBin THEN thash[p] ELSE OnDisk(p)
    <3>1. poll' = CASE Verdict(h) = "block" -> "idle"
                    [] Verdict(h) = "allow" -> "lift"
                    [] Verdict(h) = "none"  -> IF Has(Now(p)) THEN "ask" ELSE "idle"
      BY <1>2 DEF IngestTrip
    <3>2. Verdict(h) \in {"block", "allow", "none"}
      BY DEF Verdict
    <3> QED
      BY <3>1, <3>2
  <2> QED
    BY <1>0, <2>2, <2>3, <2>4 DEF Placed, uiVars
<1>3. CASE Lift \/ Lifted \/ Ask \/ Stopped
  BY <1>0, <1>3 DEF Lift, Lifted, Ask, Stopped, Placed, uiVars
<1>4. UNCHANGED <<poll, pnode>> \/ IngestTrip \/ Lift \/ Lifted \/ Ask \/ Stopped
  BY DEF Next, Kernel, Die, ExecCheck, Daemonise, Fork, ExecEnter, Risky, pollVars, vars,
         Poller, IngestFork, IngestExit, IngestRisky, IngestExec, IngestTripMuted,
         Take, Press, Resolve, Remember, Flag, Arm, Disarm, Unflag, SendSignal,
         Manage, Flush, Flushed, Collect, Managed, PauseRule, RemoveRule, Unblock, Reblock
<1> QED
  BY <1>1, <1>2, <1>3, <1>4

\* Every state is of its type, whatever order events, answers and rules come in.
THEOREM TypeCorrect == Spec => []TypeOK
<1>1. Init => IInv
  BY InitIInv
<1>2. IInv /\ [Next]_vars => IInv'
  BY TypeStep, StartedStep, OrderStep, PlacedStep DEF IInv
<1>3. IInv => TypeOK
  BY DEF IInv
<1> QED
  BY <1>1, <1>2, <1>3, PTL DEF Spec

LEMMA InductiveIInv == Spec => []IInv
<1>1. IInv /\ [Next]_vars => IInv'
  BY TypeStep, StartedStep, OrderStep, PlacedStep DEF IInv
<1> QED
  BY <1>1, InitIInv, PTL DEF Spec

-----------------------------------------------------------------------------
(* Trust.  A trusted node that is not dead is in exempt_tgids; a dead one  *)
(* is that of a process that ended, for its EXIT came after its making.    *)

Latest(p) == At(Now(p))

Trusted == \A p \in Pid : Has(Now(p)) /\ ~Latest(p).dead /\ Latest(p).exempt => p \in kexempt

DeadIsGone ==
    \A p \in Pid : Has(Now(p)) /\ Latest(p).dead => Latest(p).of < inc[p] \/ life[p] = "dead"

ExitIsGone ==
    \A k \in 1 .. Len(ring) : ring[k].type = "EXIT" =>
        ring[k].inc < inc[ring[k].pid] \/ life[ring[k].pid] = "dead"

OfBehind ==
    \A p \in Pid : Has(Now(p)) =>
        /\ Latest(p).of <= inc[p]
        /\ \A k \in 1 .. Len(ring) : ring[k].pid = p => Latest(p).of <= ring[k].inc

TInv == Trusted /\ DeadIsGone /\ ExitIsGone /\ OfBehind

LEMMA LatestIs ==
    ASSUME TypeOK, NEW p \in Pid
    PROVE  /\ Latest(p) = node[p][cur[p]] /\ (Has(Now(p)) <=> cur[p] # 0)
           /\ Latest(p)' = node'[p][cur'[p]] /\ (Has(Now(p))' <=> cur'[p] # 0)
           /\ cur[p] # 0 => Latest(p) \in Node /\ cur[p] \in 1 .. MaxInc
<1>1. /\ Latest(p) = node[p][cur[p]] /\ (Has(Now(p)) <=> cur[p] # 0)
      /\ Latest(p)' = node'[p][cur'[p]] /\ (Has(Now(p))' <=> cur'[p] # 0)
  BY DEF Latest, At, Now, Has
<1>2. cur[p] # 0 => Now(p) \in Uid /\ cur[p] \in 1 .. MaxInc
  BY <1>1, NowType
<1> QED
  BY <1>1, <1>2, AtType DEF Latest

\* What scoring an event leaves at the node of its process.
ScoredAs(m, n) ==
    /\ m \in Node /\ m.of = n.of /\ m.dead = n.dead /\ m.exempt = n.exempt
    /\ m.blocked = n.blocked

LEMMA ScoreNode ==
    ASSUME TypeOK, NEW u \in Uid, NEW n \in Node, NEW h \in Bin \cup {NoBin}, NEW hot,
           Score(u, n, h, hot)
    PROVE  \E m : ScoredAs(m, n) /\ Put(u, m)
<1>1. CASE Suspends(n, hot)
  <2> DEFINE k == PromptHash(n, u[1], h)
             m == [n EXCEPT !.frozen = TRUE, !.pending = TRUE, !.hash = k]
  <2>1. k \in Bin \cup {NoBin}
    BY PromptHashType DEF Uid
  <2>2. Put(u, m)
    BY <1>1 DEF Score
  <2> HIDE DEF k
  <2>3. ScoredAs(m, n)
    BY <2>1 DEF ScoredAs, Node
  <2> QED
    BY <2>2, <2>3
<1>2. CASE ~Suspends(n, hot)
  BY <1>2 DEF Score, ScoredAs
<1> QED
  BY <1>1, <1>2

\* The event's process before and after: it keeps the node it has, or gets one.
LEMMA IngestedNode ==
    ASSUME TypeOK, NEW hot, IngestRisky(hot) \/ IngestExec(hot)
    PROVE  LET e == ring[1]
               p == e.pid
           IN  /\ e \in Event /\ ring # <<>> /\ ring' = Tail(ring) /\ UNCHANGED inc
               /\ Head(ring) = e
               /\ \A q \in Pid \ {p} :
                      /\ cur'[q] = cur[q] /\ node'[q] = node[q]
                      /\ q \in kexempt' <=> q \in kexempt
               /\ cur'[p] = (IF cur[p] = 0 THEN 1 ELSE cur[p])
               /\ node'[p][cur'[p]] \in Node
               /\ node'[p][cur'[p]].of = EnsureNode(e).of
               /\ node'[p][cur'[p]].dead = EnsureNode(e).dead
<1> DEFINE e == ring[1]
           p == e.pid
           u == EnsureUid(p)
<1>0. ring # <<>> /\ ring' = Tail(ring) /\ UNCHANGED inc
  BY DEF IngestRisky, IngestExec, Top
<1>1. Head(ring) = e /\ e \in Event /\ p \in Pid
  BY <1>0, PopRing DEF Event
<1>2. u \in Uid /\ u[1] = p /\ EnsureNode(e) \in Node
  BY <1>1, EnsureType
<1>3. \E n \in Node, h \in Bin \cup {NoBin} :
          /\ n.of = EnsureNode(e).of /\ n.dead = EnsureNode(e).dead
          /\ Score(u, n, h, hot)
  <2>1. CASE IngestRisky(hot)
    <3>1. Score(u, EnsureNode(e), thash[p], hot)
      BY <1>1, <2>1 DEF IngestRisky
    <3>2. thash[p] \in Bin \cup {NoBin}
      BY <1>1 DEF TypeOK
    <3> QED
      BY <1>2, <3>1, <3>2
  <2>2. CASE IngestExec(hot)
    <3> DEFINE n == Judged(Renamed(EnsureNode(e), e))
    <3>1. Score(u, n, n.hash, hot)
      BY <1>1, <2>2 DEF IngestExec
    <3>2. n \in Node
      BY <1>1, <1>2, JudgedType
    <3>3. n.of = EnsureNode(e).of /\ n.dead = EnsureNode(e).dead
      BY <1>2 DEF Judged, Renamed, Node
    <3> HIDE DEF n
    <3>4. n.hash \in Bin \cup {NoBin}
      BY <3>2 DEF Node
    <3> QED
      BY <3>1, <3>2, <3>3, <3>4
  <2> QED
    BY <2>1, <2>2
<1>4. PICK m \in Node : /\ Put(u, m) /\ m.of = EnsureNode(e).of /\ m.dead = EnsureNode(e).dead
  BY <1>2, <1>3, ScoreNode DEF ScoredAs
<1>5. cur' = [cur EXCEPT ![p] = IF @ = 0 THEN 1 ELSE @] /\ \E on : Trust(p, on)
  BY <1>1 DEF IngestRisky, IngestExec, Ensure
<1>6. cur \in [Pid -> 0 .. MaxInc] /\ node \in [Pid -> [1 .. MaxInc -> Node]]
  BY DEF TypeOK
<1>7. cur'[p] = (IF cur[p] = 0 THEN 1 ELSE cur[p]) /\ u = <<p, cur'[p]>>
  BY <1>1, <1>5, <1>6 DEF EnsureUid, Now, Has
<1>8. node'[p][cur'[p]] = m
  <2>1. node'[u[1]][u[2]] = m
    BY <1>2, <1>4, PutNode
  <2> QED
    BY <1>7, <2>1
<1>9. \A q \in Pid \ {p} : cur'[q] = cur[q] /\ node'[q] = node[q]
  BY <1>2, <1>4, <1>5, <1>6 DEF Put
<1>10. \A q \in Pid \ {p} : q \in kexempt' <=> q \in kexempt
  BY <1>5 DEF Trust
<1> QED
  BY <1>0, <1>1, <1>4, <1>7, <1>8, <1>9, <1>10

\* How a step may move the latest nodes: not at all; a new one for the process whose event
\* is read; the end of the one whose EXIT is read.
StaysAt(q) == /\ cur'[q] = cur[q]
              /\ cur[q] # 0 => /\ node'[q][cur[q]].of = node[q][cur[q]].of
                               /\ node'[q][cur[q]].dead = node[q][cur[q]].dead
NodesStay  == \A q \in Pid : StaysAt(q)
Begins == LET e == ring[1]
              p == e.pid
          IN  /\ \A q \in Pid \ {p} : StaysAt(q)
              /\ cur'[p] # 0
              /\ node'[p][cur'[p]].of = e.inc /\ node'[p][cur'[p]].dead = FALSE
Ends   == LET e == ring[1]
              p == e.pid
          IN  /\ \A q \in Pid \ {p} : StaysAt(q)
              /\ e.type = "EXIT" /\ cur'[p] = cur[p] /\ cur[p] # 0
              /\ node'[p][cur[p]].of = node[p][cur[p]].of

LEMMA PutStays ==
    ASSUME TypeOK, NEW u \in Uid, NEW n \in Node, Put(u, n), UNCHANGED cur,
           n.of = At(u).of, n.dead = At(u).dead
    PROVE  NodesStay
<1> SUFFICES ASSUME NEW q \in Pid, cur[q] # 0
             PROVE  /\ node'[q][cur[q]].of = node[q][cur[q]].of
                    /\ node'[q][cur[q]].dead = node[q][cur[q]].dead
  BY DEF NodesStay, StaysAt
<1>1. Now(q) \in Uid /\ Now(q)[1] = q /\ Now(q)[2] = cur[q]
  BY NowType DEF Has
<1>2. node'[q][cur[q]] = IF Now(q) = u THEN n ELSE node[q][cur[q]]
  BY <1>1, PutNode DEF At
<1>3. At(Now(q)) = node[q][cur[q]]
  BY <1>1 DEF At
<1> QED
  BY <1>2, <1>3

LEMMA SameStays == UNCHANGED <<cur, node>> => NodesStay
  BY DEF NodesStay, StaysAt

LEMMA PollerNodes ==
    ASSUME IInv, Poller
    PROVE  NodesStay \/ (Reading /\ Begins) \/ (Reading /\ Ends)
<1>0. TypeOK /\ Placed
  BY DEF IInv
<1>r. Poller /\ ring # <<>> /\ ring' = Tail(ring) => Reading
  <2>1. ASSUME Still, ring # <<>>, ring' = Tail(ring) PROVE FALSE
    BY <1>0, <2>1, PopRing DEF Still
  <2> QED
    BY <2>1, PollerReads
<1>1. CASE IngestFork
  <2>1. Top("FORK") /\ ring # <<>> /\ ring' = Tail(ring)
    BY <1>1 DEF IngestFork, Top
  <2>2. /\ ring[1] \in Event /\ ring[1].pid \in Pid
        /\ cur[ring[1].pid] \in Nat /\ cur[ring[1].pid] + 1 \in 1 .. MaxInc
    BY <2>1, ForkRoom DEF Event
  <2>3. cur \in [Pid -> 0 .. MaxInc]
    BY <1>0 DEF TypeOK
  <2>4. /\ cur' = [cur EXCEPT ![ring[1].pid] = @ + 1]
        /\ \A q \in Pid \ {ring[1].pid} : node'[q] = node[q]
        /\ node'[ring[1].pid][cur[ring[1].pid] + 1] = Made(ring[1])
    BY <1>1, <2>2, ForkNode
  <2>5. Made(ring[1]).of = ring[1].inc /\ Made(ring[1]).dead = FALSE
    BY DEF Made, Blank
  <2>6. Begins
    BY <2>2, <2>3, <2>4, <2>5 DEF Begins, StaysAt
  <2> QED
    BY <1>1, <1>r, <2>1, <2>6 DEF Poller
<1>2. CASE IngestExit
  <2>1. Top("EXIT") /\ ring # <<>> /\ ring' = Tail(ring) /\ UNCHANGED cur
    BY <1>2 DEF IngestExit, Top
  <2>2. Head(ring) = ring[1] /\ ring[1] \in Event /\ ring[1].type = "EXIT"
    BY <1>0, <2>1, PopRing DEF Top
  <2> DEFINE p == ring[1].pid
  <2>3. p \in Pid
    BY <2>2 DEF Event
  <2>4. CASE ~Has(Now(p))
    <3>1. UNCHANGED node
      BY <1>2, <2>2, <2>4 DEF IngestExit
    <3> QED
      BY <2>1, <3>1, SameStays
  <2>5. CASE Has(Now(p))
    <3> DEFINE n == [At(Now(p)) EXCEPT !.dead = TRUE, !.blocked = FALSE]
    <3>1. Now(p) \in Uid /\ At(Now(p)) \in Node /\ Now(p) = <<p, cur[p]>> /\ cur[p] # 0
      BY <1>0, <2>3, <2>5, NowType, AtType DEF Now, Has
    <3>2. n \in Node /\ n.of = At(Now(p)).of
      BY <3>1 DEF Node
    <3>3. Put(Now(p), n)
      BY <1>2, <2>2, <2>5 DEF IngestExit
    <3> HIDE DEF n
    <3>4. node'[p][cur[p]] = n
      BY <1>0, <3>1, <3>2, <3>3, PutNode
    <3>5. \A q \in Pid \ {p} : node'[q] = node[q]
      BY <1>0, <2>3, <3>1, <3>3 DEF Put, TypeOK
    <3>6. Ends
      BY <2>1, <2>2, <3>1, <3>2, <3>4, <3>5 DEF Ends, StaysAt, At
    <3> QED
      BY <1>2, <1>r, <2>1, <3>6 DEF Poller
  <2> QED
    BY <2>4, <2>5
<1>3. ASSUME NEW hot \in BOOLEAN, IngestRisky(hot) \/ IngestExec(hot)
      PROVE  NodesStay \/ (Reading /\ Begins)
  <2> DEFINE e == ring[1]
             p == e.pid
  <2>1. /\ e \in Event /\ ring # <<>> /\ ring' = Tail(ring)
        /\ \A q \in Pid \ {p} : cur'[q] = cur[q] /\ node'[q] = node[q]
        /\ cur'[p] = (IF cur[p] = 0 THEN 1 ELSE cur[p])
        /\ node'[p][cur'[p]].of = EnsureNode(e).of
        /\ node'[p][cur'[p]].dead = EnsureNode(e).dead
    BY <1>0, <1>3, IngestedNode
  <2>2. p \in Pid
    BY <2>1 DEF Event
  <2>3. CASE cur[p] # 0
    <3>1. EnsureNode(e) = node[p][cur[p]] /\ cur'[p] = cur[p]
      BY <2>1, <2>3 DEF EnsureNode, Has, Now, At
    <3> QED
      BY <2>1, <3>1 DEF NodesStay, StaysAt
  <2>4. CASE cur[p] = 0
    <3>1. EnsureNode(e) = Made(e) /\ cur'[p] = 1
      BY <2>1, <2>4 DEF EnsureNode, Has, Now
    <3>2. Made(e).of = e.inc /\ Made(e).dead = FALSE
      BY DEF Made, Blank
    <3>3. Begins
      <4>1. \A q \in Pid \ {p} : StaysAt(q)
        BY <2>1 DEF StaysAt
      <4>2. cur'[p] # 0 /\ node'[p][cur'[p]].of = e.inc /\ node'[p][cur'[p]].dead = FALSE
        BY <2>1, <3>1, <3>2
      <4> QED
        BY <4>1, <4>2 DEF Begins
    <3>4. Reading
      BY <1>3, <1>r, <2>1 DEF Poller
    <3> QED
      BY <3>3, <3>4
  <2> QED
    BY <2>3, <2>4
<1>4. CASE IngestTripMuted \/ Ask
  BY <1>4, SameStays DEF IngestTripMuted, Ask, nodeVars
<1>5. CASE IngestTrip
  <2>1. ring # <<>> /\ ring' = Tail(ring) /\ UNCHANGED cur
    BY <1>5 DEF IngestTrip, Top
  <2>2. Head(ring).pid \in Pid
    BY <1>0, <2>1, PopRing DEF Event
  <2> DEFINE u == Now(Head(ring).pid)
  <2>3. CASE Has(u)
    <3>1. u \in Uid /\ At(u) \in Node
      BY <1>0, <2>2, <2>3, NowType, AtType
    <3>2. Put(u, [At(u) EXCEPT !.blocked = TRUE])
      BY <1>5, <2>3 DEF IngestTrip
    <3>3. /\ [At(u) EXCEPT !.blocked = TRUE] \in Node
          /\ [At(u) EXCEPT !.blocked = TRUE].of = At(u).of
          /\ [At(u) EXCEPT !.blocked = TRUE].dead = At(u).dead
      BY <3>1 DEF Node
    <3> QED
      BY <1>0, <2>1, <3>1, <3>2, <3>3, PutStays
  <2>4. CASE ~Has(u)
    BY <1>5, <2>1, <2>4, SameStays DEF IngestTrip
  <2> QED
    BY <2>3, <2>4
<1>6. CASE Lift
  BY <1>6, SameStays DEF Lift, nodeVars
<1>7. CASE Lifted
  <2>1. pnode \in Pid \X (0 .. MaxInc) /\ UNCHANGED cur
    BY <1>0, <1>7 DEF Placed, Lifted
  <2>2. CASE Has(pnode)
    <3> DEFINE n == [At(pnode) EXCEPT !.blocked = FALSE, !.exempt = TRUE]
    <3>1. pnode \in Uid
      BY <2>1, <2>2, BoundsAssumption DEF Has, Uid
    <3>2. n \in Node /\ n.of = At(pnode).of /\ n.dead = At(pnode).dead
      BY <1>0, <3>1, AtType DEF Node
    <3>3. Put(pnode, n)
      BY <1>7, <2>2 DEF Lifted
    <3> HIDE DEF n
    <3> QED
      BY <1>0, <2>1, <3>1, <3>2, <3>3, PutStays
  <2>3. CASE ~Has(pnode)
    BY <1>7, <2>1, <2>3, SameStays DEF Lifted
  <2> QED
    BY <2>2, <2>3
<1>8. CASE Stopped
  <2> DEFINE k == PromptHash(At(pnode), pnode[1], thash[pnode[1]])
             n == [At(pnode) EXCEPT !.frozen = TRUE, !.pending = TRUE, !.hash = k]
  <2>1. pnode \in Uid /\ pnode[1] \in Pid /\ UNCHANGED cur
    BY <1>0, <1>8 DEF Placed, Stopped, Uid
  <2>2. At(pnode) \in Node /\ thash[pnode[1]] \in Bin \cup {NoBin}
    BY <1>0, <2>1, AtType DEF TypeOK
  <2>3. k \in Bin \cup {NoBin}
    BY <1>0, <2>1, <2>2, PromptHashType
  <2>4. Put(pnode, n)
    BY <1>8 DEF Stopped
  <2> HIDE DEF k
  <2>5. n \in Node /\ n.of = At(pnode).of /\ n.dead = At(pnode).dead
    BY <2>2, <2>3 DEF Node
  <2> HIDE DEF n
  <2> QED
    BY <1>0, <2>1, <2>4, <2>5, PutStays
<1> QED
  BY <1>1, <1>2, <1>3, <1>4, <1>5, <1>6, <1>7, <1>8 DEF Poller

LEMMA UiNodes ==
    ASSUME IInv, Take \/ (\E d \in Decision : Press(d)) \/ Resolve \/ Manage \/ UNCHANGED vars
    PROVE  NodesStay
<1>0. TypeOK /\ Placed
  BY DEF IInv
<1>1. CASE UNCHANGED <<cur, node>>
  BY <1>1, SameStays
<1>b. ASSUME NEW u \in Uid, NEW b \in BOOLEAN, Put(u, [At(u) EXCEPT !.blocked = b]), UNCHANGED cur
      PROVE  NodesStay
  <2>1. At(u) \in Node
    BY <1>0, AtType
  <2>2. /\ [At(u) EXCEPT !.blocked = b] \in Node
        /\ [At(u) EXCEPT !.blocked = b].of = At(u).of
        /\ [At(u) EXCEPT !.blocked = b].dead = At(u).dead
    BY <2>1 DEF Node
  <2> QED
    BY <1>0, <1>b, <2>2, PutStays
<1>2. ASSUME NEW d \in Decision, Press(d) PROVE NodesStay
  <2>1. asked \in Uid /\ UNCHANGED cur /\ Put(asked, Answered(At(asked), d))
    BY <1>0, <1>2 DEF Press, Placed, Answering
  <2>2. At(asked) \in Node
    BY <1>0, <2>1, AtType
  <2>3. Answered(At(asked), d) \in Node
    BY <2>2, AnsweredType
  <2>4. Answered(At(asked), d).of = At(asked).of /\ Answered(At(asked), d).dead = At(asked).dead
    BY <2>2 DEF Answered, Node
  <2> QED
    BY <1>0, <2>1, <2>3, <2>4, PutStays
<1>3. CASE Flag
  <2> DEFINE bl == dec = "d"
             ex == At(asked).exempt \/ dec = "l"
  <2>1. bl \in BOOLEAN /\ ex \in BOOLEAN
    OBVIOUS
  <2>2. /\ asked \in Uid /\ UNCHANGED cur
        /\ Put(asked, [At(asked) EXCEPT !.frozen = FALSE, !.blocked = bl, !.exempt = ex])
    BY <1>0, <1>3 DEF Flag, Placed, Answering
  <2> HIDE DEF bl, ex
  <2> DEFINE n == [At(asked) EXCEPT !.frozen = FALSE, !.blocked = bl, !.exempt = ex]
  <2>3. At(asked) \in Node
    BY <1>0, <2>2, AtType
  <2>4. n \in Node /\ n.of = At(asked).of /\ n.dead = At(asked).dead
    BY <2>1, <2>3 DEF Node
  <2> HIDE DEF n
  <2> QED
    BY <1>0, <2>2, <2>4, PutStays DEF n
<1>4. CASE Unflag
  BY <1>0, <1>4, <1>b DEF Unflag, Placed, Answering
<1>5. CASE Flushed
  <2>1. /\ UNCHANGED cur
        /\ node' = [p \in Pid |-> [i \in 1 .. MaxInc |-> [node[p][i] EXCEPT !.blocked = FALSE]]]
    BY <1>5 DEF Flushed
  <2> SUFFICES ASSUME NEW q \in Pid, cur[q] # 0
               PROVE  /\ node'[q][cur[q]].of = node[q][cur[q]].of
                      /\ node'[q][cur[q]].dead = node[q][cur[q]].dead
    BY <2>1 DEF NodesStay, StaysAt
  <2>2. cur[q] \in 1 .. MaxInc /\ node[q][cur[q]] \in Node
    BY <1>0, LatestIs
  <2>3. node'[q][cur[q]] = [node[q][cur[q]] EXCEPT !.blocked = FALSE]
    BY <2>1, <2>2
  <2> QED
    BY <2>2, <2>3 DEF Node
<1>6. ASSUME NEW p \in Pid, Unblock(p) \/ Reblock(p) PROVE NodesStay
  <2>1. UNCHANGED cur /\
        \/ UNCHANGED node
        \/ Has(Now(p)) /\ \E b \in BOOLEAN : Put(Now(p), [At(Now(p)) EXCEPT !.blocked = b])
    BY <1>6, Zenon DEF Unblock, Reblock, Reblockable
  <2>2. Has(Now(p)) => Now(p) \in Uid
    BY <1>0, NowType
  <2> QED
    BY <1>1, <1>b, <2>1, <2>2
<1> QED
  BY <1>1, <1>2, <1>3, <1>4, <1>5, <1>6
     DEF Take, Resolve, Remember, Arm, Disarm, SendSignal, Manage, Flush, Collect, Managed,
         PauseRule, RemoveRule, nodeVars, vars

\* Every step moves the ring and the nodes in one of these ways.
LEMMA NodeKinds ==
    ASSUME IInv, [Next]_vars
    PROVE  \/ Still /\ NodesStay
           \/ Reading /\ (NodesStay \/ Begins \/ Ends)
           \/ \E p \in Pid : Emitting(p) /\ NodesStay
<1>1. CASE Kernel
  BY <1>1, KernelEmits, SameStays DEF IInv, Emitting
<1>2. CASE Poller
  BY <1>2, PollerReads, PollerNodes
<1>3. CASE Take \/ (\E d \in Decision : Press(d)) \/ Resolve \/ Manage \/ UNCHANGED vars
  BY <1>3, UiNodes, UiIsStill
<1> QED
  BY <1>1, <1>2, <1>3 DEF Next

\* The dead stay dead, unless their pid begins a new process.
LEMMA LifeStep ==
    ASSUME IInv, [Next]_vars, NEW p \in Pid, life[p] = "dead"
    PROVE  life'[p] = "dead" \/ inc[p] < inc'[p]
<1>0. TypeOK /\ life \in [Pid -> {"none", "run", "stopped", "dying", "dead"}] /\ inc[p] \in Nat
  BY BoundsAssumption DEF IInv, TypeOK
<1>1. ASSUME UNCHANGED life \/ \E q, sig : Signal(q, sig)
      PROVE  life'[p] = "dead"
  BY <1>0, <1>1, SignalLife
<1>2. CASE Kernel
  <2> PICK q \in Pid : \/ Die(q) \/ ExecCheck(q) \/ Daemonise(q)
                       \/ \E b \in Parents : Fork(q, b)
                       \/ \E b \in Bin : ExecEnter(q, b)
                       \/ \E ceiling \in BOOLEAN : Risky(q, ceiling)
    BY <1>2, Zenon DEF Kernel
  <2>1. CASE Die(q)
    BY <1>0, <2>1 DEF Die
  <2>2. CASE \E b \in Parents : Fork(q, b)
    BY <1>0, <2>2 DEF Fork, IInv, TypeOK
  <2> QED
    BY <1>1, <2>1, <2>2 DEF ExecCheck, Daemonise, ExecEnter, Risky, procVars
<1>3. CASE Poller
  <2>1. ASSUME NEW hot, IngestRisky(hot) \/ IngestExec(hot) PROVE life'[p] = "dead"
    <3>1. \E u, n, h : Score(u, n, h, hot)
      BY <2>1, Zenon DEF IngestRisky, IngestExec
    <3> QED
      BY <1>1, <3>1 DEF Score
  <2> QED
    BY <1>1, <1>3, <2>1
       DEF Poller, IngestFork, IngestExit, IngestTripMuted, IngestTrip, Lift, Lifted, Ask,
           Stopped, procVars
<1>4. CASE Take \/ (\E d \in Decision : Press(d)) \/ Resolve \/ Manage \/ UNCHANGED vars
  BY <1>1, <1>4 DEF Take, Press, Resolve, Remember, Flag, Arm, Disarm, Unflag, SendSignal,
                    Manage, Flush, Flushed, Collect, Managed, PauseRule, RemoveRule,
                    Unblock, Reblock, vars, procVars
<1> QED
  BY <1>2, <1>3, <1>4 DEF Next


LEMMA IncStep ==
    ASSUME IInv, [Next]_vars
    PROVE  \A p \in Pid : inc[p] \in Nat /\ inc'[p] \in Nat /\ inc[p] <= inc'[p]
<1>1. inc \in [Pid -> 0 .. MaxInc] /\ \A i \in 0 .. MaxInc : i \in Nat
  BY BoundsAssumption DEF IInv, TypeOK
<1> QED
  BY <1>1, StepKinds DEF Still, Reading, Emitting

LEMMA ExitIsGoneStep == IInv /\ ExitIsGone /\ [Next]_vars => ExitIsGone'
<1> SUFFICES ASSUME IInv, ExitIsGone, [Next]_vars PROVE ExitIsGone'
  OBVIOUS
<1>0. /\ TypeOK /\ TypeOK' /\ ring \in Seq(Event) /\ ring' \in Seq(Event)
      /\ \A p \in Pid : inc[p] \in Nat /\ inc'[p] \in Nat /\ inc[p] <= inc'[p]
  BY TypeStep, IncStep DEF IInv, TypeOK
<1>1. ASSUME NEW e \in Event, e.inc < inc[e.pid] \/ life[e.pid] = "dead", e.inc <= inc[e.pid]
      PROVE  e.inc < inc'[e.pid] \/ life'[e.pid] = "dead"
  <2>1. e.pid \in Pid /\ e.inc \in Nat
    BY BoundsAssumption DEF Event
  <2> QED
    BY <1>0, <1>1, <2>1, LifeStep
<1>2. ASSUME NEW k \in 1 .. Len(ring), ring[k].type = "EXIT"
      PROVE  ring[k].inc < inc'[ring[k].pid] \/ life'[ring[k].pid] = "dead"
  <2>1. ring[k] \in Event /\ ring[k].inc <= inc[ring[k].pid]
    BY <1>0 DEF IInv, InOrder
  <2>2. ring[k].inc < inc[ring[k].pid] \/ life[ring[k].pid] = "dead"
    BY <1>2 DEF ExitIsGone
  <2> QED
    BY <1>1, <2>1, <2>2
<1>3. CASE Still
  BY <1>2, <1>3 DEF Still, ExitIsGone
<1>4. CASE Reading
  <2>1. \A k \in 1 .. Len(ring') : k + 1 \in 1 .. Len(ring) /\ ring'[k] = ring[k + 1]
    BY <1>0, <1>4, PopRing DEF Reading
  <2> QED
    BY <1>2, <2>1 DEF ExitIsGone
<1>5. ASSUME NEW p \in Pid, Emitting(p) PROVE ExitIsGone'
  <2> SUFFICES ASSUME NEW k \in 1 .. Len(ring'), ring'[k].type = "EXIT"
               PROVE  ring'[k].inc < inc'[ring'[k].pid] \/ life'[ring'[k].pid] = "dead"
    BY DEF ExitIsGone
  <2>1. CASE k <= Len(ring)
    <3>1. k \in 1 .. Len(ring) /\ ring'[k] = ring[k]
      BY <1>0, <1>5, <2>1 DEF Emitting
    <3> QED
      BY <1>2, <3>1
  <2>2. CASE k > Len(ring)
    BY <1>5, <2>2 DEF Emitting
  <2> QED
    BY <1>0, <2>1, <2>2
<1> QED
  BY <1>3, <1>4, <1>5, StepKinds

LEMMA LatestStep ==
    IInv /\ TInv /\ [Next]_vars => OfBehind' /\ DeadIsGone'
<1> SUFFICES ASSUME IInv, TInv, [Next]_vars, NEW p \in Pid, cur'[p] # 0
             PROVE  /\ node'[p][cur'[p]].of <= inc'[p]
                    /\ \A k \in 1 .. Len(ring') : ring'[k].pid = p =>
                           node'[p][cur'[p]].of <= ring'[k].inc
                    /\ node'[p][cur'[p]].dead =>
                           node'[p][cur'[p]].of < inc'[p] \/ life'[p] = "dead"
  BY TypeStep DEF OfBehind, DeadIsGone, Latest, At, Now, Has, IInv
<1>0. /\ TypeOK /\ TypeOK' /\ ring \in Seq(Event) /\ ring' \in Seq(Event)
      /\ \A q \in Pid : inc[q] \in Nat /\ inc'[q] \in Nat /\ inc[q] <= inc'[q]
  BY TypeStep, IncStep DEF IInv, TypeOK
<1>1. CASE StaysAt(p)
  <2> DEFINE n == node[p][cur[p]]
  <2>1. cur[p] # 0 /\ n \in Node /\ Has(Now(p)) /\ Latest(p) = n
    BY <1>0, <1>1, LatestIs DEF StaysAt
  <2>2. /\ n.of <= inc[p] /\ n.of \in Nat
        /\ \A k \in 1 .. Len(ring) : ring[k].pid = p => n.of <= ring[k].inc
        /\ n.dead => n.of < inc[p] \/ life[p] = "dead"
    BY <2>1, BoundsAssumption DEF TInv, OfBehind, DeadIsGone, Node
  <2>3. /\ n.of <= inc'[p]
        /\ n.dead => n.of < inc'[p] \/ life'[p] = "dead"
    BY <1>0, <2>2, LifeStep
  <2>4. ASSUME NEW k \in 1 .. Len(ring'), ring'[k].pid = p PROVE n.of <= ring'[k].inc
    <3>1. CASE Still
      BY <2>2, <2>4, <3>1 DEF Still
    <3>2. CASE Reading
      <4>1. k + 1 \in 1 .. Len(ring) /\ ring'[k] = ring[k + 1]
        BY <1>0, <3>2, PopRing DEF Reading
      <4> QED
        BY <2>2, <2>4, <4>1
    <3>3. ASSUME NEW q \in Pid, Emitting(q) PROVE n.of <= ring'[k].inc
      <4>1. CASE k <= Len(ring)
        <5>1. k \in 1 .. Len(ring) /\ ring'[k] = ring[k]
          BY <1>0, <3>3, <4>1 DEF Emitting
        <5> QED
          BY <2>2, <2>4, <5>1
      <4>2. CASE k > Len(ring)
        BY <2>3, <2>4, <3>3, <4>2 DEF Emitting
      <4> QED
        BY <1>0, <4>1, <4>2
    <3> QED
      BY <3>1, <3>2, <3>3, StepKinds
  <2> QED
    BY <1>1, <2>1, <2>3, <2>4 DEF StaysAt
<1>2. CASE Reading /\ Begins /\ p = ring[1].pid
  <2> DEFINE e == ring[1]
  <2>1. ring # <<>> /\ ring' = Tail(ring) /\ inc' = inc
    BY <1>2 DEF Reading
  <2>2. /\ \A k \in 1 .. Len(ring') : k + 1 \in 1 .. Len(ring) /\ ring'[k] = ring[k + 1]
        /\ 1 \in 1 .. Len(ring) /\ e \in Event
    BY <1>0, <2>1, PopRing
  <2>3. e.inc <= inc[p] /\ e.inc \in Nat
    BY <1>2, <2>2, BoundsAssumption DEF IInv, InOrder, Event
  <2>4. ASSUME NEW k \in 1 .. Len(ring'), ring'[k].pid = p PROVE e.inc <= ring'[k].inc
    <3>1. k + 1 \in 1 .. Len(ring) /\ ring'[k] = ring[k + 1] /\ 1 \in 1 .. (k + 1) - 1
      BY <2>2
    <3>2. After(e.inc, ring[k + 1])
      BY <1>2, <2>4, <3>1 DEF IInv, InOrder
    <3>3. ring[k + 1] \in Event
      BY <1>0, <3>1
    <3>4. ring[k + 1].inc \in Nat
      BY <3>3, EventType
    <3> QED
      BY <2>3, <3>1, <3>2, <3>4 DEF After
  <2>5. node'[p][cur'[p]].of = e.inc /\ node'[p][cur'[p]].dead = FALSE
    BY <1>2 DEF Begins
  <2> QED
    BY <2>1, <2>3, <2>4, <2>5
<1>3. CASE Reading /\ Ends /\ p = ring[1].pid
  <2> DEFINE e == ring[1]
             n == node[p][cur[p]]
  <2>1. ring # <<>> /\ ring' = Tail(ring) /\ inc' = inc
    BY <1>3 DEF Reading
  <2>2. /\ \A k \in 1 .. Len(ring') : k + 1 \in 1 .. Len(ring) /\ ring'[k] = ring[k + 1]
        /\ 1 \in 1 .. Len(ring) /\ e \in Event
    BY <1>0, <2>1, PopRing
  <2>3. cur[p] # 0 /\ cur'[p] = cur[p] /\ node'[p][cur'[p]].of = n.of /\ e.type = "EXIT"
    BY <1>3 DEF Ends
  <2>4. Has(Now(p)) /\ Latest(p) = n /\ n \in Node
    BY <1>0, <2>3, LatestIs
  <2>5. /\ n.of <= inc[p] /\ n.of \in Nat
        /\ \A k \in 1 .. Len(ring) : ring[k].pid = p => n.of <= ring[k].inc
    BY <2>4, BoundsAssumption DEF TInv, OfBehind, Node
  <2>6. e.inc < inc[p] \/ life[p] = "dead"
    BY <1>3, <2>2, <2>3 DEF TInv, ExitIsGone
  <2>7. n.of <= e.inc /\ e.inc \in Nat
    BY <1>3, <2>2, <2>5, BoundsAssumption DEF Event
  <2>8. n.of < inc'[p] \/ life'[p] = "dead"
    BY <1>0, <2>1, <2>5, <2>6, <2>7, LifeStep
  <2> QED
    BY <2>1, <2>2, <2>3, <2>5, <2>8
<1>4. StaysAt(p) \/ (Reading /\ (Begins \/ Ends) /\ p = ring[1].pid)
  BY NodeKinds DEF NodesStay, Begins, Ends
<1> QED
  BY <1>1, <1>2, <1>3, <1>4

\* Trust of nodes the step does not touch.
LEMMA TrustKeepsAt ==
    ASSUME TypeOK, Trusted, NEW q \in Pid, StaysAt(q),
           cur[q] # 0 => node'[q][cur[q]].exempt = node[q][cur[q]].exempt,
           q \in kexempt => q \in kexempt'
    PROVE  cur'[q] # 0 /\ ~node'[q][cur'[q]].dead /\ node'[q][cur'[q]].exempt => q \in kexempt'
  BY LatestIs DEF Trusted, StaysAt

\* A step that leaves exempt_tgids and the exempt flags of the latest nodes alone.
LEMMA TrustKeeps ==
    ASSUME TypeOK, Trusted, NodesStay, kexempt \subseteq kexempt',
           \A q \in Pid : cur[q] # 0 => node'[q][cur[q]].exempt = node[q][cur[q]].exempt
    PROVE  Trusted'
<1>1. ASSUME NEW q \in Pid, cur'[q] # 0, ~node'[q][cur'[q]].dead, node'[q][cur'[q]].exempt
      PROVE  q \in kexempt'
  BY <1>1, TrustKeepsAt DEF NodesStay
<1> QED
  BY <1>1 DEF Trusted, Latest, At, Now, Has

\* A step that puts n, trusted as far as its flag says.
LEMMA TrustPut ==
    ASSUME TypeOK, Trusted, NEW u \in Uid, NEW n \in Node, Put(u, n), UNCHANGED cur,
           n.dead = At(u).dead, kexempt \subseteq kexempt',
           n.exempt => At(u).exempt \/ u[1] \in kexempt'
    PROVE  Trusted'
<1> SUFFICES ASSUME NEW q \in Pid, cur[q] # 0, ~node'[q][cur[q]].dead, node'[q][cur[q]].exempt
             PROVE  q \in kexempt'
  BY DEF Trusted, Latest, At, Now, Has
<1>1. Now(q) \in Uid /\ Now(q)[1] = q /\ Now(q)[2] = cur[q] /\ Has(Now(q))
  BY NowType DEF Has
<1>2. node'[q][cur[q]] = IF Now(q) = u THEN n ELSE At(Now(q))
  BY <1>1, PutNode
<1>3. CASE Now(q) = u
  BY <1>1, <1>2, <1>3 DEF Trusted, Latest
<1>4. CASE Now(q) # u
  BY <1>1, <1>2, <1>4 DEF Trusted, Latest
<1> QED
  BY <1>3, <1>4

LEMMA TrustedReads ==
    ASSUME IInv, Trusted, NEW hot, IngestRisky(hot) \/ IngestExec(hot)
    PROVE  Trusted'
<1> DEFINE e == ring[1]
           p == e.pid
           u == EnsureUid(p)
<1>0. TypeOK
  BY DEF IInv
<1>1. /\ e \in Event /\ Head(ring) = e
      /\ \A q \in Pid \ {p} :
             /\ cur'[q] = cur[q] /\ node'[q] = node[q]
             /\ q \in kexempt' <=> q \in kexempt
      /\ cur'[p] = (IF cur[p] = 0 THEN 1 ELSE cur[p])
      /\ node'[p][cur'[p]].dead = EnsureNode(e).dead
  BY <1>0, IngestedNode
<1>2. p \in Pid /\ u \in Uid /\ u[1] = p /\ EnsureNode(e) \in Node /\ u[2] = cur'[p]
  BY <1>0, <1>1, EventType, EnsureType DEF EnsureUid, Has, Now
<1>3. ASSUME ~EnsureNode(e).dead, node'[p][cur'[p]].exempt PROVE p \in kexempt'
  <2>1. CASE IngestRisky(hot)
    <3>1. /\ Score(u, EnsureNode(e), thash[p], hot)
          /\ Trust(p, p \in kexempt \/ (~Has(Now(p)) /\ EnsureNode(e).exempt))
      BY <1>1, <2>1 DEF IngestRisky
    <3>2. thash[p] \in Bin \cup {NoBin}
      BY <1>0, <1>2 DEF TypeOK
    <3>3. PICK m : ScoredAs(m, EnsureNode(e)) /\ Put(u, m)
      BY <1>0, <1>2, <3>1, <3>2, ScoreNode
    <3>4. node'[p][cur'[p]] = m
      BY <1>0, <1>2, <3>3, PutNode DEF ScoredAs
    <3>5. EnsureNode(e).exempt
      BY <1>3, <3>3, <3>4 DEF ScoredAs
    <3>6. Has(Now(p)) => p \in kexempt
      BY <1>2, <1>3, <3>5 DEF Trusted, EnsureNode, Latest
    <3> QED
      BY <3>1, <3>5, <3>6 DEF Trust
  <2>2. CASE IngestExec(hot)
    <3> DEFINE n == Judged(Renamed(EnsureNode(e), e))
    <3>1. Score(u, n, n.hash, hot) /\ Trust(p, n.exempt)
      BY <1>1, <2>2 DEF IngestExec
    <3>2. n \in Node
      BY <1>1, <1>2, JudgedType
    <3> HIDE DEF n
    <3>3. n.hash \in Bin \cup {NoBin}
      BY <3>2 DEF Node
    <3>4. PICK m : ScoredAs(m, n) /\ Put(u, m)
      BY <1>0, <1>2, <3>1, <3>2, <3>3, ScoreNode
    <3>5. node'[p][cur'[p]] = m
      BY <1>0, <1>2, <3>4, PutNode DEF ScoredAs
    <3> QED
      BY <1>3, <3>1, <3>4, <3>5 DEF ScoredAs, Trust
  <2> QED
    BY <2>1, <2>2
<1>4. ASSUME NEW q \in Pid, cur'[q] # 0, ~node'[q][cur'[q]].dead, node'[q][cur'[q]].exempt
      PROVE  q \in kexempt'
  <2>1. CASE q = p
    BY <1>1, <1>3, <1>4, <2>1
  <2>2. CASE q # p
    BY <1>0, <1>1, <1>4, <2>2, TrustKeepsAt DEF StaysAt
  <2> QED
    BY <2>1, <2>2
<1> QED
  BY <1>4 DEF Trusted, Latest, At, Now, Has

LEMMA TrustedPoller ==
    ASSUME IInv, Trusted, Poller
    PROVE  Trusted'
<1>0. TypeOK /\ Placed
  BY DEF IInv
<1>s. ASSUME UNCHANGED <<cur, node>>, kexempt \subseteq kexempt' PROVE Trusted'
  BY <1>0, <1>s, SameStays, TrustKeeps
<1>1. CASE IngestFork
  <2> DEFINE e == ring[1]
             p == e.pid
  <2>1. Top("FORK")
    BY <1>1 DEF IngestFork
  <2>2. Head(ring) = e /\ e \in Event /\ p \in Pid /\ cur[p] \in Nat /\ cur[p] + 1 \in 1 .. MaxInc
    BY <2>1, ForkRoom DEF Event
  <2>3. cur \in [Pid -> 0 .. MaxInc]
    BY <1>0 DEF TypeOK
  <2>4. /\ cur' = [cur EXCEPT ![p] = @ + 1] /\ node'[p][cur[p] + 1] = Made(e)
        /\ \A q \in Pid \ {p} : node'[q] = node[q]
    BY <1>1, <2>2, ForkNode
  <2>5. Trust(p, p \in kexempt \/ e.exe \in Shells)
    BY <1>1, <2>2 DEF IngestFork
  <2>6. Made(e).exempt <=> e.exe \in Shells
    BY DEF Made, Blank
  <2>7. ASSUME NEW q \in Pid, cur'[q] # 0, ~node'[q][cur'[q]].dead, node'[q][cur'[q]].exempt
        PROVE  q \in kexempt'
    <3>1. CASE q = p
      BY <2>2, <2>3, <2>4, <2>5, <2>6, <2>7, <3>1 DEF Trust
    <3>2. CASE q # p
      <4>1. StaysAt(q) /\ node'[q] = node[q] /\ (q \in kexempt => q \in kexempt')
        BY <2>2, <2>3, <2>4, <2>5, <3>2 DEF StaysAt, Trust
      <4> QED
        BY <1>0, <2>7, <4>1, TrustKeepsAt
    <3> QED
      BY <3>1, <3>2
  <2> QED
    BY <2>7 DEF Trusted, Latest, At, Now, Has
<1>2. CASE IngestExit
  <2> DEFINE p == Head(ring).pid
  <2>1. p \in Pid /\ UNCHANGED cur
    BY <1>0, <1>2, PopRing, EventType DEF IngestExit, Top
  <2>2. CASE ~Has(Now(p))
    BY <1>2, <1>s, <2>1, <2>2 DEF IngestExit
  <2>3. CASE Has(Now(p))
    <3> DEFINE n == [At(Now(p)) EXCEPT !.dead = TRUE, !.blocked = FALSE]
    <3>1. Now(p) \in Uid /\ At(Now(p)) \in Node /\ Now(p) = <<p, cur[p]>>
      BY <1>0, <2>1, <2>3, NowType, AtType DEF Now
    <3>2. n \in Node /\ n.dead = TRUE
      BY <3>1 DEF Node
    <3>3. Put(Now(p), n) /\ Trust(p, FALSE)
      BY <1>2, <2>3 DEF IngestExit
    <3> HIDE DEF n
    <3>4. node'[p][cur[p]] = n /\ \A q \in Pid \ {p} : node'[q] = node[q]
      <4>1. node'[Now(p)[1]][Now(p)[2]] = n
        BY <1>0, <3>1, <3>2, <3>3, PutNode
      <4>2. Now(p)[1] = p /\ Now(p)[2] = cur[p]
        BY <3>1
      <4>3. node \in [Pid -> [1 .. MaxInc -> Node]]
        BY <1>0 DEF TypeOK
      <4>4. \A q \in Pid \ {p} : node'[q] = node[q]
        BY <3>3, <4>2, <4>3 DEF Put
      <4> QED
        BY <4>1, <4>2, <4>4
    <3>5. ASSUME NEW q \in Pid, cur'[q] # 0, ~node'[q][cur'[q]].dead, node'[q][cur'[q]].exempt
          PROVE  q \in kexempt'
      <4>1. q # p /\ StaysAt(q) /\ (q \in kexempt => q \in kexempt')
        BY <2>1, <3>2, <3>3, <3>4, <3>5 DEF StaysAt, Trust
      <4> QED
        BY <1>0, <3>4, <3>5, <4>1, TrustKeepsAt
    <3> QED
      BY <3>5 DEF Trusted, Latest, At, Now, Has
  <2> QED
    BY <2>2, <2>3
<1>4. CASE IngestTripMuted \/ Ask \/ Lift
  BY <1>4, <1>s DEF IngestTripMuted, Ask, Lift, nodeVars, mapVars
<1>5. CASE IngestTrip
  <2>1. ring # <<>> /\ ring' = Tail(ring) /\ UNCHANGED <<cur, kexempt>>
    BY <1>5 DEF IngestTrip, Top, mapVars
  <2>2. Head(ring).pid \in Pid
    BY <1>0, <2>1, PopRing, EventType
  <2> DEFINE u == Now(Head(ring).pid)
  <2>3. CASE Has(u)
    <3>1. u \in Uid /\ At(u) \in Node
      BY <1>0, <2>2, <2>3, NowType, AtType
    <3>2. Put(u, [At(u) EXCEPT !.blocked = TRUE])
      BY <1>5, <2>3 DEF IngestTrip
    <3>3. /\ [At(u) EXCEPT !.blocked = TRUE] \in Node
          /\ [At(u) EXCEPT !.blocked = TRUE].exempt = At(u).exempt
          /\ [At(u) EXCEPT !.blocked = TRUE].dead = At(u).dead
      BY <3>1 DEF Node
    <3> QED
      BY <1>0, <2>1, <3>1, <3>2, <3>3, TrustPut
  <2>4. CASE ~Has(u)
    BY <1>5, <1>s, <2>1, <2>4 DEF IngestTrip
  <2> QED
    BY <2>3, <2>4
<1>7. CASE Lifted
  <2>1. pnode \in Pid \X (0 .. MaxInc) /\ UNCHANGED cur
    BY <1>0, <1>7 DEF Placed, Lifted
  <2>2. CASE Has(pnode)
    <3> DEFINE n == [At(pnode) EXCEPT !.blocked = FALSE, !.exempt = TRUE]
    <3>1. pnode \in Uid
      BY <2>1, <2>2, BoundsAssumption DEF Has, Uid
    <3>2. n \in Node /\ n.dead = At(pnode).dead
      BY <1>0, <3>1, AtType DEF Node
    <3>3. Put(pnode, n) /\ kexempt' = kexempt \cup {pnode[1]}
      BY <1>7, <2>2 DEF Lifted, Trust
    <3> HIDE DEF n
    <3> QED
      BY <1>0, <2>1, <3>1, <3>2, <3>3, TrustPut
  <2>3. CASE ~Has(pnode)
    BY <1>7, <1>s, <2>1, <2>3 DEF Lifted
  <2> QED
    BY <2>2, <2>3
<1>8. CASE Stopped
  <2> DEFINE k == PromptHash(At(pnode), pnode[1], thash[pnode[1]])
             n == [At(pnode) EXCEPT !.frozen = TRUE, !.pending = TRUE, !.hash = k]
  <2>1. pnode \in Uid /\ pnode[1] \in Pid /\ UNCHANGED <<cur, kexempt>>
    BY <1>0, <1>8 DEF Placed, Stopped, Uid, mapVars
  <2>2. At(pnode) \in Node /\ thash[pnode[1]] \in Bin \cup {NoBin}
    BY <1>0, <2>1, AtType DEF TypeOK
  <2>3. k \in Bin \cup {NoBin}
    BY <1>0, <2>1, <2>2, PromptHashType
  <2>4. Put(pnode, n)
    BY <1>8 DEF Stopped
  <2> HIDE DEF k
  <2>5. n \in Node /\ n.exempt = At(pnode).exempt /\ n.dead = At(pnode).dead
    BY <2>2, <2>3 DEF Node
  <2> HIDE DEF n
  <2> QED
    BY <1>0, <2>1, <2>4, <2>5, TrustPut
<1> QED
  BY <1>1, <1>2, <1>4, <1>5, <1>7, <1>8, TrustedReads DEF Poller

LEMMA TrustedUi ==
    ASSUME IInv, Trusted, Take \/ (\E d \in Decision : Press(d)) \/ Resolve \/ Manage
    PROVE  Trusted'
<1>0. TypeOK /\ Placed
  BY DEF IInv
<1>s. ASSUME UNCHANGED <<cur, node>>, kexempt \subseteq kexempt' PROVE Trusted'
  BY <1>0, <1>s, SameStays, TrustKeeps
<1>b. ASSUME NEW u \in Uid, NEW b \in BOOLEAN, Put(u, [At(u) EXCEPT !.blocked = b]),
             UNCHANGED <<cur, kexempt>>
      PROVE  Trusted'
  <2>1. At(u) \in Node
    BY <1>0, AtType
  <2>2. /\ [At(u) EXCEPT !.blocked = b] \in Node
        /\ [At(u) EXCEPT !.blocked = b].exempt = At(u).exempt
        /\ [At(u) EXCEPT !.blocked = b].dead = At(u).dead
    BY <2>1 DEF Node
  <2> QED
    BY <1>0, <1>b, <2>2, TrustPut
<1>2. ASSUME NEW d \in Decision, Press(d) PROVE Trusted'
  <2>1. /\ asked \in Uid /\ UNCHANGED cur /\ Put(asked, Answered(At(asked), d))
        /\ Trust(asked[1], asked[1] \in kexempt \/ d = "w")
    BY <1>0, <1>2 DEF Press, Placed, Answering
  <2>2. At(asked) \in Node
    BY <1>0, <2>1, AtType
  <2>3. Answered(At(asked), d) \in Node
    BY <2>2, AnsweredType
  <2>4. /\ Answered(At(asked), d).exempt => At(asked).exempt \/ d = "w"
        /\ Answered(At(asked), d).dead = At(asked).dead
    BY <2>2 DEF Answered, Node
  <2>5. kexempt \subseteq kexempt' /\ (d = "w" => asked[1] \in kexempt')
    BY <2>1 DEF Trust
  <2> QED
    BY <1>0, <2>1, <2>3, <2>4, <2>5, TrustPut
<1>3. CASE Flag
  <2> DEFINE bl == dec = "d"
             ex == At(asked).exempt \/ dec = "l"
  <2>1. bl \in BOOLEAN /\ ex \in BOOLEAN
    OBVIOUS
  <2>2. /\ asked \in Uid /\ UNCHANGED cur
        /\ Put(asked, [At(asked) EXCEPT !.frozen = FALSE, !.blocked = bl, !.exempt = ex])
    BY <1>0, <1>3 DEF Flag, Placed, Answering
  <2>3. Trust(asked[1], asked[1] \in kexempt \/ dec = "l")
    BY <1>3 DEF Flag
  <2>4. kexempt \subseteq kexempt' /\ (ex => At(asked).exempt \/ asked[1] \in kexempt')
    BY <2>3 DEF Trust
  <2> HIDE DEF bl, ex
  <2> DEFINE n == [At(asked) EXCEPT !.frozen = FALSE, !.blocked = bl, !.exempt = ex]
  <2>5. At(asked) \in Node
    BY <1>0, <2>2, AtType
  <2>6. n \in Node /\ n.dead = At(asked).dead /\ n.exempt = ex
    BY <2>1, <2>5 DEF Node
  <2>7. Put(asked, n)
    BY <2>2
  <2> HIDE DEF n
  <2> QED
    BY <1>0, <2>2, <2>4, <2>6, <2>7, TrustPut
<1>4. CASE Unflag
  <2>1. asked \in Uid /\ UNCHANGED <<cur, kexempt>> /\ Put(asked, [At(asked) EXCEPT !.blocked = FALSE])
    BY <1>0, <1>4 DEF Unflag, Placed, Answering, mapVars
  <2> QED
    BY <1>b, <2>1
<1>5. CASE Flushed
  <2>1. /\ UNCHANGED <<cur, kexempt>>
        /\ node' = [p \in Pid |-> [i \in 1 .. MaxInc |-> [node[p][i] EXCEPT !.blocked = FALSE]]]
    BY <1>5 DEF Flushed, mapVars
  <2>2. ASSUME NEW q \in Pid, cur[q] # 0
        PROVE  node'[q][cur[q]].exempt = node[q][cur[q]].exempt
    <3>1. cur[q] \in 1 .. MaxInc /\ node[q][cur[q]] \in Node
      BY <1>0, <2>2, LatestIs
    <3>2. node'[q][cur[q]] = [node[q][cur[q]] EXCEPT !.blocked = FALSE]
      BY <2>1, <3>1
    <3> QED
      BY <3>1, <3>2 DEF Node
  <2>3. NodesStay
    BY <1>5, UiNodes DEF Manage
  <2> QED
    BY <1>0, <2>1, <2>2, <2>3, TrustKeeps
<1>6. ASSUME NEW p \in Pid, Unblock(p) \/ Reblock(p) PROVE Trusted'
  <2>1. UNCHANGED <<cur, kexempt>> /\
        \/ UNCHANGED node
        \/ Has(Now(p)) /\ \E b \in BOOLEAN : Put(Now(p), [At(Now(p)) EXCEPT !.blocked = b])
    BY <1>6, Zenon DEF Unblock, Reblock, Reblockable
  <2>2. Has(Now(p)) => Now(p) \in Uid
    BY <1>0, NowType
  <2> QED
    BY <1>s, <1>b, <2>1, <2>2
<1> QED
  BY <1>s, <1>2, <1>3, <1>4, <1>5, <1>6
     DEF Take, Resolve, Remember, Arm, Disarm, SendSignal, Manage, Flush, Collect, Managed,
         PauseRule, RemoveRule, nodeVars, mapVars

LEMMA TrustedStep == IInv /\ Trusted /\ [Next]_vars => Trusted'
<1> SUFFICES ASSUME IInv, Trusted, [Next]_vars PROVE Trusted'
  OBVIOUS
<1>1. CASE Kernel \/ UNCHANGED vars
  <2>1. UNCHANGED <<cur, node, kexempt>>
    BY <1>1 DEF Kernel, Die, ExecCheck, Daemonise, Fork, ExecEnter, Risky, mapVars, nodeVars, vars
  <2> QED
    BY <2>1, SameStays, TrustKeeps DEF IInv
<1> QED
  BY <1>1, TrustedPoller, TrustedUi DEF Next

LEMMA InductiveTInv == Spec => []TInv
<1>1. Init => TInv
  BY DEF Init, TInv, Trusted, DeadIsGone, ExitIsGone, OfBehind, Has, Now
<1>2. IInv /\ TInv /\ [Next]_vars => TInv'
  BY TrustedStep, LatestStep, ExitIsGoneStep DEF TInv
<1> QED
  BY <1>1, <1>2, InductiveIInv, PTL DEF Spec

\* Outside the supervised trees, a process the tracker trusts is trusted by the kernel, for
\* every pid, ring and order of answers, execs, exits, lost events and reuse: what ingest()
\* and resolve_prompt() write of exempt_tgids agrees with the nodes.  (The model has neither
\* synth_node and mark_dead, which are of supervised processes, nor the map's eviction.)
THEOREM TrustReaches == Spec => []TrustReachesKernel
<1>1. IInv /\ TInv => TrustReachesKernel
  <2> SUFFICES ASSUME IInv, TInv, NEW p \in Pid, Followed(p), At(Now(p)).exempt
               PROVE  p \in kexempt
    BY DEF TrustReachesKernel
  <2>1. Has(Now(p)) /\ At(Now(p)).of = inc[p] /\ life[p] # "dead"
    BY DEF Followed, Alive
  <2>2. inc[p] \in Nat
    BY BoundsAssumption DEF IInv, TypeOK
  <2>3. ~Latest(p).dead
    BY <2>1, <2>2 DEF TInv, DeadIsGone, Latest
  <2> QED
    BY <2>1, <2>3 DEF TInv, Trusted, Latest
<1> QED
  BY <1>1, InductiveIInv, InductiveTInv, PTL

-----------------------------------------------------------------------------
(* The supervised tree.  A node made in time carries the supervised flag,  *)
(* nobody asks about it, and signals go to those somebody asks about.      *)

\* No process group holds processes of the supervised tree and others: the tree is in the
\* group of the EDR, which no signal is sent to (own_pgid_), or in groups of its own.
Apart == OneGroup => Supervised = {}

\* What a step does to a node: nothing to what it was made from, or its making.
SameMake(u) == /\ node'[u[1]][u[2]].of = At(u).of /\ node'[u[1]][u[2]].new = At(u).new
               /\ node'[u[1]][u[2]].sup = At(u).sup
MadeOf(u, e) == /\ node'[u[1]][u[2]].of = e.inc
                /\ node'[u[1]][u[2]].sup = e.kin
                /\ node'[u[1]][u[2]].new = (e.type = "FORK")
Fate(u) ==
    \/ SameMake(u) /\ (u[2] <= cur'[u[1]] <=> u[2] <= cur[u[1]])
    \/ /\ ring # <<>> /\ ring[1] \in Event /\ ring[1].pid = u[1] /\ MadeOf(u, ring[1])
       /\ u[2] > cur[u[1]] /\ u[2] <= cur'[u[1]]
Fates == \A u \in Uid : Fate(u)

LEMMA PutFates ==
    ASSUME TypeOK, NEW u \in Uid, NEW n \in Node, Put(u, n), UNCHANGED cur,
           n.of = At(u).of, n.sup = At(u).sup, n.new = At(u).new
    PROVE  Fates
<1> SUFFICES ASSUME NEW v \in Uid PROVE SameMake(v)
  BY DEF Fates, Fate
<1> QED
  BY PutNode DEF SameMake

LEMMA SameFates == UNCHANGED <<cur, node>> => Fates
  BY DEF Fates, Fate, SameMake, At

\* The node a scored event leaves is the one it found or made, but for its flags.
LEMMA IngestedMake ==
    ASSUME TypeOK, NEW hot, IngestRisky(hot) \/ IngestExec(hot)
    PROVE  LET e == ring[1]
           IN  /\ ring # <<>> /\ e \in Event /\ e.type # "FORK"
               /\ cur' = [cur EXCEPT ![e.pid] = IF @ = 0 THEN 1 ELSE @]
               /\ \E n \in Node, h \in Bin \cup {NoBin} :
                      /\ n.of = EnsureNode(e).of /\ n.sup = EnsureNode(e).sup
                      /\ n.new = EnsureNode(e).new /\ Score(EnsureUid(e.pid), n, h, hot)
<1> DEFINE e == ring[1]
           p == e.pid
           u == EnsureUid(p)
<1>0. ring # <<>> /\ (Top("RISKY") \/ Top("EXEC"))
  BY DEF IngestRisky, IngestExec, Top
<1>1. Head(ring) = e /\ e \in Event /\ p \in Pid /\ e.type # "FORK"
  <2>1. Head(ring) = e /\ e \in Event
    BY <1>0 DEF TypeOK
  <2> QED
    BY <1>0, <2>1, EventType DEF Top
<1>2. EnsureNode(e) \in Node
  BY <1>1, EnsureType
<1>3. cur' = [cur EXCEPT ![p] = IF @ = 0 THEN 1 ELSE @]
  BY <1>1 DEF IngestRisky, IngestExec, Ensure
<1>4. CASE IngestRisky(hot)
  <2>1. Score(u, EnsureNode(e), thash[p], hot)
    BY <1>1, <1>4 DEF IngestRisky
  <2>2. thash[p] \in Bin \cup {NoBin}
    BY <1>1 DEF TypeOK
  <2> QED
    BY <1>0, <1>1, <1>2, <1>3, <2>1, <2>2
<1>5. CASE IngestExec(hot)
  <2> DEFINE n == Judged(Renamed(EnsureNode(e), e))
  <2>1. Score(u, n, n.hash, hot)
    BY <1>1, <1>5 DEF IngestExec
  <2>2. n \in Node
    BY <1>1, <1>2, JudgedType
  <2>3. n.of = EnsureNode(e).of /\ n.sup = EnsureNode(e).sup /\ n.new = EnsureNode(e).new
    BY <1>2 DEF Judged, Renamed, Node
  <2> HIDE DEF n
  <2>4. n.hash \in Bin \cup {NoBin}
    BY <2>2 DEF Node
  <2> QED
    BY <1>0, <1>1, <1>3, <2>1, <2>2, <2>3, <2>4
<1> QED
  BY <1>4, <1>5

\* Where nothing is scored hot the node stays as it is; else it is suspended and queued.
LEMMA ScoreMake ==
    ASSUME TypeOK, NEW u \in Uid, NEW n \in Node, NEW h \in Bin \cup {NoBin}, NEW hot,
           Score(u, n, h, hot)
    PROVE  /\ \E m \in Node : /\ Put(u, m) /\ m.of = n.of /\ m.sup = n.sup /\ m.new = n.new
           /\ \/ UNCHANGED <<life, queue>>
              \/ ~n.sup /\ Signal(u[1], "STOP") /\ queue' = Enqueued(u)
<1>1. CASE Suspends(n, hot)
  <2> DEFINE k == PromptHash(n, u[1], h)
             m == [n EXCEPT !.frozen = TRUE, !.pending = TRUE, !.hash = k]
  <2>1. k \in Bin \cup {NoBin}
    BY PromptHashType DEF Uid
  <2>2. Put(u, m) /\ Signal(u[1], "STOP") /\ queue' = Enqueued(u) /\ ~n.sup
    BY <1>1 DEF Score, Suspends
  <2> HIDE DEF k
  <2>3. m \in Node /\ m.of = n.of /\ m.sup = n.sup /\ m.new = n.new
    BY <2>1 DEF Node
  <2> HIDE DEF m
  <2> QED
    BY <2>2, <2>3
<1>2. CASE ~Suspends(n, hot)
  BY <1>2 DEF Score
<1> QED
  BY <1>1, <1>2

LEMMA IngestedFates ==
    ASSUME TypeOK, NEW hot, IngestRisky(hot) \/ IngestExec(hot)
    PROVE  Fates
<1> DEFINE e == ring[1]
           p == e.pid
           u == EnsureUid(p)
<1>1. /\ ring # <<>> /\ e \in Event /\ e.type # "FORK"
      /\ cur' = [cur EXCEPT ![p] = IF @ = 0 THEN 1 ELSE @]
  BY IngestedMake
<1>2. PICK n \in Node, h \in Bin \cup {NoBin} :
          /\ n.of = EnsureNode(e).of /\ n.sup = EnsureNode(e).sup
          /\ n.new = EnsureNode(e).new /\ Score(u, n, h, hot)
  BY IngestedMake
<1>3. u \in Uid /\ u[1] = p /\ EnsureNode(e) \in Node /\ Made(e) \in Node /\ p \in Pid
  BY <1>1, EnsureType DEF Event
<1>4. PICK m \in Node : Put(u, m) /\ m.of = n.of /\ m.sup = n.sup /\ m.new = n.new
  BY <1>2, <1>3, ScoreMake
<1>5. cur \in [Pid -> 0 .. MaxInc] /\ cur[p] \in Nat
  BY <1>3, BoundsAssumption DEF TypeOK
<1>6. CASE cur[p] # 0
  <2>1. EnsureNode(e) = At(u)
    BY <1>6 DEF EnsureNode, EnsureUid, Has, Now
  <2>2. UNCHANGED cur
    BY <1>1, <1>3, <1>5, <1>6
  <2> QED
    BY <1>2, <1>3, <1>4, <2>1, <2>2, PutFates
<1>7. CASE cur[p] = 0
  <2>1. EnsureNode(e) = Made(e) /\ u = <<p, 1>>
    BY <1>7 DEF EnsureNode, EnsureUid, Has, Now
  <2>2. Made(e).of = e.inc /\ Made(e).sup = e.kin /\ Made(e).new = (e.type = "FORK")
    <3> DEFINE x == e.exe \in Shells
               f == e.type = "FORK"
    <3>1. Made(e) = [Blank EXCEPT !.of = e.inc, !.exempt = x, !.sup = e.kin, !.new = f]
      BY DEF Made
    <3> HIDE DEF x, f
    <3>2. Made(e).of = e.inc /\ Made(e).sup = e.kin /\ Made(e).new = f
      BY <3>1 DEF Blank
    <3> QED
      BY <3>2 DEF f
  <2>3. cur'[p] = 1 /\ \A q \in Pid \ {p} : cur'[q] = cur[q]
    BY <1>1, <1>3, <1>5, <1>7
  <2>4. ASSUME NEW v \in Uid, v # u PROVE Fate(v)
    <3>1. SameMake(v)
      BY <1>3, <1>4, <2>4, PutNode DEF SameMake
    <3>2. v[2] <= cur'[v[1]] <=> v[2] <= cur[v[1]]
      <4>1. CASE v[1] = p
        <5>1. v[2] \in 1 .. MaxInc /\ v = <<v[1], v[2]>>
          BY DEF Uid
        <5>2. v[2] # 1 /\ v[2] \in Nat
          BY <2>1, <2>4, <4>1, <5>1
        <5> QED
          BY <1>7, <2>3, <4>1, <5>1, <5>2
      <4>2. CASE v[1] # p
        BY <2>3, <4>2 DEF Uid
      <4> QED
        BY <4>1, <4>2
    <3> QED
      BY <3>1, <3>2 DEF Fate
  <2>5. Fate(u)
    <3>1. node'[u[1]][u[2]] = m
      BY <1>3, <1>4, PutNode
    <3>2. MadeOf(u, e)
      BY <1>2, <1>4, <2>1, <2>2, <3>1 DEF MadeOf
    <3>3. u[1] = p /\ u[2] = 1
      BY <2>1
    <3> QED
      BY <1>1, <1>7, <2>3, <3>2, <3>3 DEF Fate
  <2> QED
    BY <2>4, <2>5 DEF Fates
<1> QED
  BY <1>6, <1>7

LEMMA ForkFates == IInv /\ IngestFork => Fates
<1> SUFFICES ASSUME IInv, IngestFork, NEW u \in Uid PROVE Fate(u)
  BY DEF Fates
<1> DEFINE e == ring[1]
           p == e.pid
<1>0. TypeOK /\ Top("FORK") /\ ring # <<>>
  BY DEF IInv, IngestFork, Top
<1>1. /\ e \in Event /\ p \in Pid /\ cur[p] \in Nat /\ cur[p] + 1 \in 1 .. MaxInc
      /\ Head(ring) = e
  BY <1>0, ForkRoom DEF Event
<1>2. /\ cur' = [cur EXCEPT ![p] = @ + 1]
      /\ \A q \in Pid \ {p} : node'[q] = node[q]
      /\ \A i \in 1 .. MaxInc :
             node'[p][i] = IF i = cur[p] + 1 THEN Made(e)
                           ELSE IF i = cur[p] THEN [node[p][i] EXCEPT !.dead = TRUE]
                           ELSE node[p][i]
  BY <1>1, ForkNode
<1>3. u[1] \in Pid /\ u[2] \in 1 .. MaxInc /\ u[2] \in Nat /\ At(u) = node[u[1]][u[2]] /\ At(u) \in Node
  BY <1>0, AtType DEF Uid, At
<1>4. /\ cur'[p] = cur[p] + 1 /\ \A q \in Pid \ {p} : cur'[q] = cur[q]
  BY <1>0, <1>1, <1>2 DEF TypeOK
<1>5. CASE u[1] # p
  BY <1>2, <1>3, <1>4, <1>5 DEF Fate, SameMake
<1>6. CASE u[1] = p /\ u[2] # cur[p] + 1
  <2>1. node'[u[1]][u[2]] = IF u[2] = cur[p] THEN [At(u) EXCEPT !.dead = TRUE] ELSE At(u)
    BY <1>2, <1>3, <1>6
  <2>2. [At(u) EXCEPT !.dead = TRUE].of = At(u).of /\ [At(u) EXCEPT !.dead = TRUE].sup = At(u).sup
        /\ [At(u) EXCEPT !.dead = TRUE].new = At(u).new
    BY <1>3 DEF Node
  <2>3. SameMake(u)
    BY <2>1, <2>2 DEF SameMake
  <2> QED
    BY <1>1, <1>3, <1>4, <1>6, <2>3 DEF Fate
<1>7. CASE u[1] = p /\ u[2] = cur[p] + 1
  <2>1. node'[u[1]][u[2]] = Made(e)
    BY <1>2, <1>3, <1>7
  <2>2. Made(e).of = e.inc /\ Made(e).sup = e.kin /\ Made(e).new = (e.type = "FORK")
    <3> DEFINE x == e.exe \in Shells
               f == e.type = "FORK"
    <3>1. Made(e) = [Blank EXCEPT !.of = e.inc, !.exempt = x, !.sup = e.kin, !.new = f]
      BY DEF Made
    <3> HIDE DEF x, f
    <3>2. Made(e).of = e.inc /\ Made(e).sup = e.kin /\ Made(e).new = f
      BY <3>1 DEF Blank
    <3> QED
      BY <3>2 DEF f
  <2> QED
    BY <1>0, <1>1, <1>4, <1>7, <2>1, <2>2 DEF Fate, MadeOf
<1> QED
  BY <1>5, <1>6, <1>7

LEMMA PollerFates == IInv /\ Poller => Fates
<1> SUFFICES ASSUME IInv, Poller PROVE Fates
  OBVIOUS
<1>0. TypeOK /\ Placed
  BY DEF IInv
<1>1. CASE IngestFork
  BY <1>1, ForkFates
<1>2. CASE IngestExit
  <2>1. Top("EXIT") /\ ring # <<>> /\ UNCHANGED cur
    BY <1>2 DEF IngestExit, Top
  <2>2. Head(ring).pid \in Pid
    <3>1. Head(ring) \in Event
      BY <1>0, <2>1 DEF TypeOK
    <3> QED
      BY <3>1, EventType
  <2> DEFINE u == Now(Head(ring).pid)
             n == [At(u) EXCEPT !.dead = TRUE, !.blocked = FALSE]
  <2>3. CASE ~Has(u)
    BY <1>2, <2>1, <2>3, SameFates DEF IngestExit
  <2>4. CASE Has(u)
    <3>1. u \in Uid /\ At(u) \in Node
      BY <1>0, <2>2, <2>4, NowType, AtType
    <3>2. n \in Node /\ n.of = At(u).of /\ n.sup = At(u).sup /\ n.new = At(u).new
      BY <3>1 DEF Node
    <3>3. Put(u, n)
      BY <1>2, <2>4 DEF IngestExit
    <3> HIDE DEF n
    <3> QED
      BY <1>0, <2>1, <3>1, <3>2, <3>3, PutFates
  <2> QED
    BY <2>3, <2>4
<1>3. ASSUME NEW hot \in BOOLEAN, IngestRisky(hot) \/ IngestExec(hot) PROVE Fates
  BY <1>0, <1>3, IngestedFates
<1>4. CASE IngestTripMuted \/ Ask \/ Lift
  BY <1>4, SameFates DEF IngestTripMuted, Ask, Lift, nodeVars
<1>5. CASE IngestTrip
  <2>1. ring # <<>> /\ UNCHANGED cur
    BY <1>5 DEF IngestTrip, Top
  <2>2. Head(ring).pid \in Pid
    <3>1. Head(ring) \in Event
      BY <1>0, <2>1 DEF TypeOK
    <3> QED
      BY <3>1, EventType
  <2> DEFINE u == Now(Head(ring).pid)
             n == [At(u) EXCEPT !.blocked = TRUE]
  <2>3. CASE Has(u)
    <3>1. u \in Uid /\ At(u) \in Node
      BY <1>0, <2>2, <2>3, NowType, AtType
    <3>2. Put(u, n)
      BY <1>5, <2>3 DEF IngestTrip
    <3>3. n \in Node /\ n.of = At(u).of /\ n.sup = At(u).sup /\ n.new = At(u).new
      BY <3>1 DEF Node
    <3> HIDE DEF n
    <3> QED
      BY <1>0, <2>1, <3>1, <3>2, <3>3, PutFates
  <2>4. CASE ~Has(u)
    BY <1>5, <2>1, <2>4, SameFates DEF IngestTrip
  <2> QED
    BY <2>3, <2>4
<1>6. CASE Lifted
  <2>1. pnode \in Pid \X (0 .. MaxInc) /\ UNCHANGED cur
    BY <1>0, <1>6 DEF Placed, Lifted
  <2>2. CASE Has(pnode)
    <3> DEFINE n == [At(pnode) EXCEPT !.blocked = FALSE, !.exempt = TRUE]
    <3>1. pnode \in Uid
      BY <2>1, <2>2, BoundsAssumption DEF Has, Uid
    <3>2. At(pnode) \in Node
      BY <1>0, <3>1, AtType
    <3>3. n \in Node /\ n.of = At(pnode).of /\ n.sup = At(pnode).sup /\ n.new = At(pnode).new
      BY <3>2 DEF Node
    <3>4. Put(pnode, n)
      BY <1>6, <2>2 DEF Lifted
    <3> HIDE DEF n
    <3> QED
      BY <1>0, <2>1, <3>1, <3>3, <3>4, PutFates
  <2>3. CASE ~Has(pnode)
    BY <1>6, <2>1, <2>3, SameFates DEF Lifted
  <2> QED
    BY <2>2, <2>3
<1>7. CASE Stopped
  <2> DEFINE k == PromptHash(At(pnode), pnode[1], thash[pnode[1]])
             n == [At(pnode) EXCEPT !.frozen = TRUE, !.pending = TRUE, !.hash = k]
  <2>1. pnode \in Uid /\ pnode[1] \in Pid /\ UNCHANGED cur
    BY <1>0, <1>7 DEF Placed, Stopped, Uid
  <2>2. At(pnode) \in Node /\ thash[pnode[1]] \in Bin \cup {NoBin}
    BY <1>0, <2>1, AtType DEF TypeOK
  <2>3. k \in Bin \cup {NoBin}
    BY <1>0, <2>1, <2>2, PromptHashType
  <2>4. Put(pnode, n)
    BY <1>7 DEF Stopped
  <2> HIDE DEF k
  <2>5. n \in Node /\ n.of = At(pnode).of /\ n.sup = At(pnode).sup /\ n.new = At(pnode).new
    BY <2>2, <2>3 DEF Node
  <2> HIDE DEF n
  <2> QED
    BY <1>0, <2>1, <2>4, <2>5, PutFates
<1> QED
  BY <1>1, <1>2, <1>3, <1>4, <1>5, <1>6, <1>7 DEF Poller

LEMMA UiFates ==
    ASSUME IInv, Take \/ (\E d \in Decision : Press(d)) \/ Resolve \/ Manage \/ UNCHANGED vars
    PROVE  Fates
<1>0. TypeOK /\ Placed
  BY DEF IInv
<1>1. CASE UNCHANGED <<cur, node>>
  BY <1>1, SameFates
<1>b. ASSUME NEW u \in Uid, NEW b \in BOOLEAN, Put(u, [At(u) EXCEPT !.blocked = b]), UNCHANGED cur
      PROVE  Fates
  <2> DEFINE n == [At(u) EXCEPT !.blocked = b]
  <2>1. At(u) \in Node
    BY <1>0, AtType
  <2>2. n \in Node /\ n.of = At(u).of /\ n.sup = At(u).sup /\ n.new = At(u).new
    BY <2>1 DEF Node
  <2>3. Put(u, n)
    BY <1>b
  <2> HIDE DEF n
  <2> QED
    BY <1>0, <1>b, <2>2, <2>3, PutFates
<1>2. ASSUME NEW d \in Decision, Press(d) PROVE Fates
  <2> DEFINE n == Answered(At(asked), d)
  <2>1. asked \in Uid /\ UNCHANGED cur /\ Put(asked, n)
    BY <1>0, <1>2 DEF Press, Placed, Answering
  <2>2. At(asked) \in Node
    BY <1>0, <2>1, AtType
  <2>3. n \in Node
    BY <2>2, AnsweredType
  <2>4. n.of = At(asked).of /\ n.sup = At(asked).sup /\ n.new = At(asked).new
    BY <2>2 DEF Answered, Node
  <2> HIDE DEF n
  <2> QED
    BY <1>0, <2>1, <2>3, <2>4, PutFates
<1>3. CASE Flag
  <2> DEFINE bl == dec = "d"
             ex == At(asked).exempt \/ dec = "l"
  <2>1. bl \in BOOLEAN /\ ex \in BOOLEAN
    OBVIOUS
  <2>2. /\ asked \in Uid /\ UNCHANGED cur
        /\ Put(asked, [At(asked) EXCEPT !.frozen = FALSE, !.blocked = bl, !.exempt = ex])
    BY <1>0, <1>3 DEF Flag, Placed, Answering
  <2> HIDE DEF bl, ex
  <2> DEFINE n == [At(asked) EXCEPT !.frozen = FALSE, !.blocked = bl, !.exempt = ex]
  <2>3. At(asked) \in Node
    BY <1>0, <2>2, AtType
  <2>4. n \in Node /\ n.of = At(asked).of /\ n.sup = At(asked).sup /\ n.new = At(asked).new
    BY <2>1, <2>3 DEF Node
  <2> HIDE DEF n
  <2> QED
    BY <1>0, <2>2, <2>4, PutFates DEF n
<1>4. CASE Unflag
  BY <1>0, <1>4, <1>b DEF Unflag, Placed, Answering
<1>5. CASE Flushed
  <2>1. /\ UNCHANGED cur
        /\ node' = [p \in Pid |-> [i \in 1 .. MaxInc |-> [node[p][i] EXCEPT !.blocked = FALSE]]]
    BY <1>5 DEF Flushed
  <2> SUFFICES ASSUME NEW u \in Uid PROVE SameMake(u)
    BY <2>1 DEF Fates, Fate
  <2>2. u[1] \in Pid /\ u[2] \in 1 .. MaxInc /\ At(u) = node[u[1]][u[2]] /\ At(u) \in Node
    BY <1>0, AtType DEF Uid, At
  <2>3. node'[u[1]][u[2]] = [At(u) EXCEPT !.blocked = FALSE]
    BY <2>1, <2>2
  <2> QED
    BY <2>2, <2>3 DEF SameMake, Node
<1>6. ASSUME NEW p \in Pid, Unblock(p) \/ Reblock(p) PROVE Fates
  <2>1. UNCHANGED cur /\
        \/ UNCHANGED node
        \/ Has(Now(p)) /\ \E b \in BOOLEAN : Put(Now(p), [At(Now(p)) EXCEPT !.blocked = b])
    BY <1>6, Zenon DEF Unblock, Reblock, Reblockable
  <2>2. Has(Now(p)) => Now(p) \in Uid
    BY <1>0, NowType
  <2> QED
    BY <1>1, <1>b, <2>1, <2>2
<1> QED
  BY <1>1, <1>2, <1>3, <1>4, <1>5, <1>6
     DEF Take, Resolve, Remember, Arm, Disarm, SendSignal, Manage, Flush, Collect, Managed,
         PauseRule, RemoveRule, nodeVars, vars

LEMMA NodeFates == ASSUME IInv, [Next]_vars PROVE Fates
<1>1. CASE Kernel
  BY <1>1, KernelEmits, SameFates DEF IInv, Emitting
<1> QED
  BY <1>1, PollerFates, UiFates DEF Next

\* Nothing comes back into the tree.
LEMMA LeftGrows == [Next]_vars => left \subseteq left'
<1> SUFFICES ASSUME [Next]_vars PROVE left \subseteq left'
  OBVIOUS
<1>1. CASE Kernel
  BY <1>1 DEF Kernel, Die, ExecCheck, Daemonise, Fork, ExecEnter, Risky, procVars
<1>2. CASE Poller
  BY <1>2 DEF Poller, IngestFork, IngestExit, IngestTripMuted, IngestTrip, IngestRisky,
              IngestExec, Lift, Lifted, Ask, Stopped, procVars
<1>3. CASE Take \/ (\E d \in Decision : Press(d)) \/ Resolve \/ Manage \/ UNCHANGED vars
  BY <1>3 DEF Take, Press, Resolve, Remember, Flag, Arm, Disarm, Unflag, SendSignal, Manage,
              Flush, Flushed, Collect, Managed, PauseRule, RemoveRule, Unblock, Reblock,
              vars, procVars
<1> QED
  BY <1>1, <1>2, <1>3 DEF Next

\* A node of the tree's pids is supervised, or was met when its process had left the tree.
KinNode(u) ==
    /\ At(u).sup => u[1] \in Supervised
    /\ u[2] <= cur[u[1]] =>
           At(u).of # 0 /\ (u[1] \in Supervised => At(u).sup \/ MetLate(u))
    /\ u[2] > cur[u[1]] => At(u).of = 0
KInv == /\ \A k \in 1 .. Len(ring) : KinOf(ring[k], left)
        /\ \A u \in Uid : KinNode(u)

LEMMA KInvStep == IInv /\ KInv /\ [Next]_vars => KInv'
<1> SUFFICES ASSUME IInv, KInv, [Next]_vars PROVE KInv'
  OBVIOUS
<1>0. TypeOK /\ ring \in Seq(Event) /\ left \subseteq left' /\ Fates
  BY LeftGrows, NodeFates DEF IInv, TypeOK
<1>1. \A k \in 1 .. Len(ring') : KinOf(ring'[k], left')
  <2>0. \A k \in 1 .. Len(ring) : KinOf(ring[k], left')
    BY <1>0 DEF KInv, KinOf
  <2>1. CASE Still
    BY <2>0, <2>1 DEF Still
  <2>2. CASE Reading
    <3>1. \A k \in 1 .. Len(ring') : k + 1 \in 1 .. Len(ring) /\ ring'[k] = ring[k + 1]
      BY <1>0, <2>2, PopRing DEF Reading
    <3> QED
      BY <2>0, <3>1
  <2>3. ASSUME NEW p \in Pid, Emitting(p) PROVE \A k \in 1 .. Len(ring') : KinOf(ring'[k], left')
    <3> SUFFICES ASSUME NEW k \in 1 .. Len(ring') PROVE KinOf(ring'[k], left')
      OBVIOUS
    <3>1. CASE k > Len(ring)
      BY <2>3, <3>1 DEF Emitting
    <3>2. CASE ~(k > Len(ring))
      <4>1. k \in 1 .. Len(ring)
        BY <1>0, <2>3, <3>2 DEF Emitting
      <4> QED
        BY <2>0, <2>3, <4>1 DEF Emitting
    <3> QED
      BY <3>1, <3>2
  <2> QED
    BY <2>1, <2>2, <2>3, StepKinds
<1>2. ASSUME NEW u \in Uid PROVE KinNode(u)'
  <2> DEFINE m == node'[u[1]][u[2]]
             c == cur'[u[1]]
  <2>0. /\ KinNode(u) /\ Fate(u) /\ u[2] \in Nat /\ cur[u[1]] \in Nat
        /\ cur'[u[1]] \in Nat
    <3>1. TypeOK'
      BY TypeStep
    <3>2. u[1] \in Pid /\ u[2] \in 1 .. MaxInc
      BY DEF Uid
    <3>3. cur[u[1]] \in 0 .. MaxInc /\ cur'[u[1]] \in 0 .. MaxInc
      BY <1>0, <3>1, <3>2 DEF TypeOK
    <3> QED
      BY <1>0, <3>2, <3>3, BoundsAssumption DEF KInv, Fates
  <2> SUFFICES /\ m.sup => u[1] \in Supervised
               /\ u[2] <= c => /\ m.of # 0
                               /\ u[1] \in Supervised =>
                                      m.sup \/ (<<u[1], m.of>> \in left' /\ ~m.new)
               /\ u[2] > c => m.of = 0
    BY DEF KinNode, MetLate, At
  <2>1. CASE SameMake(u) /\ (u[2] <= cur'[u[1]] <=> u[2] <= cur[u[1]])
    <3>1. m.of = At(u).of /\ m.new = At(u).new /\ m.sup = At(u).sup
      BY <2>1 DEF SameMake
    <3> HIDE DEF m
    <3>2. u[2] > c <=> u[2] > cur[u[1]]
      BY <2>0, <2>1
    <3> QED
      BY <1>0, <2>0, <2>1, <3>1, <3>2 DEF KinNode, MetLate
  <2>2. CASE /\ ring # <<>> /\ ring[1] \in Event /\ ring[1].pid = u[1] /\ MadeOf(u, ring[1])
             /\ u[2] > cur[u[1]] /\ u[2] <= cur'[u[1]]
    <3> DEFINE e == ring[1]
    <3>1. e \in Event /\ e.pid = u[1] /\ m.of = e.inc /\ m.sup = e.kin /\ m.new = (e.type = "FORK")
      BY <2>2 DEF MadeOf
    <3>2. KinOf(e, left)
      <4>1. 1 \in 1 .. Len(ring)
        BY <1>0, <2>2
      <4> QED
        BY <4>1 DEF KInv
    <3>3. e.inc # 0 /\ u[2] <= c /\ ~(u[2] > c)
      BY <2>0, <2>2, <3>1, BoundsAssumption DEF Event
    <3>4. e.kin \in BOOLEAN
      BY <3>1 DEF Event
    <3> HIDE DEF m, e
    <3> QED
      BY <1>0, <3>1, <3>2, <3>3, <3>4 DEF KinOf
  <2> QED
    BY <2>0, <2>1, <2>2 DEF Fate
<1> QED
  BY <1>1, <1>2 DEF KInv

LEMMA InitKInv == Init => KInv
<1> SUFFICES ASSUME Init PROVE KInv
  OBVIOUS
<1>1. Len(ring) = 0
  BY DEF Init
<1>2. ASSUME NEW u \in Uid PROVE KinNode(u)
  <2>1. u[1] \in Pid /\ u[2] \in 1 .. MaxInc
    BY DEF Uid
  <2>2. At(u) = Blank /\ cur[u[1]] = 0 /\ u[2] \in Nat /\ u[2] > 0
    BY <2>1, BoundsAssumption DEF Init, At
  <2>3. Blank.of = 0 /\ Blank.sup = FALSE
    BY DEF Blank
  <2> QED
    BY <2>2, <2>3 DEF KinNode
<1> QED
  BY <1>1, <1>2 DEF KInv

LEMMA InductiveKInv == Spec => []KInv
  BY InitKInv, KInvStep, InductiveIInv, PTL DEF Spec

\* A thread means to ask about the node, or does.
Concerned(u) == \/ \E i \in 1 .. Len(queue) : queue[i] = u
                \/ ui \in Answering /\ asked = u
                \/ poll \in {"ask", "stopped"} /\ pnode = u
LeftAlone ==
    /\ \A u \in Uid : Concerned(u) /\ u[1] \in Supervised => MetLate(u)
    /\ \A p \in Supervised : life[p] = "stopped" => \E i \in 1 .. MaxInc : MetLate(<<p, i>>)

LEMMA StraysStay ==
    ASSUME IInv, KInv, [Next]_vars, NEW u \in Uid, MetLate(u)
    PROVE  MetLate(u)'
<1>1. Fate(u) /\ KinNode(u) /\ left \subseteq left' /\ left \subseteq Pid \X (1 .. MaxInc)
  BY NodeFates, LeftGrows DEF Fates, KInv, IInv, TypeOK
<1>2. At(u).of # 0
  BY <1>1, BoundsAssumption DEF MetLate
<1>3. ~(u[2] > cur[u[1]])
  BY <1>1, <1>2 DEF KinNode
<1>4. SameMake(u)
  BY <1>1, <1>3 DEF Fate
<1>5. node'[u[1]][u[2]].of = At(u).of /\ node'[u[1]][u[2]].new = At(u).new
  BY <1>4 DEF SameMake
<1> QED
  BY <1>1, <1>5 DEF MetLate, At

\* Whom a step turns to, or stops: one somebody asks about already, or an unsupervised node.
Astray(u)  == Concerned(u) \/ (node'[u[1]][u[2]].sup = FALSE /\ u[2] <= cur'[u[1]])
TurnsTo    == \A u \in Uid : Concerned(u)' => Astray(u)
StopsOnly  == \A p \in Supervised : life'[p] = "stopped" =>
                  life[p] = "stopped" \/ \E u \in Uid : u[1] = p /\ Astray(u)

LEMMA SignalStops ==
    ASSUME TypeOK, Apart, NEW u \in Uid, NEW sig, Signal(u[1], sig), Astray(u)
    PROVE  StopsOnly
<1> SUFFICES ASSUME NEW p \in Supervised, life'[p] = "stopped", life[p] # "stopped"
             PROVE  u[1] = p
  BY DEF StopsOnly
<1>1. p \in Pid /\ p \in Group(u[1])
  BY PidAssumption, SignalLife
<1> QED
  BY <1>1 DEF Apart, Group

LEMMA QueueTurns ==
    ASSUME TypeOK, NEW u \in Uid, queue' = Enqueued(u), Astray(u),
           UNCHANGED <<ui, asked>>, poll' \in {"ask", "stopped"} => UNCHANGED <<poll, pnode>>
    PROVE  TurnsTo
<1> SUFFICES ASSUME NEW v \in Uid, Concerned(v)', v # u PROVE Concerned(v)
  BY DEF TurnsTo, Astray
<1>1. queue \in Seq(Uid)
  BY DEF TypeOK
<1>2. CASE \E i \in 1 .. Len(queue') : queue'[i] = v
  BY <1>1, <1>2 DEF Enqueued, Concerned
<1> QED
  BY <1>2 DEF Concerned

LEMMA SameTurns ==
    ASSUME UNCHANGED <<queue, ui, asked>>, poll' \in {"ask", "stopped"} => UNCHANGED <<poll, pnode>>
    PROVE  TurnsTo
  BY DEF TurnsTo, Astray, Concerned

LEMMA SameStops == UNCHANGED life => StopsOnly
  BY DEF StopsOnly

LEMMA PollerTurns ==
    ASSUME IInv, KInv, Apart, Poller
    PROVE  TurnsTo /\ StopsOnly
<1>0. TypeOK /\ Placed
  BY DEF IInv
<1>1. CASE IngestFork \/ IngestExit \/ IngestTripMuted \/ Lift \/ Lifted
  <2>1. UNCHANGED <<life, queue, ui, asked>>
    BY <1>1 DEF IngestFork, IngestExit, IngestTripMuted, Lift, Lifted, procVars, uiVars
  <2>2. poll' \in {"ask", "stopped"} => UNCHANGED <<poll, pnode>>
    BY <1>1 DEF IngestFork, IngestExit, IngestTripMuted, Lift, Lifted, pollVars
  <2> QED
    BY <2>1, <2>2, SameTurns, SameStops
<1>2. ASSUME NEW hot \in BOOLEAN, IngestRisky(hot) \/ IngestExec(hot)
      PROVE  TurnsTo /\ StopsOnly
  <2> DEFINE e == ring[1]
             p == e.pid
             u == EnsureUid(p)
  <2>1. /\ ring # <<>> /\ e \in Event
        /\ cur' = [cur EXCEPT ![p] = IF @ = 0 THEN 1 ELSE @]
    BY <1>0, <1>2, IngestedMake
  <2>2. PICK n \in Node, h \in Bin \cup {NoBin} :
            /\ n.of = EnsureNode(e).of /\ n.sup = EnsureNode(e).sup
            /\ n.new = EnsureNode(e).new /\ Score(u, n, h, hot)
    BY <1>0, <1>2, IngestedMake
  <2>3. u \in Uid /\ u[1] = p /\ p \in Pid
    BY <1>0, <2>1, EnsureType DEF Event
  <2>4. PICK m \in Node : Put(u, m) /\ m.of = n.of /\ m.sup = n.sup /\ m.new = n.new
    BY <1>0, <2>2, <2>3, ScoreMake
  <2>5. \/ UNCHANGED <<life, queue>>
        \/ ~n.sup /\ Signal(u[1], "STOP") /\ queue' = Enqueued(u)
    BY <1>0, <2>2, <2>3, ScoreMake
  <2>6. UNCHANGED <<ui, asked, poll, pnode>>
    BY <1>2 DEF IngestRisky, IngestExec, uiVars, pollVars
  <2>7. u[2] <= cur'[u[1]]
    <3>1. cur[p] \in 0 .. MaxInc /\ cur'[p] = IF cur[p] = 0 THEN 1 ELSE cur[p]
      BY <1>0, <2>1, <2>3 DEF TypeOK
    <3> QED
      BY <2>3, <3>1, BoundsAssumption DEF EnsureUid, Has, Now
  <2>8. node'[u[1]][u[2]] = m
    BY <1>0, <2>3, <2>4, PutNode
  <2>9. CASE UNCHANGED <<life, queue>>
    BY <2>6, <2>9, SameTurns, SameStops
  <2>10. CASE ~n.sup /\ Signal(u[1], "STOP") /\ queue' = Enqueued(u)
    <3>1. m.sup = FALSE
      BY <2>4, <2>10 DEF Node
    <3>2. Astray(u)
      BY <2>7, <2>8, <3>1 DEF Astray
    <3> HIDE DEF u
    <3> QED
      BY <1>0, <2>3, <2>6, <2>10, <3>2, QueueTurns, SignalStops
  <2> QED
    BY <2>5, <2>9, <2>10
<1>3. CASE IngestTrip
  <2> DEFINE p == Head(ring).pid
             u == Now(p)
             h == IF thash[p] # NoBin THEN thash[p] ELSE OnDisk(p)
  <2>1. /\ ~(Has(u) /\ At(u).sup) /\ UNCHANGED <<life, queue, ui, asked, cur>>
        /\ poll' = CASE Verdict(h) = "block" -> "idle"
                     [] Verdict(h) = "allow" -> "lift"
                     [] Verdict(h) = "none"  -> IF Has(u) THEN "ask" ELSE "idle"
        /\ pnode' = IF poll' = "idle" THEN NoUid ELSE u
        /\ ring # <<>>
    BY <1>3 DEF IngestTrip, procVars, uiVars, Top
  <2>2. Verdict(h) \in {"block", "allow", "none"}
    BY DEF Verdict
  <2>3. poll' \in {"ask", "stopped"} => Has(u) /\ pnode' = u
    BY <2>1, <2>2
  <2>4. p \in Pid
    <3>1. Head(ring) \in Event
      BY <1>0, <2>1 DEF TypeOK
    <3> QED
      BY <3>1, EventType
  <2>5. Has(u) => Astray(u)
    <3> SUFFICES ASSUME Has(u) PROVE Astray(u)
      OBVIOUS
    <3>1. u \in Uid /\ At(u) \in Node /\ u[1] = p /\ u[2] = cur[p] /\ cur[p] \in 1 .. MaxInc
      BY <1>0, <2>4, NowType, AtType
    <3> DEFINE n == [At(u) EXCEPT !.blocked = TRUE]
    <3>2. n \in Node /\ n.sup = At(u).sup /\ Put(u, n)
      BY <1>3, <3>1 DEF IngestTrip, Node
    <3> HIDE DEF n
    <3>3. node'[u[1]][u[2]] = n
      BY <1>0, <3>1, <3>2, PutNode
    <3>4. n.sup = FALSE
      BY <2>1, <3>1, <3>2 DEF Node
    <3>5. u[2] <= cur'[u[1]]
      BY <2>1, <3>1, BoundsAssumption
    <3> QED
      BY <3>3, <3>4, <3>5 DEF Astray
  <2> HIDE DEF u, h
  <2>6. TurnsTo
    BY <2>1, <2>3, <2>5 DEF TurnsTo, Concerned, Astray
  <2> QED
    BY <2>1, <2>6, SameStops
<1>4. CASE Ask
  <2>1. pnode \in Uid /\ Concerned(pnode)
    BY <1>0, <1>4 DEF Ask, Placed, Concerned
  <2>2. UNCHANGED <<queue, ui, asked>>
    BY <1>4 DEF Ask, uiVars
  <2>3. TurnsTo
    BY <1>4, <2>2 DEF Ask, TurnsTo, Astray, Concerned
  <2>4. StopsOnly
    BY <1>0, <1>4, <2>1, SignalStops, SameStops DEF Ask, Astray
  <2> QED
    BY <2>3, <2>4
<1>5. CASE Stopped
  <2>1. pnode \in Uid /\ Concerned(pnode) /\ queue' = Enqueued(pnode) /\ poll' = "idle"
    BY <1>0, <1>5 DEF Stopped, Placed, Concerned
  <2>2. UNCHANGED <<life, ui, asked>>
    BY <1>5 DEF Stopped, uiVars, procVars
  <2> QED
    BY <1>0, <2>1, <2>2, QueueTurns, SameStops DEF Astray
<1> QED
  BY <1>1, <1>2, <1>3, <1>4, <1>5 DEF Poller

LEMMA UiTurns ==
    ASSUME IInv, Apart, Take \/ (\E d \in Decision : Press(d)) \/ Resolve \/ Manage \/ UNCHANGED vars
    PROVE  TurnsTo /\ StopsOnly
<1>0. TypeOK /\ Placed
  BY DEF IInv
<1>1. CASE Take
  <2>1. queue \in Seq(Uid) /\ queue # <<>> /\ UNCHANGED <<life, poll, pnode>>
    BY <1>0, <1>1 DEF Take, TypeOK, procVars, pollVars
  <2>2. asked' = queue[1] /\ 1 \in 1 .. Len(queue) /\ Len(queue') = Len(queue) - 1
    BY <1>1, <2>1 DEF Take
  <2>3. \A i \in 1 .. Len(queue') : i + 1 \in 1 .. Len(queue) /\ queue'[i] = queue[i + 1]
    BY <1>1, <2>1 DEF Take
  <2>4. TurnsTo
    BY <2>1, <2>2, <2>3 DEF TurnsTo, Astray, Concerned
  <2> QED
    BY <2>1, <2>4, SameStops
<1>2. ASSUME NEW d \in Decision, Press(d) PROVE TurnsTo /\ StopsOnly
  <2>1. ui = "ask" /\ UNCHANGED <<life, queue, poll, pnode>> /\ ui' = AfterAnswer(d)
        /\ (d # "x" => UNCHANGED asked)
    BY <1>2 DEF Press, procVars, pollVars
  <2>2. ui' \in Answering => d # "x"
    BY <2>1 DEF AfterAnswer, Answering
  <2>3. TurnsTo
    BY <2>1, <2>2 DEF TurnsTo, Astray, Concerned, Answering
  <2> QED
    BY <2>1, <2>3, SameStops
<1>3. CASE Resolve
  <2>1. asked \in Uid /\ Concerned(asked)
    BY <1>0, <1>3 DEF Resolve, Remember, Flag, Arm, Disarm, Unflag, SendSignal, Placed, Answering,
                      Concerned
  <2>2. TurnsTo
    <3>1. UNCHANGED <<queue, poll, pnode>> /\ ui \in Answering
          /\ (ui' \in Answering => UNCHANGED asked)
      BY <1>3 DEF Resolve, Remember, Flag, Arm, Disarm, Unflag, SendSignal, Answering, pollVars
    <3> QED
      BY <3>1 DEF TurnsTo, Astray, Concerned
  <2>3. StopsOnly
    <3>1. CASE SendSignal
      BY <1>0, <2>1, <3>1, SignalStops DEF SendSignal, Astray
    <3> QED
      BY <1>3, <3>1, SameStops DEF Resolve, Remember, Flag, Arm, Disarm, Unflag, procVars
  <2> QED
    BY <2>2, <2>3
<1>4. CASE Manage
  <2>1. UNCHANGED <<life, queue, poll, pnode>> /\ ui' \notin Answering
    BY <1>4 DEF Manage, Flush, Flushed, Collect, Managed, PauseRule, RemoveRule, Unblock, Reblock,
                Answering, procVars, pollVars
  <2>2. TurnsTo
    BY <2>1 DEF TurnsTo, Astray, Concerned
  <2> QED
    BY <2>1, <2>2, SameStops
<1>5. CASE UNCHANGED vars
  BY <1>5, SameTurns, SameStops DEF vars, procVars, pollVars, uiVars
<1> QED
  BY <1>1, <1>2, <1>3, <1>4, <1>5

LEMMA KernelTurns == IInv /\ Kernel => TurnsTo /\ StopsOnly
<1> SUFFICES ASSUME IInv, Kernel PROVE TurnsTo /\ StopsOnly
  OBVIOUS
<1>0. life \in [Pid -> {"none", "run", "stopped", "dying", "dead"}]
  BY DEF IInv, TypeOK
<1>1. UNCHANGED <<queue, pollVars, uiVars>>
  BY DEF Kernel, Die, ExecCheck, Daemonise, Fork, ExecEnter, Risky
<1>2. UNCHANGED life \/ \E p \in Pid, x \in {"run", "dead"} : life' = [life EXCEPT ![p] = x]
  BY DEF Kernel, Die, ExecCheck, Daemonise, Fork, ExecEnter, Risky, procVars
<1>3. StopsOnly
  BY <1>0, <1>2, PidAssumption DEF StopsOnly
<1> QED
  BY <1>1, <1>3, SameTurns DEF pollVars, uiVars

LEMMA LeftAloneStep == IInv /\ KInv /\ Apart /\ LeftAlone /\ [Next]_vars => LeftAlone'
<1> SUFFICES ASSUME IInv, KInv, Apart, LeftAlone, [Next]_vars PROVE LeftAlone'
  OBVIOUS
<1>1. KInv' /\ TurnsTo /\ StopsOnly
  BY KInvStep, KernelTurns, PollerTurns, UiTurns DEF Next
<1>2. ASSUME NEW u \in Uid, Astray(u), u[1] \in Supervised PROVE MetLate(u)'
  <2>1. CASE Concerned(u)
    BY <1>2, <2>1, StraysStay DEF LeftAlone
  <2>2. CASE node'[u[1]][u[2]].sup = FALSE /\ u[2] <= cur'[u[1]]
    <3>1. KinNode(u)'
      BY <1>1 DEF KInv
    <3> QED
      BY <1>2, <2>2, <3>1 DEF KinNode, At
  <2> QED
    BY <1>2, <2>1, <2>2 DEF Astray
<1>3. ASSUME NEW p \in Supervised, life'[p] = "stopped"
      PROVE  \E i \in 1 .. MaxInc : MetLate(<<p, i>>)'
  <2>1. p \in Pid /\ \A i \in 1 .. MaxInc : <<p, i>> \in Uid
    BY PidAssumption DEF Uid
  <2>2. CASE life[p] = "stopped"
    <3>1. PICK i \in 1 .. MaxInc : MetLate(<<p, i>>)
      BY <2>2 DEF LeftAlone
    <3> QED
      BY <2>1, <3>1, StraysStay
  <2>3. CASE \E u \in Uid : u[1] = p /\ Astray(u)
    <3>1. PICK u \in Uid : u[1] = p /\ Astray(u)
      BY <2>3
    <3>2. MetLate(u)' /\ u[2] \in 1 .. MaxInc /\ u = <<p, u[2]>>
      BY <1>2, <3>1 DEF Uid
    <3>3. MetLate(<<p, u[2]>>)'
      BY <3>1, <3>2 DEF MetLate, At
    <3> QED
      BY <3>2, <3>3
  <2> QED
    BY <1>1, <1>3, <2>2, <2>3 DEF StopsOnly
<1>4. \A u \in Uid : Concerned(u)' /\ u[1] \in Supervised => MetLate(u)'
  BY <1>1, <1>2 DEF TurnsTo
<1> QED
  BY <1>3, <1>4 DEF LeftAlone

\* The tracker asks about or suspends a process of the supervised tree only if it met the
\* process after it had left the tree: the flag fork_node and ensure_node put on a node
\* covers every way of ingest() to a prompt, over every loss and delay of events, reuse of
\* pids and answer, where no process group holds a supervised process and another.
THEOREM SupervisedLeftAlone == ASSUME Apart PROVE Spec => []SupervisedIsLeftAlone
<1>1. Init => LeftAlone
  BY PidAssumption DEF Init, LeftAlone, Concerned, Answering
<1>2. IInv /\ LeftAlone => SupervisedIsLeftAlone
  <2> SUFFICES ASSUME IInv, LeftAlone, NEW p \in Supervised, NEW u \in Prompts, u[1] = p
               PROVE  MetLate(u)
    BY DEF SupervisedIsLeftAlone, LeftAlone
  <2>1. queue \in Seq(Uid) /\ (ui = "ask" => asked \in Uid)
    BY DEF IInv, TypeOK, Placed, Answering
  <2>2. u \in Uid /\ Concerned(u)
    BY <2>1 DEF Prompts, Concerned, Answering
  <2> QED
    BY <2>2 DEF LeftAlone
<1>3. Apart
  OBVIOUS
<1> QED
  BY <1>1, <1>2, <1>3, LeftAloneStep, InductiveIInv, InductiveKInv, PTL DEF Spec

-----------------------------------------------------------------------------
(* Prompts.  What is queued or on the screen is pending and asked about    *)
(* once; what is pending waits there, unless the queue was full.           *)

NoDoubles == \A i, j \in 1 .. Len(queue) : queue[i] = queue[j] => i = j

QueuedPend ==
    /\ \A i \in 1 .. Len(queue) : At(queue[i]).pending
    /\ NoDoubles
    /\ ui = "ask" => At(asked).pending /\ \A i \in 1 .. Len(queue) : queue[i] # asked

\* Between the stop and the prompt nobody else asks about the node, and no node is asked
\* about before it is made.
StoppedUnasked ==
    /\ poll = "stopped" => ~At(pnode).pending
    /\ poll \in {"ask", "stopped"} => pnode[2] <= cur[pnode[1]]
    /\ \A u \in Uid : u[2] > cur[u[1]] => ~At(u).pending

PendingWaits == \A u \in Uid : At(u).pending => u \in Prompts

PInv == QueuedPend /\ StoppedUnasked

\* The ways a step may move prompts: not at all, one more at the end of the queue, the first
\* to the screen, the one on the screen answered.
ScreenStays == (ui' = "ask" <=> ui = "ask") /\ (ui = "ask" => asked' = asked)
CurGrows    == \A p \in Pid : cur[p] <= cur'[p]
PendStays   == /\ \A v \in Uid : node'[v[1]][v[2]].pending = At(v).pending
               /\ CurGrows
Unmoved     == /\ UNCHANGED queue /\ ScreenStays /\ PendStays
               /\ poll' = "stopped" => pnode' = pnode /\ ~At(pnode).pending
               /\ poll' \in {"ask", "stopped"} => pnode'[2] <= cur'[pnode'[1]]
AsksOf(u)   == /\ ~At(u).pending /\ queue' = Enqueued(u) /\ ScreenStays
               /\ \A v \in Uid : node'[v[1]][v[2]].pending = (At(v).pending \/ v = u)
               /\ CurGrows /\ u[2] <= cur'[u[1]]
               /\ poll' = "idle"

\* Putting a node moves one flag.
LEMMA PutPends ==
    ASSUME TypeOK, NEW u \in Uid, NEW n \in Node, Put(u, n)
    PROVE  \A v \in Uid : node'[v[1]][v[2]].pending = IF v = u THEN n.pending ELSE At(v).pending
  BY PutNode

\* No step of the kernel, and no rule, moves a prompt.
LEMMA SameUnmoved ==
    ASSUME TypeOK, PInv, UNCHANGED <<cur, queue, pollVars>>, ScreenStays,
           UNCHANGED node \/ \E u \in Uid : \E n \in Node : Put(u, n) /\ n.pending = At(u).pending
    PROVE  Unmoved
<1>1. CurGrows
  BY BoundsAssumption DEF CurGrows, TypeOK
<1>2. \A v \in Uid : node'[v[1]][v[2]].pending = At(v).pending
  BY PutPends DEF At
<1> QED
  BY <1>1, <1>2 DEF Unmoved, PendStays, PInv, StoppedUnasked, pollVars

\* The tail of ingest asks about its node or leaves its flag alone.
LEMMA ScorePends ==
    ASSUME TypeOK, NEW u \in Uid, NEW n \in Node, NEW h \in Bin \cup {NoBin}, NEW hot,
           Score(u, n, h, hot), n.pending = At(u).pending, ScreenStays, CurGrows,
           u[2] <= cur'[u[1]], poll' = "idle"
    PROVE  Unmoved \/ AsksOf(u)
<1>1. CASE Suspends(n, hot)
  <2> DEFINE k == PromptHash(n, u[1], h)
             m == [n EXCEPT !.frozen = TRUE, !.pending = TRUE, !.hash = k]
  <2>1. k \in Bin \cup {NoBin}
    BY PromptHashType DEF Uid
  <2>2. Put(u, m) /\ queue' = Enqueued(u) /\ ~n.pending
    BY <1>1 DEF Score, Suspends
  <2> HIDE DEF k
  <2>3. m \in Node /\ m.pending = TRUE
    BY <2>1 DEF Node
  <2> HIDE DEF m
  <2>4. \A v \in Uid : node'[v[1]][v[2]].pending = IF v = u THEN m.pending ELSE At(v).pending
    BY <2>2, <2>3, PutPends
  <2>5. \A v \in Uid : node'[v[1]][v[2]].pending = (At(v).pending \/ v = u)
    <3> SUFFICES ASSUME NEW v \in Uid
                 PROVE  node'[v[1]][v[2]].pending = (At(v).pending \/ v = u)
      OBVIOUS
    <3>1. At(v).pending \in BOOLEAN
      BY AtType DEF Node
    <3> QED
      BY <2>3, <2>4, <3>1
  <2> QED
    BY <2>2, <2>5 DEF AsksOf
<1>2. CASE ~Suspends(n, hot)
  <2>1. Put(u, n) /\ UNCHANGED queue
    BY <1>2 DEF Score
  <2>2. \A v \in Uid : node'[v[1]][v[2]].pending = At(v).pending
    BY <2>1, PutPends
  <2> QED
    BY <2>1, <2>2 DEF Unmoved, PendStays
<1> QED
  BY <1>1, <1>2

LEMMA PollerPrompts ==
    ASSUME IInv, PInv, Poller
    PROVE  Unmoved \/ \E u \in Uid : AsksOf(u)
<1>0. TypeOK /\ Placed /\ cur \in [Pid -> 0 .. MaxInc]
  BY DEF IInv, TypeOK
<1>1. CASE IngestFork
  <2> DEFINE p == ring[1].pid
  <2>1. Top("FORK")
    BY <1>1 DEF IngestFork
  <2>2. /\ p \in Pid /\ cur[p] \in Nat /\ cur[p] + 1 \in 1 .. MaxInc
    BY <2>1, ForkRoom DEF Event
  <2>3. /\ cur' = [cur EXCEPT ![p] = @ + 1]
        /\ \A q \in Pid \ {p} : node'[q] = node[q]
        /\ \A i \in 1 .. MaxInc :
               node'[p][i] = IF i = cur[p] + 1 THEN Made(ring[1])
                             ELSE IF i = cur[p] THEN [node[p][i] EXCEPT !.dead = TRUE]
                             ELSE node[p][i]
    BY <1>1, ForkNode
  <2>4. CurGrows
    BY <1>0, <2>2, <2>3, BoundsAssumption DEF CurGrows
  <2>5. ASSUME NEW v \in Uid PROVE node'[v[1]][v[2]].pending = At(v).pending
    <3>1. v[1] \in Pid /\ v[2] \in 1 .. MaxInc /\ At(v) = node[v[1]][v[2]] /\ At(v) \in Node
      BY <1>0, AtType DEF Uid, At
    <3>2. CASE v[1] # p
      BY <2>3, <3>1, <3>2
    <3>3. CASE v[1] = p /\ v[2] = cur[p] + 1
      <4>1. ~At(v).pending /\ At(v).pending \in BOOLEAN
        BY <2>2, <3>1, <3>3 DEF PInv, StoppedUnasked, Node
      <4>2. node'[v[1]][v[2]] = Made(ring[1])
        BY <2>3, <3>1, <3>3
      <4>3. Made(ring[1]).pending = FALSE
        BY DEF Made, Blank
      <4> QED
        BY <4>1, <4>2, <4>3
    <3>4. CASE v[1] = p /\ v[2] = cur[p]
      <4>1. node'[v[1]][v[2]] = [At(v) EXCEPT !.dead = TRUE]
        BY <2>2, <2>3, <3>1, <3>4
      <4> QED
        BY <3>1, <4>1 DEF Node
    <3>5. CASE v[1] = p /\ v[2] # cur[p] /\ v[2] # cur[p] + 1
      BY <2>3, <3>1, <3>5
    <3> QED
      BY <3>2, <3>3, <3>4, <3>5
  <2> QED
    BY <1>1, <2>1, <2>4, <2>5 DEF IngestFork, Top, Unmoved, PendStays, ScreenStays, uiVars, pollVars
<1>p. ASSUME NEW u \in Uid, NEW n \in Node, Put(u, n), n.pending = At(u).pending,
             UNCHANGED <<cur, queue, uiVars>>, poll' # "stopped",
             poll' = "ask" => pnode'[2] <= cur[pnode'[1]]
      PROVE  Unmoved
  <2>1. CurGrows
    BY <1>0, <1>p, BoundsAssumption DEF CurGrows
  <2>2. \A v \in Uid : node'[v[1]][v[2]].pending = At(v).pending
    BY <1>0, <1>p, PutPends
  <2> QED
    BY <1>p, <2>1, <2>2 DEF Unmoved, PendStays, ScreenStays, uiVars
<1>s. ASSUME UNCHANGED <<cur, node, queue, uiVars>>,
             poll' = "stopped" => pnode' = pnode /\ ~At(pnode).pending,
             poll' \in {"ask", "stopped"} => pnode'[2] <= cur[pnode'[1]]
      PROVE  Unmoved
  <2>1. CurGrows
    BY <1>0, <1>s, BoundsAssumption DEF CurGrows
  <2> QED
    BY <1>s, <2>1 DEF Unmoved, PendStays, ScreenStays, uiVars, At
<1>2. CASE IngestExit
  <2> DEFINE p == Head(ring).pid
  <2>1. p \in Pid /\ UNCHANGED <<cur, queue, uiVars, poll>> /\ poll = "idle"
    BY <1>0, <1>2, PopRing, EventType DEF IngestExit, Top, pollVars
  <2>2. CASE ~Has(Now(p))
    BY <1>2, <1>s, <2>1, <2>2 DEF IngestExit
  <2>3. CASE Has(Now(p))
    <3> DEFINE n == [At(Now(p)) EXCEPT !.dead = TRUE, !.blocked = FALSE]
    <3>1. Now(p) \in Uid /\ At(Now(p)) \in Node
      BY <1>0, <2>1, <2>3, NowType, AtType
    <3>2. n \in Node /\ n.pending = At(Now(p)).pending
      BY <3>1 DEF Node
    <3>3. Put(Now(p), n)
      BY <1>2, <2>3 DEF IngestExit
    <3> HIDE DEF n
    <3> QED
      BY <1>p, <2>1, <3>1, <3>2, <3>3
  <2> QED
    BY <2>2, <2>3
<1>3. ASSUME NEW hot \in BOOLEAN, IngestRisky(hot) \/ IngestExec(hot)
      PROVE  Unmoved \/ \E u \in Uid : AsksOf(u)
  <2> DEFINE e == Head(ring)
             u == EnsureUid(e.pid)
  <2>1. ring # <<>> /\ ring' = Tail(ring) /\ poll' = "idle" /\ ScreenStays
    BY <1>3 DEF IngestRisky, IngestExec, Top, ScreenStays, uiVars, pollVars
  <2>2. e \in Event /\ e.pid \in Pid
    BY <1>0, <2>1, PopRing DEF Event
  <2>3. u \in Uid /\ u[1] = e.pid /\ EnsureNode(e) \in Node
    BY <1>0, <2>2, EnsureType
  <2>4. cur' = [cur EXCEPT ![e.pid] = IF @ = 0 THEN 1 ELSE @]
    BY <1>3 DEF IngestRisky, IngestExec, Ensure
  <2>5. CurGrows /\ u[2] <= cur'[u[1]]
    BY <1>0, <2>2, <2>4, BoundsAssumption DEF CurGrows, EnsureUid, Has, Now
  <2>6. EnsureNode(e).pending = At(u).pending
    <3>1. CASE Has(Now(e.pid))
      BY <3>1 DEF EnsureNode, EnsureUid
    <3>2. CASE ~Has(Now(e.pid))
      <4>1. u = <<e.pid, 1>> /\ cur[e.pid] = 0 /\ EnsureNode(e) = Made(e)
        BY <1>0, <2>2, <3>2, NowType DEF EnsureUid, EnsureNode
      <4>2. ~At(u).pending /\ At(u).pending \in BOOLEAN
        BY <1>0, <2>3, <4>1, AtType DEF PInv, StoppedUnasked, Node
      <4>3. Made(e).pending = FALSE
        BY DEF Made, Blank
      <4> QED
        BY <4>1, <4>2, <4>3
    <3> QED
      BY <3>1, <3>2
  <2>7. \E n \in Node, h \in Bin \cup {NoBin} :
            n.pending = EnsureNode(e).pending /\ Score(u, n, h, hot)
    <3>1. CASE IngestRisky(hot)
      <4>1. thash[e.pid] \in Bin \cup {NoBin}
        BY <1>0, <2>2 DEF TypeOK
      <4> QED
        BY <2>3, <3>1, <4>1 DEF IngestRisky
    <3>2. CASE IngestExec(hot)
      <4> DEFINE n == Judged(Renamed(EnsureNode(e), e))
      <4>1. Score(u, n, n.hash, hot)
        BY <3>2 DEF IngestExec
      <4>2. n \in Node
        BY <2>2, <2>3, JudgedType
      <4>3. n.pending = EnsureNode(e).pending
        BY <2>3 DEF Judged, Renamed, Node
      <4> HIDE DEF n
      <4>4. n.hash \in Bin \cup {NoBin}
        BY <4>2 DEF Node
      <4> QED
        BY <4>1, <4>2, <4>3, <4>4
    <3> QED
      BY <1>3, <3>1, <3>2
  <2> HIDE DEF e, u
  <2> QED
    BY <1>0, <2>1, <2>3, <2>5, <2>6, <2>7, ScorePends
<1>4. CASE IngestTripMuted \/ Lift
  BY <1>4, <1>s DEF IngestTripMuted, Lift, Top, nodeVars, pollVars
<1>5. CASE IngestTrip
  <2> DEFINE u == Now(Head(ring).pid)
             h == IF thash[Head(ring).pid] # NoBin THEN thash[Head(ring).pid]
                  ELSE OnDisk(Head(ring).pid)
  <2>1. ring # <<>> /\ ring' = Tail(ring) /\ UNCHANGED <<cur, queue, uiVars>>
    BY <1>5 DEF IngestTrip, Top
  <2>2. Head(ring).pid \in Pid
    BY <1>0, <2>1, PopRing, EventType
  <2>3. poll' # "stopped" /\ (poll' = "ask" => pnode'[2] <= cur[pnode'[1]])
    <3>1. poll' = CASE Verdict(h) = "block" -> "idle"
                    [] Verdict(h) = "allow" -> "lift"
                    [] Verdict(h) = "none"  -> IF Has(u) THEN "ask" ELSE "idle"
      BY <1>5 DEF IngestTrip
    <3>2. Verdict(h) \in {"block", "allow", "none"}
      BY DEF Verdict
    <3>3. pnode' = IF poll' = "idle" THEN NoUid ELSE u
      BY <1>5 DEF IngestTrip
    <3>4. u[1] = Head(ring).pid /\ u[2] = cur[u[1]] /\ cur[u[1]] \in Nat
      BY <1>0, <2>2, BoundsAssumption DEF Now
    <3> QED
      BY <3>1, <3>2, <3>3, <3>4
  <2>4. CASE Has(u)
    <3>1. u \in Uid /\ At(u) \in Node
      BY <1>0, <2>2, <2>4, NowType, AtType
    <3>2. Put(u, [At(u) EXCEPT !.blocked = TRUE])
      BY <1>5, <2>4 DEF IngestTrip
    <3>3. /\ [At(u) EXCEPT !.blocked = TRUE] \in Node
          /\ [At(u) EXCEPT !.blocked = TRUE].pending = At(u).pending
      BY <3>1 DEF Node
    <3> QED
      BY <1>p, <2>1, <2>3, <3>1, <3>2, <3>3
  <2>5. CASE ~Has(u)
    BY <1>5, <1>s, <2>1, <2>3, <2>5 DEF IngestTrip
  <2> QED
    BY <2>4, <2>5
<1>6. CASE Ask
  BY <1>6, <1>s DEF Ask, AskFor, nodeVars, PInv, StoppedUnasked
<1>7. CASE Lifted
  <2>1. pnode \in Pid \X (0 .. MaxInc) /\ UNCHANGED <<cur, queue, uiVars>> /\ poll' = "idle"
    BY <1>0, <1>7 DEF Placed, Lifted
  <2>2. CASE Has(pnode)
    <3> DEFINE n == [At(pnode) EXCEPT !.blocked = FALSE, !.exempt = TRUE]
    <3>1. pnode \in Uid
      BY <2>1, <2>2, BoundsAssumption DEF Has, Uid
    <3>2. n \in Node /\ n.pending = At(pnode).pending
      BY <1>0, <3>1, AtType DEF Node
    <3>3. Put(pnode, n)
      BY <1>7, <2>2 DEF Lifted
    <3> HIDE DEF n
    <3> QED
      BY <1>p, <2>1, <3>1, <3>2, <3>3
  <2>3. CASE ~Has(pnode)
    BY <1>7, <1>s, <2>1, <2>3 DEF Lifted
  <2> QED
    BY <2>2, <2>3
<1>8. CASE Stopped
  <2> DEFINE k == PromptHash(At(pnode), pnode[1], thash[pnode[1]])
             n == [At(pnode) EXCEPT !.frozen = TRUE, !.pending = TRUE, !.hash = k]
  <2>1. /\ pnode \in Uid /\ pnode[1] \in Pid /\ UNCHANGED cur /\ ~At(pnode).pending
        /\ poll' = "idle" /\ ScreenStays /\ queue' = Enqueued(pnode)
        /\ pnode[2] <= cur[pnode[1]]
    BY <1>0, <1>8 DEF Placed, Stopped, Uid, PInv, StoppedUnasked, ScreenStays, uiVars
  <2>2. At(pnode) \in Node /\ thash[pnode[1]] \in Bin \cup {NoBin}
    BY <1>0, <2>1, AtType DEF TypeOK
  <2>3. k \in Bin \cup {NoBin}
    BY <1>0, <2>1, <2>2, PromptHashType
  <2>4. Put(pnode, n)
    BY <1>8 DEF Stopped
  <2> HIDE DEF k
  <2>5. n \in Node /\ n.pending = TRUE
    BY <2>2, <2>3 DEF Node
  <2> HIDE DEF n
  <2>6. CurGrows
    BY <1>0, <2>1, BoundsAssumption DEF CurGrows
  <2>7. pnode[2] <= cur'[pnode[1]]
    <3>1. pnode[2] \in Nat /\ cur[pnode[1]] \in Nat
      BY <1>0, <2>1, BoundsAssumption DEF Uid
    <3> QED
      BY <2>1, <3>1
  <2>8. \A v \in Uid : node'[v[1]][v[2]].pending = (At(v).pending \/ v = pnode)
    <3> SUFFICES ASSUME NEW v \in Uid
                 PROVE  node'[v[1]][v[2]].pending = (At(v).pending \/ v = pnode)
      OBVIOUS
    <3>1. At(v).pending \in BOOLEAN
      BY <1>0, AtType DEF Node
    <3>2. node'[v[1]][v[2]].pending = IF v = pnode THEN n.pending ELSE At(v).pending
      BY <1>0, <2>1, <2>4, <2>5, PutPends
    <3> QED
      BY <2>5, <3>1, <3>2
  <2> QED
    BY <2>1, <2>6, <2>7, <2>8 DEF AsksOf
<1> QED
  BY <1>1, <1>2, <1>3, <1>4, <1>5, <1>6, <1>7, <1>8 DEF Poller

LEMMA OtherPrompts ==
    ASSUME IInv, PInv, Kernel \/ Resolve \/ Manage \/ UNCHANGED vars
    PROVE  Unmoved
<1>0. TypeOK /\ Placed /\ cur \in [Pid -> 0 .. MaxInc]
  BY DEF IInv, TypeOK
<1>1. CASE Kernel \/ UNCHANGED vars
  <2>1. UNCHANGED <<cur, queue, pollVars, node, ui, asked>>
    BY <1>1 DEF Kernel, Die, ExecCheck, Daemonise, Fork, ExecEnter, Risky, nodeVars, uiVars,
                pollVars, vars
  <2> QED
    BY <1>0, <2>1, SameUnmoved DEF ScreenStays
<1>2. CASE Resolve
  <2>1. asked \in Uid /\ At(asked) \in Node /\ UNCHANGED <<cur, queue, pollVars>> /\ ScreenStays
    <3>1. asked \in Uid
      BY <1>0, <1>2 DEF Resolve, Remember, Flag, Arm, Disarm, Unflag, SendSignal, Placed, Answering
    <3>2. UNCHANGED <<cur, queue, pollVars>> /\ ScreenStays
      BY <1>2 DEF Resolve, Remember, Flag, Arm, Disarm, Unflag, SendSignal, ScreenStays, nodeVars
    <3> QED
      BY <1>0, <3>1, <3>2, AtType
  <2>2. CASE UNCHANGED node
    BY <1>0, <2>1, <2>2, SameUnmoved
  <2>3. CASE Flag
    <3> DEFINE bl == dec = "d"
               ex == At(asked).exempt \/ dec = "l"
               n  == [At(asked) EXCEPT !.frozen = FALSE, !.blocked = bl, !.exempt = ex]
    <3>1. bl \in BOOLEAN /\ ex \in BOOLEAN
      OBVIOUS
    <3>2. Put(asked, n)
      BY <2>3 DEF Flag
    <3> HIDE DEF bl, ex
    <3>3. n \in Node /\ n.pending = At(asked).pending
      BY <2>1, <3>1 DEF Node
    <3> HIDE DEF n
    <3> QED
      BY <1>0, <2>1, <3>2, <3>3, SameUnmoved
  <2>4. CASE Unflag
    <3>1. Put(asked, [At(asked) EXCEPT !.blocked = FALSE])
      BY <2>4 DEF Unflag
    <3>2. /\ [At(asked) EXCEPT !.blocked = FALSE] \in Node
          /\ [At(asked) EXCEPT !.blocked = FALSE].pending = At(asked).pending
      BY <2>1 DEF Node
    <3> QED
      BY <1>0, <2>1, <3>1, <3>2, SameUnmoved
  <2> QED
    BY <1>2, <2>2, <2>3, <2>4 DEF Resolve, Remember, Arm, Disarm, SendSignal, nodeVars
<1>3. CASE Manage
  <2>1. UNCHANGED <<cur, queue, pollVars>> /\ ScreenStays
    BY <1>3 DEF Manage, Flush, Flushed, Collect, Managed, PauseRule, RemoveRule, Unblock, Reblock,
                ScreenStays, nodeVars
  <2>2. CASE UNCHANGED node
    BY <1>0, <2>1, <2>2, SameUnmoved
  <2>3. CASE Flushed
    <3>1. \A v \in Uid : node'[v[1]][v[2]].pending = At(v).pending
      <4> SUFFICES ASSUME NEW v \in Uid PROVE node'[v[1]][v[2]].pending = At(v).pending
        OBVIOUS
      <4>1. v[1] \in Pid /\ v[2] \in 1 .. MaxInc /\ At(v) \in Node /\ At(v) = node[v[1]][v[2]]
        BY <1>0, AtType DEF Uid, At
      <4>2. node'[v[1]][v[2]] = [node[v[1]][v[2]] EXCEPT !.blocked = FALSE]
        BY <2>3, <4>1 DEF Flushed
      <4> QED
        BY <4>1, <4>2 DEF Node
    <3>2. CurGrows
      BY <1>0, <2>1, BoundsAssumption DEF CurGrows
    <3> QED
      BY <2>1, <3>1, <3>2 DEF Unmoved, PendStays, PInv, StoppedUnasked, pollVars
  <2>4. ASSUME NEW p \in Pid, Unblock(p) \/ Reblock(p) PROVE Unmoved
    <3>1. \/ UNCHANGED node
          \/ Has(Now(p)) /\ \E b \in BOOLEAN : Put(Now(p), [At(Now(p)) EXCEPT !.blocked = b])
      BY <2>4, Zenon DEF Unblock, Reblock, Reblockable
    <3>2. Has(Now(p)) => Now(p) \in Uid /\ At(Now(p)) \in Node
      BY <1>0, NowType, AtType
    <3>3. ASSUME NEW b \in BOOLEAN, Has(Now(p)) PROVE
                 /\ [At(Now(p)) EXCEPT !.blocked = b] \in Node
                 /\ [At(Now(p)) EXCEPT !.blocked = b].pending = At(Now(p)).pending
      BY <3>2, <3>3 DEF Node
    <3> QED
      BY <1>0, <2>1, <2>2, <3>1, <3>2, <3>3, SameUnmoved
  <2> QED
    BY <1>3, <2>2, <2>3, <2>4 DEF Manage, Flush, Collect, Managed, PauseRule, RemoveRule, nodeVars
<1> QED
  BY <1>1, <1>2, <1>3

LEMMA UnmovedKeeps ==
    ASSUME IInv, PInv, Unmoved, IInv'
    PROVE  PInv' /\ (PendingWaits => PendingWaits')
<1>0. /\ TypeOK /\ Placed /\ queue \in Seq(Uid)
      /\ UNCHANGED queue /\ ScreenStays /\ CurGrows
      /\ \A v \in Uid : node'[v[1]][v[2]].pending = At(v).pending
  BY DEF IInv, TypeOK, Unmoved, PendStays
<1>1. QueuedPend'
  <2>1. \A i \in 1 .. Len(queue) : queue[i] \in Uid
    BY <1>0
  <2>2. ui = "ask" => asked \in Uid
    BY <1>0 DEF Placed, Answering
  <2> QED
    BY <1>0, <2>1, <2>2 DEF PInv, QueuedPend, NoDoubles, ScreenStays, At
<1>2. StoppedUnasked'
  <2>1. poll' = "stopped" => ~node'[pnode'[1]][pnode'[2]].pending
    <3>1. poll' = "stopped" => pnode' \in Uid
      BY DEF IInv, Placed
    <3> QED
      BY <1>0, <3>1 DEF Unmoved, At
  <2>2. \A u \in Uid : u[2] > cur'[u[1]] => ~node'[u[1]][u[2]].pending
    <3> SUFFICES ASSUME NEW u \in Uid, u[2] > cur'[u[1]] PROVE ~node'[u[1]][u[2]].pending
      OBVIOUS
    <3>1. /\ u[1] \in Pid /\ u[2] \in Nat /\ cur[u[1]] \in Nat /\ cur'[u[1]] \in Nat
          /\ cur[u[1]] <= cur'[u[1]]
      BY <1>0, BoundsAssumption DEF Uid, CurGrows, TypeOK, IInv
    <3> QED
      BY <1>0, <3>1 DEF PInv, StoppedUnasked
  <2> QED
    BY <2>1, <2>2 DEF Unmoved, StoppedUnasked, At
<1>3. ASSUME PendingWaits PROVE PendingWaits'
  BY <1>0, <1>3 DEF PendingWaits, Prompts, ScreenStays, At
<1> QED
  BY <1>1, <1>2, <1>3 DEF PInv

LEMMA AsksKeeps ==
    ASSUME IInv, PInv, NEW u \in Uid, AsksOf(u), IInv'
    PROVE  PInv' /\ (PendingWaits /\ Len(queue) < QueueSize => PendingWaits')
<1>0. /\ TypeOK /\ Placed /\ queue \in Seq(Uid) /\ Len(queue) \in Nat
      /\ ~At(u).pending /\ queue' = Enqueued(u) /\ ScreenStays /\ CurGrows
      /\ u[2] <= cur'[u[1]]
      /\ \A v \in Uid : node'[v[1]][v[2]].pending = (At(v).pending \/ v = u)
  <2>1. TypeOK /\ Placed
    BY DEF IInv
  <2>2. queue \in Seq(Uid)
    BY <2>1 DEF TypeOK
  <2> QED
    BY <2>1, <2>2 DEF AsksOf
<1>1. /\ queue' \in Seq(Uid)
      /\ \A i \in 1 .. Len(queue') : (i \in 1 .. Len(queue) /\ queue'[i] = queue[i])
                                     \/ (i = Len(queue) + 1 /\ queue'[i] = u)
      /\ \A i \in 1 .. Len(queue) : i \in 1 .. Len(queue') /\ queue'[i] = queue[i]
      /\ Len(queue) < QueueSize => Len(queue') = Len(queue) + 1 /\ queue'[Len(queue')] = u
  BY <1>0 DEF Enqueued
<1>2. \A i \in 1 .. Len(queue) : queue[i] \in Uid /\ queue[i] # u
  BY <1>0 DEF PInv, QueuedPend
<1>3. QueuedPend'
  <2>1. \A i \in 1 .. Len(queue') : node'[queue'[i][1]][queue'[i][2]].pending
    BY <1>0, <1>1, <1>2 DEF PInv, QueuedPend
  <2>2. ASSUME NEW i \in 1 .. Len(queue'), NEW j \in 1 .. Len(queue'), queue'[i] = queue'[j]
        PROVE  i = j
    <3>1. CASE queue'[i] = u
      BY <1>1, <1>2, <2>2, <3>1
    <3>2. CASE queue'[i] # u
      BY <1>1, <2>2, <3>2 DEF PInv, QueuedPend, NoDoubles
    <3> QED
      BY <3>1, <3>2
  <2>3. ASSUME ui' = "ask"
        PROVE  node'[asked'[1]][asked'[2]].pending /\ \A i \in 1 .. Len(queue') : queue'[i] # asked'
    <3>1. ui = "ask" /\ asked' = asked /\ asked \in Uid
      BY <1>0, <2>3 DEF ScreenStays, Placed, Answering
    <3>2. At(asked).pending /\ asked # u /\ \A i \in 1 .. Len(queue) : queue[i] # asked
      BY <1>0, <3>1 DEF PInv, QueuedPend
    <3> QED
      BY <1>0, <1>1, <3>1, <3>2
  <2> QED
    BY <2>1, <2>2, <2>3 DEF QueuedPend, NoDoubles, At
<1>4. StoppedUnasked'
  <2>1. ASSUME NEW v \in Uid, v[2] > cur'[v[1]] PROVE ~node'[v[1]][v[2]].pending
    <3>1. /\ v[1] \in Pid /\ v[2] \in Nat /\ cur[v[1]] \in Nat /\ cur'[v[1]] \in Nat
          /\ cur[v[1]] <= cur'[v[1]]
      BY <1>0, BoundsAssumption DEF Uid, CurGrows, TypeOK, IInv
    <3>3. v # u
      BY <1>0, <2>1, <3>1
    <3>4. ~At(v).pending
      BY <2>1, <3>1 DEF PInv, StoppedUnasked
    <3> QED
      BY <1>0, <3>3, <3>4
  <2> QED
    BY <2>1 DEF AsksOf, StoppedUnasked, At
<1>5. ASSUME PendingWaits, Len(queue) < QueueSize PROVE PendingWaits'
  <2> SUFFICES ASSUME NEW v \in Uid, node'[v[1]][v[2]].pending PROVE v \in Prompts'
    BY DEF PendingWaits, At
  <2>1. CASE v = u
    BY <1>1, <1>5, <2>1, <1>0 DEF Prompts
  <2>2. CASE v # u
    <3>1. v \in Prompts
      BY <1>0, <1>5, <2>2 DEF PendingWaits
    <3>2. CASE \E i \in 1 .. Len(queue) : v = queue[i]
      BY <1>1, <3>2 DEF Prompts
    <3>3. CASE ui = "ask" /\ v = asked
      BY <1>0, <3>3 DEF Prompts, ScreenStays
    <3> QED
      BY <3>1, <3>2, <3>3 DEF Prompts
  <2> QED
    BY <2>1, <2>2
<1> QED
  BY <1>3, <1>4, <1>5 DEF PInv

LEMMA TakeKeeps ==
    ASSUME IInv, PInv, Take
    PROVE  PInv' /\ (PendingWaits => PendingWaits')
<1>0. /\ TypeOK /\ Placed /\ queue \in Seq(Uid) /\ queue # <<>> /\ ui = "idle" /\ ui' = "ask"
      /\ asked' = queue[1] /\ queue' = Tail(queue) /\ UNCHANGED <<node, cur, poll, pnode>>
  BY DEF IInv, TypeOK, Take, nodeVars, pollVars
<1>1. /\ Len(queue') = Len(queue) - 1 /\ Len(queue) \in Nat \ {0}
      /\ \A i \in 1 .. Len(queue') : i + 1 \in 1 .. Len(queue) /\ queue'[i] = queue[i + 1]
      /\ \A i \in 1 .. Len(queue) : i = 1 \/ (i - 1 \in 1 .. Len(queue') /\ queue'[i - 1] = queue[i])
  BY <1>0
<1>2. QueuedPend'
  <2>1. \A i \in 1 .. Len(queue') : At(queue'[i]).pending
    BY <1>1 DEF PInv, QueuedPend
  <2>2. NoDoubles'
    <3> SUFFICES ASSUME NEW i \in 1 .. Len(queue'), NEW j \in 1 .. Len(queue'), queue'[i] = queue'[j]
                 PROVE  i = j
      BY DEF NoDoubles
    <3>1. i + 1 = j + 1
      BY <1>1 DEF PInv, QueuedPend, NoDoubles
    <3> QED
      BY <1>1, <3>1
  <2>3. At(queue[1]).pending /\ \A i \in 1 .. Len(queue') : queue'[i] # queue[1]
    <3>1. 1 \in 1 .. Len(queue)
      BY <1>1
    <3>2. \A i \in 1 .. Len(queue') : i + 1 # 1
      BY <1>1
    <3> QED
      BY <1>1, <3>1, <3>2 DEF PInv, QueuedPend, NoDoubles
  <2> QED
    BY <1>0, <2>1, <2>2, <2>3 DEF QueuedPend, At
<1>3. StoppedUnasked'
  BY <1>0 DEF PInv, StoppedUnasked, At
<1>4. ASSUME PendingWaits PROVE PendingWaits'
  <2> SUFFICES ASSUME NEW v \in Uid, At(v).pending PROVE v \in Prompts'
    BY <1>0 DEF PendingWaits, At
  <2>1. PICK i \in 1 .. Len(queue) : v = queue[i]
    BY <1>0, <1>4 DEF PendingWaits, Prompts
  <2> QED
    BY <1>0, <1>1, <2>1 DEF Prompts
<1> QED
  BY <1>2, <1>3, <1>4 DEF PInv

LEMMA PressKeeps ==
    ASSUME IInv, PInv, NEW d \in Decision, Press(d)
    PROVE  PInv' /\ (PendingWaits => PendingWaits')
<1>0. /\ TypeOK /\ Placed /\ queue \in Seq(Uid) /\ ui = "ask" /\ asked \in Uid
      /\ UNCHANGED <<queue, cur, poll, pnode>> /\ Put(asked, Answered(At(asked), d))
  BY DEF IInv, TypeOK, Press, Placed, Answering, pollVars
<1>1. ui' # "ask"
  BY DEF Press, AfterAnswer, Decision
<1>2. \A v \in Uid : node'[v[1]][v[2]].pending = IF v = asked THEN FALSE ELSE At(v).pending
  <2>1. At(asked) \in Node
    BY <1>0, AtType
  <2>2. Answered(At(asked), d) \in Node
    BY <2>1, AnsweredType
  <2>3. Answered(At(asked), d).pending = FALSE
    BY <2>1 DEF Answered, Node
  <2> QED
    BY <1>0, <2>2, <2>3, PutPends
<1>3. QueuedPend'
  <2>1. \A i \in 1 .. Len(queue) : queue[i] \in Uid /\ queue[i] # asked /\ At(queue[i]).pending
    BY <1>0 DEF PInv, QueuedPend
  <2> QED
    BY <1>0, <1>1, <1>2, <2>1 DEF PInv, QueuedPend, NoDoubles, At
<1>4. StoppedUnasked'
  <2>1. poll = "stopped" => pnode \in Uid
    BY <1>0 DEF Placed
  <2> QED
    BY <1>0, <1>2, <2>1 DEF PInv, StoppedUnasked, At
<1>5. ASSUME PendingWaits PROVE PendingWaits'
  BY <1>0, <1>2, <1>5 DEF PendingWaits, Prompts, At
<1> QED
  BY <1>3, <1>4, <1>5 DEF PInv

LEMMA PromptStep ==
    ASSUME IInv, PInv, [Next]_vars
    PROVE  PInv' /\ (PendingWaits /\ Len(queue) < QueueSize => PendingWaits')
<1>1. IInv'
  BY TypeStep, StartedStep, OrderStep, PlacedStep DEF IInv
<1>2. CASE Poller
  BY <1>1, <1>2, PollerPrompts, UnmovedKeeps, AsksKeeps
<1>3. CASE Kernel \/ Resolve \/ Manage \/ UNCHANGED vars
  BY <1>1, <1>3, OtherPrompts, UnmovedKeeps
<1> QED
  BY <1>2, <1>3, TakeKeeps, PressKeeps DEF Next

\* A sequence without doubles has as many members as places.
LEMMA DistinctCard ==
    ASSUME NEW S, NEW q \in Seq(S), \A i, j \in 1 .. Len(q) : q[i] = q[j] => i = j
    PROVE  LET T == {q[i] : i \in 1 .. Len(q)}
           IN  IsFiniteSet(T) /\ Cardinality(T) = Len(q)
<1> DEFINE T == {q[i] : i \in 1 .. Len(q)}
           D == 1 .. Len(q)
           f == [i \in D |-> q[i]]
<1>1. Len(q) \in Nat
  OBVIOUS
<1>2. IsFiniteSet(D) /\ Cardinality(D) = Len(q)
  <2>1. 1 \in Int /\ Len(q) \in Int /\ (1 > Len(q) => Len(q) = 0) /\ Len(q) - 1 + 1 = Len(q)
    BY <1>1
  <2>2. IsFiniteSet(D) /\ Cardinality(D) = IF 1 > Len(q) THEN 0 ELSE Len(q) - 1 + 1
    BY <2>1, FS_Interval
  <2> QED
    BY <2>1, <2>2
<1>3. f \in Bijection(D, T)
  BY DEF Bijection, Injection, Surjection, IsInjective
<1>4. ExistsBijection(D, T)
  BY <1>3 DEF ExistsBijection
<1> QED
  BY <1>2, <1>4, FS_Bijection

LEMMA PromptsCard ==
    ASSUME IInv, PInv
    PROVE  Cardinality(Prompts) = Len(queue) + (IF ui = "ask" THEN 1 ELSE 0)
<1> DEFINE T == {queue[i] : i \in 1 .. Len(queue)}
<1>1. IsFiniteSet(T) /\ Cardinality(T) = Len(queue)
  <2>1. queue \in Seq(Uid) /\ \A i, j \in 1 .. Len(queue) : queue[i] = queue[j] => i = j
    BY DEF IInv, TypeOK, PInv, QueuedPend, NoDoubles
  <2> QED
    BY <2>1, DistinctCard
<1>2. Len(queue) \in Nat
  BY DEF IInv, TypeOK
<1>3. CASE ui = "ask"
  <2>1. Prompts = T \cup {asked} /\ asked \notin T
    BY <1>3 DEF Prompts, PInv, QueuedPend
  <2> HIDE DEF T
  <2>2. Cardinality(T \cup {asked}) = Cardinality(T) + 1
    BY <1>1, <2>1, FS_AddElement
  <2> QED
    BY <1>1, <1>3, <2>1, <2>2
<1>4. CASE ui # "ask"
  <2>1. Prompts = T
    BY <1>4 DEF Prompts
  <2> HIDE DEF T
  <2> QED
    BY <1>1, <1>2, <1>4, <2>1
<1> QED
  BY <1>3, <1>4

LEMMA InductivePInv == Spec => []PInv
<1>1. Init => PInv
  BY DEF Init, PInv, QueuedPend, NoDoubles, StoppedUnasked, At, Blank, Uid
<1>2. IInv /\ PInv /\ [Next]_vars => PInv'
  BY PromptStep
<1> QED
  BY <1>1, <1>2, InductiveIInv, PTL DEF Spec

\* Every prompt, queued or on the screen, is of a node that awaits an answer, and no two are
\* of the same node.
PromptsPend == /\ Prompts \subseteq {u \in Uid : At(u).pending}
               /\ Cardinality(Prompts) = Len(queue) + (IF ui = "ask" THEN 1 ELSE 0)

\* A node is asked about once: enqueue_prompt and resolve_prompt keep every prompt's node
\* pending and apart from the others, whatever the two threads do between their sections
\* and even when the queue drops a prompt.
THEOREM PromptsAreOnce == Spec => []PromptsPend
<1>1. IInv /\ PInv => PromptsPend
  <2> SUFFICES ASSUME IInv, PInv PROVE PromptsPend
    OBVIOUS
  <2>1. queue \in Seq(Uid) /\ (ui = "ask" => asked \in Uid)
    BY DEF IInv, TypeOK, Placed, Answering
  <2> QED
    BY <2>1, PromptsCard DEF PromptsPend, Prompts, PInv, QueuedPend
<1> QED
  BY <1>1, InductiveIInv, InductivePInv, PTL

\* While prompt_q_ has room, prompt_pending is exactly "a prompt for it is queued or on the
\* screen": enqueue_prompt on the poller, whose test of the flag holds no lock, and
\* resolve_prompt on the UI agree.
THEOREM PromptsMatch == Spec /\ [](Len(queue) < QueueSize) => []PromptsMatchPending
<1>1. Init => PendingWaits
  BY DEF Init, PendingWaits, At, Blank, Uid
<1>2. IInv /\ PInv /\ PendingWaits /\ Len(queue) < QueueSize /\ [Next]_vars => PendingWaits'
  BY PromptStep
<1>3. PromptsPend /\ PendingWaits => PromptsMatchPending
  BY DEF PromptsPend, PendingWaits, PromptsMatchPending
<1> QED
  BY <1>1, <1>2, <1>3, InductiveIInv, InductivePInv, PromptsAreOnce, PTL DEF Spec

-----------------------------------------------------------------------------
(* Blocks and reuse of a pid.  While no event is lost and a pid waits for  *)
(* its events before it is used again, the tracker knows which process an  *)
(* event, a node and an entry in blocked_tgids stand for: the process is   *)
(* fresh (its FORK is unread), live (its node is the pid's last) or gone.  *)

\* The operator answers n, x, b or d, nothing is supervised, no rule is managed; a pid is
\* reused when its events have been read.
Plain == SlowReuse /\ ~Manages /\ Supervised = {} /\ Keys \subseteq {"n", "x", "b", "d"}

\* The ring holds what a call emits.
Room == Len(ring) + 2 <= RingSize

InRing(ty, p) == \E k \in 1 .. Len(ring) : ring[k].type = ty /\ ring[k].pid = p
NoEvent(p)    == \A k \in 1 .. Len(ring) : ring[k].pid # p

Fresh(p) == InRing("FORK", p)
Live(p)  == /\ ~Fresh(p) /\ cur[p] # 0
            /\ node[p][cur[p]].of = inc[p] /\ ~node[p][cur[p]].dead
Gone(p)  == /\ NoEvent(p)
            /\ IF inc[p] = 0 THEN cur[p] = 0 /\ life[p] = "none"
               ELSE cur[p] # 0 /\ node[p][cur[p]].of = inc[p] /\ node[p][cur[p]].dead
                    /\ life[p] = "dead"

Phases == \A p \in Pid :
    /\ Fresh(p) \/ Live(p) \/ Gone(p)
    /\ life[p] = "dead" => Gone(p) \/ InRing("EXIT", p)
    /\ life[p] = "none" => Gone(p)

\* Events are those of the processes that have the pids; an EXIT is its process's last.
Current  == \A k \in 1 .. Len(ring) : ring[k].inc = inc[ring[k].pid]
ExitLast == \A j, k \in 1 .. Len(ring) :
                ring[j].type = "EXIT" /\ ring[k].pid = ring[j].pid => k <= j

\* The nodes of a pid are those of its processes; only the last one can be of the present.
MadeFor == \A p \in Pid : \A k \in 1 .. MaxInc :
    /\ k <= cur[p] => node[p][k].of # 0 /\ node[p][k].of <= inc[p]
    /\ k > cur[p] => node[p][k].of = 0
    /\ node[p][k].of # 0 /\ node[p][k].of = inc[p] => k = cur[p] /\ ~Fresh(p)

ShapeInv == Phases /\ Current /\ ExitLast /\ MadeFor

\* All that a call emits is in the ring.
Adds(q, T) ==
    /\ Len(ring) <= Len(ring') /\ \A k \in 1 .. Len(ring) : ring'[k] = ring[k]
    /\ \A k \in 1 .. Len(ring') : k > Len(ring) =>
           ring'[k].pid = q /\ ring'[k].inc = inc'[q] /\ ring'[k].type \in T
    /\ \A ty \in T : \E k \in 1 .. Len(ring') : k > Len(ring) /\ ring'[k].type = ty
    /\ "EXIT" \in T => Len(ring') = Len(ring) + 1

LEMMA EmitAll ==
    ASSUME TypeOK, Room, NEW es \in Seq(Event), Len(es) <= 2, Emit(es)
    PROVE  /\ Len(ring') = Len(ring) + Len(es)
           /\ \A k \in 1 .. Len(ring) : ring'[k] = ring[k]
           /\ \A k \in 1 .. Len(ring') : k > Len(ring) =>
                  k - Len(ring) \in 1 .. Len(es) /\ ring'[k] = es[k - Len(ring)]
           /\ \A j \in 1 .. Len(es) : ring'[Len(ring) + j] = es[j]
<1>1. ring \in Seq(Event) /\ Len(ring) \in Nat /\ Len(es) \in Nat
  BY DEF TypeOK
<1>2. ring \o es \in Seq(Event) /\ Len(ring \o es) = Len(ring) + Len(es)
  BY <1>1
<1>3. ring' = SubSeq(ring \o es, 1, Len(ring) + Len(es))
  BY <1>1, BoundsAssumption DEF Emit, Room
<1>4. Len(ring') = Len(ring) + Len(es)
  BY <1>1, <1>2, <1>3
<1>5. /\ \A k \in 1 .. Len(ring) : ring'[k] = ring[k]
      /\ \A k \in 1 .. Len(ring') : k > Len(ring) =>
             k - Len(ring) \in 1 .. Len(es) /\ ring'[k] = es[k - Len(ring)]
  BY EmitRing
<1>6. ASSUME NEW j \in 1 .. Len(es) PROVE ring'[Len(ring) + j] = es[j]
  <2> DEFINE k == Len(ring) + j
  <2>1. k \in 1 .. Len(ring') /\ k > Len(ring) /\ k - Len(ring) = j
    BY <1>1, <1>4
  <2> QED
    BY <1>5, <2>1
<1> QED
  BY <1>4, <1>5, <1>6

LEMMA AddsOne ==
    ASSUME TypeOK, Room, NEW e \in Event, Emit(<<e>>), NEW q, e.pid = q, e.inc = inc'[q]
    PROVE  Adds(q, {e.type})
<1> DEFINE es == <<e>>
<1>1. es \in Seq(Event) /\ Len(es) = 1 /\ es[1] = e /\ Emit(es) /\ Len(ring) \in Nat
  BY DEF TypeOK
<1> HIDE DEF es
<1>2. /\ Len(ring') = Len(ring) + 1
      /\ \A k \in 1 .. Len(ring) : ring'[k] = ring[k]
      /\ \A k \in 1 .. Len(ring') : k > Len(ring) =>
             k - Len(ring) \in 1 .. 1 /\ ring'[k] = es[k - Len(ring)]
      /\ ring'[Len(ring) + 1] = e
  <2>1. Len(es) <= 2 /\ 1 \in 1 .. Len(es)
    BY <1>1
  <2>2. /\ Len(ring') = Len(ring) + Len(es)
        /\ \A k \in 1 .. Len(ring) : ring'[k] = ring[k]
        /\ \A k \in 1 .. Len(ring') : k > Len(ring) =>
               k - Len(ring) \in 1 .. Len(es) /\ ring'[k] = es[k - Len(ring)]
        /\ \A j \in 1 .. Len(es) : ring'[Len(ring) + j] = es[j]
    BY <1>1, <2>1, EmitAll
  <2>3. ring'[Len(ring) + 1] = es[1]
    BY <2>1, <2>2
  <2> QED
    BY <1>1, <2>2, <2>3
<1>3. \A k \in 1 .. Len(ring') : k > Len(ring) => ring'[k] = e
  BY <1>1, <1>2
<1>4. Len(ring) + 1 \in 1 .. Len(ring') /\ Len(ring) + 1 > Len(ring)
  BY <1>1, <1>2
<1> QED
  BY <1>1, <1>2, <1>3, <1>4 DEF Adds

\* What is in the ring after a call, and after a read.
LEMMA AddsRing ==
    ASSUME TypeOK, TypeOK', NEW q \in Pid, NEW T, Adds(q, T), NEW p \in Pid
    PROVE  /\ \A ty : InRing(ty, p)' <=> InRing(ty, p) \/ (p = q /\ ty \in T)
           /\ p # q => (NoEvent(p)' <=> NoEvent(p))
<1>1. Len(ring) \in Nat /\ Len(ring') \in Nat
  <2>1. ring \in Seq(Event) /\ ring' \in Seq(Event)
    BY Zenon DEF TypeOK
  <2> QED
    BY <2>1
<1>2. /\ \A k \in 1 .. Len(ring) : k \in 1 .. Len(ring') /\ ring'[k] = ring[k]
      /\ \A k \in 1 .. Len(ring') : k \in 1 .. Len(ring) \/ (k > Len(ring) /\ ring'[k].pid = q /\ ring'[k].type \in T)
      /\ \A ty \in T : \E k \in 1 .. Len(ring') : ring'[k].pid = q /\ ring'[k].type = ty
  BY <1>1 DEF Adds
<1> QED
  BY <1>2 DEF InRing, NoEvent

LEMMA PopsRing ==
    ASSUME TypeOK, ring # <<>>, ring' = Tail(ring), NEW p \in Pid
    PROVE  /\ \A ty : InRing(ty, p) <=> InRing(ty, p)' \/ (ring[1].pid = p /\ ring[1].type = ty)
           /\ NoEvent(p) <=> NoEvent(p)' /\ ring[1].pid # p
<1>1. ring \in Seq(Event)
  BY DEF TypeOK
<1>2. /\ Len(ring') \in Nat /\ Len(ring) \in Nat /\ 1 \in 1 .. Len(ring)
      /\ \A k \in 1 .. Len(ring') : k + 1 \in 1 .. Len(ring) /\ ring'[k] = ring[k + 1]
  BY <1>1, PopRing
<1>3. ASSUME NEW k \in 1 .. Len(ring), k # 1
      PROVE  k - 1 \in 1 .. Len(ring') /\ ring'[k - 1] = ring[k]
  <2>1. k - 1 \in 1 .. Len(ring')
    BY <1>1, <1>3
  <2> QED
    BY <1>1, <1>3, <2>1
<1>4. ASSUME NEW ty, InRing(ty, p) PROVE InRing(ty, p)' \/ (ring[1].pid = p /\ ring[1].type = ty)
  <2>1. PICK k \in 1 .. Len(ring) : ring[k].type = ty /\ ring[k].pid = p
    BY <1>4 DEF InRing
  <2> QED
    BY <1>3, <2>1 DEF InRing
<1>5. ASSUME NEW ty, InRing(ty, p)' PROVE InRing(ty, p)
  <2>1. PICK k \in 1 .. Len(ring') : ring'[k].type = ty /\ ring'[k].pid = p
    BY <1>5 DEF InRing
  <2> QED
    BY <1>2, <2>1 DEF InRing
<1>6. ASSUME NEW ty, ring[1].pid = p, ring[1].type = ty PROVE InRing(ty, p)
  BY <1>2, <1>6 DEF InRing
<1>7. NoEvent(p) => NoEvent(p)' /\ ring[1].pid # p
  BY <1>2 DEF NoEvent
<1>8. ASSUME NoEvent(p)', ring[1].pid # p PROVE NoEvent(p)
  <2> SUFFICES ASSUME NEW k \in 1 .. Len(ring) PROVE ring[k].pid # p
    BY DEF NoEvent
  <2> QED
    BY <1>3, <1>8 DEF NoEvent
<1> QED
  BY <1>4, <1>5, <1>6, <1>7, <1>8

\* The first event: a FORK if its process is fresh, one of a live process otherwise.
LEMMA FirstEvent ==
    ASSUME IInv, TInv, ShapeInv, ring # <<>>, ring' = Tail(ring)
    PROVE  LET e == ring[1]
           IN  /\ e \in Event /\ e.pid \in Pid /\ e.inc = inc[e.pid] /\ e.inc # 0
               /\ e.type = "FORK" => Fresh(e.pid) /\ \A k \in 1 .. Len(ring') :
                                         ring'[k].type = "FORK" => ring'[k].pid # e.pid
               /\ e.type # "FORK" => Live(e.pid)
               /\ e.type = "EXIT" => /\ \A k \in 1 .. Len(ring') : ring'[k].pid # e.pid
                                     /\ life[e.pid] = "dead"
<1> DEFINE e == ring[1]
<1>0. TypeOK /\ InOrder /\ ExitIsGone /\ Phases /\ Current /\ ExitLast
  BY DEF IInv, TInv, ShapeInv
<1>1. /\ e \in Event /\ 1 \in 1 .. Len(ring)
      /\ \A k \in 1 .. Len(ring') : k + 1 \in 1 .. Len(ring) /\ ring'[k] = ring[k + 1]
      /\ \A k \in 1 .. Len(ring) : ring[k] \in Event
  <2>1. ring \in Seq(Event) /\ Len(ring) \in Nat \ {0}
    BY <1>0 DEF TypeOK
  <2> QED
    BY <1>0, <2>1, PopRing
<1>2. e.pid \in Pid /\ e.inc = inc[e.pid] /\ e.inc \in 1 .. MaxInc /\ e.inc # 0 /\ e.inc \in Nat
  BY <1>0, <1>1, BoundsAssumption DEF Event, Current
<1>3. ASSUME NEW k \in 1 .. Len(ring), k # 1, ring[k].type = "FORK" PROVE ring[k].pid # e.pid
  <2>1. 1 \in 1 .. k - 1
    BY <1>0, <1>3 DEF TypeOK
  <2>2. ring[k].pid = e.pid => e.inc < ring[k].inc
    BY <1>0, <1>3, <2>1 DEF InOrder, After
  <2>3. ring[k].pid = e.pid => ring[k].inc = e.inc
    BY <1>0, <1>2, <1>3 DEF Current
  <2> QED
    BY <1>2, <2>2, <2>3
<1>4. \A k \in 1 .. Len(ring') : ring'[k].type = "FORK" => ring'[k].pid # e.pid
  <2> SUFFICES ASSUME NEW k \in 1 .. Len(ring'), ring'[k].type = "FORK" PROVE ring'[k].pid # e.pid
    OBVIOUS
  <2>1. k + 1 \in 1 .. Len(ring) /\ k + 1 # 1 /\ ring'[k] = ring[k + 1]
    BY <1>1
  <2> QED
    BY <1>3, <2>1
<1>5. e.type = "FORK" => Fresh(e.pid)
  BY <1>1 DEF Fresh, InRing
<1>6. ASSUME e.type # "FORK" PROVE Live(e.pid)
  <2>1. ~Fresh(e.pid)
    BY <1>3, <1>6 DEF Fresh, InRing
  <2>2. ~Gone(e.pid)
    BY <1>1 DEF Gone, NoEvent
  <2> QED
    BY <1>0, <1>2, <2>1, <2>2 DEF Phases
<1>7. ASSUME e.type = "EXIT"
      PROVE  life[e.pid] = "dead" /\ \A k \in 1 .. Len(ring') : ring'[k].pid # e.pid
  <2>1. life[e.pid] = "dead"
    BY <1>0, <1>1, <1>2, <1>7 DEF ExitIsGone
  <2>2. ASSUME NEW k \in 1 .. Len(ring'), ring'[k].pid = e.pid PROVE FALSE
    <3>1. k + 1 \in 1 .. Len(ring) /\ ring[k + 1].pid = e.pid
      BY <1>1, <2>2
    <3>2. k + 1 <= 1
      BY <1>0, <1>1, <1>7, <3>1 DEF ExitLast
    <3> QED
      BY <3>2
  <2> QED
    BY <2>1, <2>2
<1> QED
  BY <1>1, <1>2, <1>4, <1>5, <1>6, <1>7

\* A process whose EXIT is in the ring has died.
LEMMA ExitIsDead ==
    ASSUME IInv, TInv, ShapeInv, NEW p \in Pid, InRing("EXIT", p)
    PROVE  life[p] = "dead"
<1>1. PICK k \in 1 .. Len(ring) : ring[k].type = "EXIT" /\ ring[k].pid = p
  BY DEF InRing
<1>2. inc[p] \in Nat
  BY BoundsAssumption DEF IInv, TypeOK
<1> QED
  BY <1>1, <1>2 DEF TInv, ExitIsGone, ShapeInv, Current

\* A step that makes no node and ends no process.
NodesKeep ==
    /\ UNCHANGED <<inc, cur>>
    /\ \A p \in Pid : \A k \in 1 .. MaxInc :
           node'[p][k].of = node[p][k].of /\ node'[p][k].dead = node[p][k].dead
LivesKeep ==
    \A p \in Pid : (life'[p] = "dead" <=> life[p] = "dead") /\ (life'[p] = "none" <=> life[p] = "none")

\* No step undoes whose a node is, nor that it was blocked, until its process ends.
NodesLast ==
    \A p \in Pid : \A k \in 1 .. MaxInc : node[p][k].of # 0 =>
        /\ node'[p][k].of = node[p][k].of
        /\ node[p][k].blocked \/ node[p][k].dead => node'[p][k].blocked \/ node'[p][k].dead

PhaseStays(p) == (Live(p)' <=> Live(p)) /\ (Gone(p)' <=> Gone(p))

LEMMA SameShape ==
    ASSUME TypeOK, ShapeInv, NodesKeep, LivesKeep, UNCHANGED ring
    PROVE  ShapeInv' /\ \A p \in Pid : PhaseStays(p)
<1>1. /\ UNCHANGED <<inc, cur, ring>> /\ cur \in [Pid -> 0 .. MaxInc]
      /\ \A p \in Pid : cur[p] # 0 => cur[p] \in 1 .. MaxInc
  BY BoundsAssumption DEF NodesKeep, TypeOK
<1>2. ASSUME NEW p \in Pid PROVE PhaseStays(p) /\ (Fresh(p)' <=> Fresh(p))
  BY <1>1 DEF PhaseStays, Live, Gone, Fresh, InRing, NoEvent, NodesKeep, LivesKeep
<1>3. \A p \in Pid : InRing("EXIT", p)' <=> InRing("EXIT", p)
  BY <1>1 DEF InRing
<1>4. Phases'
  BY <1>2, <1>3 DEF ShapeInv, Phases, PhaseStays, LivesKeep
<1>5. Current' /\ ExitLast'
  BY <1>1 DEF ShapeInv, Current, ExitLast
<1>6. MadeFor'
  BY <1>1, <1>2 DEF ShapeInv, MadeFor, NodesKeep
<1> QED
  BY <1>2, <1>4, <1>5, <1>6 DEF ShapeInv

\* Reading an event leaves the order of the others.
LEMMA ReadOrder ==
    ASSUME IInv, TInv, ShapeInv, ring # <<>>, ring' = Tail(ring), UNCHANGED inc
    PROVE  Current' /\ ExitLast'
<1>1. /\ Len(ring) \in Nat /\ Len(ring') \in Nat
      /\ \A k \in 1 .. Len(ring') : k \in Nat /\ k + 1 \in 1 .. Len(ring) /\ ring'[k] = ring[k + 1]
  BY PopRing DEF IInv, TypeOK
<1>2. Current'
  BY <1>1 DEF ShapeInv, Current
<1>3. ASSUME NEW j \in 1 .. Len(ring'), NEW k \in 1 .. Len(ring'), ring'[j].type = "EXIT",
             ring'[k].pid = ring'[j].pid
      PROVE  k <= j
  <2>1. k + 1 <= j + 1
    BY <1>1, <1>3 DEF ShapeInv, ExitLast
  <2> QED
    BY <1>1, <2>1
<1> QED
  BY <1>2, <1>3 DEF ExitLast

LEMMA ReadShape ==
    ASSUME IInv, TInv, ShapeInv, NodesKeep, LivesKeep, ring # <<>>, ring' = Tail(ring),
           ring[1].type \notin {"FORK", "EXIT"}
    PROVE  ShapeInv' /\ \A p \in Pid : PhaseStays(p)
<1>0. TypeOK /\ Phases /\ MadeFor
  BY DEF IInv, ShapeInv
<1>1. /\ UNCHANGED <<inc, cur>> /\ cur \in [Pid -> 0 .. MaxInc]
      /\ \A p \in Pid : cur[p] # 0 => cur[p] \in 1 .. MaxInc
  BY <1>0, BoundsAssumption DEF NodesKeep, TypeOK
<1>2. ring[1].pid \in Pid /\ Live(ring[1].pid) /\ inc[ring[1].pid] # 0
  BY FirstEvent
<1>3. \A p \in Pid : /\ InRing("FORK", p)' <=> InRing("FORK", p)
                     /\ InRing("EXIT", p)' <=> InRing("EXIT", p)
                     /\ p # ring[1].pid => (NoEvent(p)' <=> NoEvent(p))
  BY <1>0, PopsRing
<1>4. ASSUME NEW p \in Pid PROVE PhaseStays(p)
  <2>1. Live(p)' <=> Live(p)
    BY <1>1, <1>3 DEF Live, Fresh, NodesKeep
  <2>2. CASE p # ring[1].pid
    BY <1>1, <1>3, <2>1, <2>2 DEF PhaseStays, Gone, NodesKeep, LivesKeep
  <2>3. CASE p = ring[1].pid
    <3>1. cur[p] # 0 /\ inc[p] # 0 /\ ~node[p][cur[p]].dead /\ ~node'[p][cur[p]].dead
      BY <1>1, <1>2, <2>3 DEF Live, NodesKeep
    <3> QED
      BY <1>1, <2>1, <3>1 DEF PhaseStays, Gone
  <2> QED
    BY <2>2, <2>3
<1>5. Phases'
  BY <1>0, <1>3, <1>4 DEF Phases, PhaseStays, LivesKeep, Fresh
<1>6. MadeFor'
  BY <1>0, <1>1, <1>3 DEF MadeFor, NodesKeep, Fresh
<1> QED
  BY <1>1, <1>4, <1>5, <1>6, ReadOrder DEF ShapeInv

LEMMA ForkShape ==
    ASSUME IInv, TInv, ShapeInv, IngestFork, NEW p \in Pid, p = ring[1].pid
    PROVE  /\ ShapeInv' /\ Live(p)' /\ Fresh(p) /\ ~Gone(p) /\ ~Gone(p)'
           /\ cur'[p] # 0 /\ node'[p][cur'[p]] = Made(ring[1]) /\ NodesLast
           /\ \A q \in Pid \ {p} : PhaseStays(q) /\ cur'[q] = cur[q] /\ node'[q] = node[q]
<1>0. TypeOK /\ Phases /\ MadeFor /\ cur \in [Pid -> 0 .. MaxInc]
  BY DEF IInv, ShapeInv, TypeOK
<1>1. Top("FORK") /\ ring # <<>> /\ ring' = Tail(ring) /\ UNCHANGED <<inc, life>>
  BY DEF IngestFork, Top, procVars
<1>2. /\ cur[p] \in Nat /\ cur[p] + 1 \in 1 .. MaxInc /\ ring[1].type = "FORK"
  BY <1>1, ForkRoom DEF Top
<1>3. /\ cur' = [cur EXCEPT ![p] = @ + 1]
      /\ \A q \in Pid \ {p} : node'[q] = node[q]
      /\ \A i \in 1 .. MaxInc :
             node'[p][i] = IF i = cur[p] + 1 THEN Made(ring[1])
                           ELSE IF i = cur[p] THEN [node[p][i] EXCEPT !.dead = TRUE]
                           ELSE node[p][i]
  BY ForkNode
<1>4. ring[1].inc = inc[p] /\ inc[p] # 0 /\ Fresh(p)
  BY <1>1, <1>2, FirstEvent
<1>5. ~Fresh(p)'
  BY <1>1, <1>2, FirstEvent DEF Fresh, InRing
<1>6. cur'[p] = cur[p] + 1 /\ \A q \in Pid \ {p} : cur'[q] = cur[q]
  BY <1>0, <1>3
<1>7. Made(ring[1]).of = inc[p] /\ Made(ring[1]).dead = FALSE
  BY <1>4 DEF Made, Blank
<1>n. node'[p][cur'[p]] = Made(ring[1]) /\ cur'[p] # 0
  <2> DEFINE i == cur[p] + 1
  <2>1. i \in 1 .. MaxInc /\ i # 0 /\ cur'[p] = i
    BY <1>2, <1>6
  <2>2. node'[p][i] = IF i = cur[p] + 1 THEN Made(ring[1])
                      ELSE IF i = cur[p] THEN [node[p][i] EXCEPT !.dead = TRUE]
                      ELSE node[p][i]
    BY <1>3, <2>1, Zenon
  <2>3. node'[p][i] = Made(ring[1])
    BY <2>2, Zenon DEF i
  <2> QED
    BY <2>1, <2>3, Zenon
<1>8. Live(p)' /\ ~Gone(p)'
  BY <1>1, <1>4, <1>5, <1>7, <1>n DEF Live, Gone
<1>9. \A q \in Pid : /\ q # p => (InRing("FORK", q)' <=> InRing("FORK", q))
                     /\ InRing("EXIT", q)' <=> InRing("EXIT", q)
                     /\ q # p => (NoEvent(q)' <=> NoEvent(q))
  BY <1>0, <1>1, <1>2, PopsRing
<1>10. ASSUME NEW q \in Pid \ {p} PROVE PhaseStays(q)
  BY <1>1, <1>3, <1>6, <1>9 DEF PhaseStays, Live, Gone, Fresh
<1>g. ~Gone(p)
  BY <1>1, <1>2 DEF Gone, NoEvent, Top, IInv, TypeOK
<1>11. Phases'
  BY <1>0, <1>1, <1>8, <1>9, <1>10, <1>g DEF Phases, PhaseStays, Fresh
<1>12. MadeFor'
  <2> SUFFICES ASSUME NEW q \in Pid, NEW k \in 1 .. MaxInc
               PROVE  /\ k <= cur'[q] => node'[q][k].of # 0 /\ node'[q][k].of <= inc[q]
                      /\ k > cur'[q] => node'[q][k].of = 0
                      /\ node'[q][k].of # 0 /\ node'[q][k].of = inc[q] => k = cur'[q] /\ ~Fresh(q)'
    BY <1>1 DEF MadeFor
  <2>1. CASE q # p
    BY <1>0, <1>3, <1>6, <1>9, <2>1 DEF MadeFor, Fresh
  <2>2. CASE q = p /\ k = cur[p] + 1
    <3>1. inc[p] \in Nat
      BY <1>0, BoundsAssumption DEF TypeOK
    <3>2. node'[q][k] = Made(ring[1]) /\ k = cur'[q] /\ k \in Nat
      BY <1>2, <1>6, <1>n, <2>2
    <3> QED
      BY <1>4, <1>5, <1>7, <2>2, <3>1, <3>2
  <2>3. CASE q = p /\ k # cur[p] + 1
    <3>0. node \in [Pid -> [1 .. MaxInc -> Node]]
      BY <1>0 DEF TypeOK
    <3>1. node[p][k] \in Node
      BY <3>0
    <3>2. node'[p][k].of = node[p][k].of
      BY <1>3, <2>3, <3>1 DEF Node
    <3>3. node[p][k].of # 0 => node[p][k].of # inc[p]
      BY <1>0, <1>4 DEF MadeFor
    <3>4. k \in Nat /\ cur[p] \in Nat /\ (k <= cur[p] <=> k <= cur'[p])
      BY <1>2, <1>6, <2>3
    <3>5. /\ k <= cur[p] => node[p][k].of # 0 /\ node[p][k].of <= inc[p]
          /\ k > cur[p] => node[p][k].of = 0
      BY <1>0 DEF MadeFor
    <3>6. cur'[p] \in Nat /\ (k > cur'[p] => k > cur[p])
      BY <1>2, <1>6, <3>4
    <3> QED
      BY <2>3, <3>2, <3>3, <3>4, <3>5, <3>6
  <2> QED
    BY <2>1, <2>2, <2>3
<1>13. NodesLast
  <2> SUFFICES ASSUME NEW q \in Pid, NEW k \in 1 .. MaxInc, node[q][k].of # 0
               PROVE  /\ node'[q][k].of = node[q][k].of
                      /\ node[q][k].blocked \/ node[q][k].dead => node'[q][k].blocked \/ node'[q][k].dead
    BY DEF NodesLast
  <2>1. CASE q # p
    BY <1>3, <2>1
  <2>2. CASE q = p
    <3>0. node \in [Pid -> [1 .. MaxInc -> Node]]
      BY <1>0 DEF TypeOK
    <3>1. node[p][k] \in Node
      BY <3>0
    <3>2. k # cur[p] + 1
      BY <1>0, <1>2, <2>2 DEF MadeFor
    <3>3. node'[p][k] = IF k = cur[p] THEN [node[p][k] EXCEPT !.dead = TRUE] ELSE node[p][k]
      BY <1>3, <3>2
    <3> QED
      BY <2>2, <3>1, <3>3 DEF Node
  <2> QED
    BY <2>1, <2>2
<1> QED
  BY <1>1, <1>3, <1>4, <1>6, <1>8, <1>10, <1>11, <1>12, <1>13, <1>g, <1>n, ReadOrder DEF ShapeInv

\* The EXIT of a live process is read.
LEMMA ExitShape ==
    ASSUME IInv, TInv, ShapeInv, IngestExit, NEW p \in Pid, p = ring[1].pid
    PROVE  /\ ShapeInv' /\ Live(p) /\ ~Live(p)' /\ Gone(p)' /\ NoEvent(p)' /\ NodesLast
           /\ cur[p] # 0 /\ cur' = cur /\ \A q \in Pid \ {p} : node'[q] = node[q]
           /\ node'[p][cur[p]] = [node[p][cur[p]] EXCEPT !.dead = TRUE, !.blocked = FALSE]
           /\ \A k \in 1 .. MaxInc \ {cur[p]} : node'[p][k] = node[p][k]
           /\ \A q \in Pid \ {p} : PhaseStays(q)
<1>0. TypeOK /\ Phases /\ MadeFor
  BY DEF IInv, ShapeInv
<1>1. Top("EXIT") /\ ring # <<>> /\ ring' = Tail(ring) /\ UNCHANGED <<inc, life, cur>>
  BY DEF IngestExit, Top, procVars
<1>2. Head(ring) = ring[1] /\ ring[1].type = "EXIT"
  BY <1>0, <1>1 DEF Top, TypeOK
<1>3. Live(p) /\ inc[p] # 0 /\ life[p] = "dead" /\ \A k \in 1 .. Len(ring') : ring'[k].pid # p
  BY <1>1, <1>2, FirstEvent
<1>4. Has(Now(p)) /\ Now(p) \in Uid /\ Now(p) = <<p, cur[p]>> /\ cur[p] \in 1 .. MaxInc /\ cur[p] # 0
  BY <1>0, <1>3, NowType DEF Live, Has, Now
<1>5. Put(Now(p), [At(Now(p)) EXCEPT !.dead = TRUE, !.blocked = FALSE])
  BY <1>2, <1>4 DEF IngestExit
<1> DEFINE n == [node[p][cur[p]] EXCEPT !.dead = TRUE, !.blocked = FALSE]
<1>6. node' = [node EXCEPT ![p][cur[p]] = n]
  BY <1>4, <1>5 DEF Put, At
<1>7. node \in [Pid -> [1 .. MaxInc -> Node]] /\ node[p][cur[p]] \in Node
  <2>1. node \in [Pid -> [1 .. MaxInc -> Node]]
    BY <1>0 DEF TypeOK
  <2> QED
    BY <1>4, <2>1
<1>8. n.of = node[p][cur[p]].of /\ n.dead = TRUE
  BY <1>7 DEF Node
<1> HIDE DEF n
<1>9. /\ \A q \in Pid \ {p} : node'[q] = node[q]
      /\ node'[p][cur[p]] = n
      /\ \A k \in 1 .. MaxInc \ {cur[p]} : node'[p][k] = node[p][k]
  BY <1>4, <1>6, <1>7
<1>10. NoEvent(p)' /\ ~Live(p)' /\ Gone(p)'
  BY <1>1, <1>3, <1>4, <1>8, <1>9 DEF NoEvent, Live, Gone
<1>11. \A q \in Pid : /\ InRing("FORK", q)' <=> InRing("FORK", q)
                      /\ q # p => (InRing("EXIT", q)' <=> InRing("EXIT", q))
                      /\ q # p => (NoEvent(q)' <=> NoEvent(q))
  BY <1>0, <1>1, <1>2, PopsRing
<1>12. ASSUME NEW q \in Pid \ {p} PROVE PhaseStays(q)
  BY <1>1, <1>9, <1>11 DEF PhaseStays, Live, Gone, Fresh
<1>13. Phases'
  BY <1>0, <1>1, <1>10, <1>11, <1>12 DEF Phases, PhaseStays, Fresh
<1>14. MadeFor'
  <2>1. \A q \in Pid : \A k \in 1 .. MaxInc : node'[q][k].of = node[q][k].of
    BY <1>4, <1>8, <1>9
  <2> QED
    BY <1>0, <1>1, <1>11, <2>1 DEF MadeFor, Fresh
<1>15. NodesLast
  <2> SUFFICES ASSUME NEW q \in Pid, NEW k \in 1 .. MaxInc
               PROVE  /\ node'[q][k].of = node[q][k].of
                      /\ node[q][k].dead => node'[q][k].dead
                      /\ node[q][k].blocked => node'[q][k].blocked \/ node'[q][k].dead
    BY DEF NodesLast
  <2>1. CASE q = p /\ k = cur[p]
    BY <1>8, <1>9, <2>1
  <2>2. CASE ~(q = p /\ k = cur[p])
    BY <1>9, <2>2
  <2> QED
    BY <2>1, <2>2
<1> QED
  BY <1>1, <1>3, <1>4, <1>9, <1>10, <1>12, <1>13, <1>14, <1>15, ReadOrder DEF ShapeInv, n

\* A running process makes a call, or ends.
LEMMA AddsShape ==
    ASSUME IInv, TInv, ShapeInv, TypeOK', NEW q \in Pid, NEW T, Adds(q, T), T # {}, NodesKeep,
           "FORK" \notin T, UNCHANGED node, life[q] \notin {"none", "dead"},
           \A p \in Pid : life'[p] = IF p = q /\ "EXIT" \in T THEN "dead" ELSE life[p]
    PROVE  ShapeInv' /\ \A p \in Pid : PhaseStays(p)
<1>0. TypeOK /\ Phases /\ MadeFor /\ Current /\ ExitLast
  BY DEF IInv, ShapeInv
<1>1. UNCHANGED <<inc, cur, node>>
  BY DEF NodesKeep
<1>2. \A p \in Pid : /\ InRing("FORK", p)' <=> InRing("FORK", p)
                     /\ InRing("EXIT", p)' <=> InRing("EXIT", p) \/ (p = q /\ "EXIT" \in T)
                     /\ p # q => (NoEvent(p)' <=> NoEvent(p))
  BY <1>0, AddsRing
<1>3. ~NoEvent(q)' /\ ~Gone(q)
  <2>1. PICK ty : ty \in T
    OBVIOUS
  <2>2. InRing(ty, q)'
    BY <1>0, <2>1, AddsRing
  <2> QED
    BY <2>2 DEF NoEvent, InRing, Gone
<1>4. ASSUME NEW p \in Pid PROVE PhaseStays(p)
  <2>1. Live(p)' <=> Live(p)
    BY <1>1, <1>2 DEF Live, Fresh
  <2>2. Gone(p)' <=> Gone(p)
    <3>1. CASE p = q
      BY <1>3, <3>1 DEF Gone
    <3>2. CASE p # q
      BY <1>1, <1>2, <3>2 DEF Gone
    <3> QED
      BY <3>1, <3>2
  <2> QED
    BY <2>1, <2>2 DEF PhaseStays
<1>5. Phases'
  <2>1. \A p \in Pid : life'[p] = "none" => life[p] = "none"
    OBVIOUS
  <2>2. \A p \in Pid : life'[p] = "dead" => life[p] = "dead" \/ InRing("EXIT", p)'
    BY <1>2
  <2> QED
    BY <1>0, <1>2, <1>4, <2>1, <2>2 DEF Phases, PhaseStays, Fresh
<1>6. Current'
  <2> SUFFICES ASSUME NEW k \in 1 .. Len(ring') PROVE ring'[k].inc = inc[ring'[k].pid]
    BY <1>1 DEF Current
  <2>1. Len(ring) \in Nat /\ k \in Nat
    BY <1>0 DEF TypeOK
  <2>2. k \in 1 .. Len(ring) \/ k > Len(ring)
    BY <2>1
  <2> QED
    BY <1>0, <1>1, <2>2 DEF Adds, Current
<1>7. ExitLast'
  <2> SUFFICES ASSUME NEW j \in 1 .. Len(ring'), NEW k \in 1 .. Len(ring'), ring'[j].type = "EXIT",
                      ring'[k].pid = ring'[j].pid
               PROVE  k <= j
    BY DEF ExitLast
  <2>0. Len(ring) \in Nat /\ Len(ring') \in Nat /\ j \in Nat /\ k \in Nat
    BY <1>0 DEF TypeOK
  <2>1. CASE j \in 1 .. Len(ring)
    <3>1. ring'[j] = ring[j] /\ ring[j].type = "EXIT"
      BY <2>1 DEF Adds
    <3>2. ring[j].pid \in Pid /\ InRing("EXIT", ring[j].pid)
      <4>1. ring \in Seq(Event)
        BY <1>0 DEF TypeOK
      <4>2. ring[j] \in Event
        BY <2>1, <4>1
      <4> QED
        BY <2>1, <3>1, <4>2 DEF InRing, Event
    <3>3. ring[j].pid # q
      BY <3>2, ExitIsDead
    <3>4. k \in 1 .. Len(ring)
      BY <2>0, <3>1, <3>3 DEF Adds
    <3> QED
      BY <1>0, <2>1, <3>1, <3>4 DEF Adds, ExitLast
  <2>2. CASE j > Len(ring)
    <3>1. "EXIT" \in T
      BY <2>2 DEF Adds
    <3>2. Len(ring') = Len(ring) + 1
      BY <3>1 DEF Adds
    <3> QED
      BY <2>0, <2>2, <3>2
  <2> QED
    BY <2>0, <2>1, <2>2
<1>8. MadeFor'
  BY <1>0, <1>1, <1>2 DEF MadeFor, Fresh
<1> QED
  BY <1>4, <1>5, <1>6, <1>7, <1>8 DEF ShapeInv

\* A pid is used again.
LEMMA SpawnShape ==
    ASSUME IInv, TInv, ShapeInv, TypeOK', Room, SlowReuse, NEW q \in Pid, NEW b \in Parents, Fork(q, b)
    PROVE  /\ ShapeInv' /\ Gone(q) /\ ~Live(q)' /\ ~Gone(q)' /\ inc'[q] = inc[q] + 1
           /\ NoEvent(q) /\ Adds(q, {"FORK"}) /\ \A p \in Pid \ {q} : inc'[p] = inc[p]
           /\ \A p \in Pid \ {q} : PhaseStays(p)
<1>0. /\ TypeOK /\ Phases /\ MadeFor /\ Current /\ ExitLast /\ inc \in [Pid -> 0 .. MaxInc]
      /\ life \in [Pid -> {"none", "run", "stopped", "dying", "dead"}]
  BY DEF IInv, ShapeInv, TypeOK
<1>1. /\ life[q] \in {"none", "dead"} /\ NoEvent(q) /\ UNCHANGED <<cur, node>>
      /\ life' = [life EXCEPT ![q] = "run"] /\ inc' = [inc EXCEPT ![q] = @ + 1]
  BY DEF Fork, NoEvent, nodeVars
<1>2. Gone(q)
  BY <1>0, <1>1 DEF Phases, NoEvent, InRing
<1>3. /\ inc'[q] = inc[q] + 1 /\ \A p \in Pid \ {q} : inc'[p] = inc[p] /\ life'[p] = life[p]
      /\ life'[q] = "run" /\ inc[q] \in Nat /\ inc'[q] \in 1 .. MaxInc
  BY <1>0, <1>1, BoundsAssumption DEF Fork
<1>4. Adds(q, {"FORK"})
  <2> DEFINE e == Forked(q, b)
  <2>1. b \in Bin
    BY BinAssumption
  <2>2. e \in Event /\ e.pid = q /\ e.inc = inc'[q] /\ e.type = "FORK"
    BY <1>3, <2>1, ForkType
  <2>3. Emit(<<e>>)
    BY DEF Fork
  <2> HIDE DEF e
  <2> QED
    BY <1>0, <2>2, <2>3, AddsOne
<1>5. \A p \in Pid : /\ InRing("FORK", p)' <=> InRing("FORK", p) \/ p = q
                     /\ InRing("EXIT", p)' <=> InRing("EXIT", p)
                     /\ p # q => (NoEvent(p)' <=> NoEvent(p))
  <2> DEFINE T == {"FORK"}
  <2>1. Adds(q, T) /\ "FORK" \in T /\ "EXIT" \notin T
    BY <1>4
  <2> HIDE DEF T
  <2> QED
    BY <1>0, <2>1, AddsRing
<1>6. Fresh(q)' /\ ~Live(q)'
  BY <1>5 DEF Fresh, Live
<1>7. ~Gone(q)'
  BY <1>3 DEF Gone
<1>8. ASSUME NEW p \in Pid \ {q} PROVE PhaseStays(p)
  BY <1>1, <1>3, <1>5 DEF PhaseStays, Live, Gone, Fresh
<1>9. Phases'
  BY <1>0, <1>3, <1>5, <1>6, <1>8 DEF Phases, PhaseStays, Fresh
<1>10. \A k \in 1 .. Len(ring') : \/ k \in 1 .. Len(ring) /\ ring'[k] = ring[k] /\ ring[k] \in Event
                                                          /\ ring[k].pid # q
                                  \/ k > Len(ring) /\ ring'[k].pid = q /\ ring'[k].inc = inc'[q]
                                                   /\ ring'[k].type = "FORK"
  <2>1. ring \in Seq(Event) /\ Len(ring) \in Nat /\ Len(ring') \in Nat
    BY <1>0 DEF TypeOK
  <2>2. \A k \in 1 .. Len(ring) : ring[k] \in Event
    BY <2>1
  <2> QED
    BY <1>1, <1>4, <2>1, <2>2 DEF Adds, NoEvent
<1>11. Current'
  BY <1>0, <1>3, <1>10 DEF Current, Event
<1>12. ExitLast'
  BY <1>0, <1>10 DEF ExitLast
<1>13. MadeFor'
  <2> SUFFICES ASSUME NEW p \in Pid, NEW k \in 1 .. MaxInc
               PROVE  /\ k <= cur[p] => node[p][k].of # 0 /\ node[p][k].of <= inc'[p]
                      /\ k > cur[p] => node[p][k].of = 0
                      /\ node[p][k].of # 0 /\ node[p][k].of = inc'[p] => k = cur[p] /\ ~Fresh(p)'
    BY <1>1 DEF MadeFor
  <2>1. CASE p # q
    BY <1>0, <1>3, <1>5, <2>1 DEF MadeFor, Fresh
  <2>2. CASE p = q
    <3>1. node \in [Pid -> [1 .. MaxInc -> Node]] /\ cur \in [Pid -> 0 .. MaxInc]
      BY <1>0 DEF TypeOK
    <3>2. node[p][k].of \in Nat /\ cur[p] \in Nat /\ k \in Nat
      BY <3>1, BoundsAssumption DEF Node
    <3>3. node[p][k].of # 0 => node[p][k].of <= inc[p]
      BY <1>0, <3>2 DEF MadeFor
    <3>4. node[p][k].of # inc'[p] /\ (node[p][k].of # 0 => node[p][k].of <= inc'[p])
      BY <1>3, <2>2, <3>2, <3>3
    <3> QED
      BY <1>0, <3>4 DEF MadeFor
  <2> QED
    BY <2>1, <2>2
<1> QED
  BY <1>1, <1>2, <1>3, <1>4, <1>6, <1>7, <1>8, <1>9, <1>11, <1>12, <1>13 DEF ShapeInv

\* What the threads hold between two sections: no rule allows, only "d" adds one.
NInv ==
    /\ white = {} /\ poll \in {"idle", "ask", "stopped"}
    /\ ui \in {"idle", "ask", "remember", "flag", "arm", "signal"}
    /\ ui \in {"remember", "flag"} => dec = "d"

\* The node asked about was made, and shows the block that is being armed or has ended.
AskInv ==
    /\ ui \in Answering => node[asked[1]][asked[2]].of # 0
    /\ ui = "arm" => node[asked[1]][asked[2]].blocked \/ node[asked[1]][asked[2]].dead

\* Process i of p has been answered for; its signal may still be under way.
Told(p, k) == said[p][k] # "none" \/ (ui = "signal" /\ asked = <<p, k>>)
Late(p, i) == \E k \in 1 .. MaxInc : node[p][k].of = i /\ Told(p, k)

Arms(p) == ui = "arm" /\ asked = <<p, cur[p]>>

\* An entry is for the process that has the pid, which has tripped or is shown as blocked,
\* or for one that was answered for; what is shown as blocked has an entry or soon will.
BlockInv(p) ==
    /\ armed[p] <= inc[p]
    /\ armed[p] # 0 =>
           \/ armed[p] = inc[p] /\ (InRing("TRIP", p) \/ (Live(p) /\ node[p][cur[p]].blocked))
           \/ Late(p, armed[p]) /\ (armed[p] = inc[p] => Gone(p))
    /\ InRing("TRIP", p) => armed[p] # 0
    /\ cur[p] # 0 /\ node[p][cur[p]].blocked => armed[p] # 0 \/ Arms(p)
    /\ p \in kexempt => Live(p) /\ node[p][cur[p]].exempt

BInv == NInv /\ AskInv /\ \A p \in Pid : BlockInv(p)

\* An answer is not undone.
ToldStays  == \A p \in Pid : \A k \in 1 .. MaxInc : Told(p, k) => Told(p, k)'
ArmsStay   == ui = "arm" => ui' = "arm" /\ asked' = asked

LEMMA AnswersStay == ASSUME IInv, [Next]_vars PROVE ToldStays
<1>0. TypeOK /\ Placed /\ said \in [Pid -> [1 .. MaxInc -> Decision \cup {"none"}]]
  BY DEF IInv, TypeOK
<1>1. CASE UNCHANGED <<ui, asked, said>>
  BY <1>1 DEF ToldStays, Told
<1>2. CASE ui # "signal" /\ UNCHANGED said
  BY <1>2 DEF ToldStays, Told
<1>s. ASSUME NEW d \in Decision, asked \in Uid, Says(asked, d)
      PROVE  \A p \in Pid : \A k \in 1 .. MaxInc :
                 said[p][k] # "none" \/ asked = <<p, k>> => said'[p][k] # "none"
  <2> TAKE p \in Pid
  <2> TAKE k \in 1 .. MaxInc
  <2>1. asked[1] \in Pid /\ asked[2] \in 1 .. MaxInc /\ d # "none"
    BY <1>s DEF Uid, Decision
  <2>2. said' = [said EXCEPT ![asked[1]][asked[2]] = d]
    BY <1>s DEF Says
  <2>3. CASE p = asked[1] /\ k = asked[2]
    BY <1>0, <2>1, <2>2, <2>3
  <2>4. CASE ~(p = asked[1] /\ k = asked[2])
    <3>1. said'[p][k] = said[p][k]
      BY <1>0, <2>1, <2>2, <2>4
    <3> QED
      BY <2>4, <3>1
  <2> QED
    BY <2>3, <2>4
<1>3. ASSUME NEW d \in Decision, Press(d) PROVE ToldStays
  <2>1. ui # "signal" /\ asked \in Uid /\ (UNCHANGED said \/ Says(asked, d))
    BY <1>0, <1>3 DEF Press, Placed, Answering
  <2> QED
    BY <1>2, <1>s, <2>1 DEF ToldStays, Told
<1>4. CASE SendSignal
  <2>1. asked \in Uid /\ Says(asked, dec) /\ dec \in Decision
    BY <1>0, <1>4 DEF SendSignal, Placed, Answering, TypeOK
  <2> QED
    BY <1>s, <2>1 DEF ToldStays, Told
<1>5. CASE Kernel \/ Poller \/ UNCHANGED vars
  <2>1. UNCHANGED uiVars
    BY <1>5 DEF Kernel, Die, ExecCheck, Daemonise, Fork, ExecEnter, Risky, Poller, IngestFork,
                IngestExit, IngestTripMuted, IngestTrip, IngestRisky, IngestExec, Lift, Lifted,
                Ask, Stopped, vars
  <2> QED
    BY <1>1, <2>1 DEF uiVars
<1>6. CASE Take \/ Remember \/ Flag \/ Arm \/ Disarm \/ Unflag
  BY <1>2, <1>6 DEF Take, Remember, Flag, Arm, Disarm, Unflag
<1>7. CASE Manage
  BY <1>2, <1>7 DEF Manage, Flush, Flushed, Collect, Managed, PauseRule, RemoveRule, Unblock, Reblock
<1> QED
  BY <1>3, <1>4, <1>5, <1>6, <1>7 DEF Next, Resolve

\* An answer that came late stays late.
LEMMA LateStays ==
    ASSUME TypeOK, NodesLast, ToldStays, NEW p \in Pid, NEW i, i # 0, Late(p, i)
    PROVE  Late(p, i)'
<1>1. PICK k \in 1 .. MaxInc : node[p][k].of = i /\ Told(p, k)
  BY DEF Late
<1>2. node'[p][k].of = i /\ Told(p, k)'
  BY <1>1 DEF NodesLast, ToldStays
<1> QED
  BY <1>2 DEF Late

\* A step that arms and disarms nothing, and shows a block only where there is an entry.
LEMMA BlockKept ==
    ASSUME TypeOK, NodesLast, ToldStays, NEW p \in Pid, BlockInv(p), PhaseStays(p), Arms(p) => Arms(p)',
           armed'[p] = armed[p], inc'[p] = inc[p], cur'[p] = cur[p],
           InRing("TRIP", p)' => InRing("TRIP", p),
           InRing("TRIP", p) => InRing("TRIP", p)' \/ (Live(p)' /\ node'[p][cur[p]].blocked),
           cur[p] # 0 /\ node[p][cur[p]].blocked => node'[p][cur[p]].blocked,
           cur[p] # 0 /\ node'[p][cur[p]].blocked => node[p][cur[p]].blocked \/ armed[p] # 0 \/ Arms(p)',
           p \in kexempt' => \/ p \in kexempt /\ (node[p][cur[p]].exempt => node'[p][cur[p]].exempt)
                             \/ Live(p)' /\ node'[p][cur[p]].exempt
    PROVE  BlockInv(p)'
<1>1. armed[p] # 0 => \/ armed[p] = inc[p] /\ (InRing("TRIP", p)' \/ (Live(p)' /\ node'[p][cur[p]].blocked))
                      \/ Late(p, armed[p]) /\ (armed[p] = inc[p] => Gone(p)')
  BY DEF BlockInv, PhaseStays, Live
<1>2. ASSUME NEW i, i = armed[p], i # 0
      PROVE  \/ i = inc[p] /\ (InRing("TRIP", p)' \/ (Live(p)' /\ node'[p][cur[p]].blocked))
             \/ Late(p, i)' /\ (i = inc[p] => Gone(p)')
  BY <1>1, <1>2, LateStays
<1>3. armed'[p] # 0 =>
           \/ armed'[p] = inc'[p] /\ (InRing("TRIP", p)' \/ (Live(p)' /\ node'[p][cur'[p]].blocked))
           \/ Late(p, armed[p])' /\ (armed'[p] = inc'[p] => Gone(p)')
  BY <1>2 DEF Late
<1>5. cur'[p] # 0 /\ node'[p][cur'[p]].blocked => armed'[p] # 0 \/ Arms(p)'
  BY DEF BlockInv
<1>6. p \in kexempt' => Live(p)' /\ node'[p][cur'[p]].exempt
  BY DEF BlockInv, PhaseStays
<1>7. armed'[p] <= inc'[p] /\ (InRing("TRIP", p)' => armed'[p] # 0)
  BY DEF BlockInv
<1> QED
  BY <1>3, <1>5, <1>6, <1>7 DEF BlockInv

LEMMA PutLast ==
    ASSUME TypeOK, NEW u \in Uid, NEW n \in Node, Put(u, n), UNCHANGED <<cur, inc>>,
           n.of = At(u).of, n.dead = At(u).dead, At(u).blocked => n.blocked
    PROVE  /\ NodesKeep /\ NodesLast
           /\ \A p \in Pid : cur[p] # 0 =>
                  node'[p][cur[p]] = IF u = <<p, cur[p]>> THEN n ELSE node[p][cur[p]]
<1>1. ASSUME NEW p \in Pid, NEW k \in 1 .. MaxInc
      PROVE  node'[p][k] = IF <<p, k>> = u THEN n ELSE node[p][k]
  <2> DEFINE v == <<p, k>>
  <2>1. v \in Uid /\ v[1] = p /\ v[2] = k
    BY DEF Uid
  <2> HIDE DEF v
  <2>2. node'[v[1]][v[2]] = IF v = u THEN n ELSE At(v)
    BY <2>1, PutNode
  <2> QED
    BY <2>1, <2>2 DEF At, v
<1>2. ASSUME NEW p \in Pid, NEW k \in 1 .. MaxInc
      PROVE  /\ node'[p][k].of = node[p][k].of /\ node'[p][k].dead = node[p][k].dead
             /\ node[p][k].blocked => node'[p][k].blocked
  <2>1. <<p, k>> = u => At(u) = node[p][k]
    BY DEF At
  <2> QED
    BY <1>1, <2>1
<1>3. \A p \in Pid : cur[p] # 0 => cur[p] \in 1 .. MaxInc
  BY LatestIs
<1> QED
  BY <1>1, <1>2, <1>3 DEF NodesKeep, NodesLast

\* A step that puts n, whose block has an entry or will be armed, and trusts nobody new.
LEMMA PutBlocks ==
    ASSUME TypeOK, \A p \in Pid : BlockInv(p) /\ PhaseStays(p), ToldStays, ArmsStay,
           NEW u \in Uid, NEW n \in Node, Put(u, n), UNCHANGED <<cur, inc, armed>>,
           n.of = At(u).of, n.dead = At(u).dead, At(u).blocked => n.blocked,
           n.blocked => At(u).blocked \/ armed[u[1]] # 0 \/ (ui' = "arm" /\ asked' = u),
           \A p \in Pid : InRing("TRIP", p)' => InRing("TRIP", p),
           \A p \in Pid : InRing("TRIP", p) =>
               InRing("TRIP", p)' \/ (u = <<p, cur[p]>> /\ Live(p) /\ n.blocked),
           \A p \in Pid : p \in kexempt' => p \in kexempt \/ (u = <<p, cur[p]>> /\ Live(p) /\ n.exempt),
           At(u).exempt => n.exempt \/ u[1] \notin kexempt'
    PROVE  NodesLast /\ \A p \in Pid : BlockInv(p)'
<1>1. /\ NodesKeep /\ NodesLast
      /\ \A p \in Pid : cur[p] # 0 =>
             node'[p][cur[p]] = IF u = <<p, cur[p]>> THEN n ELSE node[p][cur[p]]
  BY PutLast
<1>2. ASSUME NEW p \in Pid PROVE BlockInv(p)'
  <2>0. armed'[p] = armed[p] /\ inc'[p] = inc[p] /\ cur'[p] = cur[p]
    OBVIOUS
  <2>1. u = <<p, cur[p]>> => At(u) = node[p][cur[p]] /\ u[1] = p
    BY DEF At
  <2>2. Live(p) => cur[p] # 0
    BY DEF Live
  <2>3. cur[p] # 0 /\ node[p][cur[p]].blocked => node'[p][cur[p]].blocked
    BY <1>1, <2>1
  <2>4. cur[p] # 0 /\ node'[p][cur[p]].blocked => node[p][cur[p]].blocked \/ armed[p] # 0 \/ Arms(p)'
    BY <1>1, <2>1 DEF Arms
  <2>5. Live(p)' <=> Live(p)
    BY DEF PhaseStays
  <2>6. InRing("TRIP", p) => InRing("TRIP", p)' \/ (Live(p)' /\ node'[p][cur[p]].blocked)
    BY <1>1, <2>2, <2>5
  <2>7. p \in kexempt' => \/ p \in kexempt /\ (node[p][cur[p]].exempt => node'[p][cur[p]].exempt)
                          \/ Live(p)' /\ node'[p][cur[p]].exempt
    <3>1. CASE u = <<p, cur[p]>> /\ Live(p)
      BY <1>1, <2>1, <2>2, <2>5, <3>1
    <3>2. CASE u # <<p, cur[p]>>
      <4>1. p \in kexempt' => p \in kexempt /\ cur[p] # 0
        BY <2>2, <3>2 DEF BlockInv
      <4> QED
        BY <1>1, <3>2, <4>1
    <3>3. CASE ~Live(p)
      BY <3>3 DEF BlockInv
    <3> QED
      BY <3>1, <3>2, <3>3
  <2>8. Arms(p) => Arms(p)'
    BY <2>0 DEF ArmsStay, Arms
  <2> QED
    BY <1>1, <2>0, <2>3, <2>4, <2>6, <2>7, <2>8, BlockKept
<1> QED
  BY <1>1, <1>2

\* The same, where the nodes stay as they are.
LEMMA SameBlocks ==
    ASSUME TypeOK, \A p \in Pid : BlockInv(p) /\ PhaseStays(p), ToldStays, ArmsStay,
           UNCHANGED <<cur, inc, armed, node, kexempt>>,
           \A p \in Pid : InRing("TRIP", p)' <=> InRing("TRIP", p)
    PROVE  NodesLast /\ \A p \in Pid : BlockInv(p)'
<1>1. NodesLast
  BY DEF NodesLast
<1>2. ASSUME NEW p \in Pid PROVE BlockInv(p)'
  <2>1. Arms(p) => Arms(p)'
    BY DEF ArmsStay, Arms
  <2> QED
    BY <1>1, <2>1, BlockKept
<1> QED
  BY <1>1, <1>2

\* A step that leaves the UI thread where it is.
LEMMA AskKept ==
    ASSUME IInv, AskInv, NodesLast, UNCHANGED uiVars
    PROVE  AskInv'
<1>1. UNCHANGED <<ui, asked>>
  BY DEF uiVars
<1>2. ui \in Answering => asked[1] \in Pid /\ asked[2] \in 1 .. MaxInc
  BY DEF IInv, Placed, Uid
<1>3. ui = "arm" => ui \in Answering
  BY DEF Answering
<1> QED
  BY <1>1, <1>2, <1>3 DEF AskInv, NodesLast

\* Signals neither begin nor end a process.
LEMMA SignalLives ==
    ASSUME TypeOK, UNCHANGED life \/ \E p, sig : Signal(p, sig)
    PROVE  LivesKeep
<1>1. life \in [Pid -> {"none", "run", "stopped", "dying", "dead"}]
  BY DEF TypeOK
<1>2. CASE UNCHANGED life
  BY <1>2 DEF LivesKeep
<1>3. ASSUME NEW p, NEW sig, Signal(p, sig) PROVE LivesKeep
  <2> SUFFICES ASSUME NEW q \in Pid
               PROVE  (life'[q] = "dead" <=> life[q] = "dead") /\ (life'[q] = "none" <=> life[q] = "none")
    BY DEF LivesKeep
  <2>1. life'[q] = IF q \notin Group(p) THEN life[q]
                   ELSE CASE sig = "STOP" /\ life[q] = "run" -> "stopped"
                          [] sig = "CONT" /\ life[q] = "stopped" -> "run"
                          [] sig = "KILL" /\ Alive(q) -> "dying"
                          [] OTHER -> life[q]
    BY <1>3 DEF Signal
  <2> QED
    BY <1>1, <2>1 DEF Alive
<1> QED
  BY <1>2, <1>3

\* A step of the UI thread, or of the poller between two events, that leaves the nodes.
LEMMA SameStep ==
    ASSUME IInv, ShapeInv, BInv, ToldStays, ArmsStay, UNCHANGED <<cur, inc, armed, node, kexempt, ring>>,
           LivesKeep
    PROVE  ShapeInv' /\ NodesLast /\ \A p \in Pid : BlockInv(p)'
<1>0. TypeOK
  BY DEF IInv
<1>1. NodesKeep
  BY DEF NodesKeep
<1>2. ShapeInv' /\ \A p \in Pid : PhaseStays(p)
  BY <1>0, <1>1, SameShape
<1>3. \A p \in Pid : InRing("TRIP", p)' <=> InRing("TRIP", p)
  BY DEF InRing
<1> QED
  BY <1>0, <1>2, <1>3, SameBlocks DEF BInv

\* The same for one that puts a node.
LEMMA PutStep ==
    ASSUME IInv, ShapeInv, BInv, ToldStays, ArmsStay, LivesKeep,
           UNCHANGED <<cur, inc, armed, kexempt, ring>>,
           NEW u \in Uid, NEW n \in Node, Put(u, n), n.of = At(u).of, n.dead = At(u).dead,
           At(u).blocked => n.blocked, At(u).exempt => n.exempt,
           n.blocked => At(u).blocked \/ (ui' = "arm" /\ asked' = u)
    PROVE  ShapeInv' /\ NodesLast /\ \A p \in Pid : BlockInv(p)'
<1>0. TypeOK
  BY DEF IInv
<1>1. NodesKeep
  BY <1>0, PutLast
<1>2. ShapeInv' /\ \A p \in Pid : PhaseStays(p)
  BY <1>0, <1>1, SameShape
<1>3. \A p \in Pid : InRing("TRIP", p)' <=> InRing("TRIP", p)
  BY DEF InRing
<1>4. \A p \in Pid : BlockInv(p) /\ PhaseStays(p)
  BY <1>2 DEF BInv
<1> QED
  BY <1>0, <1>2, <1>3, <1>4, PutBlocks

LEMMA ArmBlocks ==
    ASSUME IInv, ShapeInv, BInv, ToldStays, Arm, NEW a \in Pid, NEW k \in 1 .. MaxInc,
           asked = <<a, k>>
    PROVE  ShapeInv' /\ BInv'
<1>0. /\ TypeOK /\ ui = "arm" /\ ui' = "signal" /\ asked' = asked /\ asked[1] = a /\ asked[2] = k
      /\ UNCHANGED <<cur, inc, node, kexempt, ring, life, white, poll>>
  BY DEF IInv, Arm, procVars, nodeVars, ruleVars, pollVars
<1>1. NodesKeep /\ NodesLast /\ LivesKeep
  BY <1>0 DEF NodesKeep, NodesLast, LivesKeep
<1>2. ShapeInv' /\ \A p \in Pid : PhaseStays(p)
  BY <1>0, <1>1, SameShape
<1>3. node[a][k].of # 0 /\ (node[a][k].blocked \/ node[a][k].dead)
  BY <1>0 DEF BInv, AskInv, Answering
<1>4. /\ armed \in [Pid -> 0 .. MaxInc] /\ armed' = [armed EXCEPT ![a] = node[a][k].of]
      /\ cur \in [Pid -> 0 .. MaxInc] /\ k \in Nat
  BY <1>0, BoundsAssumption DEF TypeOK, Arm, At
<1>5. \A p \in Pid : InRing("TRIP", p)' <=> InRing("TRIP", p)
  BY <1>0 DEF InRing
<1>6. ASSUME NEW p \in Pid, p # a PROVE BlockInv(p)'
  <2>1. armed'[p] = armed[p] /\ ~Arms(p)
    BY <1>0, <1>4, <1>6 DEF Arms
  <2>2. BlockInv(p) /\ PhaseStays(p) /\ (p \in kexempt' => p \in kexempt)
    BY <1>0, <1>2 DEF BInv
  <2> QED
    BY <1>0, <1>1, <1>5, <2>1, <2>2, BlockKept
<1>7. BlockInv(a)'
  <2>1. armed'[a] = node[a][k].of
    BY <1>0, <1>4
  <2>2. \E j \in 1 .. MaxInc : node'[a][j].of = node[a][k].of /\ Told(a, j)'
    BY <1>0 DEF Told
  <2>3. k <= cur[a] /\ node[a][k].of <= inc[a]
    <3>1. cur[a] \in Nat
      BY <1>0, <1>4, BoundsAssumption
    <3>2. (k <= cur[a] => node[a][k].of <= inc[a]) /\ (k > cur[a] => node[a][k].of = 0)
      BY <1>0 DEF ShapeInv, MadeFor
    <3> QED
      BY <1>3, <1>4, <3>1, <3>2
  <2>4. node[a][k].of = inc[a] => (Live(a)' /\ node[a][cur[a]].blocked) \/ Gone(a)'
    <3> SUFFICES ASSUME node[a][k].of = inc[a], ~Gone(a)' PROVE Live(a)' /\ node[a][cur[a]].blocked
      OBVIOUS
    <3>1. k = cur[a] /\ ~Fresh(a)
      BY <1>0, <1>3 DEF ShapeInv, MadeFor
    <3>2. Live(a) /\ Live(a)'
      BY <1>0, <1>2, <3>1 DEF ShapeInv, Phases, PhaseStays
    <3> QED
      BY <1>3, <3>1, <3>2 DEF Live
  <2>5. a \in kexempt' => Live(a)' /\ node'[a][cur'[a]].exempt
    BY <1>0, <1>2 DEF BInv, BlockInv, PhaseStays
  <2>6. Late(a, armed[a])'
    BY <2>1, <2>2 DEF Late
  <2> QED
    BY <1>0, <1>3, <2>1, <2>3, <2>4, <2>5, <2>6 DEF BlockInv
<1>8. AskInv'
  <2>1. ui' # "arm" /\ node'[asked'[1]][asked'[2]].of = node[a][k].of
    BY <1>0
  <2> QED
    BY <1>3, <2>1 DEF AskInv
<1>9. NInv'
  BY <1>0 DEF BInv, NInv
<1> QED
  BY <1>2, <1>6, <1>7, <1>8, <1>9 DEF BInv

LEMMA PressBlocks ==
    ASSUME Plain, IInv, ShapeInv, BInv, ToldStays, NEW d \in Decision, Press(d)
    PROVE  ShapeInv' /\ BInv'
<1> DEFINE n == Answered(At(asked), d)
<1>0. /\ TypeOK /\ asked \in Uid /\ ui = "ask" /\ d \in {"n", "x", "b", "d"} /\ Put(asked, n)
      /\ UNCHANGED <<cur, inc, armed, ring, life, white, poll>> /\ dec' = d /\ ui' = AfterAnswer(d)
      /\ (d # "x" => asked' = asked) /\ kexempt \subseteq Pid
  BY DEF IInv, Press, Placed, Answering, procVars, nodeVars, ruleVars, pollVars, Plain, TypeOK
<1>1. At(asked) \in Node /\ n \in Node
  BY <1>0, AtType, AnsweredType
<1>2. /\ n.of = At(asked).of /\ n.dead = At(asked).dead
      /\ n.blocked <=> At(asked).blocked \/ d = "b"
      /\ n.exempt <=> At(asked).exempt
  BY <1>0, <1>1 DEF Answered, Node
<1>3. UNCHANGED kexempt /\ LivesKeep /\ ArmsStay
  BY <1>0 DEF Press, Trust, LivesKeep, ArmsStay
<1>4. d = "b" => ui' = "arm" /\ asked' = asked
  BY <1>0 DEF AfterAnswer
<1> HIDE DEF n
<1>5. ShapeInv' /\ NodesLast /\ \A p \in Pid : BlockInv(p)'
  BY <1>0, <1>1, <1>2, <1>3, <1>4, PutStep
<1>6. AskInv'
  <2>1. node'[asked[1]][asked[2]] = n
    BY <1>0, <1>1, PutNode
  <2>2. n.of # 0
    BY <1>0, <1>2 DEF BInv, AskInv, Answering, At
  <2>3. d = "x" => ui' \notin Answering /\ ui' # "arm"
    BY <1>0 DEF AfterAnswer, Answering
  <2>4. ui' = "arm" => n.blocked
    BY <1>0, <1>2 DEF AfterAnswer
  <2> QED
    BY <1>0, <2>1, <2>2, <2>3, <2>4 DEF AskInv
<1>7. NInv'
  BY <1>0 DEF BInv, NInv, AfterAnswer
<1> QED
  BY <1>5, <1>6, <1>7 DEF BInv

LEMMA FlagBlocks ==
    ASSUME IInv, ShapeInv, BInv, ToldStays, Flag
    PROVE  ShapeInv' /\ BInv'
<1> DEFINE ex == At(asked).exempt \/ dec = "l"
           bl == dec = "d"
           n  == [At(asked) EXCEPT !.frozen = FALSE, !.blocked = bl, !.exempt = ex]
<1>0. /\ TypeOK /\ asked \in Uid /\ ui = "flag" /\ dec = "d" /\ Put(asked, n)
      /\ UNCHANGED <<cur, inc, armed, ring, life, white, poll, asked>> /\ ui' = "arm"
  BY DEF IInv, Flag, Placed, Answering, procVars, ruleVars, pollVars, BInv, NInv
<1>1. At(asked) \in Node
  BY <1>0, AtType
<1>b. bl = TRUE /\ ex \in BOOLEAN /\ (ex <=> At(asked).exempt)
  BY <1>0, <1>1 DEF Node
<1>3. UNCHANGED kexempt /\ LivesKeep /\ ArmsStay
  BY <1>0 DEF Flag, Trust, LivesKeep, ArmsStay, TypeOK
<1> HIDE DEF ex, bl
<1>2. /\ n \in Node /\ n.of = At(asked).of /\ n.dead = At(asked).dead
      /\ n.blocked /\ (n.exempt <=> At(asked).exempt)
  BY <1>1, <1>b DEF Node
<1> HIDE DEF n
<1>5. ShapeInv' /\ NodesLast /\ \A p \in Pid : BlockInv(p)'
  BY <1>0, <1>1, <1>2, <1>3, PutStep
<1>6. AskInv'
  <2>1. node'[asked[1]][asked[2]] = n
    BY <1>0, <1>2, PutNode
  <2>2. n.of # 0
    BY <1>0, <1>2 DEF BInv, AskInv, Answering, At
  <2> QED
    BY <1>0, <1>2, <2>1, <2>2 DEF AskInv
<1>7. NInv'
  BY <1>0 DEF BInv, NInv
<1> QED
  BY <1>5, <1>6, <1>7 DEF BInv

LEMMA UiBlocks ==
    ASSUME Plain, IInv, PInv, ShapeInv, BInv, ToldStays,
           Take \/ (\E d \in Decision : Press(d)) \/ Resolve \/ Manage
    PROVE  ShapeInv' /\ BInv'
<1>0. TypeOK /\ Placed
  BY DEF IInv
<1>a. ui \in Answering => asked \in Uid /\ asked[1] \in Pid /\ asked[2] \in 1 .. MaxInc
  BY <1>0 DEF Placed, Uid
<1>1. CASE Take
  <2>1. /\ UNCHANGED <<cur, inc, armed, node, kexempt, ring, life, white, poll, dec>>
        /\ ui' = "ask" /\ ui = "idle" /\ queue # <<>> /\ asked' = Head(queue)
    BY <1>1 DEF Take, procVars, mapVars, nodeVars, ruleVars, pollVars
  <2>2. LivesKeep /\ ArmsStay
    BY <2>1 DEF LivesKeep, ArmsStay
  <2>3. ShapeInv' /\ NodesLast /\ \A p \in Pid : BlockInv(p)'
    BY <2>1, <2>2, SameStep
  <2>4. asked' \in Uid /\ At(asked').pending
    <3>1. queue \in Seq(Uid) /\ Len(queue) \in Nat /\ 1 \in 1 .. Len(queue) /\ asked' = queue[1]
      BY <1>0, <2>1 DEF TypeOK
    <3> QED
      BY <3>1 DEF PInv, QueuedPend
  <2>5. AskInv'
    <3> DEFINE u == asked'
    <3>1. u[1] \in Pid /\ u[2] \in 1 .. MaxInc /\ cur[u[1]] \in Nat
      BY <1>0, <2>4, BoundsAssumption DEF Uid, TypeOK
    <3>2. u[2] <= cur[u[1]]
      <4>1. ~(u[2] > cur[u[1]])
        BY <2>4 DEF PInv, StoppedUnasked
      <4> QED
        BY <3>1, <4>1
    <3>3. node[u[1]][u[2]].of # 0
      BY <3>1, <3>2 DEF ShapeInv, MadeFor
    <3> QED
      BY <2>1, <3>3 DEF AskInv
  <2>6. NInv'
    BY <2>1 DEF BInv, NInv
  <2> QED
    BY <2>3, <2>5, <2>6 DEF BInv
<1>2. CASE Remember
  <2>1. /\ UNCHANGED <<cur, inc, armed, node, kexempt, ring, life, white, poll, dec, asked>>
        /\ ui' = "flag" /\ ui = "remember" /\ dec = "d"
    BY <1>2 DEF Remember, procVars, mapVars, nodeVars, pollVars, BInv, NInv
  <2>2. LivesKeep /\ ArmsStay
    BY <2>1 DEF LivesKeep, ArmsStay
  <2>3. ShapeInv' /\ NodesLast /\ \A p \in Pid : BlockInv(p)'
    BY <2>1, <2>2, SameStep
  <2>4. AskInv' /\ NInv'
    BY <2>1 DEF AskInv, BInv, NInv, Answering
  <2> QED
    BY <2>3, <2>4 DEF BInv
<1>3. CASE SendSignal
  <2>1. /\ UNCHANGED <<cur, inc, armed, node, kexempt, ring, white, poll>> /\ ui' = "idle" /\ ui = "signal"
    BY <1>3 DEF SendSignal, mapVars, nodeVars, ruleVars, pollVars
  <2>2. LivesKeep /\ ArmsStay
    <3>1. \E p, sig : Signal(p, sig)
      BY <1>3, Zenon DEF SendSignal
    <3> QED
      BY <1>0, <2>1, <3>1, SignalLives DEF ArmsStay
  <2>3. ShapeInv' /\ NodesLast /\ \A p \in Pid : BlockInv(p)'
    BY <2>1, <2>2, SameStep
  <2>4. AskInv' /\ NInv'
    BY <2>1 DEF AskInv, BInv, NInv, Answering
  <2> QED
    BY <2>3, <2>4 DEF BInv
<1>4. CASE Arm
  <2>1. asked \in Uid
    BY <1>4, <1>a DEF Arm, Answering
  <2>2. PICK a \in Pid, k \in 1 .. MaxInc : asked = <<a, k>>
    BY <2>1 DEF Uid
  <2> QED
    BY <1>4, <2>2, ArmBlocks
<1>5. CASE Disarm \/ Unflag \/ Manage
  BY <1>5 DEF Disarm, Unflag, Manage, Flush, Flushed, Collect, Managed, PauseRule, RemoveRule,
              Unblock, Reblock, BInv, NInv, Plain
<1> QED
  BY <1>1, <1>2, <1>3, <1>4, <1>5, PressBlocks, FlagBlocks DEF Resolve

\* An event of a live process is read; its node stays its own.
LEMMA ReadStep ==
    ASSUME IInv, TInv, ShapeInv, BInv, ToldStays, LivesKeep, ring # <<>>, ring' = Tail(ring),
           UNCHANGED uiVars, UNCHANGED <<cur, inc>>, ring[1].type \notin {"FORK", "EXIT"},
           NEW p \in Pid, p = ring[1].pid,
           NEW u \in Uid, u = <<p, cur[p]>>, NEW n \in Node, Put(u, n),
           n.of = At(u).of, n.dead = At(u).dead, At(u).blocked => n.blocked,
           ring[1].type = "TRIP" => n.blocked,
           \A q \in Pid \ {p} : armed'[q] = armed[q] /\ (q \in kexempt' => q \in kexempt),
           p \in kexempt' => n.exempt \/ (p \in kexempt /\ (At(u).exempt => n.exempt)),
           \/ armed'[p] = armed[p] /\ (n.blocked => At(u).blocked \/ armed[p] # 0)
           \/ armed'[p] = inc[p] /\ n.blocked
    PROVE  ShapeInv' /\ NodesLast /\ AskInv' /\ \A q \in Pid : BlockInv(q)'
<1>0. TypeOK /\ ArmsStay /\ Live(p) /\ inc[p] # 0 /\ UNCHANGED <<ui, asked>> /\ inc[p] \in Nat
  <2>1. Live(p) /\ inc[p] # 0
    BY FirstEvent
  <2>2. inc[p] \in Nat
    BY BoundsAssumption DEF IInv, TypeOK
  <2> QED
    BY <2>1, <2>2 DEF IInv, ArmsStay, uiVars
<1>1. /\ NodesKeep /\ NodesLast
      /\ \A q \in Pid : cur[q] # 0 =>
             node'[q][cur[q]] = IF u = <<q, cur[q]>> THEN n ELSE node[q][cur[q]]
  BY <1>0, PutLast
<1>2. ShapeInv' /\ \A q \in Pid : PhaseStays(q)
  BY <1>1, ReadShape
<1>3. AskInv'
  BY <1>1, AskKept DEF BInv
<1>4. \A q \in Pid : /\ InRing("TRIP", q)' => InRing("TRIP", q)
                     /\ InRing("TRIP", q) => InRing("TRIP", q)' \/ (q = p /\ ring[1].type = "TRIP")
  BY <1>0, PopsRing
<1>5. /\ cur[p] # 0 /\ node'[p][cur[p]] = n /\ At(u) = node[p][cur[p]] /\ Live(p)'
  BY <1>0, <1>1, <1>2 DEF Live, At, PhaseStays
<1>6. ASSUME NEW q \in Pid, q # p PROVE BlockInv(q)'
  <2>1. cur[q] # 0 => node'[q][cur[q]] = node[q][cur[q]]
    BY <1>1, <1>6
  <2>2. Live(q) => cur[q] # 0
    BY DEF Live
  <2>3. BlockInv(q) /\ PhaseStays(q)
    BY <1>2 DEF BInv
  <2>4. q \in kexempt' => q \in kexempt /\ (node[q][cur[q]].exempt => node'[q][cur[q]].exempt)
    BY <1>6, <2>1, <2>2, <2>3 DEF BlockInv
  <2>5. Arms(q) => Arms(q)'
    BY <1>0 DEF Arms
  <2> QED
    BY <1>0, <1>1, <1>4, <1>6, <2>1, <2>3, <2>4, <2>5, BlockKept
<1>7. BlockInv(p)'
  <2>1. p \in kexempt' => n.exempt
    BY <1>5 DEF BInv, BlockInv
  <2>2. CASE armed'[p] = armed[p] /\ (n.blocked => At(u).blocked \/ armed[p] # 0)
    <3>1. BlockInv(p) /\ PhaseStays(p)
      BY <1>2 DEF BInv
    <3>2. InRing("TRIP", p) => InRing("TRIP", p)' \/ (Live(p)' /\ node'[p][cur[p]].blocked)
      BY <1>4, <1>5
    <3>3. Arms(p) => Arms(p)'
      BY <1>0 DEF Arms
    <3> QED
      BY <1>0, <1>1, <1>4, <1>5, <2>1, <2>2, <3>1, <3>2, <3>3, BlockKept
  <2>3. CASE armed'[p] = inc[p] /\ n.blocked
    BY <1>0, <1>5, <2>1, <2>3 DEF BlockInv
  <2> QED
    BY <2>2, <2>3
<1> QED
  BY <1>1, <1>2, <1>3, <1>6, <1>7

\* The first event is one of a live process, at its latest node.
LEMMA ReadsLive ==
    ASSUME IInv, TInv, ShapeInv, ring # <<>>, ring' = Tail(ring), ring[1].type # "FORK"
    PROVE  LET e == ring[1]
           IN  /\ Head(ring) = e /\ e \in Event /\ e.pid \in Pid /\ Has(Now(e.pid))
               /\ Now(e.pid) \in Uid /\ Now(e.pid) = <<e.pid, cur[e.pid]>> /\ At(Now(e.pid)) \in Node
               /\ At(Now(e.pid)).of = inc[e.pid] /\ Live(e.pid) /\ cur[e.pid] # 0
               /\ EnsureUid(e.pid) = Now(e.pid) /\ EnsureNode(e) = At(Now(e.pid))
               /\ cur' = [cur EXCEPT ![e.pid] = IF @ = 0 THEN 1 ELSE @] => UNCHANGED cur
<1> DEFINE e == ring[1]
<1>0. TypeOK /\ cur \in [Pid -> 0 .. MaxInc]
  BY DEF IInv, TypeOK
<1>1. Head(ring) = e
  BY <1>0 DEF TypeOK
<1>2. e \in Event /\ e.pid \in Pid /\ Live(e.pid)
  BY FirstEvent
<1>3. Has(Now(e.pid)) /\ Now(e.pid) = <<e.pid, cur[e.pid]>> /\ cur[e.pid] # 0
  BY <1>2 DEF Live, Has, Now
<1>4. Now(e.pid) \in Uid /\ At(Now(e.pid)) \in Node
  BY <1>0, <1>2, <1>3, NowType, AtType
<1>5. At(Now(e.pid)).of = inc[e.pid]
  BY <1>2 DEF Live, At, Now
<1>6. EnsureUid(e.pid) = Now(e.pid) /\ EnsureNode(e) = At(Now(e.pid))
  BY <1>3 DEF EnsureUid, EnsureNode
<1>7. cur' = [cur EXCEPT ![e.pid] = IF @ = 0 THEN 1 ELSE @] => UNCHANGED cur
  BY <1>0, <1>2, <1>3
<1> QED
  BY <1>1, <1>2, <1>3, <1>4, <1>5, <1>6, <1>7

LEMMA ScoreLives ==
    ASSUME TypeOK, NEW u, NEW n, NEW h, NEW hot, Score(u, n, h, hot)
    PROVE  LivesKeep
<1>1. UNCHANGED life \/ \E p, sig : Signal(p, sig)
  BY Zenon DEF Score
<1> QED
  BY <1>1, SignalLives

LEMMA RiskyBlocks ==
    ASSUME Plain, IInv, TInv, ShapeInv, BInv, ToldStays, NEW hot, IngestRisky(hot)
    PROVE  ShapeInv' /\ BInv'
<1> DEFINE e == ring[1]
           p == e.pid
           u == Now(p)
<1>0. /\ TypeOK /\ ring # <<>> /\ ring' = Tail(ring) /\ Top("RISKY")
      /\ UNCHANGED <<inc, armed, uiVars, pollVars, ruleVars>>
  BY DEF IInv, IngestRisky, Top
<1>1. e.type = "RISKY"
  BY <1>0 DEF Top, TypeOK
<1>2. /\ Head(ring) = e /\ e \in Event /\ p \in Pid /\ Has(u) /\ u \in Uid /\ u = <<p, cur[p]>>
      /\ At(u) \in Node /\ EnsureUid(p) = u /\ EnsureNode(e) = At(u)
      /\ (cur' = [cur EXCEPT ![p] = IF @ = 0 THEN 1 ELSE @] => UNCHANGED cur)
  BY <1>0, <1>1, ReadsLive
<1>3. /\ Score(u, At(u), thash[p], hot) /\ Trust(p, p \in kexempt) /\ UNCHANGED cur
  BY <1>2 DEF IngestRisky, Ensure, Trust
<1>4. thash[p] \in Bin \cup {NoBin}
  BY <1>0, <1>2 DEF TypeOK
<1>5. PICK m : ScoredAs(m, At(u)) /\ Put(u, m)
  BY <1>0, <1>2, <1>3, <1>4, ScoreNode
<1>6. LivesKeep
  BY <1>0, <1>3, ScoreLives
<1>7. \A q \in Pid : q \in kexempt' <=> q \in kexempt
  BY <1>3 DEF Trust
<1> HIDE DEF e, p, u
<1>8. ShapeInv' /\ NodesLast /\ AskInv' /\ \A q \in Pid : BlockInv(q)'
  <2>1. p = ring[1].pid /\ ring[1].type = "RISKY"
    BY <1>1 DEF p, e
  <2> QED
    BY <1>0, <1>2, <1>3, <1>5, <1>6, <1>7, <2>1, ReadStep DEF ScoredAs
<1>9. NInv'
  BY <1>0 DEF BInv, NInv, uiVars, pollVars, ruleVars
<1> QED
  BY <1>8, <1>9 DEF BInv

LEMMA ExecBlocks ==
    ASSUME Plain, IInv, TInv, ShapeInv, BInv, ToldStays, NEW hot, IngestExec(hot)
    PROVE  ShapeInv' /\ BInv'
<1> DEFINE e == ring[1]
           p == e.pid
           u == Now(p)
           r == Renamed(At(u), e)
           n == Judged(r)
<1>0. /\ TypeOK /\ ring # <<>> /\ ring' = Tail(ring) /\ Top("EXEC")
      /\ UNCHANGED <<inc, uiVars, pollVars, ruleVars>> /\ armed \in [Pid -> 0 .. MaxInc]
  BY DEF IInv, IngestExec, Top, TypeOK
<1>1. e.type = "EXEC"
  BY <1>0 DEF Top, TypeOK
<1>2. /\ Head(ring) = e /\ e \in Event /\ p \in Pid /\ Has(u) /\ u \in Uid /\ u = <<p, cur[p]>>
      /\ At(u) \in Node /\ EnsureUid(p) = u /\ EnsureNode(e) = At(u) /\ At(u).of = inc[p]
      /\ (cur' = [cur EXCEPT ![p] = IF @ = 0 THEN 1 ELSE @] => UNCHANGED cur)
  BY <1>0, <1>1, ReadsLive
<1> DEFINE bad == Consults(r) /\ Verdict(r.hash) = "block"
<1>3. /\ Score(u, n, n.hash, hot) /\ Trust(p, n.exempt) /\ UNCHANGED cur
      /\ armed' = IF bad THEN [armed EXCEPT ![p] = n.of] ELSE armed
  BY <1>2 DEF IngestExec, Ensure
<1>4. n \in Node /\ n.of = At(u).of /\ n.dead = At(u).dead
  <2>1. n \in Node
    BY <1>2, JudgedType
  <2> QED
    BY <1>2, <2>1 DEF Judged, Renamed, Node
<1>b. n.blocked <=> At(u).blocked \/ bad
  <2>0. r \in Node
    BY <1>2, JudgedType, Zenon
  <2>1. r \in Node /\ r.blocked = At(u).blocked
    BY <1>2, <2>0 DEF Renamed, Node
  <2> HIDE DEF r
  <2> DEFINE bl == r.blocked \/ Verdict(r.hash) = "block"
  <2> DEFINE ok == Verdict(r.hash) = "allow"
  <2>a. Consults(r) => n = [r EXCEPT !.checked = TRUE, !.exempt = ok, !.blocked = bl]
    BY Zenon DEF Judged
  <2> HIDE DEF n, bl, ok
  <2>b. [r EXCEPT !.checked = TRUE, !.exempt = ok, !.blocked = bl].blocked = bl
    BY <2>1 DEF Node
  <2>2. Consults(r) => n.blocked = bl
    BY <2>a, <2>b, Zenon
  <2>3. ~Consults(r) => n = r
    BY DEF Judged, n
  <2>4. bl <=> At(u).blocked \/ Verdict(r.hash) = "block"
    BY <2>1 DEF bl
  <2> QED
    BY <2>1, <2>2, <2>3, <2>4 DEF bad
<1> HIDE DEF bad, n, r
<1>5. n.hash \in Bin \cup {NoBin}
  BY <1>4 DEF Node
<1>6. PICK m : ScoredAs(m, n) /\ Put(u, m)
  BY <1>0, <1>2, <1>3, <1>4, <1>5, ScoreNode
<1>7. LivesKeep
  BY <1>0, <1>3, ScoreLives
<1>8. /\ \A q \in Pid \ {p} : armed'[q] = armed[q] /\ (q \in kexempt' => q \in kexempt)
      /\ p \in kexempt' => n.exempt
      /\ IF bad THEN armed'[p] = inc[p] ELSE armed'[p] = armed[p]
  BY <1>0, <1>2, <1>3, <1>4 DEF Trust
<1> HIDE DEF e, p, u
<1>9. ShapeInv' /\ NodesLast /\ AskInv' /\ \A q \in Pid : BlockInv(q)'
  <2>1. p = ring[1].pid /\ ring[1].type = "EXEC"
    BY <1>1 DEF p, e
  <2>2. /\ m \in Node /\ m.of = At(u).of /\ m.dead = At(u).dead /\ (At(u).blocked => m.blocked)
        /\ (p \in kexempt' => m.exempt)
        /\ \/ armed'[p] = armed[p] /\ (m.blocked => At(u).blocked \/ armed[p] # 0)
           \/ armed'[p] = inc[p] /\ m.blocked
    BY <1>4, <1>b, <1>6, <1>8 DEF ScoredAs
  <2> QED
    BY <1>0, <1>2, <1>3, <1>6, <1>7, <1>8, <2>1, <2>2, ReadStep
<1>10. NInv'
  BY <1>0 DEF BInv, NInv, uiVars, pollVars, ruleVars
<1> QED
  BY <1>9, <1>10 DEF BInv

LEMMA TripBlocks ==
    ASSUME Plain, IInv, TInv, ShapeInv, BInv, ToldStays, IngestTrip
    PROVE  ShapeInv' /\ BInv'
<1> DEFINE e == ring[1]
           p == e.pid
           u == Now(p)
           n == [At(u) EXCEPT !.blocked = TRUE]
<1>0. /\ TypeOK /\ ring # <<>> /\ ring' = Tail(ring) /\ Top("TRIP")
      /\ UNCHANGED <<inc, cur, armed, kexempt, life, uiVars, ruleVars>>
  BY DEF IInv, IngestTrip, Top, mapVars, procVars
<1>1. e.type = "TRIP"
  BY <1>0 DEF Top, TypeOK
<1>2. /\ Head(ring) = e /\ e \in Event /\ p \in Pid /\ Has(u) /\ u \in Uid /\ u = <<p, cur[p]>>
      /\ At(u) \in Node
  BY <1>0, <1>1, ReadsLive
<1>3. Put(u, n)
  BY <1>2 DEF IngestTrip
<1>4. n \in Node /\ n.of = At(u).of /\ n.dead = At(u).dead /\ n.blocked /\ n.exempt = At(u).exempt
  BY <1>2 DEF Node
<1> HIDE DEF n
<1>5. armed[p] # 0
  <2>1. 1 \in 1 .. Len(ring)
    BY <1>0, PopRing DEF TypeOK
  <2>2. InRing("TRIP", p)
    BY <1>1, <2>1 DEF InRing
  <2> QED
    BY <1>2, <2>2 DEF BInv, BlockInv
<1>6. LivesKeep
  BY <1>0 DEF LivesKeep
<1>7. poll' \in {"idle", "ask"}
  <2> DEFINE h == IF thash[p] # NoBin THEN thash[p] ELSE OnDisk(p)
  <2>1. poll' = CASE Verdict(h) = "block" -> "idle"
                  [] Verdict(h) = "allow" -> "lift"
                  [] Verdict(h) = "none"  -> IF Has(u) THEN "ask" ELSE "idle"
    BY <1>2 DEF IngestTrip
  <2>2. Verdict(h) \in {"block", "none"}
    BY DEF Verdict, Whites, BInv, NInv
  <2> HIDE DEF h
  <2> QED
    BY <2>1, <2>2
<1>8. NInv'
  BY <1>0, <1>7 DEF BInv, NInv, uiVars, ruleVars
<1> HIDE DEF e, p, u
<1>9. ShapeInv' /\ NodesLast /\ AskInv' /\ \A q \in Pid : BlockInv(q)'
  <2>1. p = ring[1].pid /\ ring[1].type = "TRIP"
    BY <1>1 DEF p, e
  <2> QED
    BY <1>0, <1>2, <1>3, <1>4, <1>5, <1>6, <2>1, ReadStep
<1> QED
  BY <1>8, <1>9 DEF BInv

LEMMA ForkBlocks ==
    ASSUME IInv, TInv, ShapeInv, BInv, ToldStays, IngestFork, NEW p \in Pid, p = ring[1].pid
    PROVE  ShapeInv' /\ BInv'
<1>0. /\ TypeOK /\ ring # <<>> /\ ring' = Tail(ring) /\ Top("FORK")
      /\ UNCHANGED <<inc, armed, life, uiVars, ruleVars, pollVars, ui, asked>>
  BY DEF IInv, IngestFork, Top, procVars, uiVars
<1>1. Head(ring) = ring[1] /\ ring[1].type = "FORK"
  BY <1>0 DEF Top, TypeOK
<1>2. /\ ShapeInv' /\ Live(p)' /\ Fresh(p) /\ ~Gone(p) /\ ~Gone(p)'
      /\ cur'[p] # 0 /\ node'[p][cur'[p]] = Made(ring[1]) /\ NodesLast
      /\ \A q \in Pid \ {p} : PhaseStays(q) /\ cur'[q] = cur[q] /\ node'[q] = node[q]
  BY ForkShape
<1>3. \A q \in Pid : InRing("TRIP", q)' <=> InRing("TRIP", q)
  BY <1>0, <1>1, PopsRing
<1>4. Trust(p, p \in kexempt \/ ring[1].exe \in Shells)
  BY <1>1 DEF IngestFork
<1>5. ASSUME NEW q \in Pid, q # p PROVE BlockInv(q)'
  <2>1. BlockInv(q) /\ PhaseStays(q) /\ cur'[q] = cur[q] /\ node'[q] = node[q]
    BY <1>2, <1>5 DEF BInv
  <2>2. Arms(q) => Arms(q)'
    BY <1>0, <2>1 DEF Arms
  <2>3. q \in kexempt' => q \in kexempt
    BY <1>4, <1>5 DEF Trust
  <2> QED
    BY <1>0, <1>2, <1>3, <2>1, <2>2, <2>3, BlockKept
<1>6. BlockInv(p)'
  <2>1. BlockInv(p) /\ ~Live(p)
    BY <1>2 DEF BInv, Live
  <2>2. ASSUME NEW i, i = armed[p], i # 0
        PROVE  (i = inc[p] /\ InRing("TRIP", p)') \/ (Late(p, i)' /\ i # inc[p])
    <3>1. (i = inc[p] /\ InRing("TRIP", p)) \/ (Late(p, i) /\ i # inc[p])
      BY <1>2, <2>1, <2>2 DEF BlockInv
    <3> QED
      BY <1>0, <1>2, <1>3, <2>2, <3>1, LateStays
  <2>3. armed'[p] # 0 => \/ armed'[p] = inc'[p] /\ InRing("TRIP", p)'
                         \/ Late(p, armed[p])' /\ armed'[p] # inc'[p]
    BY <1>0, <2>2 DEF Late
  <2>4. ~node'[p][cur'[p]].blocked /\ (node'[p][cur'[p]].exempt <=> ring[1].exe \in Shells)
    BY <1>2 DEF Made, Blank
  <2>5. p \in kexempt' => Live(p)' /\ node'[p][cur'[p]].exempt
    BY <1>2, <1>4, <2>1, <2>4 DEF BlockInv, Trust
  <2>6. armed'[p] <= inc'[p] /\ (InRing("TRIP", p)' => armed'[p] # 0)
    BY <1>0, <1>3, <2>1 DEF BlockInv
  <2> QED
    BY <2>3, <2>4, <2>5, <2>6 DEF BlockInv
<1>7. AskInv'
  BY <1>0, <1>2, AskKept DEF BInv
<1>8. NInv'
  BY <1>0 DEF BInv, NInv, uiVars, pollVars, ruleVars
<1> QED
  BY <1>2, <1>5, <1>6, <1>7, <1>8 DEF BInv

LEMMA ExitBlocks ==
    ASSUME IInv, TInv, ShapeInv, BInv, ToldStays, IngestExit, NEW p \in Pid, p = ring[1].pid
    PROVE  ShapeInv' /\ BInv'
<1>0. /\ TypeOK /\ ring # <<>> /\ ring' = Tail(ring) /\ Top("EXIT")
      /\ UNCHANGED <<inc, life, uiVars, ruleVars, pollVars, ui, asked>>
      /\ armed \in [Pid -> 0 .. MaxInc] /\ node \in [Pid -> [1 .. MaxInc -> Node]]
  BY DEF IInv, IngestExit, Top, procVars, uiVars, TypeOK
<1>1. Head(ring) = ring[1] /\ ring[1].type = "EXIT" /\ 1 \in 1 .. Len(ring)
  BY <1>0, PopRing DEF Top, TypeOK
<1>2. /\ ShapeInv' /\ Live(p) /\ ~Live(p)' /\ Gone(p)' /\ NoEvent(p)' /\ NodesLast
      /\ cur[p] # 0 /\ cur' = cur /\ \A q \in Pid \ {p} : node'[q] = node[q]
      /\ node'[p][cur[p]] = [node[p][cur[p]] EXCEPT !.dead = TRUE, !.blocked = FALSE]
      /\ \A q \in Pid \ {p} : PhaseStays(q)
  BY ExitShape
<1>3. /\ armed' = (IF node[p][cur[p]].blocked THEN [armed EXCEPT ![p] = 0] ELSE armed)
      /\ Trust(p, FALSE)
  BY <1>1, <1>2 DEF IngestExit, Has, Now, At
<1>4. \A q \in Pid \ {p} : InRing("TRIP", q)' <=> InRing("TRIP", q)
  BY <1>0, PopsRing
<1>5. ASSUME NEW q \in Pid, q # p PROVE BlockInv(q)'
  <2>1. BlockInv(q) /\ PhaseStays(q) /\ cur'[q] = cur[q] /\ node'[q] = node[q]
    BY <1>2, <1>5 DEF BInv
  <2>2. (Arms(q) => Arms(q)') /\ armed'[q] = armed[q]
    BY <1>0, <1>3, <1>5, <2>1 DEF Arms
  <2>3. q \in kexempt' => q \in kexempt
    BY <1>3, <1>5 DEF Trust
  <2> QED
    BY <1>0, <1>2, <1>4, <1>5, <2>1, <2>2, <2>3, BlockKept
<1>6. BlockInv(p)'
  <2>1. BlockInv(p)
    BY DEF BInv
  <2>2. ~InRing("TRIP", p)' /\ p \notin kexempt'
    BY <1>2, <1>3 DEF NoEvent, InRing, Trust
  <2>3. ~InRing("TRIP", p)
    <3> SUFFICES ASSUME NEW k \in 1 .. Len(ring), ring[k].type = "TRIP", ring[k].pid = p PROVE FALSE
      BY DEF InRing
    <3>1. k <= 1
      BY <1>1 DEF ShapeInv, ExitLast
    <3> QED
      BY <1>1, <3>1
  <2>4. ~node'[p][cur'[p]].blocked
    <3>1. cur[p] \in 1 .. MaxInc
      BY <1>0, <1>2, LatestIs
    <3>2. node[p][cur[p]] \in Node
      BY <1>0, <3>1
    <3> QED
      BY <1>2, <3>2 DEF Node
  <2>5. ASSUME NEW i, i = armed'[p], i # 0 PROVE Late(p, i)' /\ i <= inc[p]
    <3>1. i = armed[p] /\ ~node[p][cur[p]].blocked
      BY <1>0, <1>3, <2>5
    <3>2. Late(p, i) /\ i <= inc[p]
      BY <2>1, <2>3, <2>5, <3>1 DEF BlockInv
    <3> QED
      BY <1>0, <1>2, <2>5, <3>2, LateStays
  <2>6. armed'[p] # 0 => Late(p, armed[p])' /\ armed'[p] <= inc'[p]
    BY <1>0, <2>5 DEF Late
  <2>7. armed'[p] <= inc'[p]
    <3>1. inc[p] \in Nat
      BY <1>0, BoundsAssumption DEF TypeOK
    <3> QED
      BY <1>0, <2>6, <3>1
  <2> QED
    BY <1>2, <2>2, <2>4, <2>6, <2>7 DEF BlockInv
<1>7. AskInv'
  BY <1>0, <1>2, AskKept DEF BInv
<1>8. NInv'
  BY <1>0 DEF BInv, NInv, uiVars, pollVars, ruleVars
<1> QED
  BY <1>2, <1>5, <1>6, <1>7, <1>8 DEF BInv

\* A process makes a call, or ends; a call may trip the burst ceiling, and arms itself.
LEMMA CallBlocks ==
    ASSUME IInv, TInv, ShapeInv, BInv, TypeOK', ToldStays, NEW q \in Pid, NEW T, Adds(q, T), T # {},
           "FORK" \notin T, UNCHANGED <<cur, inc, node, kexempt, uiVars, ruleVars, pollVars>>,
           life[q] \notin {"none", "dead"},
           \A p \in Pid : life'[p] = IF p = q /\ "EXIT" \in T THEN "dead" ELSE life[p],
           \A p \in Pid : armed'[p] = IF p = q /\ "TRIP" \in T THEN inc[q] ELSE armed[p]
    PROVE  ShapeInv' /\ BInv'
<1>0. TypeOK /\ inc[q] \in Nat /\ inc[q] # 0 /\ UNCHANGED <<ui, asked>>
  BY BoundsAssumption DEF IInv, TypeOK, Started, uiVars
<1>1. NodesKeep /\ NodesLast
  BY DEF NodesKeep, NodesLast
<1>2. ShapeInv' /\ \A p \in Pid : PhaseStays(p)
  BY <1>1, AddsShape
<1>3. \A p \in Pid : InRing("TRIP", p)' <=> InRing("TRIP", p) \/ (p = q /\ "TRIP" \in T)
  BY <1>0, AddsRing
<1>4. ASSUME NEW p \in Pid PROVE BlockInv(p)'
  <2>1. BlockInv(p) /\ PhaseStays(p)
    BY <1>2 DEF BInv
  <2>2. CASE p = q /\ "TRIP" \in T
    <3>1. p \in kexempt' => Live(p)' /\ node'[p][cur'[p]].exempt
      BY <2>1 DEF BlockInv, PhaseStays
    <3>2. armed'[p] = inc[p] /\ inc'[p] = inc[p] /\ InRing("TRIP", p)'
      BY <1>3, <2>2
    <3> QED
      BY <1>0, <2>2, <3>1, <3>2 DEF BlockInv
  <2>3. CASE ~(p = q /\ "TRIP" \in T)
    <3>1. Arms(p) => Arms(p)'
      BY <1>0 DEF Arms
    <3> QED
      BY <1>0, <1>1, <1>3, <2>1, <2>3, <3>1, BlockKept
  <2> QED
    BY <2>2, <2>3
<1>5. AskInv'
  BY <1>1, AskKept DEF BInv
<1>6. NInv'
  BY DEF BInv, NInv, uiVars, pollVars, ruleVars
<1> QED
  BY <1>2, <1>4, <1>5, <1>6 DEF BInv

LEMMA SpawnBlocks ==
    ASSUME IInv, TInv, ShapeInv, BInv, TypeOK', ToldStays, Room, SlowReuse,
           NEW q \in Pid, NEW b \in Parents, Fork(q, b)
    PROVE  ShapeInv' /\ BInv'
<1>0. /\ TypeOK /\ UNCHANGED <<cur, node, armed, kexempt, uiVars, ruleVars, pollVars, ui, asked>>
      /\ inc[q] \in Nat /\ armed[q] \in Nat
  <2>1. TypeOK /\ inc[q] \in Nat /\ armed[q] \in Nat
    <3>1. inc[q] \in 0 .. MaxInc /\ armed[q] \in 0 .. MaxInc
      BY DEF IInv, TypeOK
    <3> QED
      BY <3>1, BoundsAssumption DEF IInv
  <2>2. UNCHANGED <<mapVars, nodeVars, uiVars, ruleVars, pollVars>>
    BY DEF Fork
  <2> QED
    BY <2>1, <2>2 DEF mapVars, nodeVars, uiVars
<1>1. NodesLast
  BY <1>0 DEF NodesLast
<1>2. /\ ShapeInv' /\ Gone(q) /\ ~Live(q)' /\ ~Gone(q)' /\ inc'[q] = inc[q] + 1
      /\ NoEvent(q) /\ Adds(q, {"FORK"}) /\ \A p \in Pid \ {q} : inc'[p] = inc[p]
      /\ \A p \in Pid \ {q} : PhaseStays(p)
  BY <1>0, SpawnShape
<1>3. \A p \in Pid : InRing("TRIP", p)' <=> InRing("TRIP", p)
  <2> DEFINE T == {"FORK"}
  <2>1. Adds(q, T) /\ "TRIP" \notin T
    BY <1>2
  <2> HIDE DEF T
  <2> QED
    BY <1>0, <2>1, AddsRing
<1>4. ASSUME NEW p \in Pid, p # q PROVE BlockInv(p)'
  <2>1. BlockInv(p) /\ PhaseStays(p) /\ inc'[p] = inc[p]
    BY <1>2, <1>4 DEF BInv
  <2>2. Arms(p) => Arms(p)'
    BY <1>0 DEF Arms
  <2> QED
    BY <1>0, <1>1, <1>3, <2>1, <2>2, BlockKept
<1>5. BlockInv(q)'
  <2>1. BlockInv(q) /\ ~Live(q) /\ ~InRing("TRIP", q)
    <3>1. ~Live(q)
      BY <1>2 DEF Gone, Live
    <3> QED
      BY <1>2, <3>1 DEF BInv, InRing, NoEvent
  <2>2. armed[q] # 0 => armed'[q] = armed[q] /\ armed'[q] < inc'[q]
    BY <1>0, <1>2, <2>1 DEF BlockInv
  <2>3. ASSUME NEW i, i = armed[q], i # 0 PROVE Late(q, i)'
    BY <1>0, <1>1, <2>1, <2>3, LateStays DEF BlockInv
  <2>4. armed'[q] # 0 => Late(q, armed[q])'
    BY <1>0, <2>3 DEF Late
  <2>5. cur'[q] # 0 /\ node'[q][cur'[q]].blocked => armed'[q] # 0 \/ Arms(q)'
    BY <1>0, <2>1 DEF BlockInv, Arms
  <2>6. q \notin kexempt' /\ ~InRing("TRIP", q)'
    BY <1>0, <1>3, <2>1 DEF BlockInv
  <2>7. armed'[q] <= inc'[q] /\ (armed'[q] # 0 => armed'[q] # inc'[q])
    BY <1>0, <1>2, <2>2
  <2> QED
    BY <2>4, <2>5, <2>6, <2>7 DEF BlockInv
<1>6. AskInv'
  BY <1>0, <1>1, AskKept DEF BInv
<1>7. NInv'
  BY <1>0 DEF BInv, NInv, uiVars, pollVars, ruleVars
<1> QED
  BY <1>2, <1>4, <1>5, <1>6, <1>7 DEF BInv

LEMMA KernelBlocks ==
    ASSUME Plain, Room, IInv, TInv, ShapeInv, BInv, TypeOK', ToldStays, Kernel
    PROVE  ShapeInv' /\ BInv'
<1> PICK q \in Pid : \/ Die(q) \/ ExecCheck(q) \/ Daemonise(q)
                     \/ \E b \in Parents : Fork(q, b)
                     \/ \E b \in Bin : ExecEnter(q, b)
                     \/ \E ceiling \in BOOLEAN : Risky(q, ceiling)
  BY Zenon DEF Kernel
<1>0. /\ TypeOK /\ life \in [Pid -> {"none", "run", "stopped", "dying", "dead"}]
      /\ inc[q] \in 0 .. MaxInc /\ inc[q] \in Nat
      /\ life[q] # "none" => exe[q] \in Bin /\ inc[q] \in 1 .. MaxInc
      /\ armed \in [Pid -> 0 .. MaxInc]
  <2>1. /\ TypeOK /\ life \in [Pid -> {"none", "run", "stopped", "dying", "dead"}]
        /\ inc \in [Pid -> 0 .. MaxInc] /\ armed \in [Pid -> 0 .. MaxInc]
    BY DEF IInv, TypeOK
  <2>2. life[q] # "none" => exe[q] \in Bin /\ inc[q] >= 1
    BY DEF IInv, Started
  <2> QED
    BY <2>1, <2>2, BoundsAssumption
<1>1. CASE Die(q)
  <2> DEFINE e == Ev("EXIT", q, NoBin)
             T == {e.type}
  <2>1. /\ life[q] \notin {"none", "dead"} /\ life' = [life EXCEPT ![q] = "dead"] /\ Emit(<<e>>)
        /\ UNCHANGED <<inc, cur, node, kexempt, armed, uiVars, ruleVars, pollVars>>
    BY <1>1 DEF Die, mapVars, nodeVars
  <2>2. e \in Event /\ e.pid = q /\ e.inc = inc'[q] /\ e.type = "EXIT"
    BY <1>0, <2>1, EvType, EvIs
  <2> HIDE DEF e
  <2>3. Adds(q, T)
    BY <1>0, <2>1, <2>2, AddsOne
  <2>4. \A p \in Pid : life'[p] = IF p = q /\ "EXIT" \in T THEN "dead" ELSE life[p]
    BY <1>0, <2>1, <2>2
  <2>5. T # {} /\ "FORK" \notin T /\ "TRIP" \notin T
    BY <2>2
  <2> HIDE DEF T
  <2> QED
    BY <2>1, <2>3, <2>4, <2>5, CallBlocks
<1>2. ASSUME NEW b \in Bin, ExecEnter(q, b) PROVE ShapeInv' /\ BInv'
  <2> DEFINE e == Ev("EXEC", q, b)
             T == {e.type}
  <2>1. /\ life[q] \notin {"none", "dead"} /\ Emit(<<e>>)
        /\ UNCHANGED <<life, inc, cur, node, kexempt, armed, uiVars, ruleVars, pollVars>>
    BY <1>2 DEF ExecEnter, mapVars, nodeVars
  <2>2. e \in Event /\ e.pid = q /\ e.inc = inc'[q] /\ e.type = "EXEC"
    BY <1>0, <2>1, EvType, EvIs
  <2> HIDE DEF e
  <2>3. Adds(q, T)
    BY <1>0, <2>1, <2>2, AddsOne
  <2>5. T # {} /\ "FORK" \notin T /\ "TRIP" \notin T /\ "EXIT" \notin T
    BY <2>2
  <2> HIDE DEF T
  <2> QED
    BY <2>1, <2>3, <2>5, CallBlocks
<1>3. ASSUME NEW ceiling \in BOOLEAN, Risky(q, ceiling) PROVE ShapeInv' /\ BInv'
  <2> DEFINE r == Ev("RISKY", q, NoBin)
             t == Ev("TRIP", q, NoBin)
  <2>1. /\ life[q] \notin {"none", "dead"}
        /\ UNCHANGED <<life, inc, cur, node, kexempt, uiVars, ruleVars, pollVars>>
    BY <1>3 DEF Risky, procVars, nodeVars
  <2>2. /\ r \in Event /\ r.pid = q /\ r.inc = inc'[q] /\ r.type = "RISKY"
        /\ t \in Event /\ t.pid = q /\ t.inc = inc'[q] /\ t.type = "TRIP"
    BY <1>0, <2>1, EvType, EvIs
  <2>3. \/ armed' = [armed EXCEPT ![q] = inc[q]] /\ Emit(<<t, r>>)
        \/ armed' = armed /\ Emit(<<r>>)
    BY <1>3 DEF Risky
  <2> HIDE DEF r, t
  <2>4. CASE armed' = armed /\ Emit(<<r>>)
    <3> DEFINE T == {r.type}
    <3>1. Adds(q, T)
      BY <1>0, <2>2, <2>4, AddsOne
    <3>2. T # {} /\ "FORK" \notin T /\ "TRIP" \notin T /\ "EXIT" \notin T
      BY <2>2
    <3> HIDE DEF T
    <3> QED
      BY <2>1, <2>4, <3>1, <3>2, CallBlocks
  <2>5. CASE armed' = [armed EXCEPT ![q] = inc[q]] /\ Emit(<<t, r>>)
    <3> DEFINE es == <<t, r>>
               T  == {"TRIP", "RISKY"}
    <3>1. es \in Seq(Event) /\ Len(es) = 2 /\ es[1] = t /\ es[2] = r /\ Len(ring) \in Nat
      BY <1>0, <2>2 DEF TypeOK
    <3>2. Emit(es)
      BY <2>5
    <3> HIDE DEF es
    <3>3. /\ Len(ring') = Len(ring) + 2
          /\ \A k \in 1 .. Len(ring) : ring'[k] = ring[k]
          /\ \A k \in 1 .. Len(ring') : k > Len(ring) =>
                 k - Len(ring) \in 1 .. 2 /\ ring'[k] = es[k - Len(ring)]
          /\ \A j \in 1 .. 2 : ring'[Len(ring) + j] = es[j]
      <4>1. Len(es) <= 2
        BY <3>1
      <4>2. /\ Len(ring') = Len(ring) + Len(es)
            /\ \A k \in 1 .. Len(ring) : ring'[k] = ring[k]
            /\ \A k \in 1 .. Len(ring') : k > Len(ring) =>
                   k - Len(ring) \in 1 .. Len(es) /\ ring'[k] = es[k - Len(ring)]
            /\ \A j \in 1 .. Len(es) : ring'[Len(ring) + j] = es[j]
        BY <1>0, <3>1, <3>2, <4>1, EmitAll
      <4> QED
        BY <3>1, <4>2
    <3>4. ring'[Len(ring) + 1] = t /\ ring'[Len(ring) + 2] = r
      <4>1. 1 \in 1 .. 2 /\ 2 \in 1 .. 2
        OBVIOUS
      <4> QED
        BY <3>1, <3>3, <4>1
    <3>5. \A k \in 1 .. Len(ring') : k > Len(ring) => ring'[k] \in {t, r}
      <4> SUFFICES ASSUME NEW k \in 1 .. Len(ring'), k > Len(ring) PROVE ring'[k] \in {t, r}
        OBVIOUS
      <4>1. k - Len(ring) = 1 \/ k - Len(ring) = 2
        BY <3>1, <3>3
      <4> QED
        BY <3>1, <3>3, <4>1
    <3>6. /\ Len(ring) + 1 \in 1 .. Len(ring') /\ Len(ring) + 1 > Len(ring)
          /\ Len(ring) + 2 \in 1 .. Len(ring') /\ Len(ring) + 2 > Len(ring)
          /\ Len(ring) <= Len(ring')
      BY <3>1, <3>3
    <3>7. \A ty \in T : \E k \in 1 .. Len(ring') : k > Len(ring) /\ ring'[k].type = ty
      BY <2>2, <3>4, <3>6
    <3>8. Adds(q, T)
      BY <2>2, <3>3, <3>5, <3>6, <3>7 DEF Adds
    <3>9. \A p \in Pid : armed'[p] = IF p = q /\ "TRIP" \in T THEN inc[q] ELSE armed[p]
      BY <1>0, <2>5
    <3>10. T # {} /\ "FORK" \notin T /\ "EXIT" \notin T
      OBVIOUS
    <3> HIDE DEF T
    <3> QED
      BY <2>1, <3>8, <3>9, <3>10, CallBlocks
  <2> QED
    BY <2>3, <2>4, <2>5
<1>4. ASSUME NEW b \in Parents, Fork(q, b) PROVE ShapeInv' /\ BInv'
  BY <1>4, SpawnBlocks DEF Plain
<1>5. CASE ExecCheck(q)
  <2>1. /\ UNCHANGED <<life, inc, cur, node, kexempt, armed, ring, uiVars, ruleVars, pollVars>>
    BY <1>5 DEF ExecCheck, mapVars, nodeVars
  <2>2. LivesKeep /\ ArmsStay
    BY <2>1 DEF LivesKeep, ArmsStay, uiVars
  <2>3. ShapeInv' /\ NodesLast /\ \A p \in Pid : BlockInv(p)'
    BY <2>1, <2>2, SameStep
  <2>4. AskInv' /\ NInv'
    BY <2>1, <2>3, AskKept DEF BInv, NInv, uiVars, pollVars, ruleVars
  <2> QED
    BY <2>3, <2>4 DEF BInv
<1>6. CASE Daemonise(q)
  BY <1>6 DEF Daemonise, InTree, Plain
<1> QED
  BY <1>1, <1>2, <1>3, <1>4, <1>5, <1>6

LEMMA PollerBlocks ==
    ASSUME Plain, IInv, KInv, TInv, ShapeInv, BInv, ToldStays, Poller
    PROVE  ShapeInv' /\ BInv'
<1>0. TypeOK /\ Placed
  BY DEF IInv
<1>1. CASE IngestFork \/ IngestExit
  <2>1. ring # <<>>
    BY <1>1 DEF IngestFork, IngestExit, Top
  <2>2. PICK p \in Pid : p = ring[1].pid
    <3>1. ring[1] \in Event
      BY <1>0, <2>1, PopRing DEF TypeOK
    <3> QED
      BY <3>1 DEF Event
  <2> QED
    BY <1>1, <2>2, ForkBlocks, ExitBlocks
<1>2. CASE Lift \/ Lifted
  BY <1>2 DEF Lift, Lifted, BInv, NInv
<1>2m. CASE IngestTripMuted
  <2>1. ring # <<>> /\ Has(Now(Head(ring).pid)) /\ At(Now(Head(ring).pid)).sup
    BY <1>2m DEF IngestTripMuted, Top
  <2>2. PICK p \in Pid : p = Head(ring).pid
    <3>1. Head(ring) \in Event
      BY <1>0, <2>1 DEF TypeOK
    <3> QED
      BY <3>1, EventType
  <2>3. Now(p) \in Uid /\ Now(p)[1] = p /\ At(Now(p)).sup
    BY <1>0, <2>1, <2>2, NowType
  <2>4. p \in Supervised
    BY <2>3 DEF KInv, KinNode
  <2> QED
    BY <2>4 DEF Plain
<1>3. CASE Ask
  <2>1. /\ UNCHANGED <<inc, cur, node, kexempt, armed, ring, uiVars, ruleVars>>
        /\ (UNCHANGED life \/ \E p, sig : Signal(p, sig)) /\ poll' \in {"stopped", "idle"}
    BY <1>3, Zenon DEF Ask, mapVars, nodeVars
  <2>2. LivesKeep /\ ArmsStay
    BY <1>0, <2>1, SignalLives DEF ArmsStay, uiVars
  <2>3. ShapeInv' /\ NodesLast /\ \A p \in Pid : BlockInv(p)'
    BY <2>1, <2>2, SameStep
  <2>4. AskInv' /\ NInv'
    BY <2>1, <2>3, AskKept DEF BInv, NInv, uiVars, ruleVars
  <2> QED
    BY <2>3, <2>4 DEF BInv
<1>4. CASE Stopped
  <2> DEFINE k == PromptHash(At(pnode), pnode[1], thash[pnode[1]])
             n == [At(pnode) EXCEPT !.frozen = TRUE, !.pending = TRUE, !.hash = k]
  <2>1. /\ pnode \in Uid /\ pnode[1] \in Pid /\ poll' = "idle"
        /\ UNCHANGED <<inc, cur, life, kexempt, armed, ring, uiVars, ruleVars>>
    BY <1>0, <1>4 DEF Placed, Stopped, Uid, mapVars, procVars
  <2>2. At(pnode) \in Node /\ thash[pnode[1]] \in Bin \cup {NoBin}
    BY <1>0, <2>1, AtType DEF TypeOK
  <2>3. k \in Bin \cup {NoBin}
    BY <1>0, <2>1, <2>2, PromptHashType
  <2>4. Put(pnode, n)
    BY <1>4 DEF Stopped
  <2> HIDE DEF k
  <2>5. /\ n \in Node /\ n.of = At(pnode).of /\ n.dead = At(pnode).dead
        /\ n.blocked = At(pnode).blocked /\ n.exempt = At(pnode).exempt
    BY <2>2, <2>3 DEF Node
  <2> HIDE DEF n
  <2>6. LivesKeep /\ ArmsStay
    BY <2>1 DEF LivesKeep, ArmsStay, uiVars
  <2>7. ShapeInv' /\ NodesLast /\ \A p \in Pid : BlockInv(p)'
    BY <2>1, <2>4, <2>5, <2>6, PutStep
  <2>8. AskInv' /\ NInv'
    BY <2>1, <2>7, AskKept DEF BInv, NInv, uiVars, ruleVars
  <2> QED
    BY <2>7, <2>8 DEF BInv
<1> QED
  BY <1>1, <1>2, <1>2m, <1>3, <1>4, RiskyBlocks, ExecBlocks, TripBlocks DEF Poller

LEMMA BlockStep ==
    ASSUME Plain, Room, IInv, PInv, KInv, TInv, ShapeInv, BInv, [Next]_vars
    PROVE  ShapeInv' /\ BInv'
<1>1. ToldStays /\ TypeOK'
  BY AnswersStay, TypeStep
<1>2. CASE UNCHANGED vars
  <2>1. /\ UNCHANGED <<life, inc, cur, node, kexempt, armed, ring, uiVars, ruleVars, pollVars>>
    BY <1>2 DEF vars, procVars, mapVars, nodeVars
  <2>2. LivesKeep /\ ArmsStay
    BY <2>1 DEF LivesKeep, ArmsStay, uiVars
  <2>3. ShapeInv' /\ NodesLast /\ \A p \in Pid : BlockInv(p)'
    BY <1>1, <2>1, <2>2, SameStep
  <2>4. AskInv' /\ NInv'
    BY <2>1, <2>3, AskKept DEF BInv, NInv, uiVars, pollVars, ruleVars
  <2> QED
    BY <2>3, <2>4 DEF BInv
<1> QED
  BY <1>1, <1>2, KernelBlocks, PollerBlocks, UiBlocks DEF Next

LEMMA InitBlocks == Init => ShapeInv /\ BInv
<1> SUFFICES ASSUME Init PROVE ShapeInv /\ BInv
  OBVIOUS
<1>1. /\ ring = <<>> /\ Len(ring) = 0 /\ kexempt = {} /\ white = {} /\ poll = "idle" /\ ui = "idle"
      /\ \A p \in Pid : /\ cur[p] = 0 /\ inc[p] = 0 /\ armed[p] = 0 /\ life[p] = "none"
                        /\ \A k \in 1 .. MaxInc : node[p][k] = Blank
  BY DEF Init
<1>2. \A p \in Pid : NoEvent(p) /\ Gone(p) /\ ~InRing("TRIP", p)
  BY <1>1 DEF NoEvent, Gone, InRing
<1>3. Phases /\ Current /\ ExitLast
  BY <1>1, <1>2 DEF Phases, Current, ExitLast
<1>4. MadeFor
  <2> SUFFICES ASSUME NEW p \in Pid, NEW k \in 1 .. MaxInc PROVE node[p][k].of = 0 /\ k > cur[p]
    BY <1>1 DEF MadeFor
  <2> QED
    BY <1>1, BoundsAssumption DEF Blank
<1>5. NInv /\ AskInv /\ \A p \in Pid : BlockInv(p)
  BY <1>1, <1>2 DEF NInv, AskInv, Answering, BlockInv
<1> QED
  BY <1>3, <1>4, <1>5 DEF ShapeInv, BInv

LEMMA InductiveBInv == ASSUME Plain PROVE Spec /\ []Room => [](ShapeInv /\ BInv)
<1>1. Room /\ IInv /\ PInv /\ KInv /\ TInv /\ (ShapeInv /\ BInv) /\ [Next]_vars => (ShapeInv /\ BInv)'
  BY BlockStep
<1> QED
  BY <1>1, InitBlocks, InductiveIInv, InductivePInv, InductiveKInv, InductiveTInv, PTL DEF Spec

\* Nothing is left to the next user of a pid but what the operator answered for the last one:
\* however the threads, the calls and the ends of processes interleave, an entry in
\* blocked_tgids is for the process that has the pid, or an answer for its predecessor came
\* late, and an entry in exempt_tgids is one the node shows (ingest(), resolve_prompt(),
\* EV_EXIT's deletes).  It takes the conditions of Plain and Room above: a pid waits for its
\* events, no event is lost, nothing is supervised, the operator answers with Deny, Dismiss,
\* Block and Blacklist only, and neither flushes nor manages rules.
THEOREM ReuseIsClean == ASSUME Plain PROVE Spec /\ []Room => []CleanReuse
<1>1. IInv /\ ShapeInv /\ BInv => CleanReuse
  <2> SUFFICES ASSUME IInv, ShapeInv, BInv, NEW p \in Pid, Followed(p)
               PROVE  /\ armed[p] \in {0, inc[p]} \/ AnsweredBlock(p, armed[p])
                      /\ p \in kexempt => At(Now(p)).exempt
    BY DEF CleanReuse
  <2>1. BlockInv(p) /\ ui \in {"idle", "ask"}
    BY DEF BInv, Followed, Quiet
  <2>2. Late(p, armed[p]) => AnsweredBlock(p, armed[p])
    BY <2>1 DEF Late, Told, AnsweredBlock
  <2> QED
    BY <2>1, <2>2 DEF BlockInv, At, Now
<1> QED
  BY <1>1, InductiveIInv, InductiveBInv, PTL

\* What the tree shows is what the kernel does: a followed process with an entry made for it
\* is shown as blocked, and one shown as blocked is denied its calls, for every interleaving
\* of burst trips, execs, rules, those answers and exits, under the conditions of ReuseIsClean:
\* Allow, Kill, Whitelist, Session-allow, flush_blocks() and the reputation manager, where map
\* and flag are changed apart, are outside it.
THEOREM BlocksAreShown == ASSUME Plain PROVE Spec /\ []Room => []BlocksAgree
<1>1. IInv /\ ShapeInv /\ BInv => BlocksAgree
  <2> SUFFICES ASSUME IInv, ShapeInv, BInv, NEW p \in Pid, Followed(p)
               PROVE  /\ armed[p] = inc[p] => At(Now(p)).blocked
                      /\ At(Now(p)).blocked => armed[p] # 0
    BY DEF BlocksAgree, NoHiddenBlock, BlockedIsDenied
  <2>1. BlockInv(p) /\ ui \in {"idle", "ask"} /\ NoEvent(p) /\ Alive(p) /\ cur[p] # 0
    BY DEF BInv, Followed, Quiet, NoEvent, Has, Now
  <2>2. ~InRing("TRIP", p) /\ ~Arms(p)
    BY <2>1 DEF NoEvent, InRing, Arms
  <2>3. ~Gone(p) /\ inc[p] # 0
    <3>1. life[p] # "none" /\ life[p] # "dead"
      BY <2>1 DEF Alive
    <3>2. inc[p] >= 1
      BY <3>1 DEF IInv, Started
    <3> QED
      BY <3>1, <3>2 DEF Gone
  <2> QED
    BY <2>1, <2>2, <2>3 DEF BlockInv, At, Now
<1> QED
  BY <1>1, InductiveIInv, InductiveBInv, PTL
=============================================================================
