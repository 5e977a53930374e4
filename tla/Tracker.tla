------------------------------ MODULE Tracker ------------------------------
(***************************************************************************)
(* The tracker's enforcement and prompts: ingest() on the poller thread    *)
(* and resolve_prompt(), flush_blocks() and the reputation calls on the UI *)
(* thread (src/src/tracker.cpp, src/src/ui.cpp, src/src/ui_repman.cpp),    *)
(* over the kernel maps and the event ring the BPF programs fill           *)
(* (src/bpf/edr.bpf.c).                                                    *)
(*                                                                         *)
(* One action is one section of g_lock_, one map call or one signal made   *)
(* outside it; poll and ui say where the two threads are.  A pid is used   *)
(* by several processes in turn: inc counts them, a node says which one it *)
(* was made for, and blocked_tgids says which one an entry was meant for.  *)
(*                                                                         *)
(* Abstracted: scores (a scored event reaches the prompt threshold or      *)
(* not), the burst window (a risky call reaches the ceiling or not), names *)
(* (the binary stands for its hash and its comm).  Left out: the tree,     *)
(* garbage collection and auto-kill of tick(), the enforcement switch      *)
(* (on), the EDR itself (self_tgid) and the ancestors in is_blocked; what  *)
(* the supervise thread does to the roots of supervised trees and to nodes *)
(* it makes of their processes (register_supervised, mark_dead,            *)
(* synth_node), and the eviction from the kernel maps, which keep 8192     *)
(* processes.                                                              *)
(***************************************************************************)
EXTENDS Naturals, Sequences, FiniteSets

CONSTANTS
    Pid,
    Bin,          \* binaries, one hash each
    NoBin,        \* no hash known
    Shells,       \* binaries whose comm is in exempt_comms
    Parents,      \* binaries that fork
    Supervised,   \* pids used only by children of a supervised root the tracker knows
    OneGroup,     \* whether the pids share a process group
    Known,        \* blacklisted binaries at the start
    Keys,         \* decisions whose key the operator may press
    Manages,      \* whether the operator uses flush and the reputation manager
    SlowReuse,    \* whether a pid is reused only when its events have been ingested
    MaxInc,       \* bound: processes per pid
    MaxRisky,     \* bound: risky calls
    MaxExec,      \* bound: execve calls
    RingSize,     \* bound: events in the ring
    QueueSize     \* capacity of prompt_q_, 32 in the code

ASSUME BinAssumption    == NoBin \notin Bin /\ Shells \cup Known \cup Parents \subseteq Bin
ASSUME PidAssumption    == Supervised \subseteq Pid
ASSUME SwitchAssumption == {OneGroup, Manages, SlowReuse} \subseteq BOOLEAN
ASSUME BoundsAssumption == /\ MaxInc \in Nat \ {0} /\ MaxRisky \in Nat /\ MaxExec \in Nat
                           /\ RingSize \in Nat /\ QueueSize \in Nat

\* y allow, n deny, b block, k kill, d blacklist, l whitelist, w session, x dismiss
Decision == {"y", "n", "b", "k", "d", "l", "w", "x"}
ASSUME KeysAssumption == Keys \subseteq Decision

Uid  == Pid \X (1 .. MaxInc)
NoUid == <<>>

VARIABLES
    \* kernel (external)
    life, inc, exe, execing,
    left,           \* processes whose parent is no longer the one that forked them
    \* BPF maps and ring
    armed,          \* blocked_tgids: 0, or the process the entry was meant for
    kexempt,        \* exempt_tgids
    ring,
    \* tracker
    cur,            \* pid_to_uid_: number of the pid's latest node, 0 when none
    node,           \* nodes_
    thash,          \* tgid_hash_
    queue,          \* prompt_q_
    \* reputation rules
    black, white, paused,
    \* poller thread
    poll, pnode,
    \* UI thread
    ui, asked, dec, target, rem,
    said,           \* history: last answer given for each process
    \* bounds
    risky, execs

procVars   == <<life, inc, exe, execing, left>>
mapVars    == <<armed, kexempt>>
nodeVars   == <<cur, node, thash>>
ruleVars   == <<black, white, paused>>
pollVars   == <<poll, pnode>>
uiVars     == <<ui, asked, dec, target, rem, said>>
boundVars  == <<risky, execs>>
vars == <<procVars, mapVars, ring, nodeVars, queue, ruleVars, pollVars, uiVars,
          boundVars>>

Blank == [of |-> 0, dead |-> FALSE, exempt |-> FALSE, frozen |-> FALSE,
          pending |-> FALSE, blocked |-> FALSE, checked |-> FALSE, hash |-> NoBin,
          sup |-> FALSE, new |-> FALSE]

Node == [of : 0 .. MaxInc, dead : BOOLEAN, exempt : BOOLEAN, frozen : BOOLEAN,
         pending : BOOLEAN, blocked : BOOLEAN, checked : BOOLEAN, hash : Bin \cup {NoBin},
         sup : BOOLEAN, new : BOOLEAN]

Event == [type : {"FORK", "EXIT", "EXEC", "RISKY", "TRIP"}, pid : Pid,
          inc : 1 .. MaxInc, exe : Bin, file : Bin \cup {NoBin}, kin : BOOLEAN]

PollPC == {"idle", "lift", "lifted", "ask", "stopped"}
UiPC   == {"idle", "ask", "remember", "flag", "arm", "disarm", "unflag", "signal",
           "flushed", "collectlift", "collectblock", "lift", "reblock"}

TypeOK ==
    /\ life \in [Pid -> {"none", "run", "stopped", "dying", "dead"}]
    /\ inc \in [Pid -> 0 .. MaxInc] /\ exe \in [Pid -> Bin \cup {NoBin}]
    /\ execing \in [Pid -> Bin \cup {NoBin}] /\ left \subseteq Pid \X (1 .. MaxInc)
    /\ armed \in [Pid -> 0 .. MaxInc] /\ kexempt \subseteq Pid /\ ring \in Seq(Event)
    /\ cur \in [Pid -> 0 .. MaxInc] /\ node \in [Pid -> [1 .. MaxInc -> Node]]
    /\ thash \in [Pid -> Bin \cup {NoBin}] /\ queue \in Seq(Uid)
    /\ black \subseteq Bin /\ white \subseteq Bin /\ paused \subseteq Bin
    /\ poll \in PollPC /\ pnode \in (Pid \X (0 .. MaxInc)) \cup {NoUid} /\ ui \in UiPC
    /\ asked \in Uid \cup {NoUid} /\ dec \in Decision /\ target \subseteq Pid
    /\ rem \in Bin \cup {NoBin}
    /\ said \in [Pid -> [1 .. MaxInc -> Decision \cup {"none"}]]
    /\ risky \in Nat /\ execs \in Nat

Init ==
    /\ life = [p \in Pid |-> "none"] /\ inc = [p \in Pid |-> 0]
    /\ exe = [p \in Pid |-> NoBin] /\ execing = [p \in Pid |-> NoBin]
    /\ left = {} /\ armed = [p \in Pid |-> 0] /\ kexempt = {} /\ ring = <<>>
    /\ cur = [p \in Pid |-> 0] /\ node = [p \in Pid |-> [i \in 1 .. MaxInc |-> Blank]]
    /\ thash = [p \in Pid |-> NoBin] /\ queue = <<>>
    /\ black = Known /\ white = {} /\ paused = {} /\ poll = "idle" /\ pnode = NoUid
    /\ ui = "idle" /\ asked = NoUid /\ dec = "x" /\ target = {} /\ rem = NoBin
    /\ said = [p \in Pid |-> [i \in 1 .. MaxInc |-> "none"]] /\ risky = 0 /\ execs = 0

-----------------------------------------------------------------------------
(* The kernel: processes (external) and what the BPF programs do for them. *)

Alive(p) == life[p] \in {"run", "stopped"}

\* ev_reserve: an event that finds no room is lost.
Emit(es) == ring' = SubSeq(ring \o es, 1, IF Len(ring) > RingSize THEN Len(ring)
                                          ELSE IF Len(ring) + Len(es) > RingSize
                                               THEN RingSize ELSE Len(ring) + Len(es))

\* The parent of process i of p is the supervised root, in whose tree the EDR is above it.
InTree(p, i) == p \in Supervised /\ <<p, i>> \notin left

Ev(ty, p, f) == [type |-> ty, pid |-> p, inc |-> inc'[p], exe |-> exe[p], file |-> f,
                 kin |-> InTree(p, inc'[p])]

\* tp_fork: a child is a copy of a process that runs b.
Forked(p, b) == [type |-> "FORK", pid |-> p, inc |-> inc'[p], exe |-> b, file |-> NoBin,
                 kin |-> p \in Supervised]
Fork(p, b) ==
    /\ life[p] \in {"none", "dead"} /\ inc[p] < MaxInc
    /\ SlowReuse => \A i \in 1 .. Len(ring) : ring[i].pid # p
    /\ life' = [life EXCEPT ![p] = "run"] /\ inc' = [inc EXCEPT ![p] = @ + 1]
    /\ exe' = [exe EXCEPT ![p] = b]
    /\ Emit(<<Forked(p, b)>>)
    /\ UNCHANGED <<execing, left, mapVars, nodeVars, queue, ruleVars, pollVars,
                   uiVars, boundVars>>

\* tp_exit
Die(p) ==
    /\ life[p] \in {"run", "stopped", "dying"}
    /\ life' = [life EXCEPT ![p] = "dead"] /\ execing' = [execing EXCEPT ![p] = NoBin]
    /\ UNCHANGED <<inc, exe>>
    /\ Emit(<<Ev("EXIT", p, NoBin)>>)
    /\ UNCHANGED <<left, mapVars, nodeVars, queue, ruleVars, pollVars, uiVars, boundVars>>

\* tp_execve runs on entry; the LSM decides later.
ExecEnter(p, b) ==
    /\ life[p] = "run" /\ execing[p] = NoBin /\ execs < MaxExec
    /\ execs' = execs + 1 /\ execing' = [execing EXCEPT ![p] = b]
    /\ UNCHANGED <<life, inc, exe>>
    /\ Emit(<<Ev("EXEC", p, b)>>)
    /\ UNCHANGED <<left, mapVars, nodeVars, queue, ruleVars, pollVars, uiVars, risky>>

\* is_blocked for the process itself.
Denied(p) == p \notin kexempt /\ armed[p] # 0

\* lsm_bprm.  A stop takes effect only on the way back to user mode.
ExecCheck(p) ==
    /\ Alive(p) /\ execing[p] # NoBin
    /\ exe' = [exe EXCEPT ![p] = IF Denied(p) THEN @ ELSE execing[p]]
    /\ execing' = [execing EXCEPT ![p] = NoBin]
    /\ UNCHANGED <<life, inc, left, mapVars, ring, nodeVars, queue, ruleVars,
                   pollVars, uiVars, boundVars>>

\* burst_add trips only outside the self tree, unexempted and not yet blocked.
Trips(p) == ~InTree(p, inc[p]) /\ p \notin kexempt /\ armed[p] = 0

\* A monitored call: burst_add first, then its own event.
Risky(p, ceiling) ==
    /\ life[p] = "run" /\ execing[p] = NoBin /\ risky < MaxRisky
    /\ risky' = risky + 1
    /\ UNCHANGED procVars
    /\ IF ceiling /\ Trips(p)
       THEN /\ armed' = [armed EXCEPT ![p] = inc[p]]
            /\ Emit(<<Ev("TRIP", p, NoBin), Ev("RISKY", p, NoBin)>>)
       ELSE Emit(<<Ev("RISKY", p, NoBin)>>) /\ UNCHANGED armed
    /\ UNCHANGED <<kexempt, nodeVars, queue, ruleVars, pollVars, uiVars, execs>>

\* A supervised process is reparented to init: in_self_tree no longer finds the EDR, and
\* its events no longer name the root.
Daemonise(p) ==
    /\ InTree(p, inc[p]) /\ life[p] = "run"
    /\ left' = left \cup {<<p, inc[p]>>}
    /\ UNCHANGED <<life, inc, exe, execing, mapVars, ring, nodeVars, queue, ruleVars,
                   pollVars, uiVars, boundVars>>

\* kill(-pgid, sig)
Group(p) == IF OneGroup THEN Pid ELSE {p}
Signal(p, sig) ==
    life' = [q \in Pid |->
                IF q \notin Group(p) THEN life[q]
                ELSE CASE sig = "STOP" /\ life[q] = "run" -> "stopped"
                       [] sig = "CONT" /\ life[q] = "stopped" -> "run"
                       [] sig = "KILL" /\ Alive(q) -> "dying"
                       [] OTHER -> life[q]]

-----------------------------------------------------------------------------
(* The poller thread: ingest().                                            *)

Now(p)    == <<p, cur[p]>>           \* lookup_by_pid
Has(u)    == u[2] # 0
At(u)     == node[u[1]][u[2]]
Put(u, n) == node' = [node EXCEPT ![u[1]][u[2]] = n]
\* Mutant of Trust.
TrustKept(p, on)  == kexempt' = IF on THEN kexempt \cup {p} ELSE kexempt

\* Mutant of Trust.
TrustUntold(p, on) == kexempt' = IF on THEN kexempt ELSE kexempt \ {p}

Trust(p, on) == kexempt' = IF on THEN kexempt \cup {p} ELSE kexempt \ {p}

\* hash_of_pid
OnDisk(p) == IF Alive(p) \/ life[p] = "dying" THEN exe[p] ELSE NoBin

Whites(h) == h \in white
Blocks(h) == h \in black \ paused
\* reputation_verdict
Verdict(h) == IF Whites(h) THEN "allow" ELSE IF Blocks(h) THEN "block" ELSE "none"

Top(ty) == poll = "idle" /\ ring # <<>> /\ Head(ring).type = ty

\* A node made from an event: supervised, for good, when the parent the event names is.
\* new tells fork_node from ensure_node.
Made(e) == [Blank EXCEPT !.of = e.inc, !.exempt = e.exe \in Shells, !.sup = e.kin,
                         !.new = e.type = "FORK"]

\* Every earlier node of its pid becomes dead.
IngestFork ==
    /\ Top("FORK")
    /\ LET e == Head(ring)
           p == e.pid
       IN  /\ cur' = [cur EXCEPT ![p] = @ + 1]
           /\ node' = [node EXCEPT ![p] = [i \in DOMAIN @ |->
                          IF i = cur[p] + 1 THEN Made(e)
                          ELSE IF i = cur[p] THEN [@[i] EXCEPT !.dead = TRUE] ELSE @[i]]]
           /\ Trust(p, p \in kexempt \/ e.exe \in Shells)
    /\ ring' = Tail(ring)
    /\ UNCHANGED <<procVars, armed, thash, queue, ruleVars, pollVars, uiVars, boundVars>>

IngestExit ==
    /\ Top("EXIT")
    /\ LET p == Head(ring).pid
           u == Now(p)
       IN  IF Has(u)
           THEN /\ Put(u, [At(u) EXCEPT !.dead = TRUE, !.blocked = FALSE])
                /\ armed' = IF At(u).blocked THEN [armed EXCEPT ![p] = 0] ELSE armed
                /\ Trust(p, FALSE)
                /\ thash' = [thash EXCEPT ![p] = NoBin]
           ELSE UNCHANGED <<node, armed, kexempt, thash>>
    /\ ring' = Tail(ring)
    /\ UNCHANGED <<procVars, cur, queue, ruleVars, pollVars, uiVars, boundVars>>

\* enqueue_prompt: the hash it shows, and the queue that drops what it cannot hold.
PromptHash(n, p, h) == IF n.hash # NoBin THEN n.hash ELSE IF h # NoBin THEN h ELSE OnDisk(p)
Enqueued(u)         == IF Len(queue) < QueueSize THEN Append(queue, u) ELSE queue

\* Mutant of Suspends.
SuspendsAll(n, hot) == hot /\ ~n.exempt /\ ~n.frozen /\ ~n.pending

\* The tail of ingest: a node hot enough is suspended and asked about.  node_is_supervised
\* walks the parents; under a root it knows, the node's own flag says the same.
Suspends(n, hot) == hot /\ ~n.exempt /\ ~n.frozen /\ ~n.pending /\ ~n.sup

Score(u, n, h, hot) ==
    IF Suspends(n, hot)
    THEN LET k == PromptHash(n, u[1], h)
         IN  /\ Signal(u[1], "STOP")
             /\ Put(u, [n EXCEPT !.frozen = TRUE, !.pending = TRUE, !.hash = k])
             /\ thash' = [thash EXCEPT ![u[1]] = IF n.hash = NoBin THEN k ELSE h]
             /\ queue' = Enqueued(u)
    ELSE /\ Put(u, n)
         /\ thash' = [thash EXCEPT ![u[1]] = h]
         /\ UNCHANGED <<life, queue>>

\* ensure_node: the pid's latest node, or a new one if its FORK was lost.
EnsureUid(p)  == IF Has(Now(p)) THEN Now(p) ELSE <<p, 1>>
EnsureNode(e) == IF Has(Now(e.pid)) THEN At(Now(e.pid)) ELSE Made(e)
\* Mutant of Ensure.
EnsureAlways(p)   == cur' = [cur EXCEPT ![p] = @ + 1]

Ensure(p)     == cur' = [cur EXCEPT ![p] = IF @ = 0 THEN 1 ELSE @]

IngestRisky(hot) ==
    /\ Top("RISKY")
    /\ LET e == Head(ring)
           n == EnsureNode(e)
       IN  /\ Ensure(e.pid)
           /\ Trust(e.pid, e.pid \in kexempt \/ (~Has(Now(e.pid)) /\ n.exempt))
           /\ Score(EnsureUid(e.pid), n, thash[e.pid], hot)
    /\ ring' = Tail(ring)
    /\ UNCHANGED <<inc, exe, execing, left, armed, ruleVars, pollVars, uiVars, boundVars>>

\* The comm in the event is that of the caller: execve has only been entered.
Renamed(n, e) == LET shell == e.exe \in Shells
                 IN  [n EXCEPT !.exempt = shell, !.hash = IF shell THEN NoBin ELSE e.file]

\* The rules are consulted once in the life of a node.
Consults(n) == ~n.exempt /\ ~n.checked /\ ~n.sup
\* Mutant of Judged.
JudgedUnmarked(n) == IF ~Consults(n) THEN n
                        ELSE [n EXCEPT !.checked = TRUE, !.exempt = Verdict(n.hash) = "allow"]

Judged(n) == IF ~Consults(n) THEN n
                  ELSE [n EXCEPT !.checked = TRUE,
                                 !.exempt  = Verdict(n.hash) = "allow",
                                 !.blocked = @ \/ Verdict(n.hash) = "block"]

IngestExec(hot) ==
    /\ Top("EXEC")
    /\ LET e == Head(ring)
           p == e.pid
           r == Renamed(EnsureNode(e), e)
           n == Judged(r)
       IN  /\ Ensure(p)
           /\ Trust(p, n.exempt)
           /\ armed' = IF Consults(r) /\ Verdict(r.hash) = "block"
                       THEN [armed EXCEPT ![p] = n.of] ELSE armed
           /\ Score(EnsureUid(p), n, n.hash, hot)
    /\ ring' = Tail(ring)
    /\ UNCHANGED <<inc, exe, execing, left, ruleVars, pollVars, uiVars, boundVars>>

\* EV_BURST_TRIP of a supervised node: ignored.
IngestTripMuted ==
    /\ Top("TRIP") /\ Has(Now(Head(ring).pid)) /\ At(Now(Head(ring).pid)).sup
    /\ ring' = Tail(ring)
    /\ UNCHANGED <<procVars, mapVars, nodeVars, queue, ruleVars, pollVars, uiVars, boundVars>>

IngestTrip ==
    /\ Top("TRIP")
    /\ LET p == Head(ring).pid
           u == Now(p)
           h == IF thash[p] # NoBin THEN thash[p] ELSE OnDisk(p)
       IN  /\ ~(Has(u) /\ At(u).sup)
           /\ thash' = [thash EXCEPT ![p] = h]
           /\ IF Has(u) THEN Put(u, [At(u) EXCEPT !.blocked = TRUE]) ELSE UNCHANGED node
           /\ poll' = CASE Verdict(h) = "block" -> "idle"
                        [] Verdict(h) = "allow" -> "lift"
                        [] Verdict(h) = "none"  -> IF Has(u) THEN "ask" ELSE "idle"
           /\ pnode' = IF poll' = "idle" THEN NoUid ELSE u
    /\ ring' = Tail(ring)
    /\ UNCHANGED <<procVars, mapVars, cur, queue, ruleVars, uiVars, boundVars>>

\* A whitelisted binary tripped: the entry goes first, the node later.
Lift ==
    /\ poll = "lift"
    /\ armed' = [armed EXCEPT ![pnode[1]] = 0] /\ poll' = "lifted"
    /\ UNCHANGED <<procVars, kexempt, ring, nodeVars, queue, ruleVars, pnode, uiVars, boundVars>>

Lifted ==
    /\ poll = "lifted"
    /\ IF Has(pnode)
       THEN /\ Put(pnode, [At(pnode) EXCEPT !.blocked = FALSE, !.exempt = TRUE])
            /\ Trust(pnode[1], TRUE)
       ELSE UNCHANGED <<node, kexempt>>
    /\ poll' = "idle" /\ pnode' = NoUid
    /\ UNCHANGED <<procVars, armed, ring, cur, thash, queue, ruleVars, uiVars, boundVars>>

\* Mutant of AskFor.
AskAlways(u)      == TRUE

\* Mutant of AskFor.
AskNever(u) == FALSE

\* Between the sections: the test of prompt_pending and the stop hold no lock.
AskFor(u) == ~At(u).pending

Ask ==
    /\ poll = "ask"
    /\ IF AskFor(pnode)
       THEN Signal(pnode[1], "STOP") /\ poll' = "stopped" /\ UNCHANGED pnode
       ELSE poll' = "idle" /\ pnode' = NoUid /\ UNCHANGED life
    /\ UNCHANGED <<inc, exe, execing, left, mapVars, ring, nodeVars, queue, ruleVars,
                   uiVars, boundVars>>

Stopped ==
    /\ poll = "stopped"
    /\ LET n == At(pnode)
           k == PromptHash(n, pnode[1], thash[pnode[1]])
       IN  /\ Put(pnode, [n EXCEPT !.frozen = TRUE, !.pending = TRUE, !.hash = k])
           /\ thash' = [thash EXCEPT ![pnode[1]] = IF n.hash = NoBin THEN k ELSE @]
    /\ queue' = Enqueued(pnode) /\ poll' = "idle" /\ pnode' = NoUid
    /\ UNCHANGED <<procVars, mapVars, ring, cur, ruleVars, uiVars, boundVars>>

-----------------------------------------------------------------------------
(* The UI thread: resolve_prompt().                                        *)

\* Render takes the next prompt when no other is on the screen.
Take ==
    /\ ui = "idle" /\ queue # <<>>
    /\ asked' = Head(queue) /\ queue' = Tail(queue) /\ ui' = "ask"
    /\ UNCHANGED <<procVars, mapVars, ring, nodeVars, ruleVars, pollVars, dec, target, rem,
                   said, boundVars>>

Says(u, d) == said' = [said EXCEPT ![u[1]][u[2]] = d]

\* What the first section does to the node, for each decision.
Answered(n, d) ==
    [n EXCEPT !.pending = FALSE,
              !.frozen  = CASE d \in {"b", "y", "w"} -> FALSE
                            [] d = "n"               -> TRUE
                            [] OTHER                 -> @,
              !.blocked = (@ \/ d = "b") /\ d # "w",
              !.exempt  = @ \/ d = "w"]

AfterAnswer(d) == CASE d = "b"             -> "arm"
                    [] d \in {"d", "l"}    -> "remember"
                    [] d \in {"y", "w", "k"} -> "disarm"
                    [] d = "n"             -> "signal"
                    [] d = "x"             -> "idle"

Press(d) ==
    /\ ui = "ask" /\ d \in Keys
    /\ LET n == At(asked)
       IN  /\ Put(asked, Answered(n, d))
           /\ rem' = IF d \notin {"d", "l"} THEN NoBin
                     ELSE IF n.hash # NoBin THEN n.hash ELSE thash[asked[1]]
    /\ Trust(asked[1], asked[1] \in kexempt \/ d = "w")
    /\ dec' = d /\ ui' = AfterAnswer(d)
    /\ IF d = "x" THEN Says(asked, d) /\ asked' = NoUid ELSE UNCHANGED <<said, asked>>
    /\ UNCHANGED <<procVars, armed, ring, cur, thash, queue, ruleVars, pollVars, target,
                   boundVars>>

\* rep_->add: a rule added again is no longer paused.
Remember ==
    /\ ui = "remember"
    /\ LET h == IF rem # NoBin THEN rem ELSE OnDisk(asked[1])
           H == {h} \ {NoBin}
       IN  IF dec = "d" THEN black' = black \cup H /\ paused' = paused \ H /\ UNCHANGED white
                        ELSE white' = white \cup H /\ UNCHANGED <<black, paused>>
    /\ ui' = "flag"
    /\ UNCHANGED <<procVars, mapVars, ring, nodeVars, queue, pollVars, asked, dec, target,
                   rem, said, boundVars>>

Flag ==
    /\ ui = "flag"
    /\ Put(asked, [At(asked) EXCEPT !.frozen = FALSE, !.blocked = dec = "d",
                                    !.exempt = @ \/ dec = "l"])
    /\ Trust(asked[1], asked[1] \in kexempt \/ dec = "l")
    /\ ui' = IF dec = "d" THEN "arm" ELSE "disarm"
    /\ UNCHANGED <<procVars, armed, ring, cur, thash, queue, ruleVars, pollVars, asked, dec,
                   target, rem, said, boundVars>>

Arm ==
    /\ ui = "arm"
    /\ armed' = [armed EXCEPT ![asked[1]] = At(asked).of] /\ ui' = "signal"
    /\ UNCHANGED <<procVars, kexempt, ring, nodeVars, queue, ruleVars, pollVars, asked, dec,
                   target, rem, said, boundVars>>

Disarm ==
    /\ ui = "disarm"
    /\ armed' = [armed EXCEPT ![asked[1]] = 0]
    /\ ui' = IF dec = "l" THEN "signal" ELSE "unflag"
    /\ UNCHANGED <<procVars, kexempt, ring, nodeVars, queue, ruleVars, pollVars, asked, dec,
                   target, rem, said, boundVars>>

Unflag ==
    /\ ui = "unflag" /\ Put(asked, [At(asked) EXCEPT !.blocked = FALSE])
    /\ ui' = "signal"
    /\ UNCHANGED <<procVars, mapVars, ring, cur, thash, queue, ruleVars, pollVars, asked, dec,
                   target, rem, said, boundVars>>

SendSignal ==
    /\ ui = "signal"
    /\ Signal(asked[1], CASE dec = "n" -> "STOP" [] dec = "k" -> "KILL" [] OTHER -> "CONT")
    /\ Says(asked, dec)
    /\ ui' = "idle" /\ asked' = NoUid /\ dec' = "x" /\ rem' = NoBin
    /\ UNCHANGED <<inc, exe, execing, left, mapVars, ring, nodeVars, queue, ruleVars,
                   pollVars, target, boundVars>>

(* Clearing all blocks, and blacklist rules in the reputation manager.     *)

\* flush_blocks: the map, then the flags.
Flush ==
    /\ ui = "idle" /\ Manages
    /\ armed' = [p \in Pid |-> 0] /\ ui' = "flushed"
    /\ UNCHANGED <<procVars, kexempt, ring, nodeVars, queue, ruleVars, pollVars, asked, dec,
                   target, rem, said, boundVars>>

Flushed ==
    /\ ui = "flushed"
    /\ node' = [p \in Pid |-> [i \in 1 .. MaxInc |-> [node[p][i] EXCEPT !.blocked = FALSE]]]
    /\ ui' = "idle"
    /\ UNCHANGED <<procVars, mapVars, ring, cur, thash, queue, ruleVars, pollVars, asked, dec,
                   target, rem, said, boundVars>>

PauseRule(b) ==
    /\ ui = "idle" /\ Manages /\ b \in black
    /\ paused' = IF b \in paused THEN paused \ {b} ELSE paused \cup {b}
    /\ ui' = IF b \in paused THEN "collectblock" ELSE "collectlift"
    /\ rem' = b
    /\ UNCHANGED <<procVars, mapVars, ring, nodeVars, queue, black, white, pollVars, asked,
                   dec, target, said, boundVars>>

RemoveRule(b) ==
    /\ ui = "idle" /\ Manages /\ b \in black
    /\ black' = black \ {b} /\ paused' = paused \ {b} /\ ui' = "collectlift" /\ rem' = b
    /\ UNCHANGED <<procVars, mapVars, ring, nodeVars, queue, white, pollVars, asked, dec,
                   target, said, boundVars>>

\* The first lock section of unblock_hash_live and reblock_from_reputation.
Collect ==
    /\ ui \in {"collectlift", "collectblock"}
    /\ target' = {p \in Pid : thash[p] = rem}
    /\ ui' = IF ui = "collectlift" THEN "lift" ELSE "reblock"
    /\ UNCHANGED <<procVars, mapVars, ring, nodeVars, queue, ruleVars, pollVars, asked, dec,
                   rem, said, boundVars>>

\* unblock_hash_live, one process
Unblock(p) ==
    /\ ui = "lift" /\ p \in target
    /\ IF Has(Now(p)) /\ At(Now(p)).blocked
       THEN armed' = [armed EXCEPT ![p] = 0] /\ Put(Now(p), [At(Now(p)) EXCEPT !.blocked = FALSE])
       ELSE UNCHANGED <<armed, node>>
    /\ target' = target \ {p}
    /\ UNCHANGED <<procVars, kexempt, ring, cur, thash, queue, ruleVars, pollVars, ui, asked,
                   dec, rem, said, boundVars>>

\* reblock_from_reputation, one process
Reblockable(u) == Has(u) /\ ~At(u).dead /\ ~At(u).exempt
Reblock(p) ==
    /\ ui = "reblock" /\ p \in target
    /\ IF Reblockable(Now(p))
       THEN /\ armed' = [armed EXCEPT ![p] = At(Now(p)).of]
            /\ Put(Now(p), [At(Now(p)) EXCEPT !.blocked = TRUE])
       ELSE UNCHANGED <<armed, node>>
    /\ target' = target \ {p}
    /\ UNCHANGED <<procVars, kexempt, ring, cur, thash, queue, ruleVars, pollVars, ui, asked,
                   dec, rem, said, boundVars>>

Managed ==
    /\ ui \in {"lift", "reblock"} /\ target = {}
    /\ ui' = "idle" /\ rem' = NoBin
    /\ UNCHANGED <<procVars, mapVars, ring, nodeVars, queue, ruleVars, pollVars, asked, dec,
                   target, said, boundVars>>

-----------------------------------------------------------------------------
Kernel == \E p \in Pid :
            \/ Die(p) \/ ExecCheck(p) \/ Daemonise(p)
            \/ \E b \in Parents : Fork(p, b)
            \/ \E b \in Bin : ExecEnter(p, b)
            \/ \E ceiling \in BOOLEAN : Risky(p, ceiling)

Poller == \/ IngestFork \/ IngestExit \/ IngestTripMuted \/ IngestTrip
          \/ \E hot \in BOOLEAN : IngestRisky(hot) \/ IngestExec(hot)
          \/ Lift \/ Lifted \/ Ask \/ Stopped

Resolve == Remember \/ Flag \/ Arm \/ Disarm \/ Unflag \/ SendSignal

Manage == \/ Flush \/ Flushed \/ Collect \/ Managed
          \/ \E b \in Bin : PauseRule(b) \/ RemoveRule(b)
          \/ \E p \in Pid : Unblock(p) \/ Reblock(p)

Next == Kernel \/ Poller \/ Take \/ (\E d \in Decision : Press(d)) \/ Resolve \/ Manage

Spec == Init /\ [][Next]_vars

\* Both threads run on; nothing is assumed of the processes or the operator.
FairSpec == Spec /\ WF_vars(Poller) /\ WF_vars(Resolve)

-----------------------------------------------------------------------------
(* Properties.                                                             *)

Quiet(p) == /\ poll = "idle" /\ ui \in {"idle", "ask"}
            /\ \A i \in 1 .. Len(ring) : ring[i].pid # p

\* The tracker has caught up with p, and its node is that of the process p is now.
Followed(p) == Alive(p) /\ Quiet(p) /\ Has(Now(p)) /\ At(Now(p)).of = inc[p]

Prompts == {queue[i] : i \in 1 .. Len(queue)} \cup (IF ui = "ask" THEN {asked} ELSE {})

\* prompt_pending is exactly "a prompt for it is queued or on the screen", and no
\* process has two: enqueue_prompt on the poller and resolve_prompt on the UI agree,
\* though one of them tests the flag outside the lock.
PromptsMatchPending ==
    /\ {u \in Uid : At(u).pending} = Prompts
    /\ Cardinality(Prompts) = Len(queue) + (IF ui = "ask" THEN 1 ELSE 0)

\* Outside the supervised trees, a process the tracker trusts is trusted by the kernel: no
\* order of answers, execs, exits, lost events and reuse of its pid leaves an exempt node
\* out of exempt_tgids.  (synth_node makes supervised processes exempt without an entry.)
TrustReachesKernel ==
    \A p \in Pid \ Supervised : Followed(p) /\ At(Now(p)).exempt => p \in kexempt

\* Nothing is left to the next user of a pid but what the operator answered for the last
\* one: an entry in blocked_tgids was meant for the process that has the pid, or an answer
\* for the last may have come late; an entry in exempt_tgids matches the node.
AnsweredBlock(p, i) == \E k \in 1 .. MaxInc : node[p][k].of = i /\ said[p][k] # "none"
CleanReuse ==
    \A p \in Pid : Followed(p) =>
        /\ armed[p] \in {0, inc[p]} \/ AnsweredBlock(p, armed[p])
        /\ p \in kexempt => At(Now(p)).exempt

\* What the tree shows is what the kernel does: a followed process with an entry made for
\* it is shown as blocked, and one shown as blocked is denied its risky calls.
NoHiddenBlock   == \A p \in Pid : Followed(p) /\ armed[p] = inc[p] => At(Now(p)).blocked
BlockedIsDenied == \A p \in Pid : Followed(p) /\ At(Now(p)).blocked => armed[p] # 0
BlocksAgree     == NoHiddenBlock /\ BlockedIsDenied

\* The supervised tree is the seccomp supervisor's: however late its events are read, the
\* tracker suspends or asks about a process of it only if it left the tree before the first
\* event the tracker read of it, and that was not its FORK.  (Met so late, it is suspended.)
MetLate(u) == <<u[1], At(u).of>> \in left /\ ~At(u).new
SupervisedIsLeftAlone ==
    \A p \in Supervised :
        /\ \A u \in Prompts : u[1] = p => MetLate(u)
        /\ life[p] = "stopped" => \E i \in 1 .. MaxInc : MetLate(<<p, i>>)

\* A burst trip of a process that is not supervised and that the tracker knows, or whose
\* FORK is still to be read, is not dropped: the process comes before the operator, or a
\* rule, an answer or its end settles it.  (A trip with no node is dropped, tracker.cpp:1078.)
Met(p) == Has(Now(p)) \/ \E k \in 1 .. Len(ring) : ring[k].type = "FORK" /\ ring[k].pid = p
BurstIsSettled ==
    \A p \in Pid \ Supervised : \A i \in 1 .. MaxInc :
        (/\ Met(p)
         /\ \E k \in 1 .. Len(ring) : ring[k].type = "TRIP" /\ ring[k].pid = p /\ ring[k].inc = i)
        ~> \/ Has(Now(p)) /\ At(Now(p)).pending
           \/ armed[p] = 0 \/ inc[p] # i \/ ~Alive(p)
           \/ Blocks(thash[p]) \/ Whites(thash[p])

(* What the program says of itself.                                        *)

\* ui.cpp:291 "Blacklist - always auto-block this binary in future": a process that has
\* come to run a blacklisted binary is denied its risky calls.
KnownBadIsDenied ==
    \A p \in Pid : Followed(p) /\ execing[p] = NoBin /\ Blocks(exe[p]) => Denied(p)

\* tracker.cpp:1236 "suspended ... pending decision": nothing runs while its prompt waits.
SuspendedWhilePending ==
    \A p \in Pid : Followed(p) /\ At(Now(p)).pending => life[p] = "stopped"

\* The same line: the decision it waits for is one somebody is asked for.
PendingIsAsked == \A u \in Uid : At(u).pending /\ ui \in {"idle", "ask"} => u \in Prompts

\* ui.cpp:287 "Block - resume, but deny its risky syscalls (kernel)": and no other's.
BlockIsForAsked == \A p \in Pid : Followed(p) => armed[p] \in {0, inc[p]}

\* ui.cpp:286 "Deny - keep it suspended, do nothing"
LastAnswer(p) == said[p][cur[p]]
DeniedStaysSuspended ==
    \A p \in Pid : Followed(p) /\ LastAnswer(p) = "n" => life[p] = "stopped"

\* ui.cpp:294 "[Esc] Dismiss (leave it suspended, decide later)": the decision comes again.
DismissedIsAskedAgain ==
    \A p \in Pid : Followed(p) /\ LastAnswer(p) = "x" => At(Now(p)).pending

\* ui.cpp:293 "Session-allow - trust only until EDR restarts"
SessionAllowLasts ==
    \A p \in Pid : Followed(p) /\ LastAnswer(p) = "w" => At(Now(p)).exempt

\* tracker.cpp:177 "eBPF muted for its tree; scoring only"
SupervisedIsMuted == \A p \in Supervised : Followed(p) => ~Denied(p)

\* tracker.cpp:819 "block lifted (rule removed/paused)": where only rules block, no block
\* outlives its rule.
NoRuleNoBlock ==
    \A p \in Pid : Followed(p) /\ ui = "idle" /\ black \subseteq paused => armed[p] = 0

=============================================================================
