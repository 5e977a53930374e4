-------------------------------- MODULE Dwell --------------------------------
(***************************************************************************)
(* Auto-kill: Tracker::tick, which times how long a process has been above *)
(* the kill threshold, Tracker::mitigate, and what the poller, the         *)
(* supervisor and the operator do to the timer's inputs meanwhile.         *)
(*                                                                         *)
(* Time passes in units.  A point in time is kept as its age, which stops  *)
(* growing at Old: no test tells ages beyond it apart.  tick() reads the   *)
(* clock before it takes the lock, so its "now" is lag units old when it   *)
(* compares.  A score is a level: below the prompt threshold, from it on,  *)
(* or from the kill threshold on.                                          *)
(***************************************************************************)
EXTENDS Naturals, FiniteSets

CONSTANTS Proc,        \* processes, each with its node
          Group,       \* the process group of each
          OwnGroup,    \* own_pgid_
          Ancestors,   \* the ancestors of each that a walk up its parents meets
          Acting,      \* the processes that do something of their own; the others
                       \* are launched, scored through these and killed
          AutoKill,    \* auto_kill_enabled
          DwellSec,    \* dwell_sec, in units of time
          WarmupSec,   \* warmup_sec, in units of time
          MaxLag,      \* bound: units from reading the clock to the lock
          Keys         \* decisions the operator uses

ASSUME TimesAssumption ==
    DwellSec \in Nat \ {0} /\ WarmupSec \in Nat /\ MaxLag \in Nat
ASSUME AncestorsAssumption == Ancestors \in [Proc -> SUBSET Proc]
ASSUME ActingAssumption == Acting \subseteq Proc
ASSUME AutoKillAssumption == AutoKill \in BOOLEAN

Low    == 0
Asking == 1     \* prompt_threshold
Deadly == 2     \* kill_threshold
Level  == {Low, Asking, Deadly}

Old   == (IF DwellSec > WarmupSec THEN DwellSec ELSE WarmupSec) + MaxLag
Age   == 0 .. Old
Never == Old + 1     \* the timer is not running

VARIABLES
    risk,        \* risk_pct
    above,       \* age of above_since, or Never
    exempt, frozen, supervised,
    pending,     \* prompt_pending: a prompt of the process is queued or shown
    flagged,     \* kill_flagged
    life,        \* "live", "gone" (its EXIT not yet ingested) or "dead"
    engine,      \* where tick() is
    lag,         \* age of the t that tick() has read
    up,          \* age of start_ts_
    cold         \* history: age of the last t at which tick() found the process
                 \* below the threshold or supervised

scores  == <<risk, above>>
marks   == <<exempt, frozen, supervised, pending>>
clock   == <<engine, lag, up>>
vars == <<scores, marks, flagged, life, clock, cold>>

TypeOK ==
    /\ risk \in [Proc -> Level] /\ above \in [Proc -> Age \cup {Never}]
    /\ exempt \in [Proc -> BOOLEAN] /\ frozen \in [Proc -> BOOLEAN]
    /\ supervised \in [Proc -> BOOLEAN] /\ pending \in [Proc -> BOOLEAN]
    /\ flagged \in SUBSET Proc /\ life \in [Proc -> {"live", "gone", "dead"}]
    /\ engine \in {"sleep", "tick"} /\ lag \in 0 .. MaxLag /\ up \in Age
    /\ cold \in [Proc -> Age]

\* Processes seen at the start, some of them exempt.
Init ==
    /\ risk = [p \in Proc |-> Low] /\ above = [p \in Proc |-> Never]
    /\ exempt \in [Proc -> BOOLEAN] /\ \A p \in Proc : Group[p] = OwnGroup => exempt[p]
    /\ frozen = [p \in Proc |-> FALSE] /\ supervised = [p \in Proc |-> FALSE]
    /\ pending = [p \in Proc |-> FALSE] /\ flagged = {}
    /\ life = [p \in Proc |-> "live"]
    /\ engine = "sleep" /\ lag = 0 /\ up = 0 /\ cold = [p \in Proc |-> 0]

node_is_supervised(p) == supervised[p] \/ \E a \in Ancestors[p] : supervised[a]

-----------------------------------------------------------------------------
(* The poller: ingest().                                                   *)

\* Evidence for p, and for the ancestors that back-propagation reaches.
\* Exempt nodes take none; frozen and dead ones do.
Evidence(p, ex) ==
    \E reach \in SUBSET {a \in Ancestors[p] : ~ex[a]} :
        \E new \in [reach \cup {p} -> Level] :
            risk' = [q \in Proc |-> IF q \in DOMAIN new THEN new[q] ELSE risk[q]]

\* The SIGSTOP and the prompt.
CanStop(p) == Group[p] # OwnGroup

Ask(p) ==
    /\ frozen' = [frozen EXCEPT ![p] = TRUE]
    /\ pending' = [pending EXCEPT ![p] = TRUE]

\* An event: an EXEC decides anew whether p is exempt, and a scored event of a
\* process that is neither exempt nor frozen may stop it.
Event(p) ==
    \E e \in IF Group[p] = OwnGroup THEN {TRUE} ELSE BOOLEAN :
        /\ exempt' = [exempt EXCEPT ![p] = e]
        /\ \/ UNCHANGED <<risk, frozen, pending>>
           \/ /\ ~e /\ ~frozen[p]
              /\ Evidence(p, exempt')
              /\ \/ /\ ~node_is_supervised(p) /\ up >= WarmupSec /\ ~pending[p]
                    /\ risk'[p] >= Asking /\ CanStop(p)
                    /\ Ask(p)
                 \/ UNCHANGED <<frozen, pending>>
        /\ UNCHANGED <<above, supervised, flagged, life, clock, cold>>

\* A burst trip: the binary is trusted, or the process is stopped whatever its
\* score and however short the program has run.
Trip(p) ==
    /\ ~node_is_supervised(p)
    /\ \/ exempt' = [exempt EXCEPT ![p] = TRUE] /\ UNCHANGED <<frozen, pending>>
       \/ ~pending[p] /\ CanStop(p) /\ Ask(p) /\ UNCHANGED exempt
    /\ UNCHANGED <<scores, supervised, flagged, life, clock, cold>>

Exit(p) ==
    /\ life[p] = "gone"
    /\ life' = [life EXCEPT ![p] = "dead"]
    /\ UNCHANGED <<scores, marks, flagged, clock, cold>>

-----------------------------------------------------------------------------
(* The supervisor and the operator.                                        *)

\* register_supervised(); the flag of the node is never taken back.
Register(p) ==
    /\ life[p] = "live" /\ ~supervised[p]
    /\ supervised' = [supervised EXCEPT ![p] = TRUE]
    /\ exempt' = [exempt EXCEPT ![p] = FALSE]
    /\ UNCHANGED <<scores, frozen, pending, flagged, life, clock, cold>>

\* commit_syscall_evidence(), for an allowed call of a supervised process.
Commit(p) ==
    /\ node_is_supervised(p)
    /\ Evidence(p, exempt)
    /\ UNCHANGED <<above, marks, flagged, life, clock, cold>>

Kills  == {"k"}
Trusts == {"w", "l"}
Leaves == {"n", "k", "x"}     \* the node stays frozen

SigKill(groups) ==
    [p \in Proc |-> IF life[p] = "live" /\ Group[p] \in groups THEN "gone" ELSE life[p]]

\* resolve_prompt(), with the actions of rules.json; above_since is left alone.
Answer(p, k) ==
    /\ pending[p]
    /\ pending' = [pending EXCEPT ![p] = FALSE]
    /\ frozen' = [frozen EXCEPT ![p] = k \in Leaves]
    /\ exempt' = [exempt EXCEPT ![p] = @ \/ k \in Trusts]
    /\ life' = IF k \in Kills THEN SigKill({Group[p]}) ELSE life
    /\ UNCHANGED <<scores, supervised, flagged, clock, cold>>

-----------------------------------------------------------------------------
(* The engine: tick().                                                     *)

\* The section that follows takes the lock in bounded time.
Pass ==
    /\ engine = "tick" => lag < MaxLag
    /\ UNCHANGED <<risk, marks, flagged, life, engine>>
    /\ LET Older(a) == IF a < Old THEN a + 1 ELSE a
       IN  /\ above' = [p \in Proc |-> Older(above[p])]
           /\ cold' = [p \in Proc |-> Older(cold[p])]
           /\ up' = Older(up)
    /\ lag' = IF engine = "tick" THEN lag + 1 ELSE lag

ReadClock ==
    /\ engine = "sleep"
    /\ engine' = "tick" /\ lag' = 0
    /\ UNCHANGED <<scores, marks, flagged, life, up, cold>>

\* t - x for the t that was read and a point of time x of this age.
Since(age) == age - lag

\* The nodes the timer loop looks at; the mutant forgets that some are frozen.
WatchedFrozenToo(p) == ~exempt[p] /\ life[p] # "dead"
Watched(p)          == ~exempt[p] /\ ~frozen[p] /\ life[p] # "dead"

\* above_since after the loop, for the decayed score r.  The first mutant
\* leaves the timer of a process that has cooled running, the second starts it
\* again at every tick.
TimerKept(p, r) ==
    IF node_is_supervised(p) THEN Never
    ELSE IF r = Deadly /\ above[p] = Never THEN lag ELSE above[p]

TimerRestarted(p, r) ==
    IF node_is_supervised(p) \/ r # Deadly THEN Never ELSE lag

Timer(p, r) ==
    IF node_is_supervised(p) \/ r # Deadly THEN Never
    ELSE IF above[p] = Never THEN lag ELSE above[p]

\* mitigate(): the nodes of the kill list it does not pass over.
KillList(new) ==
    {p \in Proc : /\ Watched(p) /\ new[p] # Never
                  /\ Since(up) >= WarmupSec /\ Since(new[p]) >= DwellSec}
Mitigated(new) ==
    {p \in KillList(new) : p \notin flagged /\ Group[p] # OwnGroup}

\* The groups are killed; the node is marked dead where kill() found its group.
Kill(targets) ==
    LET groups == {Group[p] : p \in targets}
        live   == {p \in targets : \E q \in Proc : Group[q] = Group[p] /\ life[q] = "live"}
    IN  \E hit \in SUBSET targets :
            /\ live \subseteq hit
            /\ life' = [p \in Proc |-> IF p \in hit THEN "dead" ELSE SigKill(groups)[p]]

Tick ==
    /\ engine = "tick"
    /\ engine' = "sleep" /\ lag' = 0
    /\ risk' \in [Proc -> Level]
    /\ \A p \in Proc :
          risk'[p] <= risk[p] /\ (exempt[p] \/ frozen[p] => risk'[p] = risk[p])
    /\ above' = [p \in Proc |-> IF Watched(p) THEN Timer(p, risk'[p]) ELSE above[p]]
    /\ cold' = [p \in Proc |->
                  IF Watched(p) /\ (node_is_supervised(p) \/ risk'[p] # Deadly)
                  THEN lag ELSE cold[p]]
    /\ flagged' = flagged \cup Mitigated(above')
    /\ IF AutoKill THEN Kill(Mitigated(above')) ELSE UNCHANGED life
    /\ UNCHANGED <<marks, up>>

-----------------------------------------------------------------------------
\* A process ends by itself or is killed by somebody else.
End(p) ==
    /\ life[p] = "live"
    /\ life' = [life EXCEPT ![p] = "gone"]
    /\ UNCHANGED <<scores, marks, flagged, clock, cold>>

Next ==
    \/ \E p \in Acting : Event(p) \/ Trip(p) \/ Commit(p) \/ End(p)
    \/ \E p \in Proc : Exit(p) \/ Register(p)
    \/ \E p \in Proc, k \in Keys : Answer(p, k)
    \/ Pass
    \/ ReadClock
    \/ Tick

Spec == Init /\ [][Next]_vars

\* Time passes and the engine thread runs; no event, answer or death is owed.
FairSpec == Spec /\ WF_vars(Pass) /\ WF_vars(ReadClock) /\ WF_vars(Tick)

-----------------------------------------------------------------------------
(* Properties.                                                             *)

\* What the engine marks for killing was found below the threshold by no look
\* of the last dwell_sec, whatever stopped, resumed, renamed or trusted it in
\* between, and the program had warmed up.
KillNeedsDwell ==
    [][\A p \in flagged' \ flagged :
          Since(cold[p]) >= DwellSec /\ Since(up) >= WarmupSec]_vars

\* The engine marks no process whose prompt is waiting for the operator, nor one of a
\* supervised tree, whose calls are decided one by one; and what its kill ends is in
\* the process group of one it marked at that tick.
Ends(p) == engine = "tick" /\ engine' = "sleep" /\ life[p] = "live" /\ life'[p] # "live"
KillIsOfMarked ==
    [][/\ \A p \in flagged' \ flagged : ~pending[p] /\ ~node_is_supervised(p)
       /\ \A p \in Proc : Ends(p) =>
              \E q \in flagged' \ flagged : Group[q] = Group[p]]_vars

\* Both: whom the engine kills, one of its group has earned it, watched long enough
\* and waiting for nobody.  (The others of the group earned nothing, see
\* AskedIsNotKilled.)
KillsAreEarned == KillNeedsDwell /\ KillIsOfMarked

\* A process that stays above the threshold and within the engine's reach is
\* killed in the end, or reported when auto-kill is off.
Reachable(p) ==
    Watched(p) /\ ~node_is_supervised(p) /\ Group[p] # OwnGroup /\ risk[p] = Deadly

HotIsKilled ==
    \A p \in Proc : []<>(Reachable(p) => p \in flagged)

-----------------------------------------------------------------------------
(* The inductive invariant of the proofs.                                  *)

\* A running timer was started after the last look that found the process cold,
\* and no such look is later than the clock tick() has read.
TimerIsLater ==
    \A p \in Proc : lag <= cold[p] /\ (above[p] # Never => above[p] <= cold[p])

AskedAreFrozen == \A p \in Proc : pending[p] => frozen[p]

IInv == TypeOK /\ TimerIsLater /\ AskedAreFrozen

-----------------------------------------------------------------------------
(* Claims the code does not keep.                                          *)

\* tracker.cpp:1236, "suspended at ... pending decision": the engine kills no process
\* whose prompt is waiting for the operator, nor one of a supervised tree.
AskedIsNotKilled ==
    [][\A p \in Proc : Ends(p) => ~pending[p] /\ ~node_is_supervised(p)]_vars

\* ui.cpp:285, "Allow - let it continue running": what an answer lets go on is
\* not due to be killed at the next tick.
AllowedRunsOn ==
    [][\A p \in Proc :
          pending[p] /\ ~pending'[p] /\ ~frozen'[p] /\ ~exempt'[p] =>
              above'[p] \in {Never} \cup 0 .. DwellSec - 1]_vars
=============================================================================
