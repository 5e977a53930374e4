----------------------------- MODULE DwellProofs -----------------------------
(* Proofs about Dwell, for any processes, groups, times and decisions.     *)
EXTENDS Dwell, TLAPS

\* The invariant holds at the start: no timer runs and nothing is asked.
LEMMA InitIInv == Init => IInv
BY TimesAssumption DEF Init, IInv, TypeOK, TimerIsLater, AskedAreFrozen, Age, Old, Never,
   Level, Low

\* What the poller, the operator and the processes do keeps it: they leave the
\* times alone, and what is asked is frozen until it is answered.
LEMMA OthersIInv ==
    ASSUME IInv, UNCHANGED <<above, clock, cold, flagged>>, risk' \in [Proc -> Level],
           life' \in [Proc -> {"live", "gone", "dead"}],
           exempt' \in [Proc -> BOOLEAN], frozen' \in [Proc -> BOOLEAN],
           supervised' \in [Proc -> BOOLEAN], pending' \in [Proc -> BOOLEAN],
           \A p \in Proc : pending'[p] => frozen'[p]
    PROVE  IInv'
BY DEF IInv, TypeOK, TimerIsLater, AskedAreFrozen, clock

\* SIGKILL to groups yields lives.
LEMMA SigKillType ==
    ASSUME IInv, NEW groups
    PROVE  SigKill(groups) \in [Proc -> {"live", "gone", "dead"}]
BY DEF IInv, TypeOK, SigKill

\* Time keeps it: all ages grow alike.
LEMMA PassIInv == IInv /\ Pass => IInv'
<1> SUFFICES ASSUME IInv, Pass PROVE IInv'
  OBVIOUS
<1> USE TimesAssumption
<1> DEFINE Older(a) == IF a < Old THEN a + 1 ELSE a
<1>1. Old \in Nat /\ MaxLag <= Old /\ Never = Old + 1
  BY DEF Old, Never
<1>2. \A a \in Age : Older(a) \in Age /\ Older(a) >= a
  BY <1>1 DEF Age
<1>3. Older(Never) = Never /\ Never \notin Age
  BY <1>1 DEF Age
<1>4. above' = [p \in Proc |-> Older(above[p])] /\ cold' = [p \in Proc |-> Older(cold[p])]
      /\ up' = Older(up)
  BY DEF Pass
<1>5. TypeOK'
  <2>1. above' \in [Proc -> Age \cup {Never}] /\ cold' \in [Proc -> Age] /\ up' \in Age
    BY <1>2, <1>3, <1>4 DEF IInv, TypeOK
  <2>2. lag' \in 0 .. MaxLag
    BY DEF IInv, TypeOK, Pass
  <2> QED
    BY <2>1, <2>2 DEF IInv, TypeOK, Pass, marks
<1>6. ASSUME NEW p \in Proc
      PROVE  lag' <= cold'[p] /\ (above'[p] # Never => above'[p] <= cold'[p])
  <2>1. cold[p] \in Age /\ above[p] \in Age \cup {Never} /\ lag \in 0 .. MaxLag
        /\ lag <= cold[p] /\ (above[p] # Never => above[p] <= cold[p])
    BY DEF IInv, TypeOK, TimerIsLater
  <2>2. cold'[p] = Older(cold[p]) /\ above'[p] = Older(above[p])
    BY <1>4
  <2>3. lag' <= cold'[p]
    BY <1>1, <2>1, <2>2 DEF Pass, Age
  <2>4. above[p] # Never => Older(above[p]) <= Older(cold[p])
    BY <1>1, <2>1 DEF Age
  <2> QED
    BY <1>3, <2>1, <2>2, <2>3, <2>4
<1> QED
  BY <1>5, <1>6 DEF IInv, TimerIsLater, AskedAreFrozen, Pass, marks

\* A tick keeps it: a timer is started no earlier than the last cold look, and
\* a cold look stops it.
LEMMA TickIInv == IInv /\ Tick => IInv'
<1> SUFFICES ASSUME IInv, Tick PROVE IInv'
  OBVIOUS
<1> USE TimesAssumption
<1>1. lag \in Age /\ Never \notin Age
  BY DEF IInv, TypeOK, Age, Old, Never
<1>2. \A p \in Proc : Timer(p, risk'[p]) \in Age \cup {Never}
  BY <1>1 DEF IInv, TypeOK, Timer
<1>3. above' \in [Proc -> Age \cup {Never}] /\ cold' \in [Proc -> Age]
  BY <1>1, <1>2 DEF IInv, TypeOK, Tick
<1>4. flagged' \in SUBSET Proc
  BY DEF IInv, TypeOK, Tick, Mitigated, KillList
<1>5. life' \in [Proc -> {"live", "gone", "dead"}]
  <2> DEFINE targets == Mitigated(above')
             groups  == {Group[p] : p \in targets}
             live    == {p \in targets : \E q \in Proc : Group[q] = Group[p] /\ life[q] = "live"}
  <2>1. life \in [Proc -> {"live", "gone", "dead"}]
    BY DEF IInv, TypeOK
  <2>2. CASE ~AutoKill
    BY <2>1, <2>2 DEF Tick
  <2>3. CASE AutoKill
    <3>1. PICK hit \in SUBSET targets :
             life' = [p \in Proc |-> IF p \in hit THEN "dead" ELSE SigKill(groups)[p]]
      BY <2>3 DEF Tick, Kill
    <3>2. SigKill(groups) \in [Proc -> {"live", "gone", "dead"}]
      BY SigKillType
    <3> QED
      BY <3>1, <3>2
  <2> QED
    BY <2>2, <2>3
<1>6. TypeOK'
  BY <1>3, <1>4, <1>5 DEF IInv, TypeOK, Tick, marks
<1>7. ASSUME NEW p \in Proc
      PROVE  lag' <= cold'[p] /\ (above'[p] # Never => above'[p] <= cold'[p])
  <2>1. above'[p] = (IF Watched(p) THEN Timer(p, risk'[p]) ELSE above[p])
        /\ cold'[p] = (IF Watched(p) /\ (node_is_supervised(p) \/ risk'[p] # Deadly)
                       THEN lag ELSE cold[p])
    BY DEF Tick
  <2>2. cold[p] \in Age /\ cold'[p] \in Age /\ lag \in Age /\ lag <= cold[p]
        /\ (above[p] # Never => above[p] <= cold[p])
    BY <1>1, <1>3 DEF IInv, TypeOK, TimerIsLater
  <2>3. lag' <= cold'[p]
    BY <2>2 DEF Tick, Age
  <2> QED
    BY <2>1, <2>2, <2>3 DEF Timer
<1> QED
  BY <1>6, <1>7 DEF IInv, TimerIsLater, AskedAreFrozen, Tick, marks

\* Every step keeps the invariant.
LEMMA NextIInv == IInv /\ [Next]_vars => IInv'
<1> SUFFICES ASSUME IInv, [Next]_vars PROVE IInv'
  OBVIOUS
<1> USE ActingAssumption
<1>0. TypeOK /\ AskedAreFrozen
  BY DEF IInv
<1>1. ASSUME NEW p \in Proc, NEW ex, Evidence(p, ex) PROVE risk' \in [Proc -> Level]
  BY <1>0, <1>1 DEF TypeOK, Evidence
<1>2. ASSUME NEW p \in Acting, Event(p) PROVE IInv'
  <2>1. risk' \in [Proc -> Level]
    BY <1>0, <1>1, <1>2 DEF Event, TypeOK
  <2>2. /\ exempt' \in [Proc -> BOOLEAN]
        /\ UNCHANGED <<above, supervised, flagged, life, clock, cold>>
    BY <1>0, <1>2 DEF Event, TypeOK
  <2>3. \/ UNCHANGED <<frozen, pending>>
        \/ /\ frozen' = [frozen EXCEPT ![p] = TRUE]
           /\ pending' = [pending EXCEPT ![p] = TRUE]
    BY <1>2 DEF Event, Ask
  <2>4. /\ frozen' \in [Proc -> BOOLEAN] /\ pending' \in [Proc -> BOOLEAN]
        /\ \A q \in Proc : pending'[q] => frozen'[q]
    BY <1>0, <2>3 DEF TypeOK, AskedAreFrozen
  <2>5. life' \in [Proc -> {"live", "gone", "dead"}] /\ supervised' \in [Proc -> BOOLEAN]
    BY <1>0, <2>2 DEF TypeOK
  <2> QED
    BY <2>1, <2>2, <2>4, <2>5, OthersIInv
<1>3. ASSUME NEW p \in Acting, Trip(p) PROVE IInv'
  BY <1>0, <1>3, OthersIInv DEF Trip, Ask, TypeOK, AskedAreFrozen, clock, scores
<1>4. ASSUME NEW p \in Acting, Commit(p) PROVE IInv'
  BY <1>0, <1>1, <1>4, OthersIInv DEF Commit, TypeOK, AskedAreFrozen, clock, marks
<1>5. ASSUME NEW p \in Acting, End(p) PROVE IInv'
  BY <1>0, <1>5, OthersIInv DEF End, TypeOK, AskedAreFrozen, clock, scores, marks
<1>6. ASSUME NEW p \in Proc, Exit(p) PROVE IInv'
  BY <1>0, <1>6, OthersIInv DEF Exit, TypeOK, AskedAreFrozen, clock, scores, marks
<1>7. ASSUME NEW p \in Proc, Register(p) PROVE IInv'
  BY <1>0, <1>7, OthersIInv DEF Register, TypeOK, AskedAreFrozen, clock, scores
<1>8. ASSUME NEW p \in Proc, NEW k \in Keys, Answer(p, k) PROVE IInv'
  <2>1. life' \in [Proc -> {"live", "gone", "dead"}]
    BY <1>0, <1>8, SigKillType DEF Answer, TypeOK
  <2>2. /\ frozen' \in [Proc -> BOOLEAN] /\ pending' \in [Proc -> BOOLEAN]
        /\ \A q \in Proc : pending'[q] => frozen'[q]
    BY <1>0, <1>8 DEF Answer, TypeOK, AskedAreFrozen
  <2>3. /\ risk' \in [Proc -> Level] /\ exempt' \in [Proc -> BOOLEAN]
        /\ supervised' \in [Proc -> BOOLEAN]
        /\ UNCHANGED <<above, clock, cold, flagged>>
    BY <1>0, <1>8 DEF Answer, TypeOK, scores
  <2> QED
    BY <2>1, <2>2, <2>3, OthersIInv
<1>9. CASE ReadClock
  BY <1>9, TimesAssumption DEF ReadClock, IInv, TypeOK, TimerIsLater, AskedAreFrozen, Age,
     scores, marks
<1>10. CASE UNCHANGED vars
  BY <1>10 DEF vars, scores, marks, clock, IInv, TypeOK, TimerIsLater, AskedAreFrozen
<1> QED
  BY <1>2, <1>3, <1>4, <1>5, <1>6, <1>7, <1>8, <1>9, <1>10, PassIInv, TickIInv DEF Next

\* IInv is an invariant.
THEOREM Inductive == Spec => []IInv
<1> QED
  BY InitIInv, NextIInv, PTL DEF Spec

\* Only a tick marks a process for killing, and only one whose timer has run for
\* dwell_sec.
LEMMA OnlyTickFlags == IInv /\ [Next]_vars /\ flagged' # flagged => Tick
BY DEF Next, vars, Event, Trip, Commit, End, Exit, Register, Answer, Pass, ReadClock

\* The engine kills nothing before it found it above the threshold, and never
\* below, for dwell_sec.
THEOREM KillsNeedDwell == Spec => KillNeedsDwell
<1> DEFINE Step == \A p \in flagged' \ flagged :
                      Since(cold[p]) >= DwellSec /\ Since(up) >= WarmupSec
<1>1. IInv /\ [Next]_vars => [Step]_vars
  <2> SUFFICES ASSUME IInv, [Next]_vars, NEW p \in flagged' \ flagged
               PROVE  Since(cold[p]) >= DwellSec /\ Since(up) >= WarmupSec
    OBVIOUS
  <2>1. Tick
    BY OnlyTickFlags
  <2>2. p \in KillList(above')
    BY <2>1 DEF Tick, Mitigated
  <2>3. p \in Proc /\ Watched(p) /\ above'[p] # Never /\ Since(above'[p]) >= DwellSec
        /\ Since(up) >= WarmupSec
    BY <2>2 DEF KillList
  <2>4. above'[p] = Timer(p, risk'[p])
    BY <2>1, <2>3 DEF Tick
  <2>5. lag \in Nat /\ cold[p] \in Nat /\ above[p] \in Nat
        /\ (above[p] # Never => above[p] <= cold[p])
    BY <2>3, TimesAssumption DEF IInv, TypeOK, TimerIsLater, Age, Old, Never
  <2>6. above'[p] = above[p] /\ above[p] # Never
    BY <2>3, <2>4, <2>5, TimesAssumption DEF Timer, Since
  <2> QED
    BY <2>3, <2>5, <2>6, TimesAssumption DEF Since
<1> QED
  BY <1>1, Inductive, PTL DEF Spec, KillNeedsDwell

\* What waits for the operator and what is supervised is not marked by the engine,
\* and nobody dies of a tick outside the groups of those it marks, for any groups.
THEOREM OnlyMarkedGroups == Spec => KillIsOfMarked
<1> DEFINE New  == flagged' \ flagged
           Step == /\ \A p \in New : ~pending[p] /\ ~node_is_supervised(p)
                   /\ \A p \in Proc : Ends(p) => \E q \in New : Group[q] = Group[p]
<1>1. IInv /\ [Next]_vars => [Step]_vars
  <2> SUFFICES ASSUME IInv, [Next]_vars PROVE Step
    OBVIOUS
  <2>1. ASSUME NEW p \in New PROVE ~pending[p] /\ ~node_is_supervised(p)
    <3>1. Tick
      BY OnlyTickFlags
    <3>2. p \in Mitigated(above')
      BY <3>1 DEF Tick
    <3>3. p \in Proc /\ Watched(p) /\ above'[p] # Never
      BY <3>2 DEF Mitigated, KillList
    <3>4. ~frozen[p] /\ above'[p] = Timer(p, risk'[p])
      BY <3>1, <3>3 DEF Tick, Watched
    <3> QED
      BY <3>3, <3>4 DEF Timer, IInv, AskedAreFrozen
  <2>2. ASSUME NEW p \in Proc, Ends(p) PROVE \E q \in New : Group[q] = Group[p]
    <3>1. Tick
      BY <2>2 DEF Ends, Next, vars, Event, Trip, Commit, End, Exit, Register, Answer, Pass,
         ReadClock, clock
    <3>2. Kill(Mitigated(above'))
      BY <2>2, <3>1 DEF Tick, Ends
    <3>3. \E q \in Mitigated(above') : Group[q] = Group[p]
      BY <2>2, <3>2 DEF Kill, SigKill, Ends
    <3>4. Mitigated(above') \subseteq New
      BY <3>1 DEF Tick, Mitigated
    <3> QED
      BY <3>3, <3>4
  <2> QED
    BY <2>1, <2>2
<1> QED
  BY <1>1, Inductive, PTL DEF Spec, KillIsOfMarked

\* Whom the engine kills, one of its process group was found above the threshold for
\* dwell_sec after the warm-up, waits for nobody and is not supervised, for any groups.
THEOREM OnlyEarnedKills == Spec => KillsAreEarned
BY KillsNeedDwell, OnlyMarkedGroups DEF KillsAreEarned
=============================================================================
