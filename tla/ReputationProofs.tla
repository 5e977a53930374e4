-------------------------- MODULE ReputationProofs --------------------------
(***************************************************************************)
(* Proofs about the reputation store, for any set of rules and threads.    *)
(***************************************************************************)
EXTENDS Reputation, TLAPS

USE DEF LockFree, Succeeded

\* The store starts in the inductive invariant.
LEMMA InvInit == Init => IInv
<1> SUFFICES ASSUME Init PROVE IInv
  OBVIOUS
<1>1. NoRules \in Rules
  BY DEF NoRules, Rules, RuleState
<1>2. NoFile \in File
  BY <1>1 DEF NoFile, File
<1>3. TypeOK
  BY <1>1, <1>2 DEF Init, TypeOK, PC
<1> QED
  BY <1>3, ThreadAssumption
     DEF Init, IInv, LockHeld, DumpIsMemory, TmpIsDump, SealedIsDump, Saving,
         DiskFollowsMemory, Quiet, FallbackIsForced, KeptIsOnDisk, KeptIsMemory

\* A change of a rule keeps the invariant: it needs the lock, so no dump is
\* under way.
LEMMA ChangeStep ==
  ASSUME IInv, NEW w \in Thread, NEW r \in Rule, NEW s \in RuleState, Change(w, r, s)
  PROVE  IInv'
<1> USE DEF IInv
<1>1. entries' \in Rules
  BY DEF Change, TypeOK, Rules
<1>2. kept' \in [Rule -> RuleState \cup {"unsure"}]
  BY DEF Change, TypeOK
<1>3. TypeOK'
  BY <1>1, <1>2 DEF Change, TypeOK, fileVars, PC
<1>4. \A v \in Thread : pc'[v] \in Saving <=> pc[v] \in Saving
  BY DEF Change, TypeOK, Saving
<1>5. \A v \in Thread : pc[v] \notin Saving
  BY ThreadAssumption DEF Change, LockHeld
<1>6. LockHeld'
  BY <1>4, <1>5, ThreadAssumption DEF Change, LockHeld, fileVars
<1>7. DumpIsMemory' /\ TmpIsDump' /\ SealedIsDump'
  BY <1>4, <1>5 DEF DumpIsMemory, TmpIsDump, SealedIsDump, Saving
<1>8. ~Quiet'
  BY DEF Change, Quiet, TypeOK
<1>9. FallbackIsForced'
  BY <1>5 DEF Change, TypeOK, FallbackIsForced, Saving
<1>10. KeptIsOnDisk' /\ KeptIsMemory'
  BY DEF Change, TypeOK, KeptIsOnDisk, KeptIsMemory, fileVars, Rules
<1> QED
  BY <1>3, <1>6, <1>7, <1>8, <1>9, <1>10 DEF DiskFollowsMemory, Change

\* Every step of a save keeps the invariant.
LEMMA SaveKeeps ==
  ASSUME IInv, NEW w \in Thread, SaveStep(w)
  PROVE  IInv'
<1> USE ThreadAssumption DEF IInv, memVars, fileVars, boundVars, histVars, Saving
<1>1. CASE BeginSave(w)
  <2>1. TypeOK'
    BY <1>1 DEF BeginSave, TypeOK, PC
  <2>2. LockHeld' /\ DumpIsMemory' /\ TmpIsDump' /\ SealedIsDump'
    BY <1>1 DEF BeginSave, TypeOK, LockHeld, DumpIsMemory, TmpIsDump, SealedIsDump
  <2>3. ~Quiet'
    BY <1>1 DEF BeginSave, Quiet, TypeOK
  <2>4. FallbackIsForced'
    BY <1>1 DEF BeginSave, TypeOK, FallbackIsForced, LockHeld
  <2>5. KeptIsOnDisk' /\ KeptIsMemory'
    BY <1>1 DEF BeginSave, TypeOK, KeptIsOnDisk, KeptIsMemory, DumpIsMemory, TmpIsDump, Holds, Torn, LockHeld
  <2> QED
    BY <1>1, <2>1, <2>2, <2>3, <2>4, <2>5 DEF BeginSave, DiskFollowsMemory
<1>2. CASE WriteTmp(w)
  <2>1. Holds(dump[w]) \in File /\ Torn \in File
    BY DEF TypeOK, Holds, Torn, File, NoRules, Rules, RuleState
  <2>2. TypeOK'
    BY <1>2, <2>1 DEF WriteTmp, TypeOK, PC
  <2>3. LockHeld' /\ DumpIsMemory' /\ TmpIsDump' /\ SealedIsDump'
    BY <1>2 DEF WriteTmp, TypeOK, LockHeld, DumpIsMemory, TmpIsDump, SealedIsDump
  <2>4. ~Quiet'
    BY <1>2 DEF WriteTmp, Quiet, TypeOK
  <2>5. FallbackIsForced'
    BY <1>2 DEF WriteTmp, TypeOK, FallbackIsForced, LockHeld
  <2>6. KeptIsOnDisk' /\ KeptIsMemory'
    BY <1>2 DEF WriteTmp, TypeOK, KeptIsOnDisk, KeptIsMemory, DumpIsMemory, TmpIsDump, Holds, Torn, LockHeld
  <2> QED
    BY <1>2, <2>2, <2>3, <2>4, <2>5, <2>6 DEF WriteTmp, DiskFollowsMemory
<1>3. CASE Rename(w)
  <2>1. NoFile \in File
    BY DEF NoFile, File, NoRules, Rules, RuleState
  <2>2. TypeOK'
    BY <1>3, <2>1 DEF Rename, TypeOK, PC
  <2>3. LockHeld' /\ DumpIsMemory' /\ TmpIsDump' /\ SealedIsDump'
    BY <1>3 DEF Rename, TypeOK, LockHeld, DumpIsMemory, TmpIsDump, SealedIsDump
  <2>4. ~Quiet'
    BY <1>3 DEF Rename, Quiet, TypeOK
  <2>5. FallbackIsForced'
    BY <1>3 DEF Rename, TypeOK, FallbackIsForced, LockHeld
  <2>6. KeptIsOnDisk' /\ KeptIsMemory'
    BY <1>3 DEF Rename, TypeOK, KeptIsOnDisk, KeptIsMemory, DumpIsMemory, TmpIsDump, Holds, Torn, LockHeld
  <2> QED
    BY <1>3, <2>2, <2>3, <2>4, <2>5, <2>6 DEF Rename, DiskFollowsMemory
<1>4. CASE Truncate(w)
  <2>1. Torn \in File
    BY DEF Torn, File, NoRules, Rules, RuleState
  <2>2. TypeOK'
    BY <1>4, <2>1 DEF Truncate, TypeOK, PC
  <2>3. LockHeld' /\ DumpIsMemory' /\ TmpIsDump' /\ SealedIsDump'
    BY <1>4 DEF Truncate, TypeOK, LockHeld, DumpIsMemory, TmpIsDump, SealedIsDump
  <2>4. ~Quiet'
    BY <1>4 DEF Truncate, Quiet, TypeOK
  <2>5. FallbackIsForced'
    BY <1>4 DEF Truncate, TypeOK, FallbackIsForced, LockHeld
  <2>6. KeptIsOnDisk' /\ KeptIsMemory'
    BY <1>4 DEF Truncate, TypeOK, KeptIsOnDisk, KeptIsMemory, DumpIsMemory, TmpIsDump, Holds, Torn, LockHeld
  <2> QED
    BY <1>4, <2>2, <2>3, <2>4, <2>5, <2>6 DEF Truncate, DiskFollowsMemory
<1>5. CASE Write(w)
  <2>1. Holds(dump[w]) \in File
    BY DEF TypeOK, Holds, File
  <2>2. TypeOK'
    BY <1>5, <2>1 DEF Write, TypeOK, PC
  <2>3. LockHeld' /\ DumpIsMemory' /\ TmpIsDump' /\ SealedIsDump'
    BY <1>5 DEF Write, TypeOK, LockHeld, DumpIsMemory, TmpIsDump, SealedIsDump
  <2>4. ~Quiet'
    BY <1>5 DEF Write, Quiet, TypeOK
  <2>5. FallbackIsForced'
    BY <1>5 DEF Write, TypeOK, FallbackIsForced, LockHeld
  <2>6. KeptIsOnDisk' /\ KeptIsMemory'
    BY <1>5 DEF Write, TypeOK, KeptIsOnDisk, KeptIsMemory, DumpIsMemory, TmpIsDump, Holds, Torn, LockHeld
  <2> QED
    BY <1>5, <2>2, <2>3, <2>4, <2>5, <2>6 DEF Write, DiskFollowsMemory
<1>6. CASE Seal(w)
  <2>1. dump[w][on[w]] \in RuleState
    BY DEF TypeOK, Rules
  <2>2. kept' \in [Rule -> RuleState \cup {"unsure"}]
    BY <1>6, <2>1 DEF Seal, TypeOK
  <2>3. TypeOK'
    BY <1>6, <2>2 DEF Seal, TypeOK, PC
  <2>4. LockHeld' /\ DumpIsMemory' /\ TmpIsDump' /\ SealedIsDump'
    BY <1>6 DEF Seal, TypeOK, LockHeld, DumpIsMemory, TmpIsDump, SealedIsDump
  <2>5. wrote[w] => disk' = Holds(entries')
    BY <1>6 DEF Seal, SealedIsDump, DumpIsMemory
  <2>6. DiskFollowsMemory'
    BY <1>6, <2>5 DEF Seal, DiskFollowsMemory
  <2>7. FallbackIsForced'
    BY <1>6 DEF Seal, TypeOK, FallbackIsForced
  <2>8. KeptIsOnDisk' /\ KeptIsMemory'
    BY <1>6, <2>1 DEF Seal, TypeOK, KeptIsOnDisk, KeptIsMemory, SealedIsDump, DumpIsMemory, Holds
  <2> QED
    BY <1>6, <2>3, <2>4, <2>6, <2>7, <2>8 DEF Seal
<1> QED
  BY <1>1, <1>2, <1>3, <1>4, <1>5, <1>6 DEF SaveStep

\* Being killed and starting again keep the invariant.
LEMMA RestartKeeps ==
  ASSUME IInv, Crash \/ Load
  PROVE  IInv'
<1> USE ThreadAssumption DEF IInv, memVars, fileVars, boundVars, histVars, Saving
<1>1. CASE Crash
  <2>1. pc' \in [Thread -> PC]
    BY <1>1 DEF Crash, PC
  <2>2. crashes' \in Nat
    BY <1>1 DEF Crash, TypeOK
  <2>3. TypeOK'
    BY <1>1, <2>1, <2>2 DEF Crash, TypeOK
  <2> QED
    BY <1>1, <2>3 DEF Crash, LockHeld, DumpIsMemory, TmpIsDump, SealedIsDump,
                      DiskFollowsMemory, Quiet, FallbackIsForced, KeptIsOnDisk, KeptIsMemory
<1>2. CASE Load
  <2>1. disk.rules \in Rules
    BY DEF TypeOK, File
  <2>2. kept' \in [Rule -> RuleState \cup {"unsure"}]
    BY <1>2, <2>1 DEF Load, Rules
  <2>3. TypeOK'
    <3>1. NoRules \in Rules
      BY DEF NoRules, Rules, RuleState
    <3>2. entries' \in Rules /\ tamper' \in BOOLEAN /\ unread' \in BOOLEAN
      BY <1>2, <2>1, <3>1 DEF Load, FlagTorn
    <3>3. immutable' \in BOOLEAN /\ up' \in BOOLEAN /\ last' \in {"none", "ok", "failed"}
      BY <1>2 DEF Load, TypeOK
    <3> QED
      BY <1>2, <2>2, <3>2, <3>3 DEF Load, TypeOK
  <2>4. KeptIsOnDisk' /\ KeptIsMemory'
    BY <1>2, <2>1 DEF Load, KeptIsOnDisk, KeptIsMemory
  <2> QED
    BY <1>2, <2>3, <2>4 DEF Load, TypeOK, LockHeld, DumpIsMemory, TmpIsDump, SealedIsDump,
                            DiskFollowsMemory, Quiet, FallbackIsForced
<1> QED
  BY <1>1, <1>2

LEMMA InvStep == IInv /\ [Next]_vars => IInv'
<1> SUFFICES ASSUME IInv, [Next]_vars PROVE IInv'
  OBVIOUS
<1>1. ASSUME NEW w \in Thread, NEW r \in Rule, Add(w, r) \/ Remove(w, r) PROVE IInv'
  BY <1>1, ChangeStep DEF Add, Remove, RuleState
<1>2. ASSUME NEW w \in Thread, NEW r \in Rule, NEW s \in RuleState, SetPaused(w, r, s)
      PROVE  IInv'
  BY <1>2, ChangeStep DEF SetPaused
<1>3. CASE UNCHANGED vars
  BY <1>3 DEF vars, memVars, fileVars, boundVars, histVars, IInv, TypeOK, LockHeld,
              DumpIsMemory, TmpIsDump, SealedIsDump, DiskFollowsMemory, Quiet,
              FallbackIsForced, KeptIsOnDisk, KeptIsMemory
<1> QED
  BY <1>1, <1>2, <1>3, SaveKeeps, RestartKeeps DEF Next

LEMMA InvHolds == Spec => []IInv
  BY InvInit, InvStep, PTL DEF Spec

\* Two threads that change rules between each other's saves lose none: at rest
\* after a successful save the file holds the memory (Reputation::add, remove,
\* set_paused and save).
THEOREM FileFollowsMemory == Spec => []DiskFollowsMemory
<1>1. IInv => DiskFollowsMemory
  BY DEF IInv
<1> QED
  BY <1>1, InvHolds, PTL

-----------------------------------------------------------------------------

\* What was reported as saved is in the file, or the file is visibly torn, in
\* every state of every behaviour: the program may be killed and file operations
\* may fail anywhere (save() and load()).
THEOREM KeptOnDisk == Spec => []KeptIsOnDisk
<1>1. IInv => KeptIsOnDisk
  BY DEF IInv
<1> QED
  BY <1>1, InvHolds, PTL

\* A start that opens the store and has lost a rule reported as saved raises the
\* tamper flag (load()).
THEOREM LossFlagged == Spec => LossIsFlagged
<1>1. IInv /\ [Next]_vars =>
         [~up /\ up' => \/ tamper' \/ unread'
                        \/ \A r \in Rule : kept[r] # "unsure" => entries'[r] = kept[r]]_vars
  <2> SUFFICES ASSUME IInv, Next, ~up, up', ~tamper', ~unread', NEW r \in Rule, kept[r] # "unsure"
               PROVE  entries'[r] = kept[r]
    OBVIOUS
  <2>1. Load
    <3>1. ASSUME NEW w \in Thread, SaveStep(w) PROVE FALSE
      BY <3>1 DEF SaveStep, BeginSave, WriteTmp, Rename, Truncate, Write, Seal
    <3>2. ASSUME NEW w \in Thread, NEW q \in Rule, NEW s,
                 Add(w, q) \/ Remove(w, q) \/ SetPaused(w, q, s)
          PROVE  FALSE
      BY <3>2 DEF Add, Remove, SetPaused, Change
    <3>3. ~Crash
      BY DEF Crash
    <3> QED
      BY <3>1, <3>2, <3>3 DEF Next
  <2>2. disk.status # "torn"
    BY <2>1 DEF Load, FlagTorn
  <2> QED
    BY <2>1, <2>2 DEF Load, IInv, KeptIsOnDisk
<1> QED
  BY <1>1, InvHolds, PTL DEF Spec, LossIsFlagged

-----------------------------------------------------------------------------

LEMMA DurableInit == Init => Durable!Init
BY DEF Init, Durable!Init, Durable!NoRules, NoRules, NoFile

\* Every step of the store is a step of DurableRules or leaves it alone.
LEMMA DurableStep == IInv /\ [Next]_vars => [Durable!Next]_(Durable!vars)
<1> SUFFICES ASSUME IInv, [Next]_vars PROVE [Durable!Next]_(Durable!vars)
  OBVIOUS
<1> USE DEF memVars, fileVars, boundVars, histVars, Durable!vars
<1>1. ASSUME NEW w \in Thread, NEW r \in Rule, NEW s \in RuleState, Change(w, r, s)
      PROVE  Durable!Next
  <2>1. Durable!Change(r, s)
    BY <1>1 DEF Change, Durable!Change
  <2> QED
    BY <2>1 DEF Durable!Next
<1>2. ASSUME NEW w \in Thread, Rename(w) PROVE [Durable!Next]_(Durable!vars)
  <2>1. tmp = Holds(entries)
    BY <1>2 DEF Rename, IInv, TmpIsDump, DumpIsMemory, Saving
  <2>2. CASE disk' = tmp /\ UNCHANGED failed
    <3>1. disk'.rules = entries /\ disk'.status = "ok"
      BY <2>1, <2>2 DEF Holds
    <3>2. Durable!Commit
      BY <1>2, <2>2, <3>1 DEF Rename, Durable!Commit
    <3> QED
      BY <3>2 DEF Durable!Next
  <2>3. CASE failed' = TRUE /\ UNCHANGED disk
    <3>1. Durable!Fault
      BY <1>2, <2>3 DEF Rename, Durable!Fault
    <3> QED
      BY <3>1 DEF Durable!Next
  <2> QED
    BY <1>2, <2>2, <2>3 DEF Rename
<1>3. ASSUME NEW w \in Thread, Truncate(w) PROVE [Durable!Next]_(Durable!vars)
  <2>1. CASE UNCHANGED disk
    BY <1>3, <2>1 DEF Truncate
  <2>2. CASE disk' = Torn
    <3>1. failed
      BY <1>3 DEF Truncate, IInv, FallbackIsForced
    <3>2. disk'.rules = Durable!NoRules /\ disk'.status = "torn"
      BY <2>2 DEF Torn, NoRules, Durable!NoRules
    <3>3. Durable!Lose
      BY <1>3, <2>2, <3>1, <3>2 DEF Truncate, Durable!Lose
    <3> QED
      BY <3>3 DEF Durable!Next
  <2> QED
    BY <1>3, <2>1, <2>2 DEF Truncate
<1>4. ASSUME NEW w \in Thread, Write(w) PROVE [Durable!Next]_(Durable!vars)
  <2>1. CASE UNCHANGED disk
    BY <1>4, <2>1 DEF Write
  <2>2. CASE disk' = Holds(dump[w])
    <3>1. disk'.rules = entries /\ disk'.status = "ok"
      BY <1>4, <2>2 DEF Write, IInv, DumpIsMemory, Saving, Holds
    <3>2. Durable!Commit
      BY <1>4, <3>1 DEF Write, Durable!Commit
    <3> QED
      BY <3>2 DEF Durable!Next
  <2> QED
    BY <1>4, <2>1, <2>2 DEF Write
<1>5. ASSUME NEW w \in Thread, BeginSave(w) \/ WriteTmp(w)
      PROVE  [Durable!Next]_(Durable!vars)
  <2>1. Durable!Fault \/ UNCHANGED Durable!vars
    BY <1>5 DEF BeginSave, WriteTmp, IInv, TypeOK, Durable!Fault
  <2> QED
    BY <2>1 DEF Durable!Next
<1>6. ASSUME NEW w \in Thread, SaveStep(w) PROVE [Durable!Next]_(Durable!vars)
  BY <1>2, <1>3, <1>4, <1>5, <1>6 DEF SaveStep, Seal
<1>7. CASE Crash
  BY <1>7 DEF Crash, Durable!Next, Durable!Crash
<1>8. CASE Load
  <2>1. CASE unread'
    BY <1>8, <2>1 DEF Load, Durable!Next, Durable!BlindRestart, NoRules, Durable!NoRules
  <2>2. CASE ~unread'
    BY <1>8, <2>2 DEF Load, FlagTorn, Durable!Next, Durable!Restart
  <2> QED
    BY <2>1, <2>2
<1>9. CASE UNCHANGED vars
  BY <1>9 DEF vars
<1> QED
  BY <1>1, <1>6, <1>7, <1>8, <1>9 DEF Next, Add, Remove, SetPaused, RuleState

\* The store is a DurableRules store: its file changes only by becoming the
\* rules in memory at once, loses them only after a file operation failed or
\* after a start that could not open it, and a start that opens it and finds them
\* lost says so (save() and load()).
THEOREM ImplementsDurableRules == Spec => DurableSpec
BY DurableInit, DurableStep, InvHolds, PTL DEF Spec, DurableSpec, Durable!Spec
=============================================================================
