----------------------------- MODULE Reputation -----------------------------
(***************************************************************************)
(* The reputation store: src/src/reputation.cpp.  Verdicts on binaries are *)
(* kept in memory under mtx_ and written to a file after every change.     *)
(* The UI thread adds, pauses, resumes and removes rules; the supervise    *)
(* thread adds them (seccomp_persist_hash).  A change and its save are two *)
(* sections of the lock, so the threads interleave between them; save()    *)
(* holds the lock throughout, but the program may be killed between any    *)
(* two of its file operations.                                             *)
(*                                                                         *)
(* The file is what it holds: nothing, the rules with the checksum of the  *)
(* same rules (both are taken under one lock), or a torn text that does    *)
(* not parse.  Names, paths and dates of a rule are left out.              *)
(***************************************************************************)
EXTENDS Naturals

CONSTANTS Hash,        \* hashes of binaries
          Thread,      \* threads that change rules
          UiThread,    \* the one of them that pauses and removes
          NoThread,    \* mtx_ is free
          MaxOps,      \* bound: changes in a behaviour
          MaxCrash     \* bound: crashes in a behaviour

ASSUME ThreadAssumption == UiThread \in Thread /\ NoThread \notin Thread
ASSUME BoundsAssumption == MaxOps \in Nat /\ MaxCrash \in Nat

Kind      == {"BLACKLIST", "WHITELIST"}
Rule      == Kind \X Hash
RuleState == {"absent", "active", "paused"}
Rules     == [Rule -> RuleState]
NoRules   == [r \in Rule |-> "absent"]

File    == [status : {"none", "torn", "ok"}, rules : Rules]
NoFile  == [status |-> "none", rules |-> NoRules]
Torn    == [status |-> "torn", rules |-> NoRules]
Holds(m) == [status |-> "ok", rules |-> m]

PC == {"idle", "save", "tmp", "rename", "truncate", "write", "seal"}

VARIABLES
    entries,     \* entries_, as the state of every rule
    tamper,      \* tamper_
    lock,        \* holder of mtx_
    pc,          \* where each thread is
    on,          \* the rule each thread last changed
    dump,        \* local dumped of save()
    wrote,       \* local wrote of save()
    failed,      \* whether a file operation of the last save has failed
    disk,        \* the file at path_
    tmp,         \* the file at path_ + ".tmp"
    immutable,   \* FS_IMMUTABLE_FL of path_
    up,          \* whether the program runs
    ops, crashes,
    kept,        \* history: what was last reported as saved, or "unsure"
    last,        \* history: result of the last save since the start
    unread       \* history: the last start could not open the store

memVars  == <<entries, tamper>>
fileVars == <<disk, tmp, immutable>>
boundVars == <<ops, crashes>>
histVars == <<kept, last, unread>>
vars == <<memVars, lock, pc, on, dump, wrote, failed, fileVars, up, boundVars, histVars>>

TypeOK ==
    /\ entries \in Rules /\ tamper \in BOOLEAN /\ lock \in Thread \cup {NoThread}
    /\ pc \in [Thread -> PC] /\ on \in [Thread -> Rule] /\ dump \in [Thread -> Rules]
    /\ wrote \in [Thread -> BOOLEAN] /\ failed \in BOOLEAN /\ disk \in File /\ tmp \in File
    /\ immutable \in BOOLEAN /\ up \in BOOLEAN /\ ops \in Nat /\ crashes \in Nat
    /\ kept \in [Rule -> RuleState \cup {"unsure"}] /\ last \in {"none", "ok", "failed"}
    /\ unread \in BOOLEAN

\* A first start: there is no file yet.
Init ==
    /\ entries = NoRules /\ tamper = FALSE /\ lock = NoThread
    /\ pc = [w \in Thread |-> "idle"]
    /\ on \in [Thread -> Rule] /\ \A v, w \in Thread : on[v] = on[w]
    /\ dump = [w \in Thread |-> NoRules] /\ wrote = [w \in Thread |-> FALSE]
    /\ failed = FALSE /\ disk = NoFile /\ tmp = NoFile /\ immutable = FALSE /\ up = TRUE /\ ops = 0
    /\ crashes = 0 /\ kept = [r \in Rule |-> "unsure"] /\ last = "none"
    /\ unread = FALSE

-----------------------------------------------------------------------------
(* Changes: the first section of the lock.                                 *)

Change(w, r, s) ==
    /\ up /\ pc[w] = "idle" /\ lock = NoThread /\ ops < MaxOps
    /\ entries' = [entries EXCEPT ![r] = s] /\ pc' = [pc EXCEPT ![w] = "save"]
    /\ on' = [on EXCEPT ![w] = r] /\ kept' = [kept EXCEPT ![r] = "unsure"]
    /\ ops' = ops + 1
    /\ UNCHANGED <<tamper, lock, dump, wrote, failed, fileVars, up, crashes, last, unread>>

\* add() replaces whatever was kept under the key; the opposite verdict stays.
Add(w, r) == Change(w, r, "active")

\* remove() and set_paused() find the entry or change nothing.
Remove(w, r) ==
    /\ w = UiThread /\ entries[r] # "absent" /\ Change(w, r, "absent")

SetPaused(w, r, s) ==
    /\ w = UiThread /\ entries[r] # "absent"
    /\ s \in {"active", "paused"} \ {entries[r]} /\ Change(w, r, s)

-----------------------------------------------------------------------------
(* save(), which holds the lock; one action per file operation.            *)

\* The mutant does not wait for the other thread's save.
LockIgnored == TRUE
LockFree    == lock = NoThread

\* set_immutable() may fail, here and in Seal, and nobody asks.
BeginSave(w) ==
    /\ up /\ pc[w] = "save" /\ LockFree
    /\ lock' = w /\ immutable' \in {FALSE, immutable} /\ dump' = [dump EXCEPT ![w] = entries]
    /\ wrote' = [wrote EXCEPT ![w] = FALSE] /\ failed' = FALSE
    /\ pc' = [pc EXCEPT ![w] = "tmp"]
    /\ UNCHANGED <<memVars, on, disk, tmp, up, boundVars, histVars>>

\* The mutant writes the store in place.
WriteInPlace(w) ==
    /\ up /\ pc[w] = "tmp"
    /\ pc' = [pc EXCEPT ![w] = "truncate"]
    /\ UNCHANGED <<memVars, lock, on, dump, wrote, failed, fileVars, up, boundVars,
                   histVars>>

WriteTmp(w) ==
    /\ up /\ pc[w] = "tmp"
    /\ \/ tmp' = Holds(dump[w]) /\ pc' = [pc EXCEPT ![w] = "rename"] /\ UNCHANGED failed
       \/ tmp' = Torn /\ pc' = [pc EXCEPT ![w] = "truncate"] /\ failed' = TRUE
    /\ UNCHANGED <<memVars, lock, on, dump, wrote, disk, immutable, up, boundVars,
                   histVars>>

\* rename() is atomic; it fails on an immutable target.
Rename(w) ==
    /\ up /\ pc[w] = "rename"
    /\ \/ /\ ~immutable /\ tmp.status = "ok"
          /\ disk' = tmp
          /\ wrote' = [wrote EXCEPT ![w] = TRUE]
          /\ pc' = [pc EXCEPT ![w] = "seal"]
          /\ UNCHANGED failed
       \/ /\ failed' = TRUE
          /\ pc' = [pc EXCEPT ![w] = "truncate"]
          /\ UNCHANGED <<disk, wrote>>
    /\ tmp' = NoFile
    /\ UNCHANGED <<memVars, lock, on, dump, immutable, up, boundVars, histVars>>

\* The fallback opens the store itself with trunc ...
Truncate(w) ==
    /\ up /\ pc[w] = "truncate"
    /\ \/ ~immutable /\ disk' = Torn /\ pc' = [pc EXCEPT ![w] = "write"]
       \/ pc' = [pc EXCEPT ![w] = "seal"] /\ UNCHANGED disk
    /\ UNCHANGED <<memVars, lock, on, dump, wrote, failed, tmp, immutable, up, boundVars,
                   histVars>>

\* ... and writes it in place.
Write(w) ==
    /\ up /\ pc[w] = "write"
    /\ \/ /\ disk' = Holds(dump[w])
          /\ wrote' = [wrote EXCEPT ![w] = TRUE]
       \/ UNCHANGED <<disk, wrote>>
    /\ pc' = [pc EXCEPT ![w] = "seal"]
    /\ UNCHANGED <<memVars, lock, on, dump, failed, tmp, immutable, up, boundVars, histVars>>

\* Mutant of Succeeded.
Succeeds(w)  == TRUE

Succeeded(w) == wrote[w]

\* The lock is released and the caller reports the result for its rule.
Seal(w) ==
    /\ up /\ pc[w] = "seal"
    /\ immutable' \in {disk.status # "none", immutable} /\ lock' = NoThread
    /\ pc' = [pc EXCEPT ![w] = "idle"]
    /\ last' = IF Succeeded(w) THEN "ok" ELSE "failed"
    /\ kept' = IF Succeeded(w) THEN [kept EXCEPT ![on[w]] = dump[w][on[w]]] ELSE kept
    /\ UNCHANGED <<memVars, on, dump, wrote, failed, disk, tmp, up, boundVars, unread>>

-----------------------------------------------------------------------------
(* The program is killed, and started again.                               *)

Crash ==
    /\ up /\ crashes < MaxCrash
    /\ crashes' = crashes + 1 /\ up' = FALSE /\ lock' = NoThread
    /\ pc' = [w \in Thread |-> "idle"]
    /\ UNCHANGED <<memVars, on, dump, wrote, failed, fileVars, ops, histVars>>

\* A text that does not parse is discarded and flagged; the mutant only
\* discards it.
FlagNothing == FALSE
FlagTorn    == disk.status = "torn"

\* load(), before any thread runs.  Its probe of FS_IMMUTABLE_FL, where it
\* succeeds, leaves the flag cleared.  A store that cannot be opened is taken
\* for one that is not there: no rules and no flag.
Load ==
    /\ ~up
    /\ up' = TRUE /\ last' = "none" /\ immutable' \in {FALSE, immutable}
    /\ \/ /\ entries' = disk.rules /\ tamper' = FlagTorn /\ unread' = FALSE
          /\ kept' = [r \in Rule |-> IF disk.status = "ok" THEN disk.rules[r] ELSE "unsure"]
       \/ /\ disk.status # "none"
          /\ entries' = NoRules /\ tamper' = FALSE /\ unread' = TRUE
          /\ kept' = [r \in Rule |-> "unsure"]
    /\ UNCHANGED <<lock, pc, on, dump, wrote, failed, disk, tmp, boundVars>>

SaveStep(w) == BeginSave(w) \/ WriteTmp(w) \/ Rename(w) \/ Truncate(w) \/ Write(w) \/ Seal(w)

Next ==
    \/ \E w \in Thread :
          \/ \E r \in Rule : Add(w, r) \/ Remove(w, r)
          \/ \E r \in Rule, s \in RuleState : SetPaused(w, r, s)
          \/ SaveStep(w)
    \/ Crash
    \/ Load

Spec == Init /\ [][Next]_vars

-----------------------------------------------------------------------------
(* Properties.                                                             *)

Quiet == up /\ \A w \in Thread : pc[w] = "idle"

\* When no change is under way and the last save succeeded, the file holds
\* exactly the rules in memory: of two threads that change rules between each
\* other's saves neither loses its rule.
DiskFollowsMemory ==
    Quiet /\ last = "ok" => disk = Holds(entries)

\* What was reported as saved is in the file, whatever is being saved at the
\* moment, whatever fails and wherever the program is killed, or the file is
\* torn and will be seen to be: it never quietly says something else.  Nothing is
\* said of rules saved before a start that could not open the store.
KeptIsOnDisk ==
    \A r \in Rule :
        kept[r] # "unsure" /\ disk.status # "torn" =>
            disk.status = "ok" /\ disk.rules[r] = kept[r]

\* A start that opens the store and does not find a rule that was reported as
\* saved says so: the tamper warning is on.
LossIsFlagged ==
    [][~up /\ up' => \/ tamper' \/ unread'
                     \/ \A r \in Rule : kept[r] # "unsure" => entries'[r] = kept[r]]_vars

\* The store is a DurableRules store.
Durable == INSTANCE DurableRules WITH
               Absent <- "absent", rules <- entries, file <- disk.rules, running <- up,
               failing <- failed, lost <- disk.status = "torn", flag <- tamper

DurableSpec == Durable!Spec

-----------------------------------------------------------------------------
(* The inductive invariant of the proofs: the dump of a save under way is  *)
(* the memory, and the temporary file about to be renamed holds it.        *)

Saving == {"tmp", "rename", "truncate", "write", "seal"}

LockHeld ==
    \A w \in Thread : pc[w] \in Saving <=> lock = w

DumpIsMemory ==
    \A w \in Thread : pc[w] \in Saving => dump[w] = entries

TmpIsDump ==
    \A w \in Thread : pc[w] = "rename" => tmp = Holds(dump[w])

\* wrote is set by what puts the dump in the file, and by nothing earlier.
SealedIsDump ==
    \A w \in Thread :
        pc[w] \in Saving /\ wrote[w] => pc[w] = "seal" /\ disk = Holds(dump[w])

\* The in-place write is entered only after a file operation has failed.
FallbackIsForced ==
    \A w \in Thread : pc[w] \in {"truncate", "write"} => failed

\* A rule reported as saved has not been changed in memory since.
KeptIsMemory ==
    up => \A r \in Rule : kept[r] # "unsure" => entries[r] = kept[r]

IInv ==
    /\ TypeOK
    /\ ~up => \A w \in Thread : pc[w] = "idle"
    /\ LockHeld /\ DumpIsMemory /\ TmpIsDump /\ SealedIsDump /\ FallbackIsForced
    /\ DiskFollowsMemory /\ KeptIsOnDisk /\ KeptIsMemory

-----------------------------------------------------------------------------
(* Claims the code does not keep.                                          *)

\* tracker.cpp:1437-1440, by the pair of lookups in reputation_verdict.
Verdict(h) ==
    IF entries[<<"WHITELIST", h>>] = "active" THEN "allow"
    ELSE IF entries[<<"BLACKLIST", h>>] = "active" THEN "block"
    ELSE "none"

\* ui.cpp:291, "Blacklist - always auto-block this binary in future".
BlacklistedIsBlocked ==
    \A h \in Hash : entries[<<"BLACKLIST", h>>] = "active" => Verdict(h) = "block"

\* main.cpp:164, "loaded %zu saved binary verdicts": a start that finds nothing
\* wrong has the rules that were reported as saved.
LoadedIsSaved ==
    [][~up /\ up' => \/ tamper'
                     \/ \A r \in Rule : kept[r] # "unsure" => entries'[r] = kept[r]]_vars

\* ui.cpp:290, "REMEMBER THIS BINARY (by hash, saved to disk)": a rule that was
\* reported as saved is not lost when another save fails.
SavedStaysSaved == \A r \in Rule : kept[r] # "unsure" => disk.rules[r] = kept[r]
=============================================================================
