# Verification project for bpf-edr

bpf-edr is an endpoint monitor for Linux: BPF programs watch and, on request,
deny system calls; a C++ engine scores the processes they report, suspends
suspicious ones and asks an operator in a terminal UI; the same UI can launch a
program under a seccomp supervisor that holds each of its gated calls until the
operator decides. This directory models the parts whose correctness depends on
the order of things: threads, callbacks, kernel maps, a file and an operator.

Paths below are relative to the repository: `src/tracker.cpp` is
`src/src/tracker.cpp` in `PROJECT.json`, `bpf/edr.bpf.c` is `src/bpf/edr.bpf.c`.

## 1. The system

### Components

| component | code | state it keeps | operations |
|---|---|---|---|
| kernel side | `bpf/edr.bpf.c` | ring buffer, `blocked_tgids`, `exempt_tgids`, `enforce_on`, `burst_win`, `burst_epoch` | tracepoints and kprobes that emit events, `burst_add`, six LSM hooks |
| tracker: enforcement | `src/tracker.cpp` | flags of nodes, `tgid_hash_`, `prompt_q_`, the kernel maps | `ingest`, `enqueue_prompt`, `take_prompt`, `resolve_prompt`, `arm_block`, `flush_blocks`, `reblock_from_reputation`, `unblock_hash_live` |
| tracker: tree | `src/tracker.cpp` | `nodes_`, `roots_`, `pid_to_uid_`, `supervised_roots_`, `watchlist_` | `seed_from_proc`, `fork_node`, `ensure_node`, `synth_node`, `gc_sweep`, `purge_dead`, `mark_dead`, `kill_supervised_tree` |
| scoring | `src/math_engine.cpp`, parts of the tracker | accumulators and timers per node, `start_ts_` | evidence, decay, back-propagation, badges, dwell, auto-kill |
| seccomp supervisor | `src/seccomp_supervisor.cpp` | `prompts_`, `awaiting_token_`, `decision_`, `stop_`, `active_`, the notify fd | `launch`, `supervise`, `resolve`, `stop`, `reader`, `write_stdin` |
| seccomp filter | `src/seccomp_filter.cpp` | none | builds the filter, passes the notify fd |
| reputation store | `src/reputation.cpp` | `entries_`, `tamper_`, the file | `load`, `save`, `add`, `remove`, `set_paused`, lookups |
| console | `src/ui.cpp`, `src/ui_repman.cpp`, `src/keymap.cpp` | modal state, the prompt taken, the line typed, key map | render, keys, refresh thread |
| harness | `src/seccomp_harness.cpp`, `debug/edr_run.cpp` | `allow_all` | a stand-alone supervisor on a terminal |
| program | `src/main.cpp` | `g_run`, the threads | `validate_binds`, start, signals, joins, destruction |

### How they interact

- *Events.* BPF programs append to the ring (and drop when it is full); the
  poller thread takes one event at a time into `ingest`, mostly under the
  tracker's `g_lock_`.
- *Maps.* `ingest` and `resolve_prompt` write `blocked_tgids` and
  `exempt_tgids`; `burst_add` writes `blocked_tgids` from the kernel; the LSM
  hooks and `burst_add` read both. Map and node flag are never changed in one
  step by the paths outside the lock.
- *Prompts.* `ingest` stops a process group, sets flags and queues a prompt;
  the UI thread takes it and `resolve_prompt` sends the signal after the lock.
- *Supervision.* The supervise thread holds a call, scores it against the
  tracker's tree (`predict_for_syscall`), pushes a prompt and waits on
  `dec_cv_`; the UI shows a copy of the front prompt and calls `resolve`.
  `register_supervised` makes the tracker mute its own enforcement for the tree.
- *Time.* The engine thread calls `tick` every `tick_ms`: decay, badges,
  watchlist, dwell and collection.
- *Disk.* Rules are changed in memory and then saved, in two sections of `mtx_`,
  by the UI thread and by the supervise thread.

### What is hard, and what makes each part correct

| part | hard behaviour | correctness |
|---|---|---|
| supervisor | a decision, a stop, a launch and a dying tree at any point of the loop; a UI copy of the prompt | a verdict reaches the call it was given for; the store is asked to remember a binary before the answer; shutdown frees every held call |
| reputation | kill between file operations, two threads between each other's saves, failing writes | the file is what was last reported as saved; no torn file is taken for an empty one |
| tracker: enforcement | events read after the state they describe is gone, pid reuse, map and flag in two steps, a bounded queue | one prompt per suspended process; the tree shows what the kernel does; nothing is left to the next user of a pid |
| tracker: tree | synthesis against late FORKs, reuse, collection in the middle of the tree, weak parents | one live node per process; supervision covers exactly the launched tree; what is worth keeping is kept |
| scoring | a timer across freezing, answers, renaming and trust | a process is auto-killed only after `dwell_sec` above the threshold |
| kernel | burst windows changed by several threads and `tick`, ancestors walked while the maps change | a burst within one window arms its process, before the call that reaches the ceiling is decided |
| filter, harness | hand-over of the fd, a caller that dies or is interrupted while its call is held | the launcher never waits for a child that failed; no received call stays frozen |
| console | boxes over boxes, prompts held in locals, text typed for a child that ended | what was taken from a queue is shown or answered; text reaches the child it was typed for |
| program | one thread for keys and blocking calls, five threads joined in four places | the console comes back from its calls unless the launched tree keeps it; what is destroyed has been left by the threads joined before |

`PROJECT.json` lists every component and, under "hazards", each of these at its
line with the properties that watch it.

## 2. Modules

| module | models | proved in |
|---|---|---|
| `SyscallGate` | abstract: a gated call is waved through, or asked about, chosen for once, and passed or refused as chosen | |
| `SeccompSupervisor` | supervise thread, UI thread, supervised tasks, kernel listener; implements `SyscallGate` | `SeccompSupervisorProofs` |
| `DurableRules` | abstract: rules change one at a time, the file becomes the rules at once, or is lost while the disk fails; a restart reads the file and flags a loss | |
| `Reputation` | the store, two threads, crashes, failing file operations; implements `DurableRules` | `ReputationProofs` |
| `Tracker` | enforcement, trust and prompts over ring and kernel maps | `TrackerProofs` |
| `ProcTree` | the tree, its collection, the watchlist, and the supervisor's use of it | `ProcTreeProofs` |
| `Dwell` | the kill timer of `tick`, `mitigate`, and what changes the timer's inputs meanwhile | `DwellProofs` |
| `Harness` | the hand-over of the listener in all three launchers and the loop of the harness and its debug variant; implements `SyscallGate` | `HarnessProofs` |
| `Burst` | `burst_add`, the hooks and `is_blocked`, step by step, in several threads | `BurstProofs` |
| `Console` | screens, keys, threads, start and end of the program | `ConsoleProofs` |
| `MC*` | small instances of these; the `.cfg` files hold the bounds | |

`SeccompSupervisor`, `Tracker` and `ProcTree` meet in shared notions, not in one product:
`Tracker` has the supervised pids as a constant, `ProcTree` has the calls the supervisor makes,
`Console` has the supervisor reduced to the calls it asks about, `Harness` ends where
`SeccompSupervisor` begins (`up`). Their product would be out of TLC's reach.

### SeccompSupervisor

`pc` is the program counter of `supervise()`: `start` (the sizes and the memory it asks for), `top` (the
loop's condition), `poll`, `recv`, then `auto` (waved through) or `push`, `arm`, `check`/`wait`, `persist`,
`send`, `kill` or `commit`, and `exit`, `ended`. Each is one section of `pr_mtx_` or `dec_mtx_`, one
ioctl or one call of the tracker. `Persist` asks the store to remember a binary, which does it or not:
there may be no hash (`tracker.cpp:397`), and `add` may fail (`:404`). The UI
is one thread: `ui` names the call it is in the middle of (`resolve` between its two
lock sections, `register` after `launch`, `stopping`, `stopped`). `modal` and
`sec_active` are the screen. Tasks are external: they trap, fork and die at any
moment, and a dead task's queued call vanishes, which is what makes `NOTIF_RECV`
fail. `exit_seen` stands for the poller's ingestion of EXIT, which also erases the
supervised root. `chosen`, `waved`, `answers` are history.

Three facts about the environment matter. `main.cpp:145` ignores SIGCHLD, so the
`waitpid` of the loop never returns the child; the loop ends on a hang-up of the
notify fd when the last user of the filter is gone (a poll that is readable and a
`RECV` that fails). `RECV` fails with ENOENT when the notified task died first. And whether `RECV` fails at all
when nobody is left behind the listener depends on the kernel: it does since Linux 6.11, and sleeps for
ever before (`RecvEnds`).

### Reputation

A rule is a kind and a hash, its state absent, active or paused. `add`, `remove` and
`set_paused` change memory and then call `save()`, a second section of the lock;
`save()` is one action per file operation (clear the immutable flag, write the
temporary, rename, or truncate and write in place when either failed, seal). Setting or clearing the
immutable flag may fail, and nobody asks. `Crash` may come between any two. `Load` at the next start may
fail to open a store that is there and then goes on with no rules and no warning (`reputation.cpp:109`);
`unread` is history and says that it did. The file is nothing, torn, or a set of rules with their
checksum: rules and checksum are taken under one lock, so they always agree. A crash
is that of the program; loss of pages written but not synced is not modelled.

### Tracker

One action is one section of `g_lock_`, one map call or one signal made outside it.
`poll` and `ui` say where the two threads are: `IngestTrip`, `Lift`, `Lifted`, `Ask`,
`Stopped` are the steps of the burst path; `Press`, `Remember`, `Flag`, `Arm`,
`Disarm`, `Unflag`, `SendSignal` those of `resolve_prompt`; `Flush`, `Collect`,
`Unblock`, `Reblock` the block and rule calls of the UI. A pid is used by several
processes in turn (`inc`); a node and a map entry remember which of them they were made
for, which the code does not, and that is what the properties compare. The score of an
event reaches the threshold or not, the burst window reaches the ceiling or not, the
binary stands for its hash and its comm. An EXEC event carries the comm and path of
before the call, as `sys_enter` does. All processes are born by fork from the outside
world or a process in the model; seeding is in `ProcTree`.

`Supervised` are the pids of children of a supervised root. Whether the tracker takes a process for
supervised is not that constant but what its node says (`sup`): the parent that the first event read of it
names was the root (`kin`). A process that was reparented before (`left`) and whose FORK was lost is not
(`MetLate`). Left out is what the supervise thread does meanwhile to the roots and to the nodes it makes
(`register_supervised`, `mark_dead`, `synth_node`, which are in `ProcTree`): `synth_node` trusts a process
without an entry in `exempt_tgids` (`tracker.cpp:545`) and `mark_dead` takes the root's away (`:1455`); and the eviction from that LRU map, which
keeps 8192 processes (`edr.bpf.c:67`).

### ProcTree

A node is a pid and a number, `node` is `nodes_`, `cur` is `pid_to_uid_`; children are
the nodes whose parent pointer is the node, since every place that sets `parent` also
pushes to `children`, and erasing removes both. `Erase` empties the parent pointers of
the erased nodes' children, which is what the weak pointers do. `Lineages` are the
trees `/proc` may show at start, and one FORK may already be in the ring, since probes
are attached before `/proc` is read. `Predict` is the part of `predict_for_syscall` that
changes the tree; `Collect`, `Signal`, `SignalGroup` are the kill; `LoopEnds`,
`Unregister`, `MarkDead` the end of the loop. Scores are levels: 0 is below every floor,
1 and above is worth keeping (`gc_forensic_keep` equals `WATCH_THRESHOLD`). Evidence
(of a FORK too) sets any level on a prefix of the nodes back-propagation may reach, decay lowers
levels freely, so every number the engine could compute is covered. How long a dead node is
kept depends on when it died and on its peak; `Tick` collects any of those that may go. Auto-kill is off, as
`rules.json` ships, and then `mitigate` only logs.

### Dwell

Time passes in units (`Pass`). A point in time is kept as its age: `above` is the age of
`above_since`, `up` of `start_ts_`, and an age stops at `Old`, beyond which no comparison of
the code tells ages apart. `tick()` takes its `t` before the lock, so `engine` is `sleep` or
`tick`, and `lag` is how old that `t` is at the lock. Everything else that happens between two
ticks is an action: scored events, trips, EXECs that decide trust anew, answers, registration,
evidence of allowed calls, deaths. `flagged` is `kill_flagged`, which is set whether or not the kill
succeeds; the signal goes to the whole group, in `MCDwell` one of two processes.
`cold` is history: when a tick last found the process below the threshold or supervised.

### Harness

`by` is the program: `launch` up to the moment it has the listener, `harness_run` or the debug
variant `debug/edr_run.cpp`, whose loop waves no call through and which does not check the sizes of the
notification (`Begins`). `stage` is where the child is before it executes the target, `ends` who
has the sending end of the socket pair open: `recvmsg` returns nothing only when nobody has.
After it, `pc` goes round the loop: receive, `wave` or `ask`, `send`, `kill`, `wait`. A call
whose task dies or is interrupted before it is received leaves a wake-up behind (`stale`) on
which NOTIF_RECV fails, as it does, since Linux 6.11, when the last user of the filter is gone (`RecvEnds`).

### Burst

One action is one map call or one access to a map's value: `Look`, `Insert` or `Zero` and
`Stamp`, `Load`, `Store`, `Check`, `Arm`. `sum_fp += w_fp` is a load and a store, as nothing locks it. A call has its probe before its hook, after it, or no hook (`Kind`), as the kernel runs them.
`LookExempt` and `LookBlocked` are the two lookups at each ancestor of `is_blocked`. `Bump` is
the part of `tick` that starts a window; the other actions of user space are those the
tracker makes on the maps, and `Reparent`. History: `spent` and `before` are the weights
counted in this window and the last; `eased` the threads whose process was disarmed since
their last check; `must` and `trusted` who has been wanted denied, or been exempt, ever since the
hook began.

### Console

The thread of `main` also runs FTXUI's loop (external), the renderer and all key handlers; `ui` is
its program counter, from the check of the key map (`binds`, `choose`) through `loop` to the joins
and destructions in their order. `joining` and `write` are `launch()` and `write_stdin()`, in which
the console does nothing else. `modal` and `show_keys` are the screen; `Handlers` lists for each
screen the tests of its handler in their order, so `Reaches` says whether some key gets as far as a
test. Around it run refresh, poller, engine, reader and supervise threads, `alive` until they have
returned; `freed` is what has been destroyed. `holds`, `queue`, `ebpf_active`, `answered` follow a
suspended process from `enqueue_prompt` over `take_prompt` to its answer, `sup_buf` is for which
launches the text on the input line was typed. `noisy` is chosen at a launch: something of the tree that
outlives the child writes to its terminal often enough for the reader never to look at `active_`.

## 3. Runs

`CHECK_DEADLOCK FALSE` is set everywhere: processes may all end, the operator may press
no key, and the bounds stop a behaviour. Sizes are distinct states.

| run | question | size |
|---|---|---|
| `SupSafety` | is every verdict the one chosen for that call, each box current, the store asked to remember a binary before the answer and evidence scored only after an allowed one, and does the supervisor implement `SyscallGate`? | 2 tasks, 2 calls, 2 launches, keys ALLOW, KILL, BLACKLIST, WHITELIST, 3.8M |
| `SupLiveness` | is a delivered decision answered, does stop free all calls, does an ended tree free the supervisor (since Linux 6.11)? | 2 tasks, 1 call, 1 launch, key DENY, 102k |
| `RepFailures` | wherever the program is killed and whichever file operation fails: is what was reported as saved in the file or the loss flagged at the next start that opens the file? does the store implement `DurableRules`? | 2 hashes, 2 threads, 3 changes, 2 crashes, 1.53M |
| `TrkBlocks` | do map and node agree, is nothing but a late answer left to the next user of a pid? | 1 pid used twice, 2 risky calls, 2 execs, the keys that block or leave suspended, 1.6M |
| `TrkOperator` | one prompt per pending process, does trust reach the kernel? | 1 pid used twice, 1 exec, every key, ring of 2 that drops, 1.6M |
| `TrkBurst` | is every trip of a process the tracker has met settled, whatever the operator does? is a supervised process left alone unless it was met late? | liveness, an ordinary and a supervised pid, 2 risky calls, ring of 1 that drops FORKs, 588k |
| `TreeSupervised` | with all events read, one live node per process? is exactly the launched tree muted and killed? | the launched pid and one used three times, 979k |
| `TreeWatch` | does the watchlist tell deaths and hold the worst living, is a node worth keeping never erased? | 2 levels, 2 scored events, 1 place, 104k |
| `Dwell` | is a process marked for the kill only after `dwell_sec` above the threshold, never while it is asked about or supervised, does the kill end only groups of marked ones, and is one that stays above it killed in the end? | parent and child in one group, keys y, n, w, auto-kill on, 405k |
| `Harness` | does no received call stay frozen, is each answered as its key says, does a failing child free the launcher and a dead tree end the harness (since Linux 6.11)? | 3 tasks, 3 calls, 3 launchers, every key or none, 429k |
| `Burst` | does a burst within a window arm its process before the hook decides, does only a burst do so, and is a walk of changing maps as just as one made at once? | 2 threads, 3 calls, a new window, a change of map or lineage, 2.8M |
| `Console` | is what was taken from a queue on the screen, does text reach the child it was typed for, is everything joined that is to be before it is freed, does the console come back where the tree lets it, or end? | 2 launches, noisy or not, 1 held call, 1 suspended process, 2 lines for a terminal of 1, 2 key maps, 492k |

Four properties join two sides of one promise, each side broken by a mutant of its own:
`EffectsMatchAnswers` (the store is asked before the answer; evidence only for allowed calls),
`BurstsAreArmed` (`CaughtInWindow`: every burst; `TripsAreEarned`: nothing else),
`ExactlyTreeIsMuted` (all of the launched tree; nothing else), `KillsAreEarned`
(`KillNeedsDwell`: long enough above the threshold; `KillIsOfMarked`: a marked process is neither asked
about nor supervised, and the kill ends only groups of marked ones).

Why the bounds are enough. The supervisor's hazards need a call held, another call or a
second launch beside it, and one task to die: two of each. Only one call can be held at
a time, so a third adds nothing new to the token protocol, and the proofs remove the
bound. The store's need two threads saving and a crash in each other's saves. The
tracker's need one pid with two users (`TrkBlocks`, `TrkOperator`), or a supervised pid beside an ordinary
one (`TrkBurst`), events of a process in the ring while an answer is under way, and a ring so small that it drops FORKs; `QueueSize` is 4 where the
code has 32, never full in these runs. The tree's need a parent and child, and a pid used
three times: an old node, its successor, a stale reference. A grandparent, which the
walks up `Lineage` and the collection in the middle of a tree use, is not in these instances: three
pids `TreeSupervised` has too many states to be a run.

`Dwell` has `DwellSec` 2, `WarmupSec` 1 and a lag of 1: a kill can then be due one unit early, in
time or late, and a tick may compare with an old `t`. A parent and its child in one group are what
back-propagation, supervision through an ancestor and a kill that takes its neighbour need; the child acts, the
parent is scored through it, launched and killed. The key that kills is left out: what it ends is gone as
after any other end. `Harness` needs a call held, one queued and a task
to die. In `Burst`, `Ceiling` 2 and weights 0 and 1 make bursts of two calls, the third is one
call after the trip or in the next window, `MaxEpoch` 1 is one new window, `MaxChanges` 1 one change
while a probe or walk is under way; two threads in one process and in two of a line of ancestors
(`MCHomes`, `MCLineages`). `Depth` is 1 where the code looks at 8: one ancestor within reach and one
beyond. `Room` is 4 so that no entry is refused (section 4 has the other case), `p2` may be thrown out of
`burst_win`. In `Console` one prompt of each kind, a second launch while the reader of the first may be kept busy,
two lines for a terminal that holds one, and a file of keys with a clash or with an action on a key another one hides.

Switches restrict these runs to what holds. `SlowReuse` is on: a pid is not reused while events of
its last user are in the ring, or, in `ProcTree`, while a kill of it is due; pids are given
out cyclically and the ring is polled every 100 ms. `EarlyFork`, `EarlyEnd`,
`RootShared`, `Leaves`, `Threads` of `ProcTree`, the flush and rule keys (`Manages`) of
`Tracker` and `EarlySignal` of `Console` are off, and `RecvEnds` of `SeccompSupervisor` and `Harness` is on, where the other
setting leads to the disagreements of section 4; each is explained at its declaration.

Every property of these runs has a mutant in `PROJECT.json`: a definition replaced by
what a plausible mistake in the code would make of it, under which TLC finds the
property violated.

### Fairness

- `SupLiveness`: weak fairness of the supervise loop's step and of the
  calls the UI has begun. The thread runs until it blocks, `poll` has a timeout, and the
  UI thread finishes a handler it entered. No key, trap or death is owed. Spurious
  wake-ups of the condition variable are possible and not fair.
- `TrkBurst`: weak fairness of the poller and of a begun `resolve_prompt`. Nothing is
  assumed of the processes or the operator, nor that the ring loses nothing: `BurstIsSettled` asks only for trips of
  processes whose FORK the tracker has read or will read.
- `Dwell`: time passes, and the engine thread reads the clock and gets the lock. No event,
  answer or death is owed.
- `Harness`: both processes are scheduled. No key is owed, nor any call, signal or death; the
  properties say so where the launcher may wait for a key.
- `Console`: every thread is scheduled: the end of `main`, drawing when an event is posted, the calls the
  console has begun, the supervise loop, the refresh thread's round, and the return of each
  thread that is told to. No key is owed, and no child ever reads, asks or ends.

## 4. Disagreements met while modelling

The modules state claims of the program that its code does not keep, or that hold
only under the switches of section 3. TLC refutes each under the settings given here; they are not among
the runs, which are one per question of what does hold. Lines are those where the code departs.

Supervisor (constants of `SupLiveness`, `Spec`, any key set holding the key named):

- `HeldOnlyUntilDecided` (the settings of `SupLiveness`, `FairSpec`): `ui.cpp:341` "(held in-kernel until
  you decide)". A decision made after the prompt is pushed (`seccomp_supervisor.cpp:280`) and before
  its token is awaited (`:286`) is dropped (`:368`), the box is gone and the call stays held.
- `DenyMeansEPERM` (`DENY`): `ui.cpp:350` "Deny — the syscall returns EPERM". `stop()`
  before the thread woke makes `seccomp_supervisor.cpp:289` take SD_ALLOW over the decision.
- `EndedMeansEnded` (`ALLOW`): `:341` "[supervised process ended]". RECV fails with ENOENT
  when the notified task died; only EINTR is retried (`:239`), so supervision of the rest ends.
- `NoRootAfterEnd` (`ALLOW`): `tracker.cpp:186` "supervision ended". The key handler registers
  the child again (`ui.cpp:662`) after `launch` did and started the thread; a short-lived
  child's root registered then is never unregistered.

- `RememberedIsStored` (`BLACKLIST`): `ui.cpp:353` "REMEMBER THIS BINARY (by hash, saved to disk)". Without a
  readable hash (`tracker.cpp:397`) or when `add` fails (`:404`) the call is answered as decided and nothing is stored.
- `DeadTreeEndsSupervision` is of kernels since 6.11: with `RecvEnds` FALSE it says nothing, and the loop sleeps in
  NOTIF_RECV (`seccomp_supervisor.cpp:238`) until the process ends. See `DeadTreeEndsAnywhere` below.

Reputation (constants of `RepFailures` with 1 hash, 2 changes, no crash):

- `SavedStaysSaved`: `ui.cpp:290` "saved to disk". A failing save opens the store
  itself with trunc (`reputation.cpp:175`), which loses rules saved before.
- `LoadedIsSaved` (1 crash): `main.cpp:164` "loaded %zu saved binary verdicts". A store that cannot be opened at start
  is taken for an empty one, unflagged (`reputation.cpp:109`), and the next save replaces it.
- `BlacklistedIsBlocked`: `ui.cpp:291` "always auto-block". Rules are keyed by kind and hash
  (`reputation.cpp:209`) and the whitelist is asked first (`tracker.cpp:1438`).

Tracker (one pid, `MaxInc` 1, `MaxRisky` 2, `MaxExec` 0, `Known` empty, ring of 8, unless said;
"no shells" means that processes start as an unknown binary that is none):

- `SuspendedWhilePending` (keys y, b): `tracker.cpp:1236` "suspended ... pending decision". The
  SIGCONT of an earlier answer (`:843`) resumes a process suspended again meanwhile.
- `PendingIsAsked` (2 pids, key n, `QueueSize` 1): a prompt that finds the queue full is dropped
  (`:714`) after the process was suspended and marked.
- `DeniedStaysSuspended` (2 pids, `OneGroup`, keys n, y): `ui.cpp:286` "keep it suspended". Signals
  go to groups (`tracker.cpp:951`), so Allow for a sibling resumes it.
- `DismissedIsAskedAgain` (key x): `ui.cpp:294` "decide later". Events of a frozen node are
  ignored (`tracker.cpp:1204`).
- `BlockIsForAsked` (key b, `MaxInc` 2): `ui.cpp:287` "deny its risky syscalls". An answer for an
  ended process arms the pid (`tracker.cpp:842`), which the next process gets.
- `BlockedIsDenied` (key y): `ui.cpp:275` "kernel already blocked it". A trip read after the answer
  that lifted it marks the process blocked (`tracker.cpp:1047`).
- `NoHiddenBlock` (no keys, `Manages`, `Known` {bad}, 1 exec): `ui_repman.cpp:30` "clear all active
  blocks". `flush_blocks` empties the map before it takes the lock (`tracker.cpp:769`).
- `SessionAllowLasts` (key w, 1 exec): `ui.cpp:293` "trust only until EDR restarts". An EXEC event
  recomputes `exempt` from the comm (`tracker.cpp:1129`).
- `KnownBadIsDenied` (no keys, `Known` {bad}): `ui.cpp:291` "always auto-block this binary in future".
  With `Parents` {sh}, 1 risky call and 2 execs, the shell about to execute it is judged by the caller's comm
  and exempted (`tracker.cpp:1129`, `edr.bpf.c:236`). With no shells, `rep_checked` is never
  reset (`:1174`), so only a process's first execve is checked.
- `SupervisedIsMuted` (the pid in `Supervised`): `tracker.cpp:177` "eBPF muted for its tree". A member
  reparented to init is not spared by `burst_add` (`edr.bpf.c:165`).
- `NoRuleNoBlock` (no keys, no shells, `Manages`, 2 execs, no risky call, `Known` {bad}):
  `tracker.cpp:819` "block lifted". A denied execve rewrites the hash a block is found by (`:1131`).

What the properties of the runs except, rather than claims of the text: a trip of a process whose FORK was lost finds no
node and is dropped (`tracker.cpp:1078`), so `BurstIsSettled` without `Met` fails in `TrkBurst`; a
supervised process whose FORK was lost and whose parent ended is met as an ordinary one (`tracker.cpp:142`) and
suspended, so `SupervisedIsLeftAlone` without `MetLate` fails there. `TrustReachesKernel` is about processes outside the
supervised trees (`tracker.cpp:545`, `:1455`) and an `exempt_tgids` that evicts nobody (`edr.bpf.c:67`).

Tree (three pids, `MaxLevel` 0, `MaxInc` 1, nothing scored, ring of 3, unless said):

- `PurgeLeavesLiving` (`Seeded` {p1}, 2 nodes of a pid): `ui_repman.cpp:31` "purge dead processes from
  tree". `purge_dead` looks at direct children only (`tracker.cpp:1467`), so a living descendant of a
  dead child leaves the tree with it.
- `ForensicStaysInTree` (one seeded pid, 1 level, 1 scored event): `scenario_4_four_stage.sh:15`
  "the dead node persists in tree". Collecting its parent (`tracker.cpp:1299`) unlinks it.
- `KillReachesTree` (`RootPid` {p1}, `Leaves` {p2}): `tracker.cpp:1521` "killed supervised tree". The
  walk stops at dead nodes (`:1511`).
- `MutedTree` (`RootPid` {p1}, `EarlyFork`): `tracker.cpp:177` "muted for its tree". A child forked
  before the registration is muted only through its root's node.
- `PurgeTakesDead` (`RootPid` {p1}, `EarlyEnd`): `ui_repman.cpp:31` "purge dead processes". The loop's
  end marks the launched pid dead (`seccomp_supervisor.cpp:338`) though it may live.
- `KillPicksTheTree` (`RootPid` {p1}, `RootShared`, p3 seeded, `MaxInc` 2): `ui.cpp:351` "terminate the
  process". The kill looks the root's pid up as it is now (`tracker.cpp:1504`).
- `OnlyTreeIsMuted` (the same, p2 seeded): a dead node with the pid of the launched program
  mutes its own, unrelated, descendants (`tracker.cpp:147`).
- `LiveAreAlive` (two pids, p2 in `Threads`): `ui.cpp:141` "live=". `tp_fork` reports threads
  (`edr.bpf.c:201`), `tp_exit` only leaders (`:217`).

Dwell (constants of `Dwell`):

- `AskedIsNotKilled`: `tracker.cpp:1236` "suspended at ... pending decision". The kill of a marked process goes to its
  group (`tracker.cpp:1251`) and takes a child that is stopped and waits for its answer.
- `AllowedRunsOn`: `ui.cpp:285` "let it continue running". `above_since` keeps running while the process is
  frozen and asked about, so an allowed process may be killed at the next tick (`tracker.cpp:1343`).

Harness (constants of `Harness`):

- `DoneIsDone` (`FairSpec`): `seccomp_harness.cpp:266` "done.". When NOTIF_RECV fails because the notified task
  died, `waitpid` comes before the listener is closed (`:308`): the rest stays frozen and the harness waits.
- `DeadTreeEndsAnywhere` (`FairSpec`, `RecvEnds` FALSE): `setup.sh:26` "WSL 2 environment detected", whose kernels are
  older than 6.11: when the last user of the filter is gone NOTIF_RECV (`seccomp_harness.cpp:187`) never returns, the child
  is not reaped and the program does not end. The supervisor's loop has the same call.
- `KilledGroupIsDead`: `seccomp_harness.cpp:245` "KILLED process group". Only the child is killed.
- `FrozenUntilDecided`: `seccomp_harness.cpp:177` "each gated syscall FREEZES until you decide". When no key can be
  read the call is continued.

Burst (constants of `Burst`):

- `BurstIsCaught`: `ui.cpp:275` "kernel already blocked it". Two threads that load the same sum lose a weight.
  `CaughtInWindow` fails without the exception of evicted entries, and a burst of up to twice the
  ceiling less one, half of it in each of two windows, arms nobody (that one is no claim of the text).
- `SumIsOfWindow`: `tracker.cpp:1039` "(weight %.1f in window)". Two threads that enter a new window together
  reset the sum once and add to an old one, or reset what the other has added.
- `ArmedBeforeHook` with `Room` 1: the update of a full map fails, and only the event tells of it
  (`edr.bpf.c:185`). Otherwise only `mprotect`, `ptrace` and `execve` have their probe before the hook; the
  other calls that reach the ceiling pass themselves.

Console (constants of `Console`):

- `EveryActionHasAKey`: `main.cpp:119` "binds.json validation". It compares lists written by hand, so an action
  on a key that its screen tests earlier is never reached.
- `MapsOutliveThreads`: `ring_buffer__free` and `edr_bpf__destroy` come before the supervisor's destructor
  joins its thread, which may still write to maps through the tracker (`main.cpp:252`). `JoinedBeforeFreed` says of that
  thread only that it has been told to stop.
- `NobodyIsLeftHeld`: a process suspended for a prompt stays suspended when the program ends.
- `NothingHoldsTheConsole`: the two cases `ConsoleComesBack` leaves out. A survivor of the last child writes on
  (`noisy`), so the reader looks at `active_` no more and `launch` joins it for ever (`seccomp_supervisor.cpp:58`); and
  `write_stdin` spins (`:194`) on a full terminal whose reader is held in a gated call, which only this thread
  could answer.
- `AskComesUp` with `EarlySignal`: a signal between `signal()` and the loop ends the refresh thread.

Also seen: a repman comment says Escape always closes (`ui_repman.cpp:69`), while the box of a held call ignores it
(`ui.cpp:592`); prompts of suspended processes do not come up over the output view, those of held
calls do; after a decision on a held call the screen is the dashboard, whatever it was;
`default_allow_on_detach` (`seccomp_harness.h:16`) is read nowhere.

## 5. What is proved

`SeccompSupervisorProofs`, for any set of tasks and any number of calls and launches,
from `NoTaskAssumption`, `BoundsAssumption`, `TokenAssumption` and `KeysAssumption`:

- `TypeCorrect`: the type invariant.
- `AnswersFollowChoices`, `PromptsAreCurrent`: neither is inductive. Their strengthening in the proof module,
  `IInv`, says that tokens are handed out in order; that from the receipt of a call to its
  answer `cur` is the last token and unanswered; that `awaiting_token_` is the held call's
  token exactly while the thread may wait, and a delivered decision was chosen for it; and
  that `resolve()`, between its two lock sections, carries a choice for the held call and
  has emptied the queue. Without the last, an invariant of the supervise thread alone
  fails: the decision arrives from a thread that left the first lock.
- `StoreAskedFirst` (`StoreAskedBeforeAnswer`), `EvidenceIsOfAllowed` and both as `EffectsFollowAnswers`: under `Records`, which adds
  that a call is chosen for once and a waved one never, and that the store
  has been asked about the decision about to be sent when it has to be. Nothing is proved about what the store made of it.
- `ImplementsGate`: `Spec => GateSpec`, step by step under `IInv`, with asked calls mapped
  to the tokens handed out and not waved through.

`ReputationProofs`, for any set of hashes and threads and any number of crashes, from the
three assumptions of the module:

- `FileFollowsMemory`: with `IInv` saying who holds the lock, that the dump of a save
  under way is memory, that the temporary about to be renamed holds the dump, and that
  `wrote` is set only when the file holds it.
- `KeptOnDisk`, `LossFlagged`: from the same invariant, with failing operations and crashes; `LossFlagged` for starts that
  can open the store.
- `ImplementsDurableRules`: `Spec => DurableSpec`, with failing operations and crashes; the fallback's truncation is the
  abstract loss, which a completed write makes good and the next start otherwise flags.

`HarnessProofs`, for any tasks, any of the launchers and keys and any number of calls:

- `HeldAreHandled` and `ImplementsGate`. `HInv` adds to the run's `IInv` that calls received and queued are
  no more than the calls made, which are at most `MaxTraps` (cardinalities of the queued tasks), and
  that the call being handled is the last, unanswered, and asked or chosen for as `pc` says. Both hold for
  the same `SyscallGate` as the supervisor's.

`DwellProofs`, for any processes, ancestors, groups, times and lag:

- `KillsNeedDwell`: from `TimerIsLater`: a running timer was started after the last tick that found the process
  cold, and no such tick is later than the clock read by this one.
- `OnlyMarkedGroups` (`KillIsOfMarked`), and both as `OnlyEarnedKills`, whatever the groups are.

`BurstProofs`, for any threads, processes, lineages, weights, ceiling, depth and number of windows and
changes, except that (as the model has it) `burst_add` takes less than a window and the LRU map does not throw
out an entry in use:

- `WindowsAreKept`: `IInv`, what each step of `burst_add` knows about the entry and the window of a process of
  one thread.
- `CaughtAreBursts` (`TripsAreEarned`) from it; `BurstsAreCaught` (`CaughtInWindow`) and, for any number of
  threads in the process, `HookFindsArmed` (`ArmedBeforeHook`), both when `blocked_tgids` has room for all;
  `ArmedForBursts` joins the first two.
- `WalksAreJust` (`HookIsJust`), with no exception: for any lineages, circles included, and any depth. `WInv` says that the
  walk has passed nobody who was wanted denied, and in sight of the caller, all the time (`OnWalk`), and that the
  caller trusted all the time is looked up first.

`ConsoleProofs`, for any key maps and any number of launches, prompts and lines:

- `ConsoleInvariant`: `IInv` (types, the order of joins and destructions as `Phases`, what the screens imply
  as `Screens`) with `TakenIsShown`; from it `TakenStaysShown`, `TextGoesWhereTyped`, `JoinedFirst`
  (`JoinedBeforeFreed`).
- `AnswersHaveTheirKeys`: `BoxKeysAreDistinct`, since `validate_binds` compares all keys of both boxes.

`TrackerProofs`, for any pids, numbers of processes, calls and execs, and any sizes of ring and queue:

- `TypeCorrect` and `TrustReaches` (`TrustReachesKernel`): for any switches, with events lost and pids reused early; of
  processes outside the supervised trees, and without the calls and the eviction that section 2 leaves out.
  `IInv` adds to the types what a thread between two sections of the lock still names. `TInv` says that a
  pid's node is no younger than the events of the pid still in the ring, that an EXIT in the ring is of a process that ended, and
  that a node marked dead is of one too: so no late EXIT takes the entry of a process that lives.
- `SupervisedLeftAlone`, if no group holds supervised processes and others (`Apart`: signals go to groups): what is suspended or
  asked about was met late, with events lost, processes reparented and pids reused early. `KInv` says that a
  node for one of the tree's pids is supervised or was met late, and no other node is supervised; every step keeps a node's
  flag or makes the node anew (`Fates`); `LeftAlone` adds to the property that no thread is between sections for, and
  no prompt queued of, a supervised node not met late.
- `PromptsAreOnce`: no prompt waits twice, and each that waits has its node marked, also when the queue drops
  some. `PInv` adds that a node the poller has stopped is not yet pending, that nodes above
  `cur` are not either, and that of the poller and the UI at most one holds a node. `PromptsMatch` is the
  converse too, while the queue has room: a dropped prompt leaves its process marked (section 4).
- `ReuseIsClean`, `BlocksAreShown`, if nothing is supervised, the operator answers n, x, b or d only and neither flushes nor
  manages rules, as in `TrkBlocks`, a pid waits for its events before it is used again (`Plain`), and the ring
  always holds what a call emits (`Room`): the other answers and a lost event do leave an entry or an
  exemption behind, as section 4 says. `ShapeInv` says of each pid that its process is fresh (its FORK is unread), live (its node is
  the pid's last) or gone, `BInv` whose each map entry is then: of the trip in the ring, of the
  node's mark, or of an answer that came late.

`ProcTreeProofs`, for any pids, bounds, lineages at start and levels:

- `TypeCorrect`, `ForensicsStay` (`ForensicKept`), `WorstAreWatched` (`WatchHoldsWorst`): for any switches. `IInv` says
  that pids and numbers of nodes go together, parents are nodes, at most one node of a pid is alive,
  it is the one `pid_to_uid_` names (`Alone`), and the watchlist names nodes and is no longer than `WatchMax`.
- `SettledIsTrue`, without threads and lost events, and, if a program is launched, when nobody else has its pid and it does not
  outlive its loop (`Settles`): section 4 has a run for each. `LifeInv` says that, once the tracker has read the whole ring, it will know that a pid without a process is gone and have
  a living node of a process there is. `Ended` and `Begun` say what it knows after a prefix of the ring, so
  that reading an event moves them on by one; a node made by synthesis, before the FORK is read, counts too.
- `DeathsAreTold` (`WatchTellsDeath`), without supervision, threads and losses (`Unsupervised`, as in `TreeWatch`). A
  FORK that finds a living node marks it dead without telling the watchlist (`tracker.cpp:488-495`); `RingInv` says
  that this happens only to the node of start-up, before anything is scored. With a launched program it is false:
  the root's node is made when it is registered, evidence may put it on the list, and then its FORK is read.
- `KillIsOfTheTree` (`KillHitsTheTree`), under `Settles` (so neither of a ring that loses events nor of threads, which
  the code has both), for a launched program whose pid nobody had at start and
  pids that wait for their events and for a kill under way before they are used again (`Steady`, as in
  `TreeSupervised`). The kill walks the tree of nodes, so what it signals is right only if the nodes' parents are.
  `TreeInv` adds to `LifeInv`: `Bred`, that a process descends from the launched one exactly when its parent does;
  `Before` and `Rooted`, where the root is from; `Line`, that what an event in the ring says of a process and its
  parent is still so when it is read; and `MirrorInv`, that a living node below a living one stands for a child of its process,
  and that of the nodes below a supervised one only those of former processes may be of others. Synthesis guesses
  a parent for a process whose FORK is unread, and `Line` is what makes the guess right: a parent stays what it was until its child's FORK is read. `Trims` is the common shape of the steps that
  only take nodes out or mark them, so that one lemma (`MirrorsTrims`) carries them all.
- `TreeIsMuted` (`ExactlyTreeIsMuted`), under `Steady` (again without losses and threads), and if the launched program
  does not fork before it is registered (section 4 has the run where it does). That only the tree is muted follows from `MirrorInv` up the parent pointers, dead
  nodes included. That all of it is needs `MuteInv`: every living node of the tree whose FORK was read is itself
  under supervision, so no collection above it matters; a node synthesised before its FORK is read may not be, but
  the FORK replaces it, and finds the parent's node alive and under supervision (`HeadKnown`); and
  for as long as the root's own FORK is unread, the root stays in `supervised_roots_`.

The walks up parent pointers (`Chain`, and `Line` of `BurstProofs`) are recursive functions of the depth. What is proved of them
goes by the least depth at which it would fail (`LeastNat`, from the library's well-founded
sets); the induction theorems themselves take an operator and are of no use to the installed provers.

Each inductive invariant was checked by TLC before it was proved, on the instances of section 3 or close to them: `BInv` on `TrkBlocks` with a
ring of 12, so that nothing is lost; that of `ProcTree` on `TreeSupervised` and on `TreeWatch` with pids used
twice and one scored event.

Only model-checked: all liveness (temporal proofs under fairness, and ENABLED, are out of the prover's
reach). All safety properties of the runs are proved, under the hypotheses named above.

## 6. What is not modelled

The map names the lines of the project's own code that the definitions translate: a little over half of it.
`include/json.hpp`, third-party, is 24,765 of the repository's 30,330 lines, so that the share of the whole
cannot come near a third. Left out:

- Drawing, scrolling, filtering, the layout of the tree and of the output ring: they read state and decide
  nothing. They are in `Console` as far as they take a key.
- Arithmetic of the scores (`src/math_engine.cpp`, the weights in `tracker.cpp`): floating point; levels and
  thresholds stand for it, and evidence sets any level where the code computes one.
- Hashing and JSON: pure functions of bytes. A binary is its hash, a key map is one of a set of maps.
- The payload of events besides process, parent, comm and path; the per-cpu scratch buffers.
- Editing of the reputation file by other programs; power loss (the store does not sync).
- Option parsing, the build, scripts and tests, whose expectations are quoted where a property is theirs.
- The enforcement switch inside `Tracker` (it is an action of `Burst`; in `Tracker` it stays on), and
  `purge_dead(true)`, which no key reaches.

## 7. Plan

Done: `SyscallGate` and `SeccompSupervisor`; `DurableRules` and `Reputation`; `Tracker`; `ProcTree`; `Dwell`;
`Burst`; `Harness`; `Console`; and the proofs of section 5. Left, in order:

1. As liveness in `ProcTree`, that dead nodes never worth keeping are collected.
2. The enforcement switch in `Tracker`, and there the calls of the supervise thread (`register_supervised`, `mark_dead`,
   `synth_node`) and an `exempt_tgids` that evicts.
