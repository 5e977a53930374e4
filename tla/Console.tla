------------------------------- MODULE Console -------------------------------
(***************************************************************************)
(* The operator's console and the life of the program around it:           *)
(* Ui::run (src/src/ui.cpp), the key map and its check (src/src/keymap.cpp,*)
(* src/src/main.cpp) and the start and end of main with its threads.       *)
(*                                                                         *)
(* One thread runs main, the event loop of FTXUI (external), the renderer  *)
(* and the key handlers; ui is its program counter.  Around it run the     *)
(* refresh thread, the poller, the engine, the supervise thread and the    *)
(* reader of the supervised child's terminal.  The supervise thread is     *)
(* reduced to the calls it asks about: SeccompSupervisor has the rest.     *)
(* Keys that only scroll, select, filter or edit rules change nothing here;*)
(* they matter for which action a key reaches.                             *)
(***************************************************************************)
EXTENDS Naturals, Sequences, FiniteSets

CONSTANTS Files,       \* key maps that binds.json may hold
          MaxLaunch,   \* bound: launches in a behaviour
          MaxAsk,      \* bound: calls asked about in a behaviour
          MaxHold,     \* bound: processes suspended for a prompt
          MaxLine,     \* bound: lines sent to children in a behaviour
          Room,        \* lines a child's terminal holds unread
          EarlySignal  \* whether a signal may come between signal() and the loop

ASSUME BoundsAssumption ==
    /\ MaxLaunch \in Nat /\ MaxAsk \in Nat /\ MaxHold \in Nat
    /\ MaxLine \in Nat /\ Room \in Nat
ASSUME SignalAssumption == EarlySignal \in BOOLEAN

-----------------------------------------------------------------------------
(* Keys.                                                                   *)

\* set_defaults()
Defaults ==
    [KM_QUIT |-> "q", KM_REPMAN |-> "R", KM_KEYPANE |-> "?", KM_LAUNCH |-> "S",
     KM_PAUSE |-> " ", KM_ENFORCE |-> "e", KM_CLEAR |-> "X", KM_NEWONLY |-> "n",
     KM_ALL |-> "a", KM_RESET_H |-> "0", KM_SEL_UP |-> "k", KM_SEL_DOWN |-> "j",
     KM_SEL_TOP |-> "g", KM_SEL_BOTTOM |-> "G", KM_ALLOW |-> "y", KM_DENY |-> "n",
     KM_BLOCK |-> "b", KM_BLACKLIST |-> "d", KM_WHITELIST |-> "l", KM_KILL |-> "k",
     KM_SESSION_WL |-> "w", KM_REP_PAUSE |-> "p", KM_REP_REMOVE |-> "x",
     KM_SUP_VIEW |-> "o", KM_SUP_INPUT |-> "i", KM_SUP_SKIP |-> "u",
     KM_PURGE |-> "D"]

KmAction == DOMAIN Defaults

ASSUME FilesAssumption == \A f \in Files : DOMAIN f = KmAction

\* What each screen tests a key against, in the order of its handler: actions,
\* and the keys that are tested by themselves.
Handlers ==
    [SECCOMP |-> <<"KM_ALLOW", "KM_DENY", "KM_KILL", "KM_BLACKLIST", "KM_WHITELIST">>,
     EBPF    |-> <<"KM_ALLOW", "KM_DENY", "KM_BLOCK", "KM_BLACKLIST", "KM_WHITELIST",
                   "KM_KILL", "KM_SESSION_WL">>,
     SUPOUT  |-> <<"esc", "KM_SUP_VIEW", "KM_SUP_INPUT", "KM_SUP_SKIP">>,
     REPMAN  |-> <<"esc", "KM_REPMAN", "down", "KM_SEL_DOWN", "up", "KM_SEL_UP",
                   "KM_SEL_TOP", "KM_SEL_BOTTOM", "KM_REP_PAUSE", "KM_REP_REMOVE">>,
     HELP    |-> <<"down", "KM_SEL_DOWN", "up", "KM_SEL_UP", "pgdn", "pgup", "esc",
                   "KM_KEYPANE">>,
     NONE    |-> <<"KM_QUIT", "KM_LAUNCH", "KM_SUP_VIEW", "KM_REPMAN", "KM_KEYPANE",
                   "KM_PAUSE", "pgup", "pgdn", "up", "KM_SEL_UP", "down",
                   "KM_SEL_DOWN", "KM_SEL_TOP", "KM_SEL_BOTTOM", "KM_NEWONLY",
                   "KM_ALL", "KM_RESET_H", "KM_ENFORCE", "KM_CLEAR", "KM_PURGE">>]

KeyOf(b, e) == IF e \in KmAction THEN b[e] ELSE e

\* Keymap::matches(): a longer name than these is no key.
Matches(k) == k \in {"esc", "up", "down", "pgup", "pgdn"} \/ Len(k) = 1

\* Some key gets as far as the test for e.
Reaches(b, screen, e) ==
    LET tests == Handlers[screen]
    IN  /\ Matches(KeyOf(b, e))
        /\ \E i \in DOMAIN tests :
              /\ tests[i] = e
              /\ \A j \in 1 .. i - 1 : KeyOf(b, tests[j]) # KeyOf(b, e)

\* What validate_binds() compares with each other; the mutant forgets one.
CheckedShort ==
    {{"KM_ALLOW", "KM_DENY", "KM_BLOCK", "KM_KILL", "KM_BLACKLIST", "KM_WHITELIST"}}
Checked ==
    {{"KM_QUIT", "KM_REPMAN", "KM_KEYPANE", "KM_LAUNCH", "KM_PAUSE", "KM_ENFORCE",
      "KM_CLEAR", "KM_NEWONLY", "KM_ALL", "KM_RESET_H", "KM_SEL_UP", "KM_SEL_DOWN",
      "KM_SEL_TOP", "KM_SEL_BOTTOM"},
     {"KM_ALLOW", "KM_DENY", "KM_BLOCK", "KM_KILL", "KM_BLACKLIST", "KM_WHITELIST",
      "KM_SESSION_WL"},
     {"KM_ALLOW", "KM_DENY", "KM_KILL", "KM_BLACKLIST", "KM_WHITELIST"},
     {"KM_REP_PAUSE", "KM_REP_REMOVE", "KM_SEL_UP", "KM_SEL_DOWN", "KM_SEL_TOP",
      "KM_SEL_BOTTOM"}}

validate_binds(b) ==
    /\ \A a \in KmAction : b[a] \notin {"", "esc"}
    /\ \A acts \in Checked : \A a1, a2 \in acts : b[a1] = b[a2] => a1 = a2

-----------------------------------------------------------------------------
(* State.                                                                  *)

Modal  == {"NONE", "SECCOMP", "EBPF", "REPMAN", "LAUNCH", "SUPOUT"}
Thread == {"refresh", "poller", "engine", "reader"}
SupPC  == {"off", "poll", "arm", "wait"}
UiPC   == {"binds", "choose", "start", "enter", "loop", "joining", "write", "left", "refresh",
           "stop", "poller", "engine", "ring", "supervisor", "tracker", "ended"}
Thing  == {"ui", "ring", "supervisor", "tracker"}

VARIABLES
    ui,             \* where the main thread is
    bind,           \* the key map in use
    \* locals of Ui::run
    modal, show_keys, sec_active, ebpf_active, sup_input,
    sup_buf,        \* launches the text in sup_buf was typed for
    posted,         \* an event waits or was handled since the last draw (external)
    \* Ui::stop_, Tracker::running_, SeccompSupervisor::stop_, main's g_run
    ui_stop, running, sup_stop, g_run,
    alive,          \* the threads that have not returned, but for supervise()
    freed,          \* what has been destroyed
    \* supervisor
    sup_pc, active, launches,
    asks,           \* calls asked about so far
    prompts,        \* prompts_
    awaiting, decision,
    tree,           \* the supervised tree has the terminal open
    noisy,          \* what survives of it keeps writing to the terminal
    unread, lines,  \* lines in the child's terminal, lines sent so far
    \* tracker
    holds,          \* processes suspended for a prompt so far
    queue,          \* prompts_ of the tracker
    answered

main  == <<ui, bind>>
view  == <<modal, show_keys, sec_active, ebpf_active, sup_input, sup_buf, posted>>
flags == <<ui_stop, running, sup_stop, g_run>>
life  == <<alive, freed>>
sup   == <<sup_pc, active, launches, asks, prompts, awaiting, decision>>
child == <<tree, noisy, unread, lines>>
trk   == <<holds, queue, answered>>
vars  == <<main, view, flags, life, sup, child, trk>>

InLoop == ui \in {"loop", "joining", "write"}

FlagsOK ==
    /\ show_keys \in BOOLEAN /\ sup_input \in BOOLEAN /\ posted \in BOOLEAN
    /\ ui_stop \in BOOLEAN /\ running \in BOOLEAN /\ sup_stop \in BOOLEAN
    /\ g_run \in BOOLEAN /\ active \in BOOLEAN /\ tree \in BOOLEAN /\ noisy \in BOOLEAN

DataOK ==
    /\ ui \in UiPC /\ bind \in Files \cup {Defaults} /\ modal \in Modal
    /\ sec_active \in 0 .. MaxAsk /\ ebpf_active \in 0 .. MaxHold
    /\ sup_buf \subseteq 0 .. MaxLaunch /\ alive \subseteq Thread
    /\ freed \subseteq Thing /\ sup_pc \in SupPC /\ launches \in 0 .. MaxLaunch
    /\ asks \in 0 .. MaxAsk /\ prompts \in Seq(1 .. MaxAsk) /\ awaiting \in 0 .. MaxAsk
    /\ decision \in {"PENDING", "GO", "KILL"} /\ unread \in 0 .. Room
    /\ lines \in 0 .. MaxLine /\ holds \in 0 .. MaxHold
    /\ queue \in Seq(1 .. MaxHold) /\ answered \subseteq 1 .. MaxHold

TypeOK == FlagsOK /\ DataOK

Init ==
    /\ ui = "binds" /\ bind = Defaults
    /\ modal = "NONE" /\ show_keys = FALSE /\ sec_active = 0 /\ ebpf_active = 0
    /\ sup_input = FALSE /\ sup_buf = {} /\ posted = TRUE
    /\ ui_stop = FALSE /\ running = TRUE /\ sup_stop = FALSE /\ g_run = TRUE
    /\ alive = {} /\ freed = {}
    /\ sup_pc = "off" /\ active = FALSE /\ launches = 0 /\ asks = 0 /\ prompts = <<>>
    /\ awaiting = 0 /\ decision = "PENDING" /\ tree = FALSE /\ noisy = FALSE
    /\ unread = 0 /\ lines = 0
    /\ holds = 0 /\ queue = <<>> /\ answered = {}

-----------------------------------------------------------------------------
(* main: the key map, the threads and the end.                             *)

\* A clash is put to the operator, who drops the file or quits.
Load(f) ==
    /\ ui = "binds"
    /\ IF validate_binds(f) THEN ui' = "start" /\ bind' = f
                            ELSE ui' = "choose" /\ UNCHANGED bind
    /\ UNCHANGED <<view, flags, life, sup, child, trk>>

Choose ==
    /\ ui = "choose" /\ ui' \in {"start", "ended"}
    /\ UNCHANGED <<bind, view, flags, life, sup, child, trk>>

\* The kernel part loads and the two threads start, or main returns.
Start ==
    /\ ui = "start"
    /\ \/ ui' = "enter" /\ alive' = {"poller", "engine"}
       \/ ui' = "ended" /\ UNCHANGED alive
    /\ UNCHANGED <<bind, view, flags, freed, sup, child, trk>>

Enter ==
    /\ ui = "enter" /\ ui' = "loop" /\ alive' = alive \cup {"refresh"}
    /\ UNCHANGED <<bind, view, flags, freed, sup, child, trk>>

\* Inside the loop FTXUI (external) has handlers of its own in this one's place.
on_sig ==
    /\ ui \notin {"binds", "choose", "loop", "joining", "write", "ended"}
    /\ ui \in {"start", "enter"} => EarlySignal
    /\ g_run' = FALSE /\ running' = FALSE
    /\ UNCHANGED <<main, view, ui_stop, sup_stop, life, sup, child, trk>>

\* SeccompSupervisor::stop()
StopSupervisor ==
    /\ sup_stop' = TRUE /\ decision' = "GO"
    /\ UNCHANGED <<sup_pc, active, launches, asks, prompts, awaiting>>

\* Nothing looks at the screen's variables after the loop.
LeaveLoop ==
    /\ ui' = "left" /\ modal' = "NONE" /\ show_keys' = FALSE /\ sec_active' = 0
    /\ ebpf_active' = 0 /\ sup_input' = FALSE /\ sup_buf' = {} /\ posted' = FALSE

\* FTXUI leaves the loop on a signal.
LoopEnds ==
    /\ ui = "loop" /\ LeaveLoop
    /\ UNCHANGED <<bind, flags, life, sup, child, trk>>

AfterLoop ==
    /\ ui = "left" /\ ui' = "refresh" /\ ui_stop' = TRUE /\ StopSupervisor
    /\ UNCHANGED <<bind, view, running, g_run, life, child, trk>>

\* What Ui::run had in its frame goes with it.
JoinRefresh ==
    /\ ui = "refresh" /\ "refresh" \notin alive
    /\ ui' = "stop" /\ freed' = freed \cup {"ui"}
    /\ UNCHANGED <<bind, view, flags, alive, sup, child, trk>>

StopAll ==
    /\ ui = "stop" /\ ui' = "poller"
    /\ g_run' = FALSE /\ running' = FALSE /\ StopSupervisor
    /\ UNCHANGED <<bind, view, ui_stop, life, child, trk>>

JoinPoller ==
    /\ ui = "poller" /\ "poller" \notin alive /\ ui' = "engine"
    /\ UNCHANGED <<bind, view, flags, life, sup, child, trk>>

\* The mutant does not wait.
JoinEngineNot ==
    /\ ui = "engine" /\ ui' = "ring"
    /\ UNCHANGED <<bind, view, flags, life, sup, child, trk>>
JoinEngine ==
    /\ ui = "engine" /\ "engine" \notin alive /\ ui' = "ring"
    /\ UNCHANGED <<bind, view, flags, life, sup, child, trk>>

\* ring_buffer__free and edr_bpf__destroy, which closes the maps.
FreeRing ==
    /\ ui = "ring" /\ ui' = "supervisor" /\ freed' = freed \cup {"ring"}
    /\ UNCHANGED <<bind, view, flags, alive, sup, child, trk>>

\* main's locals go in the reverse order of their declarations; the
\* supervisor's destructor joins its threads.
DestroySupervisor ==
    /\ ui = "supervisor" /\ sup_pc = "off" /\ "reader" \notin alive
    /\ ui' = "tracker" /\ freed' = freed \cup {"supervisor"}
    /\ UNCHANGED <<bind, view, flags, alive, sup, child, trk>>

DestroyTracker ==
    /\ ui = "tracker" /\ ui' = "ended" /\ freed' = freed \cup {"tracker"}
    /\ UNCHANGED <<bind, view, flags, alive, sup, child, trk>>

End == \/ AfterLoop \/ JoinRefresh \/ StopAll \/ JoinPoller \/ JoinEngine
       \/ FreeRing \/ DestroySupervisor \/ DestroyTracker

-----------------------------------------------------------------------------
(* The other threads.                                                      *)

Returns(t) ==
    /\ t \in alive /\ alive' = alive \ {t}
    /\ UNCHANGED <<main, view, flags, freed, sup, child, trk>>

\* An event posted after the loop is not seen by anyone.
RefreshPosts ==
    /\ "refresh" \in alive /\ ~ui_stop /\ running /\ ~posted /\ InLoop
    /\ posted' = TRUE
    /\ UNCHANGED <<main, modal, show_keys, sec_active, ebpf_active, sup_input,
                   sup_buf, flags, life, sup, child, trk>>

RefreshReturns == (ui_stop \/ ~running) /\ Returns("refresh")
PollerReturns  == (~g_run \/ ~running) /\ Returns("poller")
EngineReturns  == (~g_run \/ ~running) /\ Returns("engine")

\* ring_buffer__poll fails.
PollerFails == g_run /\ running /\ Returns("poller")

\* reader(): it looks at stop_ in every round, at active_ only when 200 ms
\* passed without output, and ends when nobody has the terminal open.  The
\* mutant forgets active_.
QuietNever == FALSE
Quiet      == ~active /\ ~(noisy /\ tree)

ReaderReturns == (sup_stop \/ ~tree \/ Quiet) /\ Returns("reader")

\* supervise() ends.
Ended == sup_pc' = "off" /\ active' = FALSE

Leaves         == sup_stop \/ ~tree

SupLeaves ==
    /\ sup_pc = "poll" /\ Leaves /\ Ended
    /\ UNCHANGED <<main, view, flags, life, launches, asks, prompts, awaiting,
                   decision, child, trk>>

\* NOTIF_RECV fails although the tree lives.
SupFails ==
    /\ sup_pc = "poll" /\ ~Leaves /\ Ended
    /\ UNCHANGED <<main, view, flags, life, launches, asks, prompts, awaiting,
                   decision, child, trk>>

Ask ==
    /\ sup_pc = "poll" /\ ~sup_stop /\ tree /\ asks < MaxAsk
    /\ asks' = asks + 1 /\ prompts' = Append(prompts, asks + 1) /\ sup_pc' = "arm"
    /\ UNCHANGED <<main, view, flags, life, active, launches, awaiting, decision,
                   child, trk>>

Arm ==
    /\ sup_pc = "arm"
    /\ awaiting' = asks /\ decision' = "PENDING" /\ sup_pc' = "wait"
    /\ UNCHANGED <<main, view, flags, life, active, launches, asks, prompts, child,
                   trk>>

\* The verdict; a kill may leave some of the tree alive.
Answer ==
    /\ sup_pc = "wait" /\ (decision # "PENDING" \/ sup_stop)
    /\ awaiting' = 0
    /\ IF decision = "KILL" /\ ~sup_stop
       THEN Ended /\ tree' \in {tree, FALSE}
       ELSE sup_pc' = "poll" /\ UNCHANGED <<active, tree>>
    /\ UNCHANGED <<main, view, flags, life, launches, asks, prompts, decision,
                   noisy, unread, lines, trk>>

Supervise == SupLeaves \/ Arm \/ Answer

\* The supervised tree (external).
TreeEnds ==
    /\ tree /\ tree' = FALSE /\ noisy' = FALSE /\ unread' = 0
    /\ UNCHANGED <<main, view, flags, life, sup, lines, trk>>

ChildReads ==
    /\ unread > 0 /\ unread' = unread - 1
    /\ UNCHANGED <<main, view, flags, life, sup, tree, noisy, lines, trk>>

\* enqueue_prompt(), on the poller or the engine.
Hold ==
    /\ alive \cap {"poller", "engine"} # {} /\ holds < MaxHold
    /\ holds' = holds + 1 /\ queue' = Append(queue, holds + 1)
    /\ UNCHANGED <<main, view, flags, life, sup, child, answered>>

-----------------------------------------------------------------------------
(* The renderer.                                                           *)

\* The screens a call that is asked about takes over; the mutants let it cover
\* the box of a suspended process, or not cover the output.
TakesOverAll  == {"NONE", "SUPOUT", "EBPF"}
TakesOverNone == {"NONE"}
TakesOver     == {"NONE", "SUPOUT"}

ShowCall ==
    /\ modal \in TakesOver /\ prompts # <<>>
    /\ sec_active' = Head(prompts) /\ modal' = "SECCOMP" /\ sup_input' = FALSE
    /\ UNCHANGED <<ebpf_active, queue>>

\* take_prompt(): the prompt is from now on only in ebpf_active.
ShowProcess ==
    /\ modal = "NONE" /\ prompts = <<>> /\ queue # <<>>
    /\ ebpf_active' = Head(queue) /\ queue' = Tail(queue) /\ modal' = "EBPF"
    /\ UNCHANGED <<sec_active, sup_input>>

ShowSame ==
    /\ ~(modal \in TakesOver /\ prompts # <<>>)
    /\ ~(modal = "NONE" /\ queue # <<>>)
    /\ UNCHANGED <<modal, sec_active, ebpf_active, sup_input, queue>>

Draw ==
    /\ ui = "loop" /\ posted /\ posted' = FALSE
    /\ ShowCall \/ ShowProcess \/ ShowSame
    /\ UNCHANGED <<main, show_keys, sup_buf, flags, life, sup, child, holds, answered>>

-----------------------------------------------------------------------------
(* The keys.                                                               *)

Screen == IF modal = "NONE" /\ show_keys THEN "HELP" ELSE modal

\* A key that reaches e on this screen; FTXUI draws after every event.
Key(screen, e) ==
    /\ ui = "loop" /\ Screen = screen /\ Reaches(bind, screen, e) /\ posted' = TRUE

\* Return, Escape, Backspace and text, where they are read as such.
Line(screen, typing) ==
    /\ ui = "loop" /\ Screen = screen /\ sup_input = typing /\ posted' = TRUE

Typing == modal = "SUPOUT" /\ sup_input

\* Any key without effect on this state, Escape in the SECCOMP box among them.
OtherKey ==
    /\ ui = "loop" /\ ~posted /\ posted' = TRUE
    /\ UNCHANGED <<main, modal, show_keys, sec_active, ebpf_active, sup_input,
                   sup_buf, flags, life, sup, child, trk>>

\* resolve(): the answer counts if the call is still awaited.
DecideCall(a) ==
    /\ Key("SECCOMP", a)
    /\ prompts' = IF prompts # <<>> /\ Head(prompts) = sec_active
                  THEN Tail(prompts) ELSE prompts
    /\ decision' = IF awaiting # sec_active THEN decision
                   ELSE IF a = "KM_KILL" THEN "KILL" ELSE "GO"
    /\ modal' = "NONE"
    /\ UNCHANGED <<main, show_keys, sec_active, ebpf_active, sup_input, sup_buf,
                   flags, life, sup_pc, active, launches, asks, awaiting, child, trk>>

\* resolve_prompt(), by a key or by Escape.
DecideProcess ==
    /\ \/ \E i \in DOMAIN Handlers.EBPF : Key("EBPF", Handlers.EBPF[i])
       \/ Line("EBPF", sup_input)
    /\ answered' = answered \cup {ebpf_active} /\ modal' = "NONE"
    /\ UNCHANGED <<main, show_keys, sec_active, ebpf_active, sup_input, sup_buf,
                   flags, life, sup, child, holds, queue>>

\* Keys that only change the screen.
Go(to) ==
    /\ modal' = to
    /\ UNCHANGED <<main, show_keys, sec_active, ebpf_active, sup_input, sup_buf,
                   flags, life, sup, child, trk>>

OpenLaunch  == Key("NONE", "KM_LAUNCH") /\ Go("LAUNCH")
OpenRepman  == Key("NONE", "KM_REPMAN") /\ Go("REPMAN")
CloseRepman == (\E e \in {"esc", "KM_REPMAN"} : Key("REPMAN", e)) /\ Go("NONE")
CloseLaunch == Line("LAUNCH", sup_input) /\ Go("NONE")

Help(shown) ==
    /\ IF shown THEN Key("NONE", "KM_KEYPANE")
                ELSE \E e \in {"esc", "KM_KEYPANE"} : Key("HELP", e)
    /\ show_keys' = shown
    /\ UNCHANGED <<main, modal, sec_active, ebpf_active, sup_input, sup_buf, flags,
                   life, sup, child, trk>>

\* The output of the child and the line typed for it.
Output(to, input, buf) ==
    /\ modal' = to /\ sup_input' = input /\ sup_buf' = buf
    /\ UNCHANGED <<main, show_keys, sec_active, ebpf_active, flags, life, sup,
                   child, trk>>

OpenOutput  == Key("NONE", "KM_SUP_VIEW") /\ Output("SUPOUT", FALSE, {})
CloseOutput ==
    /\ ~sup_input /\ \E e \in {"esc", "KM_SUP_VIEW"} : Key("SUPOUT", e)
    /\ Output("NONE", sup_input, {})
StartTyping ==
    /\ ~sup_input /\ active /\ Key("SUPOUT", "KM_SUP_INPUT")
    /\ Output("SUPOUT", TRUE, sup_buf)
StopTyping  == Line("SUPOUT", TRUE) /\ Output("SUPOUT", FALSE, sup_buf)
Type        == Line("SUPOUT", TRUE) /\ Output("SUPOUT", TRUE, sup_buf \cup {launches})
Backspace   == Line("SUPOUT", TRUE) /\ \E b \in SUBSET sup_buf : Output("SUPOUT", TRUE, b)

\* Return: with no child running the line is dropped.
Send ==
    /\ Line("SUPOUT", TRUE)
    /\ IF active
       THEN lines < MaxLine /\ ui' = "write" /\ UNCHANGED sup_buf
       ELSE sup_buf' = {} /\ UNCHANGED ui
    /\ UNCHANGED <<bind, modal, show_keys, sec_active, ebpf_active, sup_input,
                   flags, life, sup, child, trk>>

\* write_stdin(): it tries again, on this thread, for as long as the terminal
\* is full; with nobody there it gives up.
Write ==
    /\ ui = "write" /\ (tree => unread < Room)
    /\ unread' = IF tree THEN unread + 1 ELSE unread
    /\ lines' = lines + 1 /\ sup_buf' = {} /\ ui' = "loop"
    /\ UNCHANGED <<bind, modal, show_keys, sec_active, ebpf_active, sup_input, posted,
                   flags, life, sup, tree, noisy, trk>>

\* Return in the launch box: refused while a child is supervised.
LaunchRefused == Line("LAUNCH", sup_input) /\ active /\ Go("NONE")
LaunchBegins ==
    /\ Line("LAUNCH", sup_input) /\ ~active /\ launches < MaxLaunch
    /\ modal' = "NONE" /\ ui' = "joining"
    /\ UNCHANGED <<bind, show_keys, sec_active, ebpf_active, sup_input, sup_buf,
                   flags, life, sup, child, trk>>

\* launch() has joined the threads of the previous child.
Joined == ui = "joining" /\ sup_pc = "off" /\ "reader" \notin alive

LaunchFails ==
    /\ Joined /\ ui' = "loop" /\ tree' = FALSE /\ noisy' = FALSE /\ unread' = 0
    /\ UNCHANGED <<bind, view, flags, life, sup, lines, trk>>

\* The text typed for the previous child goes; the mutant keeps it.
LaunchedWith(text) ==
    /\ Joined /\ ui' = "loop"
    /\ launches' = launches + 1 /\ sup_stop' = FALSE /\ active' = TRUE
    /\ sup_pc' = "poll" /\ alive' = alive \cup {"reader"}
    /\ tree' = TRUE /\ noisy' \in BOOLEAN /\ unread' = 0
    /\ sup_buf' = text /\ sup_input' = FALSE /\ modal' = "SUPOUT"
    /\ UNCHANGED <<bind, show_keys, sec_active, ebpf_active, posted, ui_stop, running,
                   g_run, freed, asks, prompts, awaiting, decision, lines, trk>>
LaunchedKeeping == LaunchedWith(sup_buf)
Launched        == LaunchedWith({})

QuitKey ==
    /\ ui = "loop" /\ Screen = "NONE" /\ Reaches(bind, "NONE", "KM_QUIT") /\ LeaveLoop
    /\ ui_stop' = TRUE /\ running' = FALSE /\ StopSupervisor
    /\ UNCHANGED <<bind, g_run, life, child, trk>>

Keys ==
    \/ \E i \in DOMAIN Handlers.SECCOMP : DecideCall(Handlers.SECCOMP[i])
    \/ DecideProcess \/ OpenLaunch \/ OpenRepman \/ CloseRepman \/ CloseLaunch
    \/ Help(TRUE) \/ Help(FALSE) \/ OpenOutput \/ CloseOutput \/ StartTyping
    \/ StopTyping \/ Type \/ Backspace \/ Send \/ LaunchRefused \/ LaunchBegins
    \/ QuitKey \/ OtherKey

Calls == Write \/ LaunchFails \/ Launched

Next ==
    \/ (\E f \in Files : Load(f)) \/ Choose \/ Start \/ Enter \/ on_sig \/ LoopEnds
    \/ End \/ Draw \/ Keys \/ Calls
    \/ RefreshPosts \/ RefreshReturns \/ PollerReturns \/ PollerFails
    \/ EngineReturns \/ ReaderReturns
    \/ Supervise \/ SupFails \/ Ask \/ TreeEnds \/ ChildReads \/ Hold

Spec == Init /\ [][Next]_vars

\* Every thread keeps being scheduled.  No key is ever owed, no child ever
\* reads, asks or ends.
Fairness ==
    /\ WF_vars(End) /\ WF_vars(Draw) /\ WF_vars(Calls) /\ WF_vars(Supervise)
    /\ WF_vars(RefreshPosts \/ RefreshReturns) /\ WF_vars(PollerReturns)
    /\ WF_vars(EngineReturns) /\ WF_vars(ReaderReturns)

FairSpec == Spec /\ Fairness

-----------------------------------------------------------------------------
(* What the console keeps.                                                 *)

\* A process that take_prompt() handed out, which stays suspended until it is
\* answered, is on the screen or answered until the console is left: nothing
\* covers its box and the renderer takes no second one.
TakenIsShown ==
    ui \in {"binds", "choose", "start", "enter"} \/ InLoop =>
        \A h \in 1 .. holds :
            \/ h \in answered
            \/ \E i \in DOMAIN queue : queue[i] = h
            \/ modal = "EBPF" /\ ebpf_active = h

\* The line that Return would send was typed for the child that would read it,
\* whatever box came up between typing and sending and whichever child was
\* launched since.
TextIsForThisChild == Typing \/ ui = "write" => sup_buf \subseteq {launches}

\* What main destroys, the threads it joins first have left: the frame of Ui::run,
\* the ring and the maps (for the poller and the engine), the supervisor, the
\* tracker.  The supervise thread, which only the supervisor's destructor joins,
\* may still run when the maps are closed (see MapsOutliveThreads): then it has
\* been told to stop, and finishes the call in hand.
JoinedBeforeFreed ==
    /\ "ui" \in freed => "refresh" \notin alive
    /\ "ring" \in freed => alive \cap {"poller", "engine"} = {} /\ (sup_pc = "off" \/ sup_stop)
    /\ "supervisor" \in freed => sup_pc = "off" /\ "reader" \notin alive
    /\ "tracker" \in freed => sup_pc = "off" /\ alive = {}

\* What makes the two above inductive: the order in which main joins and
\* destroys; text on the output screen is always of the child that was launched
\* last; and supervise() runs exactly while active_ says so.
Phases ==
    /\ ui \in {"binds", "choose", "start"} => alive = {} /\ sup_pc = "off" /\ freed = {}
    /\ ui \in {"enter", "left", "refresh"} \/ InLoop => freed = {}
    /\ ui \in {"stop", "poller", "engine", "ring", "supervisor", "tracker", "ended"}
          => "refresh" \notin alive
    /\ ui \in {"poller", "engine", "ring", "supervisor", "tracker"} => sup_stop
    /\ ui \in {"engine", "ring", "supervisor", "tracker", "ended"} => "poller" \notin alive
    /\ ui \in {"ring", "supervisor", "tracker", "ended"} => "engine" \notin alive
    /\ ui \in {"tracker", "ended"} => sup_pc = "off" /\ "reader" \notin alive
    /\ "ring" \in freed => ui \in {"supervisor", "tracker", "ended"}
    /\ "supervisor" \in freed => ui \in {"tracker", "ended"}
    /\ "tracker" \in freed => ui = "ended"

Screens ==
    /\ modal = "SUPOUT" => sup_buf \subseteq {launches}
    /\ ui = "write" => modal = "SUPOUT"
    /\ ui = "joining" => modal = "NONE"
    /\ ~InLoop => modal = "NONE"
    /\ modal = "EBPF" => ebpf_active # 0
    /\ ui = "joining" => launches < MaxLaunch
    /\ ui = "write" => lines < MaxLine
    /\ active <=> sup_pc # "off"

IInv == TypeOK /\ Phases /\ Screens

\* With whatever key map the program starts, no two answers of one decision
\* box have the same key.
BoxKeysAreDistinct ==
    ui \notin {"binds", "choose"} =>
        \A screen \in {"SECCOMP", "EBPF"} :
            \A i, j \in DOMAIN Handlers[screen] :
                bind[Handlers[screen][i]] = bind[Handlers[screen][j]] => i = j

\* A call that is asked about comes up on the dashboard and on the output view
\* without a key being pressed, unless something else takes the screen first.
AskComesUp ==
    (prompts # <<>> /\ ui = "loop" /\ modal \in {"NONE", "SUPOUT"})
        ~> (prompts = <<>> \/ modal \notin {"NONE", "SUPOUT"} \/ ui # "loop")


\* Only the supervised tree can keep the operator's thread: launch() comes back once
\* nothing that survives the last child writes on, write_stdin() once the terminal
\* has room or nobody is there.
ConsoleComesBack ==
    (\/ ui = "joining" /\ ~(noisy /\ tree)
     \/ ui = "write" /\ ~(tree /\ unread = Room))
        ~> (ui = "loop")

-----------------------------------------------------------------------------
(* Claims that the code does not keep.                                     *)

\* main.cpp:119, "binds.json validation": what a screen tests for can be
\* reached by some key.
EveryActionHasAKey ==
    ui \notin {"binds", "choose"} =>
        \A screen \in DOMAIN Handlers :
            \A i \in DOMAIN Handlers[screen] :
                Reaches(bind, screen, Handlers[screen][i])

\* The console comes back from every launch() and write_stdin(), whatever the
\* supervised tree does.
NothingHoldsTheConsole == (ui \in {"joining", "write"}) ~> (ui = "loop")

\* The maps are closed only after the last thread that writes them.
MapsOutliveThreads == "ring" \in freed => sup_pc = "off"

\* A process waits for its prompt at most until the program ends.
NobodyIsLeftHeld == ui = "ended" => answered = 1 .. holds
=============================================================================
