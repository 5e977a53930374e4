---------------------------- MODULE SyscallGate ----------------------------
(***************************************************************************)
(* What the supervisor promises to the operator and to the traced tree,    *)
(* without threads, queues or condition variables: every gated call is     *)
(* either waved through because it scores nothing, or asked about; a call  *)
(* that is asked about is chosen for at most once and gets at most one     *)
(* answer; it passes only when the operator allowed it or the gate has     *)
(* been closed (shutdown), and it is refused only when the operator        *)
(* refused that very call.                                                 *)
(***************************************************************************)
CONSTANTS Call,       \* identities of gated calls (the supervisor's tokens)
          Decision,   \* what the operator may choose
          Allows      \* the choices that let the call proceed, of Decision

VARIABLES asked,      \* calls put to the operator
          waved,      \* calls let through without asking
          choice,     \* pairs <<call, decision>>
          outcome,    \* pairs <<call, "CONTINUE" or "EPERM">>
          open        \* FALSE once the supervisor was told to stop

vars == <<asked, waved, choice, outcome, open>>

Chosen(k)   == \E d \in Decision : <<k, d>> \in choice
Answered(k) == \E how \in {"CONTINUE", "EPERM"} : <<k, how>> \in outcome

Init ==
    /\ asked = {} /\ waved = {} /\ choice = {} /\ outcome = {} /\ open = TRUE

Ask(k) ==
    /\ k \notin asked \cup waved
    /\ asked' = asked \cup {k}
    /\ UNCHANGED <<waved, choice, outcome, open>>

Wave(k) ==
    /\ k \notin asked \cup waved
    /\ waved' = waved \cup {k}
    /\ UNCHANGED <<asked, choice, outcome, open>>

Choose(k, d) ==
    /\ k \in asked /\ ~Chosen(k) /\ ~Answered(k)
    /\ choice' = choice \cup {<<k, d>>}
    /\ UNCHANGED <<asked, waved, outcome, open>>

Pass(k) ==
    /\ ~Answered(k)
    /\ \/ k \in waved
       \/ k \in asked /\ ~open
       \/ k \in asked /\ \E d \in Allows : <<k, d>> \in choice
    /\ outcome' = outcome \cup {<<k, "CONTINUE">>}
    /\ UNCHANGED <<asked, waved, choice, open>>

Refuse(k) ==
    /\ ~Answered(k) /\ k \in asked
    /\ \E d \in Decision \ Allows : <<k, d>> \in choice
    /\ outcome' = outcome \cup {<<k, "EPERM">>}
    /\ UNCHANGED <<asked, waved, choice, open>>

Close ==
    /\ open' = FALSE
    /\ UNCHANGED <<asked, waved, choice, outcome>>

Next ==
    \/ \E k \in Call : Ask(k) \/ Wave(k) \/ Pass(k) \/ Refuse(k)
    \/ \E k \in Call, d \in Decision : Choose(k, d)
    \/ Close

Spec == Init /\ [][Next]_vars
=============================================================================
