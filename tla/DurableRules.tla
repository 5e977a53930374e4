---------------------------- MODULE DurableRules ----------------------------
(***************************************************************************)
(* What the reputation store promises: rules change in memory one at a     *)
(* time; the file becomes the rules in memory in one step; it loses them   *)
(* only while file operations fail; a restart takes the rules from the     *)
(* file and says so when they were lost, or, where the file cannot be      *)
(* opened, has no rules and does not say so.                               *)
(***************************************************************************)
CONSTANTS Rule, RuleState, Absent

VARIABLES rules, file, running,
          failing,   \* file operations fail at present
          lost,      \* the file has lost its rules
          flag       \* the warning the last start gave

vars == <<rules, file, running, failing, lost, flag>>

NoRules == [r \in Rule |-> Absent]

Init ==
    /\ rules = NoRules /\ file = NoRules /\ running = TRUE
    /\ failing = FALSE /\ lost = FALSE /\ flag = FALSE

Change(r, s) ==
    /\ running
    /\ rules' = [rules EXCEPT ![r] = s]
    /\ UNCHANGED <<file, running, failing, lost, flag>>

Commit ==
    /\ running
    /\ file' = rules /\ lost' = FALSE
    /\ UNCHANGED <<rules, running, failing, flag>>

Fault ==
    /\ running
    /\ failing' \in BOOLEAN
    /\ UNCHANGED <<rules, file, running, lost, flag>>

Lose ==
    /\ running /\ failing
    /\ file' = NoRules /\ lost' = TRUE
    /\ UNCHANGED <<rules, running, failing, flag>>

Crash ==
    /\ running' = FALSE
    /\ UNCHANGED <<rules, file, failing, lost, flag>>

Restart ==
    /\ ~running
    /\ rules' = file /\ running' = TRUE /\ flag' = lost
    /\ UNCHANGED <<file, failing, lost>>

BlindRestart ==
    /\ ~running
    /\ rules' = NoRules /\ running' = TRUE /\ flag' = FALSE
    /\ UNCHANGED <<file, failing, lost>>

Next ==
    \/ \E r \in Rule, s \in RuleState : Change(r, s)
    \/ Commit
    \/ Fault
    \/ Lose
    \/ Crash
    \/ Restart
    \/ BlindRestart

Spec == Init /\ [][Next]_vars
=============================================================================
