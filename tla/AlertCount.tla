------------------------------ MODULE AlertCount ------------------------------
(***************************************************************************)
(* What async_get_firing_alerts_count promises a poll, whatever it takes   *)
(* to find out: an answer that is wrong by no more than what changed while *)
(* the Hub was asked, or a failure.                                        *)
(***************************************************************************)
EXTENDS Integers, FiniteSets

CONSTANT Alerts     \* the IDs of all alert instances

VARIABLES
    firing,     \* Hub: the alerts that fire now
    counting,   \* is a count under way?
    steady,     \* the alerts that have fired ever since it began
    touched,    \* the alerts that have fired at some time since
    resolves,   \* how many alerts were resolved since
    outcome,    \* of the last count: "none", "counted" or "failed"
    count       \* the number it answered

vars == <<firing, counting, steady, touched, resolves, outcome, count>>

Init ==
    /\ firing \in SUBSET Alerts
    /\ counting = FALSE
    /\ steady = {} /\ touched = {}
    /\ resolves = 0
    /\ outcome = "none" /\ count = 0

Begin ==
    /\ ~counting
    /\ counting' = TRUE
    /\ steady' = firing /\ touched' = firing
    /\ resolves' = 0
    /\ outcome' = "none" /\ count' = 0
    /\ UNCHANGED firing

(* An alert fires or is resolved; only a count under way minds.            *)
Fire(a) ==
    /\ firing' = firing \cup {a}
    /\ touched' = IF counting THEN touched \cup {a} ELSE touched
    /\ UNCHANGED <<counting, steady, resolves, outcome, count>>

Resolve(a) ==
    /\ firing' = firing \ {a}
    /\ steady' = IF counting THEN steady \ {a} ELSE steady
    /\ resolves' = IF counting THEN resolves + 1 ELSE resolves
    /\ UNCHANGED <<counting, touched, outcome, count>>

(* No alert is counted twice, and none that fired all along is left out    *)
(* unless another one was resolved meanwhile.                              *)
Answer(n) ==
    /\ counting
    /\ Cardinality(steady) - resolves <= n
    /\ n <= Cardinality(touched)
    /\ counting' = FALSE
    /\ outcome' = "counted" /\ count' = n
    /\ UNCHANGED <<firing, steady, touched, resolves>>

Fail ==
    /\ counting
    /\ counting' = FALSE
    /\ outcome' = "failed"
    /\ UNCHANGED <<firing, steady, touched, resolves, count>>

Next ==
    \/ Begin
    \/ \E a \in Alerts : Fire(a) \/ Resolve(a)
    \/ \E n \in 0 .. Cardinality(Alerts) : Answer(n)
    \/ Fail

CountSpec == Init /\ [][Next]_vars

=============================================================================
