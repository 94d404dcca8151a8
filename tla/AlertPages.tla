------------------------------ MODULE AlertPages ------------------------------
(***************************************************************************)
(* The count of firing alerts that a poll and a setup preview ask for      *)
(* (api.py, async_get_firing_alerts_count): the Hub is asked for one page  *)
(* after the other by offset, while alerts fire and are resolved.          *)
(*                                                                         *)
(* The Hub lists firing alerts in one fixed order, here that of the IDs; a *)
(* new alert may come anywhere in it.  Each request reads the list as it   *)
(* is then; the next one is sent when its answer is in.                    *)
(***************************************************************************)
EXTENDS Integers, FiniteSets

CONSTANTS
    Alerts,         \* the IDs of all alert instances, in the Hub's order
    PageSize,       \* ALERT_PAGE_SIZE
    MaxInstances,   \* MAX_ALERT_INSTANCES
    MaxChanges      \* bound: alerts that fire or are resolved during a count

ASSUME AlertsAssumption == Alerts \subseteq Nat /\ IsFiniteSet(Alerts)
ASSUME PagesAssumption ==
    /\ PageSize \in Nat \ {0}
    /\ MaxInstances \in Nat
ASSUME ChangesAssumption == MaxChanges \in Nat

VARIABLES
    firing,         \* Hub: the alerts that fire now
    repeats,        \* Hub: does it answer every request with the first page?
    counting,       \* is a count under way?
    offset,         \* of the page it has asked for
    seen,           \* seen_ids
    outcome,        \* of the last count
    count,          \* the number it returned
    steady,         \* history: the alerts that have fired ever since it began
    touched,        \* history: the alerts that have fired at some time since
    fires,          \* history: how many alerts fired since
    resolves        \* history: how many alerts were resolved since

history == <<steady, touched, fires, resolves>>
vars == <<firing, repeats, counting, offset, seen, outcome, count, history>>

Outcomes == {"none", "counted", "failed", "exceeded", "stuck"}

Init ==
    /\ firing \in SUBSET Alerts
    /\ repeats \in BOOLEAN
    /\ counting = FALSE
    /\ offset = 0
    /\ seen = {}
    /\ outcome = "none" /\ count = 0
    /\ steady = {} /\ touched = {}
    /\ fires = 0 /\ resolves = 0

-----------------------------------------------------------------------------
(* The Hub.                                                                *)

MayChange == counting => fires + resolves < MaxChanges

Fire(a) ==
    /\ MayChange
    /\ a \notin firing
    /\ firing' = firing \cup {a}
    /\ touched' = IF counting THEN touched \cup {a} ELSE touched
    /\ fires' = IF counting THEN fires + 1 ELSE fires
    /\ UNCHANGED <<repeats, counting, offset, seen, outcome, count, steady, resolves>>

Resolve(a) ==
    /\ MayChange
    /\ a \in firing
    /\ firing' = firing \ {a}
    /\ steady' = IF counting THEN steady \ {a} ELSE steady
    /\ resolves' = IF counting THEN resolves + 1 ELSE resolves
    /\ UNCHANGED <<repeats, counting, offset, seen, outcome, count, touched, fires>>

Rank(a) == Cardinality({b \in firing : b < a})
PageAt(o) == {a \in firing : o <= Rank(a) /\ Rank(a) < o + PageSize}
Page == PageAt(IF repeats THEN 0 ELSE offset)

-----------------------------------------------------------------------------
(* The count.                                                              *)

Begin ==
    /\ ~counting
    /\ counting' = TRUE
    /\ offset' = 0
    /\ seen' = {}
    /\ outcome' = "none" /\ count' = 0
    /\ steady' = firing /\ touched' = firing
    /\ fires' = 0 /\ resolves' = 0
    /\ UNCHANGED <<firing, repeats>>

Read == seen \cup Page
TooMany == Cardinality(Read) > MaxInstances
FullPage == Cardinality(Page) = PageSize

(* What the client holds is gone once it has returned or raised.           *)
End(result, n) ==
    /\ counting
    /\ counting' = FALSE
    /\ offset' = 0
    /\ seen' = {}
    /\ outcome' = result /\ count' = n
    /\ UNCHANGED <<firing, repeats, history>>

(* Mutant: the lengths of the pages are added up.                          *)
AddLengths ==
    /\ ~TooMany
    /\ ~FullPage
    /\ End("counted", offset + Cardinality(Page))

LastPage ==
    /\ ~TooMany
    /\ ~FullPage
    /\ End("counted", Cardinality(Read))

(* Mutant: the loop has no last offset.                                    *)
NextPageWithoutLimit ==
    /\ counting
    /\ ~TooMany
    /\ FullPage
    /\ Read # seen
    /\ offset' = offset + PageSize
    /\ seen' = Read
    /\ UNCHANGED <<firing, repeats, counting, outcome, count, history>>

NextPage ==
    /\ counting
    /\ ~TooMany
    /\ FullPage
    /\ Read # seen
    /\ offset + PageSize <= MaxInstances
    /\ offset' = offset + PageSize
    /\ seen' = Read
    /\ UNCHANGED <<firing, repeats, counting, outcome, count, history>>

(* Mutant: the page after the last one that may be full is not asked for.  *)
StopAtFullPage ==
    /\ \/ TooMany
       \/ FullPage /\ Read # seen /\ offset + PageSize >= MaxInstances
    /\ End("exceeded", 0)

Exceed ==
    /\ \/ TooMany
       \/ FullPage /\ Read # seen /\ offset + PageSize > MaxInstances
    /\ End("exceeded", 0)

(* Mutant: every page has to bring something new, the last one as well.    *)
StuckAtAnyPage ==
    /\ ~TooMany
    /\ Read = seen
    /\ End("stuck", 0)

(* Mutant: a count that makes no progress starts over.                     *)
StartOver ==
    /\ counting
    /\ ~TooMany
    /\ FullPage
    /\ Read = seen
    /\ offset' = 0
    /\ seen' = {}
    /\ UNCHANGED <<firing, repeats, counting, outcome, count, history>>

NoProgress ==
    /\ ~TooMany
    /\ FullPage
    /\ Read = seen
    /\ End("stuck", 0)

(* An error answer, an invalid page, a timeout, or the poll is cancelled.  *)
RequestFails == End("failed", 0)

RequestEnds == LastPage \/ NextPage \/ Exceed \/ NoProgress \/ RequestFails

Next ==
    \/ \E a \in Alerts : Fire(a) \/ Resolve(a)
    \/ Begin
    \/ RequestEnds

(* A request ends: it has a timeout.                                       *)
Spec == Init /\ [][Next]_vars /\ WF_vars(RequestEnds)

-----------------------------------------------------------------------------
(* Properties.                                                             *)

(* The types; the client has seen only alerts that fired during its count, *)
(* and never asks beyond the limit (api.py:384).                           *)
TypeOK ==
    /\ firing \subseteq Alerts
    /\ repeats \in BOOLEAN /\ counting \in BOOLEAN
    /\ offset \in 0 .. MaxInstances
    /\ seen \subseteq touched
    /\ outcome \in Outcomes
    /\ count \in 0 .. MaxInstances
    /\ touched \subseteq Alerts
    /\ fires \in 0 .. MaxChanges /\ resolves \in 0 .. MaxChanges
    /\ steady \subseteq touched
    /\ counting => steady \subseteq firing

(* The count is what AlertCount promises: nobody twice although new alerts *)
(* push others onto the next page, and at most one alert missing for each  *)
(* one resolved, which pulls another back over the page boundary; exact    *)
(* when nothing changed (api.py:381-408).                                  *)
Promise == INSTANCE AlertCount
               WITH outcome <- IF outcome \in {"exceeded", "stuck"} THEN "failed"
                               ELSE outcome
ImplementsCount == Promise!CountSpec

(* "exceeded its safety limit" is said only of a Hub that had more alerts  *)
(* than the limit, or does not page: exactly as many are counted           *)
(* (api.py:384, 402-408).                                                  *)
LimitIsHonest ==
    (outcome = "exceeded" /\ ~repeats) => Cardinality(touched) > MaxInstances

(* "made no progress" is said only of a Hub that does not page, or where a *)
(* whole page of alerts fired during the count (api.py:406-407).           *)
StuckIsHonest ==
    (outcome = "stuck" /\ ~repeats) => fires >= PageSize

(* Every count ends, also with a Hub that repeats itself or keeps          *)
(* changing: the poll that awaits it is not held up (api.py:384, 406).     *)
CountEnds == counting ~> ~counting

=============================================================================
