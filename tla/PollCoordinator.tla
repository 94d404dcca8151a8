--------------------------- MODULE PollCoordinator ---------------------------
(***************************************************************************)
(* The polling coordinator of the Home Assistant integration:              *)
(* LabTetherCoordinator of custom_components/labtether/coordinator.py and  *)
(* the part of Home Assistant's DataUpdateCoordinator it relies on.        *)
(*                                                                         *)
(* A poll sends three requests at once and publishes one snapshot made of  *)
(* their three answers.  Home Assistant holds no lock between the poll of  *)
(* the scan timer and the poll a power switch asks for, so several polls   *)
(* may be in flight; Polls are the slots they occupy.                      *)
(*                                                                         *)
(* Time is kept as ages: the age of an asset ID is the time since it was   *)
(* last seen, counted in ticks, and stops at TooOld because the code only  *)
(* compares it with the window.                                            *)
(***************************************************************************)
EXTENDS Integers, FiniteSets

CONSTANTS
    Assets,         \* every asset ID a Hub may report
    Polls,          \* slots for the polls in flight
    MaxAssets,      \* MAX_ASSETS_PER_RESPONSE
    MaxIdentities,  \* MAX_ASSET_IDENTITIES_PER_ENTRY
    Window,         \* ASSET_IDENTITY_WINDOW_SECONDS, in ticks
    NoData,         \* the coordinator's data before the first update
    Churning        \* a Hub whose answers still change or fail

ASSUME AssetsAssumption == IsFiniteSet(Assets)
ASSUME WindowAssumption == Window \in Nat
ASSUME BoundsAssumption ==
    /\ MaxAssets \in Nat
    /\ MaxIdentities \in Nat
    /\ MaxAssets <= MaxIdentities

Requests == {"assets", "metrics", "alerts"}

(* How a request fails: HTTP 401, another HTTP error whose own text reads  *)
(* "Authentication failed", or anything else.                              *)
Failures == {"rejectedKey", "hubText", "other"}

(* coordinator.py decides by the text of the error, not by its class.      *)
MeansAuthFailed(failure) == failure \in {"rejectedKey", "hubText"}

TooOld == Window + 1
Ages == 0 .. TooOld
Older(age) == IF age = TooOld THEN TooOld ELSE age + 1

VARIABLES
    hub,        \* Churning, or the assets the Hub has settled on
    loaded,     \* is the config entry loaded?
    due,        \* has Home Assistant a refresh scheduled?
    phase,      \* of each poll: "idle", "gathering" or "cancelling"
    request,    \* of each poll and request: "ended", "pending" or "answered"
    fetched,    \* of each poll: the assets its first request returned
    error,      \* of each poll: what made gather fail
    seen,       \* _seen_asset_ids: asset ID -> age
    data,       \* the published snapshot's assets
    ok,         \* last_update_success
    reauth,     \* has a reauthentication flow been started?
    published   \* history: asset ID -> age of its last publication

pollVars == <<phase, request, fetched, error>>
outVars == <<seen, data, ok, published>>
vars == <<hub, loaded, due, pollVars, outVars, reauth>>

Init ==
    /\ hub = Churning
    /\ loaded = TRUE
    /\ due = TRUE
    /\ phase = [p \in Polls |-> "idle"]
    /\ request = [p \in Polls |-> [r \in Requests |-> "ended"]]
    /\ fetched = [p \in Polls |-> {}]
    /\ error = [p \in Polls |-> "none"]
    /\ seen = [a \in {} |-> 0]
    /\ data = NoData
    /\ ok = TRUE
    /\ reauth = FALSE
    /\ published = [a \in Assets |-> TooOld]

-----------------------------------------------------------------------------
(* One poll.                                                               *)

(* Each refresh first drops the timer of the next one.                     *)
StartPoll(p) ==
    /\ loaded
    /\ phase[p] = "idle"
    /\ due' = FALSE
    /\ phase' = [phase EXCEPT ![p] = "gathering"]
    /\ request' = [request EXCEPT ![p] = [r \in Requests |-> "pending"]]
    /\ fetched' = [fetched EXCEPT ![p] = {}]
    /\ error' = [error EXCEPT ![p] = "none"]
    /\ UNCHANGED <<hub, loaded, outVars, reauth>>

TimerFires(p) == due /\ StartPoll(p)

(* async_request_refresh, which the power switches await after a command.  *)
RequestRefresh(p) == StartPoll(p)

AssetsAnswered(p, S) ==
    /\ phase[p] = "gathering"
    /\ request[p]["assets"] = "pending"
    /\ hub \in {Churning, S}
    /\ Cardinality(S) <= MaxAssets
    /\ request' = [request EXCEPT ![p]["assets"] = "answered"]
    /\ fetched' = [fetched EXCEPT ![p] = S]
    /\ UNCHANGED <<hub, loaded, due, phase, error, outVars, reauth>>

OtherAnswered(p, r) ==
    /\ phase[p] = "gathering"
    /\ r # "assets"
    /\ request[p][r] = "pending"
    /\ request' = [request EXCEPT ![p][r] = "answered"]
    /\ UNCHANGED <<hub, loaded, due, phase, fetched, error, outVars, reauth>>

(* gather raises the first failure; the poll cancels the other requests    *)
(* and waits for them.                                                     *)
GatherFails(p, r, failure) ==
    /\ phase[p] = "gathering"
    /\ request[p][r] = "pending"
    /\ request' = [request EXCEPT ![p][r] = "ended"]
    /\ phase' = [phase EXCEPT ![p] = "cancelling"]
    /\ error' = [error EXCEPT ![p] = failure]
    /\ fetched' = [fetched EXCEPT ![p] = {}]
    /\ UNCHANGED <<hub, loaded, due, outVars, reauth>>

RequestFails(p, r, failure) ==
    /\ hub = Churning
    /\ GatherFails(p, r, failure)

ResponseTooLarge(p) ==
    /\ hub # Churning
    /\ Cardinality(hub) > MaxAssets
    /\ GatherFails(p, "assets", "other")

(* Mutant: only the first two requests are cancelled and awaited.          *)
CleanUpFirstTwo(p, r) ==
    /\ r # "alerts"
    /\ phase[p] = "cancelling"
    /\ request[p][r] = "pending"
    /\ request' = [request EXCEPT ![p][r] = "ended"]
    /\ UNCHANGED <<hub, loaded, due, phase, fetched, error, outVars, reauth>>

(* A sibling of a failed request, cancelled or ending by itself.           *)
RequestCleanedUp(p, r) ==
    /\ phase[p] = "cancelling"
    /\ request[p][r] = "pending"
    /\ request' = [request EXCEPT ![p][r] = "ended"]
    /\ UNCHANGED <<hub, loaded, due, phase, fetched, error, outVars, reauth>>

(* The poll itself is cancelled, which Home Assistant may do to the polls  *)
(* in flight when the entry unloads.                                       *)
CancelPoll(p) ==
    /\ ~loaded
    /\ phase[p] \in {"gathering", "cancelling"}
    /\ phase' = [phase EXCEPT ![p] = "cancelling"]
    /\ error' = [error EXCEPT ![p] = "cancelled"]
    /\ fetched' = [fetched EXCEPT ![p] = {}]
    /\ UNCHANGED <<hub, loaded, due, request, outVars, reauth>>

-----------------------------------------------------------------------------
(* How a poll returns.                                                     *)

CleanedUp(p) == \A r \in Requests : request[p][r] # "pending"

(* The poll's own results are dropped; a request that is still pending     *)
(* would outlive it.                                                       *)
Return(p) ==
    /\ phase' = [phase EXCEPT ![p] = "idle"]
    /\ request' = [request EXCEPT ![p] = [r \in Requests |->
                     IF request[p][r] = "pending" THEN "pending" ELSE "ended"]]
    /\ fetched' = [fetched EXCEPT ![p] = {}]
    /\ error' = [error EXCEPT ![p] = "none"]

(* Mutant: the poll raises without awaiting the siblings it cancelled.     *)
PollFailsEarly(p) ==
    /\ phase[p] = "cancelling"
    /\ error[p] \in Failures
    /\ Return(p)
    /\ ok' = FALSE
    /\ reauth' = (reauth \/ MeansAuthFailed(error[p]))
    /\ due' = (due \/ (loaded /\ ~MeansAuthFailed(error[p])))
    /\ UNCHANGED <<hub, loaded, seen, data, published>>

(* Home Assistant keeps data when an update fails, starts a               *)
(* reauthentication flow for ConfigEntryAuthFailed and then schedules no   *)
(* further refresh.                                                        *)
PollFails(p) ==
    /\ phase[p] = "cancelling"
    /\ CleanedUp(p)
    /\ error[p] \in Failures
    /\ Return(p)
    /\ ok' = FALSE
    /\ reauth' = (reauth \/ MeansAuthFailed(error[p]))
    /\ due' = (due \/ (loaded /\ ~MeansAuthFailed(error[p])))
    /\ UNCHANGED <<hub, loaded, seen, data, published>>

PollCancelled(p) ==
    /\ phase[p] = "cancelling"
    /\ CleanedUp(p)
    /\ error[p] = "cancelled"
    /\ Return(p)
    /\ UNCHANGED <<hub, loaded, due, outVars, reauth>>

Gathered(p) ==
    /\ phase[p] = "gathering"
    /\ \A r \in Requests : request[p][r] = "answered"

(* Mutants: an off-by-one in the window, and identities that never age out. *)
InShorterWindow(ages) == {a \in DOMAIN ages : ages[a] < Window}
NeverAgedOut(ages) == DOMAIN ages

(* The identities still in the window, and those with the answer added.    *)
(* Mutant: the answer counts, but what is stored is the dict without it.   *)
InWindow(ages) == {a \in DOMAIN ages : ages[a] <= Window}
Charged(p) == InWindow(seen) \cup fetched[p]
RechargedUnmerged(p) == [a \in InWindow(seen) |-> seen[a]]
Recharged(p) == [a \in Charged(p) |-> IF a \in fetched[p] THEN 0 ELSE seen[a]]

(* Mutant: the budget is compared before the answer is added.              *)
PublishUncounted(p) ==
    /\ Gathered(p)
    /\ Cardinality(InWindow(seen)) <= MaxIdentities
    /\ Return(p)
    /\ seen' = Recharged(p)
    /\ data' = fetched[p]
    /\ ok' = TRUE
    /\ due' = (due \/ loaded)
    /\ published' = [a \in Assets |-> IF a \in fetched[p] THEN 0 ELSE published[a]]
    /\ UNCHANGED <<hub, loaded, reauth>>

Publish(p) ==
    /\ Gathered(p)
    /\ Cardinality(Charged(p)) <= MaxIdentities
    /\ Return(p)
    /\ seen' = Recharged(p)
    /\ data' = fetched[p]
    /\ ok' = TRUE
    /\ due' = (due \/ loaded)
    /\ published' = [a \in Assets |-> IF a \in fetched[p] THEN 0 ELSE published[a]]
    /\ UNCHANGED <<hub, loaded, reauth>>

(* Mutant: the refused answer is remembered all the same.                  *)
RefuseAfterStoring(p) ==
    /\ Gathered(p)
    /\ Cardinality(Charged(p)) > MaxIdentities
    /\ Return(p)
    /\ seen' = Recharged(p)
    /\ ok' = FALSE
    /\ due' = (due \/ loaded)
    /\ UNCHANGED <<hub, loaded, data, reauth, published>>

RefuseOverBudget(p) ==
    /\ Gathered(p)
    /\ Cardinality(Charged(p)) > MaxIdentities
    /\ Return(p)
    /\ ok' = FALSE
    /\ due' = (due \/ loaded)
    /\ UNCHANGED <<hub, loaded, seen, data, reauth, published>>

-----------------------------------------------------------------------------
(* The surroundings: time, the Hub and the life of the entry.              *)

Tick ==
    /\ seen' = [a \in DOMAIN seen |-> Older(seen[a])]
    /\ published' = [a \in Assets |-> Older(published[a])]
    /\ UNCHANGED <<hub, loaded, due, pollVars, data, ok, reauth>>

HubSettles(S) ==
    /\ hub = Churning
    /\ hub' = S
    /\ UNCHANGED <<loaded, due, pollVars, outVars, reauth>>

(* Unloading the platforms removes the last listener, and with it the      *)
(* timer.                                                                  *)
Unload ==
    /\ loaded
    /\ loaded' = FALSE
    /\ due' = FALSE
    /\ UNCHANGED <<hub, pollVars, outVars, reauth>>

-----------------------------------------------------------------------------

RequestEnds(p, r) ==
    \/ \E S \in SUBSET Assets : r = "assets" /\ AssetsAnswered(p, S)
    \/ OtherAnswered(p, r)
    \/ \E failure \in Failures : RequestFails(p, r, failure)
    \/ r = "assets" /\ ResponseTooLarge(p)
    \/ RequestCleanedUp(p, r)

PollReturns(p) ==
    \/ Publish(p)
    \/ RefuseOverBudget(p)
    \/ PollFails(p)
    \/ PollCancelled(p)

Next ==
    \/ \E p \in Polls :
         \/ TimerFires(p)
         \/ RequestRefresh(p)
         \/ \E r \in Requests : RequestEnds(p, r)
         \/ CancelPoll(p)
         \/ PollReturns(p)
    \/ Tick
    \/ \E S \in SUBSET Assets : HubSettles(S)
    \/ Unload

Spec == Init /\ [][Next]_vars

(* A request ends because it has a timeout, a poll returns because nothing *)
(* it runs blocks, the timer of the event loop fires and time passes.      *)
(* Nothing is assumed of switches, of unloading or of the Hub settling.    *)
Fairness ==
    /\ \A p \in Polls :
         /\ \A r \in Requests : WF_vars(RequestEnds(p, r))
         /\ WF_vars(PollReturns(p))
    /\ WF_vars(\E p \in Polls : TimerFires(p))
    /\ WF_vars(Tick)

FairSpec == Spec /\ Fairness

-----------------------------------------------------------------------------
(* Properties.                                                             *)

(* Every variable has its type; every asset shown is remembered, so that a *)
(* later poll charges it, and never are more remembered than the budget    *)
(* (a refused answer is not stored, an old one is dropped).                *)
TypeOK ==
    /\ hub \in (SUBSET Assets) \cup {Churning}
    /\ loaded \in BOOLEAN
    /\ due \in BOOLEAN
    /\ phase \in [Polls -> {"idle", "gathering", "cancelling"}]
    /\ request \in [Polls -> [Requests -> {"ended", "pending", "answered"}]]
    /\ fetched \in [Polls -> SUBSET Assets]
    /\ error \in [Polls -> Failures \cup {"none", "cancelled"}]
    /\ DOMAIN seen \subseteq Assets
    /\ seen \in [DOMAIN seen -> Ages]
    /\ Cardinality(DOMAIN seen) <= MaxIdentities
    /\ data \in (SUBSET Assets) \cup {NoData}
    /\ data # NoData => data \subseteq DOMAIN seen
    /\ ok \in BOOLEAN
    /\ reauth \in BOOLEAN
    /\ published \in [Assets -> Ages]

(* A poll that failed or was cancelled returns only when every request it  *)
(* sent has ended: no request of an earlier poll is still under way        *)
(* (coordinator.py awaits the cancelled siblings before it raises).        *)
NoOrphanRequests ==
    \A p \in Polls : phase[p] = "idle" => CleanedUp(p)

(* The distinct assets published within any window never exceed the        *)
(* identity budget, whatever mix of failed, refused, overlapping and       *)
(* cancelled polls went before.                                            *)
Recent == {a \in Assets : published[a] <= Window}
IdentityBudget == Cardinality(Recent) <= MaxIdentities

(* A poll is refused for its budget only when it is true, as the error     *)
(* says, that more than the budget's distinct assets were published or are *)
(* now reported within the window: polls that failed are not charged.      *)
RefusalIsHonest ==
    [][\A p \in Polls : RefuseOverBudget(p) =>
         Cardinality(Recent \cup fetched[p]) > MaxIdentities]_vars

(* The snapshot and the remembered identities change only when one poll    *)
(* that holds all three answers returns: a failed, refused or cancelled    *)
(* poll leaves both as they were, time only ages identities.               *)
OnlyWholePollsPublish ==
    [][(data' # data \/ DOMAIN seen' # DOMAIN seen) =>
         \E p \in Polls : /\ Gathered(p)
                          /\ phase'[p] = "idle"
                          /\ data' = fetched[p]
                          /\ ok']_vars

(* Refused updates resume as older assets age out: once the Hub settles    *)
(* on assets that fit, the entry ends up showing exactly them, unless it   *)
(* was unloaded or an authentication failure stopped the polling.          *)
Settled ==
    /\ hub # Churning
    /\ Cardinality(hub) <= MaxAssets
    /\ loaded
    /\ ~reauth
UpdatesResume == <>[]Settled => <>[](ok /\ data = hub)

(* Every poll returns, whether answered, failed or cancelled at unload.    *)
PollsReturn == \A p \in Polls : phase[p] # "idle" ~> phase[p] = "idle"

(* The coordinator implements the budgeted publisher of whole snapshots.   *)
Publisher == INSTANCE SnapshotPublisher
                 WITH snapshot <- data, healthy <- ok, recent <- Recent
ImplementsPublisher == Publisher!PubSpec

(* A reauthentication flow tells the user that the Hub rejected the API    *)
(* key (strings.json, reauth_confirm): it is started only after a request  *)
(* of that poll was answered with HTTP 401.                                *)
ReauthOnlyForRejectedKey ==
    [][reauth' # reauth =>
         \E p \in Polls : error[p] = "rejectedKey" /\ phase'[p] = "idle"]_vars

=============================================================================
