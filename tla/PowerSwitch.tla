----------------------------- MODULE PowerSwitch -----------------------------
(***************************************************************************)
(* The power switch of one VM or container (switch.py): a call posts the   *)
(* power action, the Hub carries it out in the background, and until a     *)
(* poll reports the new state, or PENDING_POWER_SECONDS pass, the switch   *)
(* shows the state that was asked for.                                     *)
(*                                                                         *)
(* PARALLEL_UPDATES = 1 lets one call run at a time.  A poll scheduled by  *)
(* the interval and one requested by a call may overlap and finish in      *)
(* either order; what a poll does inside is module PollCoordinator's, here *)
(* it takes a snapshot of the Hub and later publishes it, or fails.        *)
(***************************************************************************)
EXTENDS Naturals, Sequences

CONSTANTS
    None,           \* no requested state, no poll, no call
    Pending,        \* PENDING_POWER_SECONDS, in ticks
    MaxCalls,       \* bound: how often the switch is used
    MaxJobs         \* bound: actions the Hub has accepted and not finished

ASSUME PendingAssumption == Pending \in Nat \ {0}
ASSUME BoundsAssumption == MaxCalls \in Nat /\ MaxJobs \in Nat

Pollers == {"scheduled", "requested"}
States == {"on", "off"}
Gone == "gone"      \* the asset is not among the Hub's assets
Reports == States \cup {Gone}

VARIABLES
    asset,          \* Hub: is the asset on, off or gone?
    jobs,           \* Hub: the accepted power actions, by the state they ask for
    data,           \* coordinator.data: the asset as last published
    ok,             \* coordinator.last_update_success
    poll,           \* the snapshot each poller is about to publish
    wanted,         \* a refresh was requested and has not begun
    call,           \* the running call: the state it asks for, and where it is
    calls,          \* how often the switch was used
    pending,        \* _pending_on
    left,           \* ticks until _pending_until
    shown,          \* the state Home Assistant shows, "unavailable" included
    asked,          \* history: the state of the last accepted call
    reported        \* history: has the Hub's data shown that state since?

hub == <<asset, jobs>>
published == <<data, ok>>
switch == <<pending, left, shown>>
history == <<asked, reported>>
vars == <<hub, published, poll, wanted, call, calls, switch, history>>

Idle == [phase |-> "idle", on |-> "off"]

Unavailable == "unavailable"
Reported(d) == IF d = Gone THEN "off" ELSE d
Shown(d, o, p, l) ==
    IF ~o \/ d = Gone THEN Unavailable
    ELSE IF p # None /\ l > 0 THEN p
    ELSE Reported(d)

Init ==
    /\ asset \in States
    /\ jobs = <<>>
    /\ data = asset
    /\ ok = TRUE
    /\ poll = [p \in Pollers |-> None]
    /\ wanted = FALSE
    /\ call = Idle
    /\ calls = 0
    /\ pending = None
    /\ left = 0
    /\ shown = Shown(data, ok, pending, left)
    /\ asked = None
    /\ reported = FALSE

-----------------------------------------------------------------------------
(* The Hub: it works the accepted actions off in order, an action may come *)
(* to nothing, and the asset may be switched, deleted or added elsewhere.  *)

HubFinishesJob ==
    /\ jobs # <<>>
    /\ jobs' = Tail(jobs)
    /\ asset' \in {asset} \cup (IF asset = Gone THEN {} ELSE {Head(jobs)})
    /\ UNCHANGED <<published, poll, wanted, call, calls, switch, history>>

HubChanges ==
    /\ asset' \in Reports \ {asset}
    /\ UNCHANGED <<jobs, published, poll, wanted, call, calls, switch, history>>

-----------------------------------------------------------------------------
(* Polls.                                                                  *)

BeginPoll(p) ==
    /\ poll[p] = None
    /\ p = "requested" => wanted
    /\ poll' = [poll EXCEPT ![p] = asset]
    /\ wanted' = (wanted /\ p # "requested")
    /\ UNCHANGED <<hub, published, call, calls, switch, history>>

(* Mutant: any poll ends the wait for the requested state.                 *)
HandleAnyUpdate(d, o) ==
    /\ pending' = None
    /\ shown' = Shown(d, o, None, left)
    /\ reported' = (reported \/ Reported(d) = asked)

(* Mutant: only the requested state ends the wait, however long it takes.  *)
HandleWithoutDeadline(d, o) ==
    /\ pending' = IF Reported(d) = pending THEN None ELSE pending
    /\ shown' = Shown(d, o, pending', IF pending = None THEN 0 ELSE 1)
    /\ reported' = (reported \/ Reported(d) = asked)

(* Mutant: the state is not written again after an update.                 *)
HandleSilently(d, o) ==
    /\ pending' = IF Reported(d) = pending \/ left = 0 THEN None ELSE pending
    /\ reported' = (reported \/ Reported(d) = asked)
    /\ UNCHANGED shown

(* _handle_coordinator_update: what a listener does with data d.           *)
HandleUpdate(d, o) ==
    /\ pending' = IF Reported(d) = pending \/ left = 0 THEN None ELSE pending
    /\ shown' = Shown(d, o, pending', left)
    /\ reported' = (reported \/ Reported(d) = asked)

PublishPoll(p) ==
    /\ poll[p] # None
    /\ poll' = [poll EXCEPT ![p] = None]
    /\ data' = poll[p]
    /\ ok' = TRUE
    /\ HandleUpdate(poll[p], TRUE)
    /\ UNCHANGED <<hub, wanted, call, calls, left, asked>>

(* Listeners hear of the first failure only; the data stays.               *)
FailPoll(p) ==
    /\ poll[p] # None
    /\ poll' = [poll EXCEPT ![p] = None]
    /\ ok' = FALSE
    /\ \/ ok /\ HandleUpdate(data, FALSE)
       \/ ~ok /\ UNCHANGED <<pending, shown, reported>>
    /\ UNCHANGED <<hub, data, wanted, call, calls, left, asked>>

-----------------------------------------------------------------------------
(* Calls.                                                                  *)

(* async_turn_on and async_turn_off up to the request.  Home Assistant     *)
(* calls no unavailable entity.  A user who is no administrator, and an    *)
(* asset without power actions, end the call before it changes anything.   *)
StartCall(on) ==
    /\ call.phase = "idle"
    /\ calls < MaxCalls
    /\ shown # Unavailable
    /\ data # Gone
    /\ call' = [phase |-> "posting", on |-> on]
    /\ calls' = calls + 1
    /\ UNCHANGED <<hub, published, poll, wanted, switch, history>>

HubAccepts ==
    /\ call.phase = "posting"
    /\ Len(jobs) < MaxJobs
    /\ jobs' = Append(jobs, call.on)
    /\ call' = [call EXCEPT !.phase = "accepted"]
    /\ UNCHANGED <<asset, published, poll, wanted, calls, switch, history>>

(* A refusal, or an answer that never arrives.                             *)
CallFails ==
    /\ call.phase \in {"posting", "accepted"}
    /\ call' = Idle
    /\ UNCHANGED <<hub, published, poll, wanted, calls, switch, history>>

(* The answer: the requested state is shown, a refresh is requested.       *)
CallSucceeds ==
    /\ call.phase = "accepted"
    /\ call' = Idle
    /\ pending' = call.on
    /\ left' = Pending
    /\ shown' = Shown(data, ok, pending', left')
    /\ wanted' = TRUE
    /\ asked' = call.on
    /\ reported' = (Reported(data) = call.on)
    /\ UNCHANGED <<hub, published, poll, calls>>

(* Time passes; nothing is redrawn when it is up.                          *)
Tick ==
    /\ left > 0
    /\ left' = left - 1
    /\ UNCHANGED <<hub, published, poll, wanted, call, calls, pending, shown, history>>

-----------------------------------------------------------------------------

Poll(p) == BeginPoll(p) \/ PublishPoll(p) \/ FailPoll(p)
Call == (\E on \in States : StartCall(on)) \/ HubAccepts \/ CallFails \/ CallSucceeds

Next ==
    \/ HubFinishesJob
    \/ HubChanges
    \/ \E p \in Pollers : Poll(p)
    \/ Call
    \/ Tick

Spec == Init /\ [][Next]_vars

(* The interval keeps polling, each poll returns (PollCoordinator!         *)
(* PollsReturn), and time passes.                                          *)
FairSpec ==
    /\ Spec
    /\ \A p \in Pollers : WF_vars(Poll(p))
    /\ WF_vars(Tick)

-----------------------------------------------------------------------------
(* Properties.                                                             *)

(* The types; without a requested state the switch is never ahead of the   *)
(* published data (switch.py:110-115).                                     *)
TypeOK ==
    /\ asset \in Reports /\ data \in Reports
    /\ jobs \in Seq(States) /\ Len(jobs) <= MaxJobs
    /\ ok \in BOOLEAN /\ wanted \in BOOLEAN /\ reported \in BOOLEAN
    /\ poll \in [Pollers -> Reports \cup {None}]
    /\ call \in [phase : {"idle", "posting", "accepted"}, on : States]
    /\ calls \in 0 .. MaxCalls
    /\ pending \in States \cup {None}
    /\ left \in 0 .. Pending
    /\ shown \in States \cup {Unavailable}
    /\ asked \in States \cup {None}
    /\ pending = None => shown = Shown(data, ok, None, 0)

(* Until the time is up, or the published data has agreed with it, the     *)
(* switch shows what was asked for last, over polls that find the action   *)
(* still at work, fail, or began before it (switch.py:31-35, 117-125).     *)
ShowsAskedUntilReported ==
    (left > 0 /\ asked # None /\ ~reported /\ shown # Unavailable) => shown = asked

(* If the asset settles and polls keep succeeding, the switch ends up      *)
(* showing its real state, also when the action came to nothing, was       *)
(* overtaken, or its answer was lost (switch.py:117-125).                  *)
SettlesOnTruth ==
    \A on \in States : <>[](asset = on /\ ok) => <>[](shown = on)

(* switch.py:31-34: instead of flipping back to the old state, the switch  *)
(* that shows an action the Hub has already carried out keeps showing it.  *)
NeverFlipsBack ==
    [][(left > 0 /\ asked # None /\ shown = asked /\ asset = asked /\ jobs = <<>>)
        => shown' \in {asked, Unavailable}]_vars

=============================================================================
