--------------------------- MODULE PowerSwitchProofs ---------------------------
(***************************************************************************)
(* Proofs about PowerSwitch, for every grace period, any number of calls   *)
(* and any number of actions at work.                                      *)
(*                                                                         *)
(* ShowsAskedUntilReported is not inductive: it speaks of what is shown    *)
(* and of a history, while the code decides by pending.  Waiting ties the  *)
(* history to pending, Drawn ties what is shown to the data and pending;   *)
(* Drawn holds only while the time runs, as nothing is redrawn when it is  *)
(* up.                                                                     *)
(***************************************************************************)
EXTENDS PowerSwitch, TLAPS

Waiting == (left > 0 /\ asked # None /\ ~reported) => pending = asked
Drawn == left > 0 => shown = Shown(data, ok, pending, left)

IInv == TypeOK /\ Waiting /\ Drawn

-----------------------------------------------------------------------------

(* Nothing was asked for yet, and what is shown is what was published.     *)
LEMMA InitIInv == Init => IInv
<1> SUFFICES ASSUME Init PROVE IInv
  OBVIOUS
<1> USE PendingAssumption, BoundsAssumption DEF Init
<1>1. TypeOK
  <2>1. poll \in [Pollers -> Reports \cup {None}]
    OBVIOUS
  <2>2. asset \in Reports /\ shown = Reported(asset) /\ shown \in States
    BY DEF States, Reports, Gone, Shown, Reported
  <2>3. call \in [phase : {"idle", "posting", "accepted"}, on : States]
    BY DEF Idle, States
  <2>4. jobs \in Seq(States) /\ Len(jobs) <= MaxJobs
    OBVIOUS
  <2>5. shown = Shown(data, ok, None, 0)
    BY DEF Shown
  <2>6. /\ ok \in BOOLEAN /\ wanted \in BOOLEAN /\ reported \in BOOLEAN
        /\ data \in Reports
        /\ shown \in States \cup {Unavailable}
    BY <2>2 DEF Reports
  <2>7. calls \in 0 .. MaxCalls /\ left \in 0 .. Pending
    OBVIOUS
  <2> HIDE DEF Init
  <2> QED
    BY <2>1, <2>2, <2>3, <2>4, <2>5, <2>6, <2>7 DEF TypeOK, Init
<1>2. Waiting /\ Drawn
  BY DEF Waiting, Drawn
<1> QED
  BY <1>1, <1>2 DEF IInv

(* A listener that hears of data d keeps what is shown in step with it,    *)
(* and gives up the requested state only when d shows it or time is up.    *)
LEMMA HandleUpdateKeeps ==
  ASSUME IInv, NEW d \in Reports, NEW o \in BOOLEAN,
         HandleUpdate(d, o), left' = left, asked' = asked,
         data' = d, ok' = o
  PROVE  /\ pending' \in States \cup {None}
         /\ shown' \in States \cup {Unavailable}
         /\ reported' \in BOOLEAN
         /\ pending' = None => shown' = Shown(d, o, None, 0)
         /\ Waiting'
         /\ Drawn'
<1> USE DEF HandleUpdate, IInv
<1>1. pending' \in States \cup {None} /\ reported' \in BOOLEAN
  BY DEF TypeOK
<1>2. /\ shown' \in States \cup {Unavailable}
      /\ pending' = None => shown' = Shown(d, o, None, 0)
  BY <1>1 DEF Shown, Reported, Reports, States
<1>3. Waiting'
  <2> SUFFICES ASSUME left > 0, asked # None, ~reported' PROVE pending' = asked
    BY DEF Waiting
  <2>1. ~reported /\ Reported(d) # asked
    OBVIOUS
  <2>2. pending = asked
    BY <2>1 DEF Waiting
  <2>3. left # 0
    OBVIOUS
  <2> QED
    BY <2>1, <2>2, <2>3
<1>4. Drawn'
  BY DEF Drawn
<1> QED
  BY <1>1, <1>2, <1>3, <1>4

(* Every step keeps the strengthened invariant.                            *)
LEMMA IInvStep == IInv /\ [Next]_vars => IInv'
<1> SUFFICES ASSUME IInv, [Next]_vars PROVE IInv'
  OBVIOUS
<1> USE PendingAssumption, BoundsAssumption DEF IInv
<1>1. CASE HubFinishesJob
  <2>1. jobs' \in Seq(States) /\ Len(jobs') <= MaxJobs /\ asset' \in Reports
    BY <1>1 DEF HubFinishesJob, TypeOK, Reports
  <2> QED
    BY <1>1, <2>1 DEF HubFinishesJob, TypeOK, Waiting, Drawn,
       published, switch, history
<1>2. CASE HubChanges
  BY <1>2 DEF HubChanges, TypeOK, Waiting, Drawn, published, switch, history
<1>3. ASSUME NEW p \in Pollers, BeginPoll(p) PROVE IInv'
  BY <1>3 DEF BeginPoll, TypeOK, Waiting, Drawn, hub, published, switch, history
<1>4. ASSUME NEW p \in Pollers, PublishPoll(p) PROVE IInv'
  <2>1. poll[p] \in Reports
    BY <1>4 DEF PublishPoll, TypeOK
  <2>2. /\ pending' \in States \cup {None}
        /\ shown' \in States \cup {Unavailable}
        /\ reported' \in BOOLEAN
        /\ pending' = None => shown' = Shown(data', ok', None, 0)
        /\ Waiting' /\ Drawn'
    BY <1>4, <2>1, HandleUpdateKeeps DEF PublishPoll
  <2> QED
    BY <1>4, <2>1, <2>2 DEF PublishPoll, TypeOK, hub
<1>5. ASSUME NEW p \in Pollers, FailPoll(p) PROVE IInv'
  <2>1. CASE ok /\ HandleUpdate(data, FALSE)
    <3>1. /\ pending' \in States \cup {None}
          /\ shown' \in States \cup {Unavailable}
          /\ reported' \in BOOLEAN
          /\ pending' = None => shown' = Shown(data', ok', None, 0)
          /\ Waiting' /\ Drawn'
      BY <1>5, <2>1, HandleUpdateKeeps DEF FailPoll, TypeOK
    <3> QED
      BY <1>5, <3>1 DEF FailPoll, TypeOK, hub
  <2>2. CASE ~ok /\ UNCHANGED <<pending, shown, reported>>
    BY <1>5, <2>2 DEF FailPoll, TypeOK, Waiting, Drawn, hub
  <2> QED
    BY <1>5, <2>1, <2>2 DEF FailPoll
<1>6. ASSUME NEW on \in States, StartCall(on) PROVE IInv'
  BY <1>6 DEF StartCall, TypeOK, Waiting, Drawn, hub, published, switch, history
<1>7. CASE HubAccepts
  <2>1. jobs' \in Seq(States) /\ Len(jobs') <= MaxJobs
    BY <1>7 DEF HubAccepts, TypeOK
  <2> QED
    BY <1>7, <2>1 DEF HubAccepts, TypeOK, Waiting, Drawn, published, switch, history
<1>8. CASE CallFails
  BY <1>8 DEF CallFails, Idle, States, TypeOK, Waiting, Drawn,
     hub, published, switch, history
<1>9. CASE CallSucceeds
  <2>1. /\ call.on \in States
        /\ pending' = call.on /\ left' = Pending /\ asked' = call.on
        /\ data' = data /\ ok' = ok
        /\ shown' = Shown(data, ok, call.on, Pending)
    BY <1>9 DEF CallSucceeds, TypeOK, published
  <2>2. shown' \in States \cup {Unavailable}
    BY <2>1 DEF TypeOK, Shown, Reported, Reports, States
  <2>3. pending' = None => shown' = Shown(data', ok', None, 0)
    BY <2>1 DEF Shown
  <2>4. Waiting' /\ Drawn'
    BY <2>1 DEF Waiting, Drawn
  <2>5. call' \in [phase : {"idle", "posting", "accepted"}, on : States]
    BY <1>9 DEF CallSucceeds, Idle, States
  <2> QED
    BY <1>9, <2>1, <2>2, <2>3, <2>4, <2>5 DEF CallSucceeds, TypeOK, hub, published
<1>10. CASE Tick
  BY <1>10 DEF Tick, TypeOK, Waiting, Drawn, Shown, hub, published, history
<1>11. CASE UNCHANGED vars
  BY <1>11 DEF vars, TypeOK, Waiting, Drawn, hub, published, switch, history
<1> QED
  BY <1>1, <1>2, <1>3, <1>4, <1>5, <1>6, <1>7, <1>8, <1>9, <1>10, <1>11
     DEF Next, Poll, Call

(* The strengthened invariant holds in every reachable state.              *)
THEOREM Invariance == Spec => []IInv
  BY InitIInv, IInvStep, PTL DEF Spec

(* Every variable keeps its type, and a switch without a requested state   *)
(* shows exactly what was published (switch.py:110-115).                   *)
THEOREM TypeCorrect == Spec => []TypeOK
<1>1. IInv => TypeOK
  BY DEF IInv
<1> QED
  BY <1>1, Invariance, PTL

(* Over polls that find the action at work, fail or began too early, the   *)
(* switch shows what was asked for until the data has agreed with it or    *)
(* PENDING_POWER_SECONDS are over (switch.py:31-35, 117-125).              *)
THEOREM AskedIsShown == Spec => []ShowsAskedUntilReported
<1>1. IInv => ShowsAskedUntilReported
  BY DEF IInv, TypeOK, Waiting, Drawn, ShowsAskedUntilReported, Shown, Reported
<1> QED
  BY <1>1, Invariance, PTL

=============================================================================
