------------------------ MODULE PollCoordinatorProofs ------------------------
(***************************************************************************)
(* Proofs about PollCoordinator, for every set of assets, every number of  *)
(* overlapping polls and every bound.                                      *)
(*                                                                         *)
(* IdentityBudget is not inductive: it speaks of what was published, the   *)
(* code decides by what it remembers.  IInv adds the link between the two: *)
(* within the window the remembered ages are the ages of publication.      *)
(***************************************************************************)
EXTENDS PollCoordinator, FiniteSetTheorems, TLAPS

Faithful ==
    /\ InWindow(seen) = Recent
    /\ \A a \in Recent : seen[a] = published[a]

(* api.py refuses a response with more assets than one may hold.           *)
AnswersFit == \A p \in Polls : Cardinality(fetched[p]) <= MaxAssets

IInv ==
    /\ TypeOK
    /\ NoOrphanRequests
    /\ AnswersFit
    /\ Faithful
    /\ IdentityBudget

USE DEF Requests, Failures, Ages, TooOld

-----------------------------------------------------------------------------

(* Initially no poll is in flight and nothing was published.               *)
LEMMA InitIInv == Init => IInv
<1> SUFFICES ASSUME Init PROVE IInv
  OBVIOUS
<1> USE WindowAssumption, BoundsAssumption DEF Init
<1>1. TypeOK
  <2>1. DOMAIN seen = {} /\ seen \in [{} -> Ages]
    OBVIOUS
  <2>2. request \in [Polls -> [Requests -> {"ended", "pending", "answered"}]]
    OBVIOUS
  <2>3. DOMAIN seen \subseteq Assets /\ seen \in [DOMAIN seen -> Ages]
    BY <2>1
  <2>4. published \in [Assets -> Ages]
    OBVIOUS
  <2>5. phase \in [Polls -> {"idle", "gathering", "cancelling"}]
    OBVIOUS
  <2>6. Cardinality(DOMAIN seen) <= MaxIdentities
    <3>1. Cardinality(DOMAIN seen) = 0
      BY <2>1, FS_EmptySet
    <3> QED
      BY <3>1
  <2>7. data = NoData /\ fetched \in [Polls -> SUBSET Assets]
    OBVIOUS
  <2>8. error \in [Polls -> Failures \cup {"none", "cancelled"}]
    OBVIOUS
  <2>9. hub = Churning /\ loaded = TRUE /\ due = TRUE /\ ok = TRUE /\ reauth = FALSE
    OBVIOUS
  <2> HIDE DEF Init
  <2> QED
    BY <2>2, <2>3, <2>4, <2>5, <2>6, <2>7, <2>8, <2>9 DEF TypeOK
<1>2. NoOrphanRequests
  BY DEF NoOrphanRequests, CleanedUp
<1>3. Recent = {}
  BY DEF Recent
<1>4. Faithful
  BY <1>3 DEF Faithful, InWindow
<1>5. IdentityBudget
  BY <1>3, FS_EmptySet DEF IdentityBudget
<1>6. AnswersFit
  BY FS_EmptySet DEF AnswersFit
<1> QED
  BY <1>1, <1>2, <1>4, <1>5, <1>6 DEF IInv

(* Every action keeps the types.                                           *)
LEMMA TypeOKStep == TypeOK /\ [Next]_vars => TypeOK'
<1> SUFFICES ASSUME TypeOK, [Next]_vars PROVE TypeOK'
  OBVIOUS
<1> USE WindowAssumption DEF TypeOK
<1>1. ASSUME NEW p \in Polls, TimerFires(p) \/ RequestRefresh(p) PROVE TypeOK'
  <2>1. request' = [request EXCEPT ![p] = [r \in Requests |-> "pending"]]
    BY <1>1 DEF TimerFires, RequestRefresh, StartPoll
  <2>2. request' \in [Polls -> [Requests -> {"ended", "pending", "answered"}]]
    BY <2>1
  <2> QED
    BY <1>1, <2>2 DEF TimerFires, RequestRefresh, StartPoll, outVars
<1>2. ASSUME NEW p \in Polls, NEW S \in SUBSET Assets, AssetsAnswered(p, S)
      PROVE TypeOK'
  BY <1>2 DEF AssetsAnswered, outVars
<1>3. ASSUME NEW p \in Polls, NEW r \in Requests,
             OtherAnswered(p, r) \/ RequestCleanedUp(p, r)
      PROVE TypeOK'
  <2>1. PICK status \in {"answered", "ended"} :
          request' = [request EXCEPT ![p][r] = status]
    BY <1>3 DEF OtherAnswered, RequestCleanedUp
  <2>2. request' \in [Polls -> [Requests -> {"ended", "pending", "answered"}]]
    BY <2>1
  <2> QED
    BY <1>3, <2>2 DEF OtherAnswered, RequestCleanedUp, outVars
<1>4. ASSUME NEW p \in Polls, NEW r \in Requests, NEW failure \in Failures,
             GatherFails(p, r, failure)
      PROVE TypeOK'
  BY <1>4 DEF GatherFails, outVars
<1>5. ASSUME NEW p \in Polls, CancelPoll(p) PROVE TypeOK'
  BY <1>5 DEF CancelPoll, outVars
<1>6. ASSUME NEW p \in Polls, PollReturns(p) PROVE TypeOK'
  <2>1. CASE Publish(p)
    BY <2>1 DEF Publish, Return, Recharged, Charged, InWindow
  <2>2. CASE RefuseOverBudget(p)
    BY <2>2 DEF RefuseOverBudget, Return
  <2>3. CASE PollFails(p)
    BY <2>3 DEF PollFails, Return, MeansAuthFailed
  <2>4. CASE PollCancelled(p)
    BY <2>4 DEF PollCancelled, Return, outVars
  <2> QED
    BY <1>6, <2>1, <2>2, <2>3, <2>4 DEF PollReturns
<1>7. CASE Tick
  BY <1>7 DEF Tick, Older, pollVars
<1>8. ASSUME NEW S \in SUBSET Assets, HubSettles(S) PROVE TypeOK'
  BY <1>8 DEF HubSettles, pollVars, outVars
<1>9. CASE Unload
  BY <1>9 DEF Unload, pollVars, outVars
<1>10. CASE UNCHANGED vars
  BY <1>10 DEF vars, pollVars, outVars
<1> QED
  BY <1>1, <1>2, <1>3, <1>4, <1>5, <1>6, <1>7, <1>8, <1>9, <1>10
     DEF Next, RequestEnds, RequestFails, ResponseTooLarge

(* The variables have their types in every reachable state.                *)
THEOREM TypeCorrect == Spec => []TypeOK
<1>1. Init => TypeOK
  BY InitIInv DEF IInv
<1> QED
  BY <1>1, TypeOKStep, PTL DEF Spec

-----------------------------------------------------------------------------

(* A poll becomes idle only after the last of its requests has ended, and  *)
(* an idle poll's requests start again only together with the poll.        *)
LEMMA NoOrphanStep ==
  TypeOK /\ NoOrphanRequests /\ [Next]_vars => NoOrphanRequests'
<1> SUFFICES ASSUME TypeOK, NoOrphanRequests, [Next]_vars,
                    NEW q \in Polls, phase'[q] = "idle"
             PROVE  CleanedUp(q)'
  BY DEF NoOrphanRequests
<1> USE DEF TypeOK, CleanedUp
<1>1. ASSUME NEW p \in Polls, TimerFires(p) \/ RequestRefresh(p)
      PROVE CleanedUp(q)'
  BY <1>1 DEF TimerFires, RequestRefresh, StartPoll, NoOrphanRequests
<1>2. ASSUME NEW p \in Polls, NEW S \in SUBSET Assets, AssetsAnswered(p, S)
      PROVE CleanedUp(q)'
  BY <1>2 DEF AssetsAnswered, NoOrphanRequests
<1>3. ASSUME NEW p \in Polls, NEW r \in Requests,
             OtherAnswered(p, r) \/ RequestCleanedUp(p, r)
      PROVE CleanedUp(q)'
  BY <1>3 DEF OtherAnswered, RequestCleanedUp, NoOrphanRequests
<1>4. ASSUME NEW p \in Polls, NEW r \in Requests, NEW failure \in Failures,
             GatherFails(p, r, failure)
      PROVE CleanedUp(q)'
  BY <1>4 DEF GatherFails, NoOrphanRequests
<1>5. ASSUME NEW p \in Polls, CancelPoll(p) PROVE CleanedUp(q)'
  BY <1>5 DEF CancelPoll, NoOrphanRequests
<1>6. ASSUME NEW p \in Polls, PollReturns(p) PROVE CleanedUp(q)'
  <2>1. CleanedUp(p)
    BY <1>6 DEF PollReturns, Publish, RefuseOverBudget, PollFails,
                PollCancelled, Gathered
  <2>2. Return(p)
    BY <1>6 DEF PollReturns, Publish, RefuseOverBudget, PollFails, PollCancelled
  <2> QED
    BY <2>1, <2>2 DEF Return, NoOrphanRequests
<1>7. CASE UNCHANGED <<phase, request>>
  BY <1>7 DEF NoOrphanRequests
<1> QED
  BY <1>1, <1>2, <1>3, <1>4, <1>5, <1>6, <1>7
     DEF Next, RequestEnds, RequestFails, ResponseTooLarge, Tick, HubSettles,
         Unload, vars, pollVars

(* A poll returns only when every request it sent has ended.               *)
THEOREM NoOrphans == Spec => []NoOrphanRequests
<1>1. Init => NoOrphanRequests
  BY InitIInv DEF IInv
<1> QED
  BY <1>1, TypeCorrect, NoOrphanStep, PTL DEF Spec

-----------------------------------------------------------------------------

(* Only a bounded answer is kept, and a returning poll drops it.           *)
LEMMA AnswersFitStep == TypeOK /\ AnswersFit /\ [Next]_vars => AnswersFit'
<1> SUFFICES ASSUME TypeOK, AnswersFit, [Next]_vars, NEW q \in Polls
             PROVE  Cardinality(fetched'[q]) <= MaxAssets
  BY DEF AnswersFit
<1>1. Cardinality({}) <= MaxAssets
  BY FS_EmptySet, BoundsAssumption
<1>2. \/ fetched' = fetched
      \/ \E p \in Polls : fetched' = [fetched EXCEPT ![p] = {}]
      \/ \E p \in Polls : \E S \in SUBSET Assets :
            Cardinality(S) <= MaxAssets /\ fetched' = [fetched EXCEPT ![p] = S]
  BY DEF Next, RequestEnds, PollReturns, TimerFires, RequestRefresh, StartPoll,
         AssetsAnswered, OtherAnswered, RequestFails, ResponseTooLarge,
         GatherFails, RequestCleanedUp, CancelPoll, Publish, RefuseOverBudget,
         PollFails, PollCancelled, Return, Tick, HubSettles, Unload, vars,
         pollVars
<1> QED
  BY <1>1, <1>2 DEF AnswersFit, TypeOK

(* The steps that touch neither history nor memory: all but publishing and *)
(* the passing of time.                                                    *)
LEMMA OtherSteps ==
  ASSUME [Next]_vars, ~Tick, \A p \in Polls : ~Publish(p)
  PROVE  UNCHANGED <<seen, data, published>>
BY DEF Next, RequestEnds, PollReturns, TimerFires, RequestRefresh, StartPoll,
       AssetsAnswered, OtherAnswered, RequestFails, ResponseTooLarge,
       GatherFails, RequestCleanedUp, CancelPoll, RefuseOverBudget, PollFails,
       PollCancelled, HubSettles, Unload, vars, outVars

(* Once publishing has charged its answer, the remembered identities in    *)
(* the window are exactly the charged ones, all with their new ages.       *)
LEMMA PublishRecent ==
  ASSUME TypeOK, Faithful, NEW p \in Polls, Publish(p)
  PROVE  Faithful' /\ Recent' = Recent \cup fetched[p] /\ Recent' = Charged(p)
<1> USE WindowAssumption DEF TypeOK
<1>1. Recent' = Recent \cup fetched[p]
  BY DEF Publish, Recent
<1>2. Charged(p) = Recent \cup fetched[p]
  BY DEF Charged, Faithful
<1>3. DOMAIN seen' = Charged(p)
  BY DEF Publish, Recharged
<1>4. \A a \in Charged(p) : seen'[a] = published'[a] /\ seen'[a] <= Window
  BY <1>2 DEF Publish, Recharged, Faithful, Recent
<1> QED
  BY <1>1, <1>2, <1>3, <1>4 DEF Faithful, InWindow

(* Time ages what is remembered and what was published alike.              *)
LEMMA TickFaithful ==
  ASSUME TypeOK, Faithful, Tick
  PROVE  Faithful' /\ Recent' \subseteq Recent
<1> USE WindowAssumption DEF TypeOK, Tick, Older
<1>1. \A a \in Assets : published'[a] = Older(published[a])
  OBVIOUS
<1>2. DOMAIN seen' = DOMAIN seen
  OBVIOUS
<1>3. \A a \in DOMAIN seen : seen'[a] = Older(seen[a])
  OBVIOUS
<1>4. Recent' \subseteq Recent
  BY <1>1 DEF Recent
<1>5. InWindow(seen') \subseteq InWindow(seen)
  BY <1>2, <1>3 DEF InWindow
<1>6. \A a \in Recent : a \in DOMAIN seen /\ seen'[a] = published'[a]
  BY <1>1, <1>3 DEF Faithful, InWindow, Recent
<1>7. InWindow(seen') = Recent'
  BY <1>2, <1>4, <1>5, <1>6 DEF Faithful, InWindow, Recent
<1> QED
  BY <1>4, <1>6, <1>7 DEF Faithful, InWindow

(* What was published within the window is bounded and remembered.         *)
LEMMA IInvStep == IInv /\ [Next]_vars => IInv'
<1> SUFFICES ASSUME IInv, [Next]_vars PROVE Faithful' /\ IdentityBudget'
  BY TypeOKStep, NoOrphanStep, AnswersFitStep DEF IInv
<1>1. ASSUME NEW p \in Polls, Publish(p) PROVE Faithful' /\ IdentityBudget'
  <2>1. Faithful' /\ Recent' = Charged(p)
    BY <1>1, PublishRecent DEF IInv
  <2> QED
    BY <1>1, <2>1 DEF Publish, IdentityBudget
<1>2. CASE Tick
  <2>1. Faithful' /\ Recent' \subseteq Recent
    BY <1>2, TickFaithful DEF IInv
  <2>2. IsFiniteSet(Recent)
    BY AssetsAssumption, FS_Subset DEF Recent
  <2>3. Cardinality(Recent') <= Cardinality(Recent)
    BY <2>1, <2>2, FS_Subset
  <2>4. Cardinality(Recent') \in Nat /\ Cardinality(Recent) \in Nat
    BY <2>1, <2>2, FS_Subset, FS_CardinalityType
  <2> QED
    BY <2>1, <2>3, <2>4, BoundsAssumption DEF IInv, IdentityBudget
<1>3. CASE UNCHANGED <<seen, published>>
  BY <1>3 DEF IInv, Faithful, IdentityBudget, Recent, InWindow
<1> QED
  BY <1>1, <1>2, <1>3, OtherSteps

(* The inductive invariant holds in every reachable state.                 *)
THEOREM Invariance == Spec => []IInv
BY InitIInv, IInvStep, PTL DEF Spec

(* However polls fail, overlap or are refused, no window ever contains     *)
(* publications of more distinct assets than the budget.                   *)
THEOREM BudgetHolds == Spec => []IdentityBudget
<1>1. IInv => IdentityBudget
  BY DEF IInv
<1> QED
  BY <1>1, Invariance, PTL

-----------------------------------------------------------------------------
(* Action properties.                                                      *)

(* A refusal is never due to identities that were not published.           *)
THEOREM RefusalsAreHonest == Spec => RefusalIsHonest
<1>1. ASSUME IInv, [Next]_vars
      PROVE [\A p \in Polls : RefuseOverBudget(p) =>
               Cardinality(Recent \cup fetched[p]) > MaxIdentities]_vars
  BY <1>1 DEF RefuseOverBudget, Charged, IInv, Faithful
<1> QED
  BY <1>1, Invariance, PTL DEF Spec, RefusalIsHonest

(* Only the return of a poll with all three answers changes the snapshot   *)
(* or the set of remembered identities.                                    *)
THEOREM WholePollsPublish == Spec => OnlyWholePollsPublish
<1>1. ASSUME TypeOK, [Next]_vars
      PROVE [(data' # data \/ DOMAIN seen' # DOMAIN seen) =>
               \E p \in Polls : /\ Gathered(p)
                                /\ phase'[p] = "idle"
                                /\ data' = fetched[p]
                                /\ ok']_vars
  <2>1. CASE \E p \in Polls : Publish(p)
    BY <1>1, <2>1 DEF Publish, Return, TypeOK
  <2>2. CASE Tick
    BY <2>2 DEF Tick
  <2>3. CASE UNCHANGED <<seen, data>>
    BY <2>3
  <2> QED
    BY <1>1, <2>1, <2>2, <2>3, OtherSteps
<1> QED
  BY <1>1, TypeCorrect, PTL DEF Spec, OnlyWholePollsPublish

-----------------------------------------------------------------------------
(* Refinement.                                                             *)

(* The publisher counts as the coordinator does.                           *)
LEMMA SameCardinality ==
  ASSUME NEW S
  PROVE  Publisher!Cardinality(S) = Cardinality(S)
BY DEF Cardinality, Publisher!Cardinality, IsFiniteSet, Publisher!IsFiniteSet

(* The coordinator implements the budgeted publisher: an update is a       *)
(* publishing poll, a failed update a poll that fails or is refused, and   *)
(* ageing is the passing of time; every other step is invisible.           *)
THEOREM Refinement == Spec => ImplementsPublisher
<1>1. Init => Publisher!PubInit
  BY WindowAssumption DEF Init, Publisher!PubInit, Recent
<1>2. ASSUME IInv, [Next]_vars
      PROVE [Publisher!PubNext]_(Publisher!pubVars)
  <2> USE DEF Publisher!PubNext, Publisher!pubVars
  <2>1. ASSUME NEW p \in Polls, Publish(p) PROVE Publisher!PubNext
    <3>1. Recent' = Recent \cup fetched[p] /\ Recent' = Charged(p)
      BY <1>2, <2>1, PublishRecent DEF IInv
    <3>2. Cardinality(fetched[p]) <= MaxAssets /\ fetched[p] \in SUBSET Assets
      BY <1>2 DEF IInv, AnswersFit, TypeOK
    <3>3. Cardinality(Recent \cup fetched[p]) <= MaxIdentities
      BY <2>1, <3>1 DEF Publish
    <3>4. Publisher!Update(fetched[p])
      BY <2>1, <3>1, <3>2, <3>3, SameCardinality DEF Publish, Publisher!Update
    <3> QED
      BY <3>2, <3>4
  <2>2. CASE Tick
    <3>1. Recent' \subseteq Recent
      BY <1>2, <2>2, TickFaithful DEF IInv
    <3> QED
      BY <2>2, <3>1 DEF Tick, Publisher!AgeOut
  <2>3. CASE ~Tick /\ \A p \in Polls : ~Publish(p)
    <3>1. UNCHANGED <<data, Recent>>
      BY <1>2, <2>3, OtherSteps DEF Recent
    <3>2. ok' = ok \/ ok' = FALSE
      BY <1>2, <2>3
         DEF Next, RequestEnds, PollReturns, TimerFires, RequestRefresh,
             StartPoll, AssetsAnswered, OtherAnswered, RequestFails,
             ResponseTooLarge, GatherFails, RequestCleanedUp, CancelPoll,
             RefuseOverBudget, PollFails, PollCancelled, HubSettles, Unload,
             vars, outVars
    <3> QED
      BY <3>1, <3>2 DEF Publisher!UpdateFailed
  <2> QED
    BY <1>2, <2>1, <2>2, <2>3
<1> QED
  BY <1>1, <1>2, Invariance, PTL DEF Spec, ImplementsPublisher, Publisher!PubSpec

=============================================================================
