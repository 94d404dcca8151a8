-------------------------- MODULE ConfigEntriesProofs --------------------------
(***************************************************************************)
(* Proofs about ConfigEntries, for any finite set of entries, any flows    *)
(* and Hub URLs, and any number of edits.                                  *)
(*                                                                         *)
(* The three properties speak of entries at rest or of one moment; what    *)
(* carries them from one await to the next is in IInv: a setup under way   *)
(* has a stored entry, a flow that changes an entry has one to change, a   *)
(* setup no reload will repeat has read what is still configured, and the  *)
(* service is right unless an entry in hass.data has yet to be synced.     *)
(***************************************************************************)
EXTENDS ConfigEntries, FiniteSetTheorems, TLAPS

HasClient(e) == phase[e] \in {"refresh", "platforms", "loaded", "unloading"}

SetupsAreStored ==
    \A e \in Entries :
        /\ phase[e] # "unloaded" => entry[e] # None
        /\ HasClient(e) => client[e] # None

FlowsAreStored ==
    \A f \in OpenFlows :
        flow[f].kind \in {"reconfigure", "reauth"} => flow[f].entry \in Stored

HasRead(e) == phase[e] \in {"refresh", "platforms", "loaded"}

ReadIsCurrent ==
    \A e \in Entries : wish[e] = "none" =>
        /\ phase[e] = "ca" => ca[e] = entry[e].ca
        /\ HasRead(e) => /\ client[e].host = entry[e].host
                         /\ client[e].ca = entry[e].ca
                         /\ reloadsItself => client[e].ignore = entry[e].ignore

Enabled == \E e \in Entries : InHassData(e) /\ entry[e].action

ServiceInSync ==
    (\A e \in Entries : InHassData(e) => AtRest(e)) => (service <=> Enabled)

IInv ==
    /\ TypeOK
    /\ SetupsAreStored
    /\ FlowsAreStored
    /\ ReadIsCurrent
    /\ ServiceInSync

-----------------------------------------------------------------------------

(* Initially no entry is set up and no flow is open.                       *)
LEMMA InitIInv == Init => IInv
<1> SUFFICES ASSUME Init PROVE IInv
  OBVIOUS
<1>1. /\ phase = [e \in Entries |-> "unloaded"]
      /\ ca = [e \in Entries |-> FALSE]
      /\ client = [e \in Entries |-> None]
      /\ wish = [e \in Entries |-> "none"]
      /\ flow = [f \in Flows |-> None]
      /\ service = FALSE /\ reloadsItself \in BOOLEAN /\ edits = 0
  BY DEF Init
<1>2. entry \in [Entries -> TypeEntry \cup {None}]
  <2> DEFINE Fresh ==
        {WithAction([host |-> h, ca |-> FALSE, ignore |-> FALSE], TRUE) : h \in Hosts}
  <2>1. Fresh \subseteq TypeEntry
    <3>1. \A h \in Hosts :
            WithAction([host |-> h, ca |-> FALSE, ignore |-> FALSE], TRUE) \in TypeEntry
      BY DEF TypeEntry, WithAction
    <3> QED
      BY <3>1, Zenon
  <2>2. entry \in [Entries -> {None} \cup Fresh]
    BY DEF Init
  <2> HIDE DEF Fresh
  <2> QED
    BY <2>1, <2>2
<1>3. \A e \in Entries : ~InHassData(e)
  BY <1>1 DEF InHassData
<1>4. TypeOK
  <2>1. phase \in [Entries -> Phases] /\ wish \in [Entries -> Wishes]
    BY <1>1 DEF Phases, Wishes
  <2>2. edits \in 0 .. MaxEdits
    BY <1>1, EditsAssumption
  <2> QED
    BY <1>1, <1>2, <1>3, <2>1, <2>2, Zenon DEF TypeOK
<1>5. SetupsAreStored /\ FlowsAreStored /\ ReadIsCurrent
  BY <1>1 DEF SetupsAreStored, HasClient, FlowsAreStored, OpenFlows,
     ReadIsCurrent, HasRead
<1>6. ServiceInSync
  BY <1>1, <1>3 DEF ServiceInSync, Enabled
<1> QED
  BY <1>4, <1>5, <1>6 DEF IInv

(* The client is built from the entry and the CA context loaded before.    *)
LEMMA BuiltClient ==
  ASSUME IInv, NEW e \in Entries, BuildClient(e)
  PROVE  /\ client'[e] \in Connections
         /\ client'[e].host = entry[e].host
         /\ client'[e].ca = ca[e]
         /\ client'[e].ignore = entry[e].ignore
<1> DEFINE c == Connection(entry[e])
<1>1. entry[e] \in TypeEntry
  BY DEF BuildClient, IInv, TypeOK, SetupsAreStored
<1>2. /\ c \in Connections
      /\ c.host = entry[e].host /\ c.ignore = entry[e].ignore
  BY <1>1 DEF Connection, TypeEntry, Connections
<1>3. client'[e] = [c EXCEPT !.ca = ca[e]]
  BY DEF BuildClient, Built, IInv, TypeOK
<1> HIDE DEF c
<1>4. ca[e] \in BOOLEAN
  BY DEF IInv, TypeOK
<1> QED
  BY <1>2, <1>3, <1>4 DEF Connections

(* A step of the setup, the unload or the removal of entry e keeps the     *)
(* types, and leaves every other entry alone.                              *)
LEMMA SetupStepTypes ==
  ASSUME IInv, NEW e \in Entries, SetupStep(e), UNCHANGED reloadsItself
  PROVE  /\ entry' \in [Entries -> TypeEntry \cup {None}]
         /\ phase' \in [Entries -> Phases]
         /\ ca' \in [Entries -> BOOLEAN]
         /\ client' \in [Entries -> Connections \cup {None}]
         /\ wish' \in [Entries -> Wishes]
         /\ UNCHANGED edits
         /\ \A d \in Entries \ {e} :
              /\ entry'[d] = entry[d] /\ phase'[d] = phase[d] /\ ca'[d] = ca[d]
              /\ client'[d] = client[d] /\ wish'[d] = wish[d]
<1> USE DEF IInv, TypeOK, Phases, Wishes, setup
<1>1. CASE BeginSetup(e)
  <2>1. entry[e].ca \in BOOLEAN
    BY <1>1 DEF BeginSetup, TypeEntry
  <2> QED
    BY <1>1, <2>1 DEF BeginSetup
<1>2. CASE BuildClient(e)
  <2>1. client'[e] \in Connections
    BY <1>2, BuiltClient
  <2>2. PICK c : client' = [client EXCEPT ![e] = c]
    BY <1>2 DEF BuildClient
  <2>3. c \in Connections
    BY <2>1, <2>2
  <2> QED
    BY <1>2, <2>2, <2>3 DEF BuildClient
<1>3. CASE SetupFails(e)
  BY <1>3 DEF SetupFails
<1>4. CASE FirstRefreshed(e) \/ PlatformsSetUp(e)
  BY <1>4 DEF FirstRefreshed, PlatformsSetUp
<1>5. CASE BeginUnload(e)
  BY <1>5 DEF BeginUnload
<1>6. CASE UnloadPlatforms(e) \/ ForgetWish(e) \/ DeleteEntry(e)
  BY <1>6 DEF UnloadPlatforms, ForgetWish, DeleteEntry
<1> QED
  BY <1>1, <1>2, <1>3, <1>4, <1>5, <1>6 DEF SetupStep

(* A setup in which an entry was stored goes on with it; an entry is       *)
(* forgotten only when it is not set up, and its flows with it.            *)
LEMMA SetupStepKeeps ==
  ASSUME IInv, NEW e \in Entries, SetupStep(e), UNCHANGED reloadsItself
  PROVE  IInv'
<1>1. /\ entry' \in [Entries -> TypeEntry \cup {None}]
      /\ phase' \in [Entries -> Phases]
      /\ ca' \in [Entries -> BOOLEAN]
      /\ client' \in [Entries -> Connections \cup {None}]
      /\ wish' \in [Entries -> Wishes]
      /\ UNCHANGED edits
      /\ \A d \in Entries \ {e} :
           /\ entry'[d] = entry[d] /\ phase'[d] = phase[d] /\ ca'[d] = ca[d]
           /\ client'[d] = client[d] /\ wish'[d] = wish[d]
  BY SetupStepTypes
<1>2. SetupsAreStored'
  <2> SUFFICES /\ phase'[e] # "unloaded" => entry'[e] # None
               /\ HasClient(e)' => client'[e] # None
    BY <1>1 DEF IInv, SetupsAreStored, HasClient
  <2>1. /\ phase[e] # "unloaded" => entry[e] # None
        /\ HasClient(e) => client[e] # None
    BY DEF IInv, SetupsAreStored
  <2> USE DEF IInv, TypeOK, HasClient, setup
  <2>2. CASE BeginSetup(e) \/ SetupFails(e)
    BY <2>1, <2>2 DEF BeginSetup, SetupFails
  <2>3. CASE BuildClient(e)
    <3>1. client'[e] \in Connections
      BY <2>1, <2>3, BuiltClient
    <3> QED
      BY <2>1, <2>3, <3>1, NoneAssumption DEF BuildClient
  <2>4. CASE FirstRefreshed(e) \/ PlatformsSetUp(e) \/ BeginUnload(e)
    BY <2>1, <2>4 DEF FirstRefreshed, PlatformsSetUp, BeginUnload
  <2>5. CASE UnloadPlatforms(e) \/ ForgetWish(e) \/ DeleteEntry(e)
    BY <2>1, <2>5 DEF UnloadPlatforms, ForgetWish, DeleteEntry
  <2> QED
    BY <2>2, <2>3, <2>4, <2>5 DEF SetupStep
<1>3. FlowsAreStored' /\ flow' \in [Flows -> {None} \cup
         [kind : {"user", "review", "reconfigure", "reauth"},
          entry : Entries \cup {None}, input : Connections]]
  <2>1. CASE DeleteEntry(e)
    BY <2>1 DEF DeleteEntry, IInv, TypeOK, FlowsAreStored, OpenFlows, Stored
  <2>2. CASE ~DeleteEntry(e)
    <3>1. UNCHANGED <<entry, flow>>
      BY <2>2 DEF SetupStep, BeginSetup, BuildClient, SetupFails, FirstRefreshed,
         PlatformsSetUp, BeginUnload, UnloadPlatforms, ForgetWish, setup
    <3> QED
      BY <3>1 DEF IInv, TypeOK, FlowsAreStored, OpenFlows, Stored
  <2> QED
    BY <2>1, <2>2
<1>4. ReadIsCurrent'
  <2> SUFFICES ASSUME wish'[e] = "none"
               PROVE  /\ phase'[e] = "ca" => ca'[e] = entry'[e].ca
                      /\ HasRead(e)' => /\ client'[e].host = entry'[e].host
                                        /\ client'[e].ca = entry'[e].ca
                                        /\ reloadsItself => client'[e].ignore = entry'[e].ignore
    BY <1>1 DEF IInv, ReadIsCurrent, HasRead
  <2> USE DEF IInv, TypeOK, HasRead, setup
  <2>1. wish[e] = "none" =>
          /\ phase[e] = "ca" => ca[e] = entry[e].ca
          /\ HasRead(e) => /\ client[e].host = entry[e].host
                           /\ client[e].ca = entry[e].ca
                           /\ reloadsItself => client[e].ignore = entry[e].ignore
    BY DEF ReadIsCurrent
  <2>2. CASE BeginSetup(e) \/ SetupFails(e)
    BY <2>2 DEF BeginSetup, SetupFails
  <2>3. CASE BuildClient(e)
    <3>1. /\ client'[e].host = entry[e].host /\ client'[e].ca = ca[e]
          /\ client'[e].ignore = entry[e].ignore
      BY <2>3, BuiltClient
    <3> QED
      BY <2>1, <2>3, <3>1 DEF BuildClient
  <2>4. CASE FirstRefreshed(e) \/ PlatformsSetUp(e)
    BY <2>1, <2>4 DEF FirstRefreshed, PlatformsSetUp
  <2>5. CASE BeginUnload(e)
    BY <2>5 DEF BeginUnload
  <2>6. CASE UnloadPlatforms(e) \/ ForgetWish(e) \/ DeleteEntry(e)
    BY <2>6 DEF UnloadPlatforms, ForgetWish, DeleteEntry
  <2> QED
    BY <2>2, <2>3, <2>4, <2>5, <2>6 DEF SetupStep
<1>5. ServiceInSync' /\ service' \in BOOLEAN
  <2> USE DEF IInv, TypeOK, InHassData, AtRest, setup
  <2>1. CASE PlatformsSetUp(e)
    <3>1. service' <=> Enabled
      BY <2>1 DEF PlatformsSetUp, SyncedService, Enabled
    <3>2. Enabled' <=> Enabled
      BY <2>1 DEF PlatformsSetUp, Enabled
    <3>3. service' \in BOOLEAN
      BY <2>1, Zenon DEF PlatformsSetUp, SyncedService
    <3> QED
      BY <3>1, <3>2, <3>3 DEF ServiceInSync
  <2>2. CASE UnloadPlatforms(e)
    <3>1. service' <=> Enabled'
      BY <2>2 DEF UnloadPlatforms, SyncedService, Enabled
    <3>2. service' \in BOOLEAN
      BY <2>2, Zenon DEF UnloadPlatforms, SyncedService
    <3> QED
      BY <3>1, <3>2 DEF ServiceInSync
  <2>3. CASE FirstRefreshed(e) \/ BeginUnload(e)
    <3>1. InHassData(e)' /\ ~AtRest(e)' /\ service' = service
      BY <2>3 DEF FirstRefreshed, BeginUnload
    <3> QED
      BY <3>1 DEF ServiceInSync
  <2>4. CASE BeginSetup(e) \/ BuildClient(e) \/ SetupFails(e) \/ ForgetWish(e) \/ DeleteEntry(e)
    <3>1. ~InHassData(e) /\ ~InHassData(e)' /\ service' = service
      BY <2>4 DEF BeginSetup, BuildClient, SetupFails, ForgetWish, DeleteEntry
    <3>2. \A d \in Entries : (InHassData(d)' <=> InHassData(d))
            /\ (InHassData(d) => (AtRest(d)' <=> AtRest(d)) /\ entry'[d] = entry[d])
      BY <1>1, <3>1
    <3>3. Enabled' <=> Enabled
      BY <3>2 DEF Enabled
    <3> QED
      BY <3>1, <3>2, <3>3 DEF ServiceInSync
  <2> QED
    BY <2>1, <2>2, <2>3, <2>4 DEF SetupStep
<1> QED
  <2>1. \A d \in Entries : InHassData(d)' => entry'[d] # None /\ client'[d] # None
    BY <1>2 DEF SetupsAreStored, HasClient, InHassData
  <2> QED
    BY <1>1, <1>2, <1>3, <1>4, <1>5, <2>1, Zenon DEF IInv, TypeOK

-----------------------------------------------------------------------------

(* What is known of the entries does not depend on the open flows.         *)
LEMMA FlowsAlone ==
  ASSUME IInv, UNCHANGED <<entry, setup, wish, service, reloadsItself>>
  PROVE  SetupsAreStored' /\ ReadIsCurrent' /\ ServiceInSync'
<1>1. SetupsAreStored'
  BY DEF IInv, SetupsAreStored, HasClient, setup
<1>2. ReadIsCurrent'
  BY DEF IInv, ReadIsCurrent, HasRead, setup
<1>3. ServiceInSync'
  BY DEF IInv, ServiceInSync, Enabled, InHassData, AtRest, setup
<1> QED
  BY <1>1, <1>2, <1>3

(* Submitted input is kept as it was checked, and a flow that changes an   *)
(* entry is opened for a stored one.                                       *)
LEMMA SubmitKeeps ==
  ASSUME IInv, NEW f \in Flows,
         NEW kind \in {"user", "reconfigure", "reauth"},
         NEW e \in Entries \cup {None}, NEW c \in Connections,
         Submit(f, kind, e, c), kind = "user" \/ e \in Stored,
         UNCHANGED reloadsItself
  PROVE  IInv'
<1> DEFINE FlowTypes == {None} \cup
         [kind : {"user", "review", "reconfigure", "reauth"},
          entry : Entries \cup {None}, input : Connections]
           new == [kind |-> kind, entry |-> e, input |-> c]
<1>1. new \in FlowTypes /\ new.kind = kind /\ new.entry = e
  OBVIOUS
<1>2. /\ flow \in [Flows -> FlowTypes] /\ flow' = [flow EXCEPT ![f] = new]
      /\ UNCHANGED <<entry, setup, wish, service, edits, reloadsItself>>
  BY DEF IInv, TypeOK, Submit
<1> HIDE DEF new, FlowTypes
<1>3. flow' \in [Flows -> FlowTypes]
  BY <1>1, <1>2
<1>4. FlowsAreStored'
  BY <1>1, <1>2 DEF IInv, FlowsAreStored, OpenFlows, Stored
<1>5. TypeOK'
  BY <1>2, <1>3, Zenon DEF IInv, TypeOK, FlowTypes, InHassData, setup
<1>6. SetupsAreStored' /\ ReadIsCurrent' /\ ServiceInSync'
  BY <1>2, FlowsAlone
<1> QED
  BY <1>4, <1>5, <1>6 DEF IInv

(* Only the key and the certificate setting of an entry are asked for.     *)
LEMMA ReauthInput ==
  ASSUME IInv, NEW e \in Stored, NEW ignore \in BOOLEAN
  PROVE  [Connection(entry[e]) EXCEPT !.ignore = ignore] \in Connections
<1> DEFINE c == Connection(entry[e])
<1>1. entry[e] \in TypeEntry
  BY DEF IInv, TypeOK, Stored
<1>2. c \in Connections
  BY <1>1 DEF Connection, TypeEntry, Connections
<1> HIDE DEF c
<1>3. [c EXCEPT !.ignore = ignore] \in Connections
  BY <1>2 DEF Connections
<1> QED
  BY <1>3 DEF c

(* The end of a flow, or its review, concerns no entry yet.                *)
LEMMA FlowOnlyKeeps ==
  ASSUME IInv, NEW f \in Flows, FlowEnds(f) \/ UserPreviewed(f),
         UNCHANGED reloadsItself
  PROVE  IInv'
<1> DEFINE FlowTypes == {None} \cup
         [kind : {"user", "review", "reconfigure", "reauth"},
          entry : Entries \cup {None}, input : Connections]
<1>1. /\ flow \in [Flows -> FlowTypes]
      /\ UNCHANGED <<entry, setup, wish, service, edits, reloadsItself>>
  BY DEF IInv, TypeOK, FlowEnds, UserPreviewed
<1>2. flow' \in [Flows -> FlowTypes]
  BY <1>1 DEF FlowEnds, UserPreviewed
<1>3. /\ \A g \in Flows \ {f} : flow'[g] = flow[g]
      /\ flow'[f] = None \/ flow'[f].kind = "review"
  BY <1>1 DEF FlowEnds, UserPreviewed
<1> HIDE DEF FlowTypes
<1>4. FlowsAreStored'
  BY <1>1, <1>3 DEF IInv, FlowsAreStored, OpenFlows, Stored
<1>5. TypeOK'
  BY <1>1, <1>2, Zenon DEF IInv, TypeOK, FlowTypes, InHassData, setup
<1>6. SetupsAreStored' /\ ReadIsCurrent' /\ ServiceInSync'
  BY <1>1, FlowsAlone
<1> QED
  BY <1>4, <1>5, <1>6 DEF IInv

(* A new entry takes an ID that nothing is set up under.                   *)
LEMMA CreateEntryKeeps ==
  ASSUME IInv, NEW f \in Flows, CreateEntry(f), UNCHANGED reloadsItself
  PROVE  IInv'
<1>1. PICK e \in Entries \ Stored, action \in BOOLEAN :
        entry' = [entry EXCEPT ![e] = WithAction(flow[f].input, action)]
  BY DEF CreateEntry
<1> DEFINE new == WithAction(flow[f].input, action)
<1>2. /\ flow' = [flow EXCEPT ![f] = None]
      /\ edits' = edits + 1 /\ edits < MaxEdits
      /\ UNCHANGED <<setup, wish, service, reloadsItself>>
      /\ flow[f].input \in Connections
  BY DEF CreateEntry, IInv, TypeOK
<1>3. new \in TypeEntry
  BY <1>2 DEF WithAction, TypeEntry, Connections
<1> HIDE DEF new
<1>4. /\ entry' \in [Entries -> TypeEntry \cup {None}] /\ new # None
      /\ entry'[e] = new /\ \A d \in Entries \ {e} : entry'[d] = entry[d]
  BY <1>1, <1>3, NoneAssumption DEF IInv, TypeOK, new
<1>5. phase[e] = "unloaded"
  BY DEF IInv, SetupsAreStored, Stored
<1>6. SetupsAreStored'
  BY <1>2, <1>4 DEF IInv, SetupsAreStored, HasClient, setup
<1>7. FlowsAreStored'
  BY <1>2, <1>4 DEF IInv, TypeOK, FlowsAreStored, OpenFlows, Stored
<1>8. ReadIsCurrent'
  BY <1>2, <1>4, <1>5 DEF IInv, ReadIsCurrent, HasRead, setup
<1>9. ServiceInSync'
  BY <1>2, <1>4, <1>5 DEF IInv, ServiceInSync, Enabled, InHassData, AtRest, setup
<1>10. TypeOK'
  <2>1. edits' \in 0 .. MaxEdits
    BY <1>2, EditsAssumption DEF IInv, TypeOK
  <2>2. flow' \in [Flows -> {None} \cup
         [kind : {"user", "review", "reconfigure", "reauth"},
          entry : Entries \cup {None}, input : Connections]]
    BY <1>2 DEF IInv, TypeOK
  <2>3. \A d \in Entries : InHassData(d)' => entry'[d] # None /\ client'[d] # None
    BY <1>6 DEF SetupsAreStored, HasClient, InHassData
  <2> QED
    BY <1>2, <1>4, <2>1, <2>2, <2>3, Zenon DEF IInv, TypeOK, setup
<1> QED
  BY <1>6, <1>7, <1>8, <1>9, <1>10 DEF IInv

(* An entry that is changed stays stored, and unless only the certificate  *)
(* preference or the service was changed while it was not in hass.data, a  *)
(* reload will follow.                                                     *)
LEMMA ChangeKeeps ==
  ASSUME IInv, NEW e \in Stored, NEW new \in TypeEntry,
         entry' = [entry EXCEPT ![e] = new],
         \E w \in Wishes : wish' = [wish EXCEPT ![e] = w],
         \/ wish'[e] # "none"
         \/ /\ wish[e] = "none" /\ ~InHassData(e) /\ ~reloadsItself
            /\ new.host = entry[e].host /\ new.ca = entry[e].ca,
         \/ UNCHANGED flow
         \/ \E f \in Flows : flow' = [flow EXCEPT ![f] = None],
         edits < MaxEdits, edits' = edits + 1,
         UNCHANGED <<setup, service, reloadsItself>>
  PROVE  IInv'
<1>1. /\ entry' \in [Entries -> TypeEntry \cup {None}]
      /\ wish' \in [Entries -> Wishes]
      /\ e \in Entries /\ entry'[e] = new /\ new # None
      /\ \A d \in Entries \ {e} : entry'[d] = entry[d] /\ wish'[d] = wish[d]
      /\ UNCHANGED <<phase, ca, client, service, reloadsItself>>
  BY NoneAssumption DEF IInv, TypeOK, Stored, setup
<1>2. /\ flow' \in [Flows -> {None} \cup
         [kind : {"user", "review", "reconfigure", "reauth"},
          entry : Entries \cup {None}, input : Connections]]
      /\ \A f \in Flows : flow'[f] = flow[f] \/ flow'[f] = None
  BY DEF IInv, TypeOK
<1>3. SetupsAreStored'
  BY <1>1 DEF IInv, SetupsAreStored, HasClient
<1>4. FlowsAreStored'
  <2> SUFFICES ASSUME NEW g \in Flows, flow'[g] # None,
                      flow'[g].kind \in {"reconfigure", "reauth"}
               PROVE  flow'[g].entry \in Entries /\ entry'[flow'[g].entry] # None
    BY DEF FlowsAreStored, OpenFlows, Stored
  <2>1. flow'[g] = flow[g]
    BY <1>2
  <2>2. flow[g].entry \in Entries /\ entry[flow[g].entry] # None
    BY <2>1 DEF IInv, FlowsAreStored, OpenFlows, Stored
  <2> QED
    BY <1>1, <2>1, <2>2
<1>5. ReadIsCurrent'
  <2> SUFFICES ASSUME NEW d \in Entries, wish'[d] = "none"
               PROVE  /\ phase[d] = "ca" => ca[d] = entry'[d].ca
                      /\ HasRead(d) => /\ client[d].host = entry'[d].host
                                       /\ client[d].ca = entry'[d].ca
                                       /\ reloadsItself => client[d].ignore = entry'[d].ignore
    BY <1>1 DEF ReadIsCurrent, HasRead
  <2>1. wish[d] = "none"
    BY <1>1
  <2>2. entry'[d].host = entry[d].host /\ entry'[d].ca = entry[d].ca
        /\ (reloadsItself => entry'[d].ignore = entry[d].ignore)
    BY <1>1
  <2> QED
    BY <2>1, <2>2 DEF IInv, ReadIsCurrent
<1>6. ServiceInSync'
  <2>1. CASE InHassData(e)
    <3>1. InHassData(e)' /\ ~AtRest(e)'
      BY <1>1, <2>1 DEF InHassData, AtRest
    <3> QED
      BY <1>1, <3>1 DEF ServiceInSync
  <2>2. CASE ~InHassData(e)
    <3>1. \A d \in Entries : (InHassData(d)' <=> InHassData(d))
            /\ (InHassData(d) => (AtRest(d)' <=> AtRest(d)) /\ entry'[d] = entry[d])
      BY <1>1, <2>2 DEF InHassData, AtRest
    <3>2. Enabled' <=> Enabled
      BY <3>1 DEF Enabled
    <3> QED
      BY <1>1, <3>1, <3>2 DEF IInv, ServiceInSync
  <2> QED
    BY <2>1, <2>2
<1>7. TypeOK'
  <2>1. edits' \in 0 .. MaxEdits
    BY EditsAssumption DEF IInv, TypeOK
  <2>2. \A d \in Entries : InHassData(d)' => entry'[d] # None /\ client'[d] # None
    BY <1>3 DEF SetupsAreStored, HasClient, InHassData
  <2> QED
    BY <1>1, <1>2, <2>1, <2>2, Zenon DEF IInv, TypeOK
<1> QED
  BY <1>3, <1>4, <1>5, <1>6, <1>7 DEF IInv

(* async_update_reload_and_abort stores the change and asks for a reload,  *)
(* which a removal overtakes.                                              *)
LEMMA UpdateAndReloadKeeps ==
  ASSUME IInv, NEW f \in Flows, flow[f] # None,
         flow[f].kind \in {"reconfigure", "reauth"},
         NEW new \in TypeEntry, UpdateAndReload(f, new),
         UNCHANGED reloadsItself
  PROVE  IInv'
<1> DEFINE e == flow[f].entry
           w == IF wish[e] = "remove" THEN "remove" ELSE "reload"
<1>1. e \in Stored /\ e \in Entries
  BY DEF IInv, FlowsAreStored, OpenFlows, Stored
<1>2. /\ entry' = [entry EXCEPT ![e] = new]
      /\ wish' = [wish EXCEPT ![e] = w]
      /\ flow' = [flow EXCEPT ![f] = None]
      /\ edits < MaxEdits /\ edits' = edits + 1
      /\ UNCHANGED <<setup, service, reloadsItself>>
  BY DEF UpdateAndReload
<1>3. w \in Wishes /\ w # "none"
  BY DEF Wishes
<1> HIDE DEF e, w
<1>4. wish'[e] # "none" /\ \E v \in Wishes : wish' = [wish EXCEPT ![e] = v]
  BY <1>1, <1>2, <1>3 DEF IInv, TypeOK
<1> QED
  BY <1>1, <1>2, <1>4, ChangeKeeps

(* Each flow's step.                                                       *)
LEMMA FlowStepKeeps ==
  ASSUME IInv, NEW f \in Flows, FlowStep(f), UNCHANGED reloadsItself
  PROVE  IInv'
<1>1. CASE SubmitUser(f)
  <2>1. PICK c \in Connections : Submit(f, "user", None, c)
    BY <1>1 DEF SubmitUser
  <2> QED
    BY <2>1, SubmitKeeps
<1>2. CASE SubmitReconfigure(f)
  <2>1. PICK e \in Stored, c \in Connections : Submit(f, "reconfigure", e, c)
    BY <1>2 DEF SubmitReconfigure
  <2>2. e \in Entries
    BY DEF Stored
  <2> QED
    BY <2>1, <2>2, SubmitKeeps
<1>3. CASE SubmitReauth(f)
  <2>1. PICK e \in Stored, ignore \in BOOLEAN :
          Submit(f, "reauth", e, [Connection(entry[e]) EXCEPT !.ignore = ignore])
    BY <1>3 DEF SubmitReauth
  <2>2. e \in Entries
    BY DEF Stored
  <2>3. PICK c \in Connections : Submit(f, "reauth", e, c)
    BY <2>1, ReauthInput
  <2> QED
    BY <2>2, <2>3, SubmitKeeps
<1>4. CASE FlowEnds(f) \/ UserPreviewed(f)
  BY <1>4, FlowOnlyKeeps
<1>5. CASE CreateEntry(f)
  BY <1>5, CreateEntryKeeps
<1>6. CASE Reconfigured(f)
  <2> DEFINE new == WithAction(flow[f].input, entry[flow[f].entry].action)
  <2>1. flow[f] # None /\ flow[f].kind = "reconfigure" /\ UpdateAndReload(f, new)
    BY <1>6 DEF Reconfigured
  <2>2. /\ flow[f].input \in Connections
        /\ entry[flow[f].entry] \in TypeEntry
    BY <2>1 DEF IInv, TypeOK, FlowsAreStored, OpenFlows, Stored
  <2>3. new \in TypeEntry
    BY <2>2 DEF WithAction, TypeEntry, Connections
  <2> QED
    BY <2>1, <2>3, UpdateAndReloadKeeps
<1>7. CASE Reauthenticated(f)
  <2> DEFINE old == entry[flow[f].entry]
             ignore == flow[f].input.ignore
  <2>1. /\ flow[f] # None /\ flow[f].kind = "reauth"
        /\ UpdateAndReload(f, [old EXCEPT !.ignore = ignore])
    BY <1>7 DEF Reauthenticated
  <2>2. flow[f].input \in Connections /\ old \in TypeEntry
    BY <2>1 DEF IInv, TypeOK, FlowsAreStored, OpenFlows, Stored
  <2>3. ignore \in BOOLEAN
    BY <2>2 DEF Connections
  <2> HIDE DEF old, ignore
  <2>4. [old EXCEPT !.ignore = ignore] \in TypeEntry
    BY <2>2, <2>3 DEF TypeEntry
  <2> QED
    BY <2>1, <2>4, UpdateAndReloadKeeps
<1> QED
  BY <1>1, <1>2, <1>3, <1>4, <1>5, <1>6, <1>7 DEF FlowStep

(* The options flow, and the wish to remove an entry.                      *)
LEMMA EditKeeps ==
  ASSUME IInv, NEW e \in Entries, RemoveEntry(e) \/ ChangeOptions(e),
         UNCHANGED reloadsItself
  PROVE  IInv'
<1>1. e \in Stored /\ entry[e] \in TypeEntry /\ edits < MaxEdits
      /\ edits' = edits + 1 /\ UNCHANGED <<setup, service, flow>>
  BY DEF RemoveEntry, ChangeOptions, Stored, IInv, TypeOK
<1>2. CASE RemoveEntry(e)
  <2>1. entry' = [entry EXCEPT ![e] = entry[e]]
    BY <1>2 DEF RemoveEntry, IInv, TypeOK
  <2>2. wish'[e] = "remove" /\ \E w \in Wishes : wish' = [wish EXCEPT ![e] = w]
    BY <1>2 DEF RemoveEntry, Wishes, IInv, TypeOK
  <2>3. wish'[e] # "none"
    BY <2>2
  <2> QED
    BY <1>1, <2>1, <2>2, <2>3, ChangeKeeps
<1>3. CASE ChangeOptions(e)
  <2>1. PICK ignore \in BOOLEAN, action \in BOOLEAN :
          entry' = [entry EXCEPT ![e].ignore = ignore, ![e].action = action]
    BY <1>3 DEF ChangeOptions
  <2> DEFINE new == entry'[e]
  <2>2. /\ new \in TypeEntry /\ new.host = entry[e].host /\ new.ca = entry[e].ca
        /\ entry' = [entry EXCEPT ![e] = new]
    <3> DEFINE old == entry[e]
               made == [[old EXCEPT !.ignore = ignore] EXCEPT !.action = action]
    <3>1. entry' = [entry EXCEPT ![e] = made]
      BY <2>1 DEF IInv, TypeOK
    <3>2. /\ made \in TypeEntry /\ made.host = old.host /\ made.ca = old.ca
      BY <1>1 DEF TypeEntry
    <3>3. entry'[e] = made
      BY <3>1 DEF IInv, TypeOK
    <3> QED
      BY <3>1, <3>2, <3>3
  <2>3. /\ \E w \in Wishes : wish' = [wish EXCEPT ![e] = w]
        /\ \/ wish'[e] # "none"
           \/ wish[e] = "none" /\ ~InHassData(e) /\ ~reloadsItself
    <3> DEFINE w == IF wish[e] = "none" /\ (reloadsItself \/ InHassData(e))
                      THEN "reload" ELSE wish[e]
    <3>1. wish' = [wish EXCEPT ![e] = w]
      BY <1>3 DEF ChangeOptions
    <3>2. w \in Wishes
      BY DEF Wishes, IInv, TypeOK
    <3>3. wish'[e] = w
      BY <3>1 DEF IInv, TypeOK
    <3>4. w # "none" \/ (wish[e] = "none" /\ ~InHassData(e) /\ ~reloadsItself)
      OBVIOUS
    <3> HIDE DEF w
    <3> QED
      BY <3>1, <3>2, <3>3, <3>4
  <2> HIDE DEF new
  <2> QED
    BY <1>1, <2>2, <2>3, ChangeKeeps
<1> QED
  BY <1>2, <1>3

(* Every step keeps the strengthened invariant.                            *)
LEMMA IInvStep == IInv /\ [Next]_vars => IInv'
<1> SUFFICES ASSUME IInv, [Next]_vars PROVE IInv'
  OBVIOUS
<1>1. CASE UNCHANGED vars
  <2>1. SetupsAreStored' /\ ReadIsCurrent' /\ ServiceInSync'
    BY <1>1, FlowsAlone DEF vars
  <2>2. TypeOK' /\ FlowsAreStored'
    BY <1>1, Zenon DEF IInv, TypeOK, InHassData, FlowsAreStored, OpenFlows, Stored,
       vars, setup
  <2> QED
    BY <2>1, <2>2 DEF IInv
<1> QED
  BY <1>1, SetupStepKeeps, FlowStepKeeps, EditKeeps DEF Next

(* The strengthened invariant holds in every reachable state.              *)
THEOREM Invariance == Spec => []IInv
  BY InitIInv, IInvStep, PTL DEF Spec

(* Every variable keeps its type, and an entry in hass.data is a stored    *)
(* one with a client (__init__.py:378-383).                                *)
THEOREM TypeCorrect == Spec => []TypeOK
<1>1. IInv => TypeOK
  BY DEF IInv
<1> QED
  BY <1>1, Invariance, PTL

(* When no entry is on its way, run_action is offered exactly if a loaded  *)
(* entry enables it, however the setups, reloads and removals of any       *)
(* number of entries overlapped (__init__.py:329-334).                     *)
THEOREM ServiceIsOffered == Spec => []ServiceFollowsEntries
<1>1. IInv => ServiceFollowsEntries
  <2> SUFFICES ASSUME IInv, \A e \in Entries : AtRest(e)
               PROVE  service = (\E e \in Entries : phase[e] = "loaded" /\ entry[e].action)
    BY DEF ServiceFollowsEntries
  <2>1. \A e \in Entries : InHassData(e) <=> phase[e] = "loaded"
    BY DEF AtRest, InHassData
  <2>2. service <=> Enabled
    BY DEF IInv, ServiceInSync
  <2>3. Enabled <=> \E e \in Entries : phase[e] = "loaded" /\ entry[e].action
    BY <2>1 DEF Enabled
  <2>4. service \in BOOLEAN
    BY DEF IInv, TypeOK
  <2> QED
    BY <2>2, <2>3, <2>4
<1> QED
  BY <1>1, Invariance, PTL

(* A loaded entry that no reload awaits talks to the Hub as configured,    *)
(* also when it was changed in the middle of its setup                     *)
(* (__init__.py:351-384).                                                  *)
THEOREM LoadedIsCurrent == Spec => []ClientIsCurrent
<1>1. IInv => ClientIsCurrent
  BY DEF IInv, ReadIsCurrent, HasRead, ClientIsCurrent
<1> QED
  BY <1>1, Invariance, PTL

(* A call that names an entry never reaches another, and every action goes *)
(* to the Hub, with the CA, that its entry is configured for now unless    *)
(* that entry is about to be reloaded or removed: what a setup reads       *)
(* between two awaits is still configured when it ends, or a reload is     *)
(* pending (__init__.py:101-137, 267-320, 351-384).                        *)
THEOREM ActionsArrive == Spec => []ActionsReachTheirHub
<1>1. IInv => ActionsReachTheirHub
  <2> SUFFICES ASSUME IInv, NEW owners \in SUBSET Entries,
                      NEW requested \in Entries \cup {None},
                      NEW e \in Targets(owners, requested)
               PROVE  /\ requested # None => e = requested
                      /\ \/ client[e].host = entry[e].host /\ client[e].ca = entry[e].ca
                         \/ wish[e] # "none" \/ phase[e] = "unloading"
    BY DEF ActionsReachTheirHub
  <2>1. /\ e \in Entries /\ InHassData(e)
        /\ requested # None => e = requested
    BY DEF Targets, Eligible
  <2>2. \/ client[e].host = entry[e].host /\ client[e].ca = entry[e].ca
        \/ wish[e] # "none" \/ phase[e] = "unloading"
    BY <2>1 DEF IInv, ReadIsCurrent, HasRead, InHassData
  <2> QED
    BY <2>1, <2>2
<1> QED
  BY <1>1, Invariance, PTL

=============================================================================
