------------------------- MODULE EntityRegistryProofs --------------------------
(***************************************************************************)
(* Proofs about EntityRegistry, for any assets, any profiles and any       *)
(* choices of platforms.                                                   *)
(*                                                                         *)
(* The properties speak of a loaded entry whose options have not changed   *)
(* since its setup.  The invariant says what holds from the first refresh  *)
(* on: which platforms listen and what each of them knows, that the        *)
(* entities of a platform that listens are running, and that the           *)
(* reconciliation has seen the data shown unless a poll was missed.        *)
(***************************************************************************)
EXTENDS EntityRegistry, TLAPS

Current == entry # "unloaded" /\ ~stale

(* An entry that is not set up has nothing running.                        *)
NothingRuns ==
    entry = "unloaded" =>
        /\ data = NoData /\ live = {}
        /\ platforms = {} /\ listening = {}
        /\ known = [p \in Platforms |-> {}]

(* From the first refresh on there is data, migration is over, and each    *)
(* listener knows the assets of the data that its platform has an entity   *)
(* for.                                                                    *)
ListenersKnow ==
    entry # "unloaded" =>
        /\ data \in Snapshots
        /\ legacy = {}
        /\ entry = "loaded" => platforms = Platforms
        /\ \A p \in Platforms :
             known[p] = IF p \in listening THEN Wanted(data, p) ELSE {}

(* With the options unchanged, the platforms that listen are the imported. *)
ImportsListen == Current => listening = platforms \cap imports

(* Their entities run.                                                     *)
EntitiesRun ==
    Current => \A p \in listening :
        {e \in PlatformEntities(data, p) : e[2] # "disk"} \subseteq live

(* A reconciliation that missed no poll has compared the registries with   *)
(* the data shown.                                                         *)
Reconciled ==
    Current /\ ~missed =>
        /\ inventory = Inventory(data)
        /\ records \subseteq Expected(data, imports)
        /\ devices \subseteq DOMAIN data

IInv ==
    /\ TypeOK /\ NothingRuns /\ ListenersKnow /\ ImportsListen
    /\ EntitiesRun /\ Reconciled /\ LiveEntitiesHaveRecords

-----------------------------------------------------------------------------
(* Lemmas about entities.                                                  *)

(* A platform's entity is a feature of an asset of the snapshot, or one of *)
(* the Hub's.                                                              *)
LEMMA PlatformEntity ==
  ASSUME NEW s, NEW p, NEW e
  PROVE  e \in PlatformEntities(s, p) <=>
           \/ \E a \in DOMAIN s : \E f \in Features(s[a], p) : e = <<a, f>>
           \/ \E f \in HubFeatures(p) : e = <<Hub, f>>
BY DEF PlatformEntities, EntitiesOf

(* An expected entity is one of an imported platform.                      *)
LEMMA ExpectedEntity ==
  ASSUME NEW s, NEW im, NEW e
  PROVE  e \in Expected(s, im) <=> \E p \in im : e \in PlatformEntities(s, p)
BY DEF Expected

(* It belongs to an asset of the snapshot, or to the Hub.                  *)
LEMMA ExpectedAsset ==
  ASSUME NEW s, NEW im, NEW e \in Expected(s, im)
  PROVE  e[1] \in DOMAIN s \cup {Hub}
<1>1. PICK p \in im : e \in PlatformEntities(s, p)
  BY ExpectedEntity
<1> QED
  BY <1>1, PlatformEntity

(* Fewer platforms have fewer entities, all of them known to TypeOK.       *)
LEMMA ExpectedType ==
  ASSUME NEW s \in Snapshots, NEW im \in SUBSET Platforms
  PROVE  /\ Expected(s, im) \subseteq Expected(s, Platforms)
         /\ Expected(s, im) \subseteq AllEntities
<1>1. Expected(s, im) \subseteq Expected(s, Platforms)
  BY ExpectedEntity
<1>2. Expected(s, Platforms) \subseteq AllEntities
  BY DEF AllEntities
<1> QED
  BY <1>1, <1>2

(* A poll's new entities are features, on a listening platform, of assets  *)
(* of its snapshot that the platform did not know.                         *)
LEMMA NewEntity ==
  ASSUME NEW s, NEW e
  PROVE  e \in NewEntities(s) <=>
           \E p \in listening : \E a \in DOMAIN s \ known[p] :
             \E f \in Features(s[a], p) : e = <<a, f>>
<1>1. e \in NewEntities(s) <=>
        \E p \in listening : \E a \in Wanted(s, p) \ known[p] : e \in EntitiesOf(s, a, p)
  BY DEF NewEntities, Added
<1> QED
  BY <1>1 DEF Wanted, EntitiesOf

(* They are expected if the listening platforms are imported.              *)
LEMMA NewIsExpected ==
  ASSUME NEW s, NEW im, listening \subseteq im
  PROVE  NewEntities(s) \subseteq Expected(s, im)
BY NewEntity, PlatformEntity, ExpectedEntity

LEMMA NewAsset ==
  ASSUME NEW s, NEW e \in NewEntities(s)
  PROVE  e[1] \in DOMAIN s
BY NewEntity

(* What a poll can show.                                                   *)
LEMMA SnapshotType ==
  ASSUME NEW s \in Snapshots
  PROVE  /\ DOMAIN s \subseteq Assets
         /\ \A a \in DOMAIN s : s[a] \in Profiles
         /\ s # NoData
         /\ Hub \notin DOMAIN s
<1>1. PICK D \in SUBSET Assets : s \in [D -> Profiles]
  BY DEF Snapshots
<1> QED
  BY <1>1, NoDataAssumption, HubAssumption

(* An asset that keeps a feature on a platform keeps all but the disk.     *)
LEMMA SameFeatures ==
  ASSUME NEW x \in Profiles, NEW y \in Profiles, NEW p \in Platforms,
         NEW f \in Features(x, p), f # "disk", Features(y, p) # {}
  PROVE  f \in Features(y, p)
<1>1. /\ x \in {"vm", "docker-container", "docker-host", "node"}
      /\ y \in {"vm", "docker-container", "docker-host", "node"}
  BY ProfilesAssumption
<1>2. CASE p = "binary_sensor"
  BY <1>2 DEF Features
<1>3. CASE p = "sensor"
  <2>1. f \in Metrics(x) /\ Metrics(y) # {}
    BY <1>3 DEF Features
  <2>2. f = "usage"
    BY <1>1, <2>1 DEF Metrics
  <2>3. "usage" \in Metrics(y)
    BY <1>1, <2>1 DEF Metrics
  <2> QED
    BY <1>3, <2>2, <2>3 DEF Features
<1>4. CASE p = "switch"
  BY <1>4 DEF Features
<1> QED
  BY <1>2, <1>3, <1>4 DEF Platforms

-----------------------------------------------------------------------------

(* Before the first setup the registry is empty, or as a 1.x release left  *)
(* it.                                                                     *)
LEMMA InitIInv == Init => IInv
<1> SUFFICES ASSUME Init PROVE IInv
  OBVIOUS
<1>1. /\ entry = "unloaded" /\ imports = Platforms /\ stale = FALSE
      /\ data = NoData /\ ok = TRUE /\ platforms = {} /\ listening = {}
      /\ known = [p \in Platforms |-> {}] /\ inventory = NoData
      /\ live = {} /\ records = {} /\ missed = FALSE
      /\ legacy \in Legacies \cup {{}} /\ devices = {e[1] : e \in legacy} \ {Hub}
  BY DEF Init
<1>2. legacy \subseteq AllEntities /\ devices \subseteq Assets
  <2>1. CASE legacy = {}
    BY <1>1, <2>1
  <2>2. CASE legacy \in Legacies
    <3>1. PICK s \in Snapshots : legacy = Expected(s, Platforms)
      BY <2>2 DEF Legacies
    <3>2. legacy \subseteq AllEntities
      BY <3>1 DEF AllEntities
    <3>3. \A e \in legacy : e[1] \in Assets \cup {Hub}
      BY <3>1, ExpectedAsset, SnapshotType
    <3> QED
      BY <1>1, <3>2, <3>3
  <2> QED
    BY <1>1, <2>1, <2>2
<1>3. TypeOK
  BY <1>1, <1>2 DEF TypeOK
<1>4. NothingRuns /\ ListenersKnow /\ ImportsListen
  BY <1>1 DEF NothingRuns, ListenersKnow, ImportsListen, Current
<1>5. EntitiesRun /\ Reconciled /\ LiveEntitiesHaveRecords
  BY <1>1 DEF EntitiesRun, Reconciled, LiveEntitiesHaveRecords, Current
<1> QED
  BY <1>3, <1>4, <1>5 DEF IInv

(* What a poll adds and what it leaves.                                    *)
LEMMA PollAdds ==
  ASSUME IInv, NEW s \in Snapshots
  PROVE  /\ NewEntities(s) \subseteq AllEntities
         /\ \A e \in NewEntities(s) : e[1] \in DOMAIN s /\ e[1] \in Assets /\ e[1] # Hub
<1>1. NewEntities(s) \subseteq Expected(s, Platforms)
  BY NewIsExpected DEF IInv, TypeOK
<1>2. Expected(s, Platforms) \subseteq AllEntities
  BY DEF AllEntities
<1> QED
  BY <1>1, <1>2, NewAsset, SnapshotType

(* The variables but those of the registries keep their types.             *)
LEMMA SetupTypes ==
  IInv /\ [Next]_vars =>
    /\ entry' \in {"unloaded", "forwarding", "loaded"}
    /\ imports' \subseteq Platforms
    /\ stale' \in BOOLEAN
    /\ data' \in Snapshots \cup {NoData}
    /\ ok' \in BOOLEAN
    /\ platforms' \subseteq Platforms
    /\ listening' \subseteq platforms'
    /\ known' \in [Platforms -> SUBSET Assets]
    /\ inventory' \in (Snapshots \X SUBSET Platforms) \cup {NoData}
<1> SUFFICES ASSUME IInv, [Next]_vars
    PROVE /\ entry' \in {"unloaded", "forwarding", "loaded"}
          /\ imports' \subseteq Platforms
          /\ stale' \in BOOLEAN
          /\ data' \in Snapshots \cup {NoData}
          /\ ok' \in BOOLEAN
          /\ platforms' \subseteq Platforms
          /\ listening' \subseteq platforms'
          /\ known' \in [Platforms -> SUBSET Assets]
          /\ inventory' \in (Snapshots \X SUBSET Platforms) \cup {NoData}
  OBVIOUS
<1> USE DEF IInv, TypeOK, setupVars, regVars
<1>1. ASSUME NEW s \in Snapshots, NEW p
      PROVE  Wanted(s, p) \subseteq Assets
  BY SnapshotType DEF Wanted
<1>2. ASSUME NEW s \in Snapshots, FirstRefresh(s)
      PROVE  inventory' \in Snapshots \X SUBSET Platforms
  BY <1>2 DEF FirstRefresh, Inventory
<1>3. CASE \E s \in Snapshots : FirstRefresh(s)
  BY <1>2, <1>3 DEF FirstRefresh
<1>4. CASE \E s \in Snapshots : Refresh(s)
  <2>1. PICK s \in Snapshots : Refresh(s)
    BY <1>4
  <2>2. known' \in [Platforms -> SUBSET Assets]
    BY <1>1, <2>1 DEF Refresh, NowKnown
  <2>3. inventory' \in (Snapshots \X SUBSET Platforms) \cup {NoData}
    BY <2>1 DEF Refresh, Inventory
  <2> QED
    BY <2>1, <2>2, <2>3 DEF Refresh
<1>5. CASE \E p \in Platforms : SetUpPlatform(p)
  <2>1. PICK p \in Platforms : SetUpPlatform(p)
    BY <1>5
  <2>2. data \in Snapshots
    BY <2>1 DEF SetUpPlatform, ListenersKnow
  <2>3. known' \in [Platforms -> SUBSET Assets]
    BY <1>1, <2>1, <2>2 DEF SetUpPlatform
  <2> QED
    BY <2>1, <2>3 DEF SetUpPlatform
<1>6. CASE FinishSetup \/ RefreshFails
  BY <1>6 DEF FinishSetup, RefreshFails
<1>7. CASE \E choice \in Choices : ChangeOptions(choice)
  BY <1>7, ChoicesAssumption DEF ChangeOptions
<1>8. CASE Unload
  BY <1>8 DEF Unload
<1>9. CASE \E a \in Assets : UserRemovesDevice(a)
  BY <1>9 DEF UserRemovesDevice
<1>10. CASE UNCHANGED vars
  BY <1>10 DEF vars
<1> QED
  BY <1>3, <1>4, <1>5, <1>6, <1>7, <1>8, <1>9, <1>10 DEF Next

(* So do the registries.                                                   *)
LEMMA RegistryTypes ==
  IInv /\ [Next]_vars =>
    /\ live' \cup records' \cup legacy' \subseteq AllEntities
    /\ devices' \subseteq Assets
    /\ entry' = "loaded" => legacy' = {}
<1> SUFFICES ASSUME IInv, [Next]_vars
    PROVE /\ live' \cup records' \cup legacy' \subseteq AllEntities
          /\ devices' \subseteq Assets
          /\ entry' = "loaded" => legacy' = {}
  OBVIOUS
<1> USE DEF IInv, TypeOK, setupVars, regVars
<1>1. CASE \E s \in Snapshots : FirstRefresh(s)
  <2>1. PICK s \in Snapshots : FirstRefresh(s)
    BY <1>1
  <2>2. live' = live /\ legacy' = {} /\ devices' \subseteq devices
    BY <2>1 DEF FirstRefresh
  <2>3. records' \subseteq records \cup legacy
    BY <2>1 DEF FirstRefresh, Migrated
  <2> QED
    BY <2>2, <2>3
<1>2. CASE \E s \in Snapshots : Refresh(s)
  <2>1. PICK s \in Snapshots : Refresh(s)
    BY <1>2
  <2>2. legacy = {}
    BY <2>1 DEF Refresh, ListenersKnow
  <2>3. /\ live' \subseteq live \cup NewEntities(s)
        /\ records' \subseteq records \cup NewEntities(s)
        /\ legacy' = {}
        /\ devices' \subseteq devices \cup {e[1] : e \in NewEntities(s)}
    BY <2>1, <2>2 DEF Refresh, ReconcileAfter, KeepAll
  <2> QED
    BY <2>3, PollAdds
<1>3. CASE \E p \in Platforms : SetUpPlatform(p)
  <2>1. PICK p \in Platforms : SetUpPlatform(p)
    BY <1>3
  <2>2. data \in Snapshots /\ legacy = {}
    BY <2>1 DEF SetUpPlatform, ListenersKnow
  <2>3. /\ live' \subseteq live \cup PlatformEntities(data, p)
        /\ records' \subseteq records \cup PlatformEntities(data, p)
        /\ legacy' = legacy
        /\ devices' \subseteq devices \cup ({e[1] : e \in PlatformEntities(data, p)} \ {Hub})
    BY <2>1 DEF SetUpPlatform
  <2>4. PlatformEntities(data, p) \subseteq Expected(data, Platforms)
    BY ExpectedEntity
  <2>5. \A e \in PlatformEntities(data, p) : e[1] \in Assets \cup {Hub}
    BY <2>2, <2>4, ExpectedAsset, SnapshotType
  <2>6. PlatformEntities(data, p) \subseteq AllEntities
    BY <2>2, <2>4 DEF AllEntities
  <2> QED
    BY <2>2, <2>3, <2>5, <2>6
<1>4. CASE FinishSetup \/ RefreshFails
  BY <1>4 DEF FinishSetup, RefreshFails, ListenersKnow
<1>5. CASE \E choice \in Choices : ChangeOptions(choice)
  BY <1>5 DEF ChangeOptions
<1>6. CASE Unload
  BY <1>6 DEF Unload
<1>7. CASE \E a \in Assets : UserRemovesDevice(a)
  BY <1>7 DEF UserRemovesDevice
<1>8. CASE UNCHANGED vars
  BY <1>8 DEF vars
<1> QED
  BY <1>1, <1>2, <1>3, <1>4, <1>5, <1>6, <1>7, <1>8 DEF Next

-----------------------------------------------------------------------------

(* Which platforms listen, and what each of them knows.                    *)
LEMMA ListenersStep ==
  IInv /\ [Next]_vars => NothingRuns' /\ ListenersKnow' /\ ImportsListen'
<1> SUFFICES ASSUME IInv, [Next]_vars
    PROVE NothingRuns' /\ ListenersKnow' /\ ImportsListen'
  OBVIOUS
<1> USE DEF IInv, NothingRuns, ListenersKnow, ImportsListen, Current, setupVars, regVars
<1>1. CASE \E s \in Snapshots : FirstRefresh(s)
  BY <1>1 DEF FirstRefresh
<1>2. CASE \E s \in Snapshots : Refresh(s)
  <2>1. PICK s \in Snapshots : Refresh(s)
    BY <1>2
  <2>2. /\ data' = s /\ UNCHANGED <<entry, imports, stale, platforms, listening>>
        /\ entry # "unloaded"
        /\ known' = [p \in Platforms |-> IF p \in listening THEN Wanted(s, p) ELSE {}]
    BY <2>1 DEF Refresh, NowKnown
  <2>3. legacy' = {}
    BY <2>1, <2>2 DEF Refresh, ReconcileAfter, KeepAll
  <2>4. \A p \in Platforms : known'[p] = IF p \in listening' THEN Wanted(data', p) ELSE {}
    BY <2>2
  <2> QED
    BY <2>2, <2>3, <2>4
<1>3. CASE \E p \in Platforms : SetUpPlatform(p)
  <2>1. PICK p \in Platforms : SetUpPlatform(p)
    BY <1>3
  <2>2. /\ entry = "forwarding" /\ UNCHANGED <<entry, imports, stale, data, legacy>>
        /\ p \notin platforms /\ platforms' = platforms \cup {p}
    BY <2>1 DEF SetUpPlatform
  <2>3. \A q \in Platforms : known'[q] = IF q \in listening' THEN Wanted(data, q) ELSE {}
    BY <2>1, <2>2 DEF SetUpPlatform, TypeOK
  <2>4. listening' = listening \cup ({p} \cap imports)
    BY <2>1 DEF SetUpPlatform
  <2> QED
    BY <2>2, <2>3, <2>4
<1>4. CASE FinishSetup \/ RefreshFails
  BY <1>4 DEF FinishSetup, RefreshFails
<1>5. CASE \E choice \in Choices : ChangeOptions(choice)
  <2>1. PICK choice \in Choices : ChangeOptions(choice)
    BY <1>5
  <2>2. stale' <=> entry # "unloaded"
    BY <2>1 DEF ChangeOptions
  <2>3. UNCHANGED <<entry, data, ok, setupVars, regVars, missed>>
    BY <2>1 DEF ChangeOptions
  <2> QED
    BY <2>2, <2>3
<1>6. CASE Unload
  BY <1>6 DEF Unload
<1>7. CASE \E a \in Assets : UserRemovesDevice(a)
  BY <1>7 DEF UserRemovesDevice
<1>8. CASE UNCHANGED vars
  BY <1>8 DEF vars
<1> QED
  BY <1>1, <1>2, <1>3, <1>4, <1>5, <1>6, <1>7, <1>8 DEF Next

(* A poll leaves nothing to be made: an entity of its snapshot is new, or  *)
(* its asset was known and has it already.                                 *)
LEMMA NewOrRunning ==
  ASSUME IInv, Current, NEW s \in Snapshots, NEW p \in listening,
         NEW e \in PlatformEntities(s, p), e[2] # "disk"
  PROVE  e \in live \cup NewEntities(s)
<1>1. p \in Platforms /\ data \in Snapshots /\ known[p] = Wanted(data, p)
  BY DEF IInv, TypeOK, ListenersKnow, Current
<1>2. \A d \in PlatformEntities(data, p) : d[2] # "disk" => d \in live
  BY DEF IInv, EntitiesRun
<1>3. CASE \E f \in HubFeatures(p) : e = <<Hub, f>>
  BY <1>2, <1>3, PlatformEntity
<1>4. CASE \E a \in DOMAIN s : \E f \in Features(s[a], p) : e = <<a, f>>
  <2>1. PICK a \in DOMAIN s : \E f \in Features(s[a], p) : e = <<a, f>>
    BY <1>4
  <2>2. PICK f \in Features(s[a], p) : e = <<a, f>>
    BY <2>1
  <2>3. CASE a \in known[p]
    <3>1. a \in DOMAIN data /\ Features(data[a], p) # {}
      BY <1>1, <2>3 DEF Wanted
    <3>2. s[a] \in Profiles /\ data[a] \in Profiles
      BY <1>1, <3>1, SnapshotType
    <3>3. f \in Features(data[a], p)
      BY <1>1, <2>2, <3>1, <3>2, SameFeatures
    <3> QED
      BY <1>2, <2>2, <3>1, <3>3, PlatformEntity
  <2>4. CASE a \notin known[p]
    BY <2>2, <2>4, NewEntity
  <2> QED
    BY <2>3, <2>4
<1> QED
  BY <1>3, <1>4, PlatformEntity

(* The entities of a listening platform run.                               *)
LEMMA EntitiesStep == IInv /\ [Next]_vars => EntitiesRun'
<1> SUFFICES ASSUME IInv, [Next]_vars, Current',
                    NEW p \in listening', NEW e \in PlatformEntities(data', p),
                    e[2] # "disk"
    PROVE e \in live'
  BY Zenon DEF EntitiesRun
<1> USE DEF Current, setupVars, regVars
<1>1. (p \in listening /\ e \in PlatformEntities(data, p) /\ Current) => e \in live
  BY DEF IInv, EntitiesRun
<1>2. CASE \E s \in Snapshots : FirstRefresh(s)
  BY <1>2 DEF FirstRefresh, IInv, NothingRuns
<1>3. CASE \E s \in Snapshots : Refresh(s)
  <2>1. PICK s \in Snapshots : Refresh(s)
    BY <1>3
  <2>2. data' = s /\ UNCHANGED <<entry, imports, stale, listening>>
    BY <2>1 DEF Refresh
  <2>3. e \in live \cup NewEntities(s)
    BY <2>2, NewOrRunning
  <2>4. p \in imports
    BY <2>2 DEF IInv, ImportsListen
  <2>5. e \in Expected(s, imports)
    BY <2>2, <2>4, ExpectedEntity
  <2> QED
    BY <2>1, <2>3, <2>5 DEF Refresh, ReconcileAfter, KeepAll
<1>4. CASE \E q \in Platforms : SetUpPlatform(q)
  BY <1>1, <1>4 DEF SetUpPlatform
<1>5. CASE FinishSetup \/ RefreshFails
  BY <1>1, <1>5 DEF FinishSetup, RefreshFails
<1>6. CASE \E choice \in Choices : ChangeOptions(choice)
  BY <1>6 DEF ChangeOptions
<1>7. CASE Unload
  BY <1>7 DEF Unload
<1>8. CASE \E a \in Assets : UserRemovesDevice(a)
  <2>1. PICK a \in Assets : UserRemovesDevice(a)
    BY <1>8
  <2>2. /\ UNCHANGED <<entry, stale, data, listening>>
        /\ a \notin Reported /\ live' = {d \in live : d[1] # a}
    BY <2>1 DEF UserRemovesDevice
  <2>3. data \in Snapshots /\ data # NoData
    BY <2>2, NoDataAssumption DEF IInv, ListenersKnow
  <2>4. e[1] \in DOMAIN data \cup {Hub}
    BY <2>2, PlatformEntity
  <2>5. e[1] # a
    BY <2>2, <2>3, <2>4, HubAssumption DEF Reported
  <2> QED
    BY <1>1, <2>2, <2>5
<1>9. CASE UNCHANGED vars
  BY <1>1, <1>9 DEF vars
<1> QED
  BY <1>2, <1>3, <1>4, <1>5, <1>6, <1>7, <1>8, <1>9 DEF Next

(* A reconciliation that missed no poll leaves what the data names.        *)
LEMMA ReconciledStep == IInv /\ [Next]_vars => Reconciled'
<1> SUFFICES ASSUME IInv, [Next]_vars, Current', ~missed'
    PROVE /\ inventory' = Inventory(data)'
          /\ records' \subseteq Expected(data', imports')
          /\ devices' \subseteq DOMAIN data'
  BY DEF Reconciled
<1> USE DEF Current, Inventory, setupVars, regVars
<1>1. Current /\ ~missed => /\ inventory = <<data, imports>>
                           /\ records \subseteq Expected(data, imports)
                           /\ devices \subseteq DOMAIN data
  BY DEF IInv, Reconciled
<1>2. CASE \E s \in Snapshots : FirstRefresh(s)
  BY <1>2 DEF FirstRefresh
<1>3. CASE \E s \in Snapshots : Refresh(s)
  <2>1. PICK s \in Snapshots : Refresh(s)
    BY <1>3
  <2>2. data' = s /\ UNCHANGED <<entry, imports, stale>>
    BY <2>1 DEF Refresh
  <2>3. NewEntities(s) \subseteq Expected(s, imports)
    BY <2>2, NewIsExpected DEF IInv, ImportsListen
  <2>4. CASE entry = "loaded" /\ Inventory(s) # inventory
    <3>1. ReconcileAfter(s, NewEntities(s)) /\ inventory' = <<s, imports>>
      BY <2>1, <2>4 DEF Refresh
    <3> QED
      BY <2>2, <3>1 DEF ReconcileAfter
  <2>5. CASE ~(entry = "loaded" /\ Inventory(s) # inventory)
    <3>1. /\ KeepAll(NewEntities(s)) /\ UNCHANGED inventory
          /\ missed' = (missed \/ entry = "forwarding")
      BY <2>1, <2>5 DEF Refresh
    <3>2. ~missed /\ entry = "loaded"
      BY <2>2, <3>1 DEF IInv, TypeOK
    <3>3. s = data /\ inventory = <<s, imports>>
      BY <1>1, <2>2, <2>5, <3>2
    <3>4. \A e \in NewEntities(s) : e[1] \in DOMAIN s
      BY NewAsset
    <3> QED
      BY <1>1, <2>2, <2>3, <3>1, <3>2, <3>3, <3>4 DEF KeepAll
  <2> QED
    BY <2>4, <2>5
<1>4. CASE \E p \in Platforms : SetUpPlatform(p)
  <2>1. PICK p \in Platforms : SetUpPlatform(p)
    BY <1>4
  <2>2. UNCHANGED <<entry, imports, stale, data, inventory, missed>>
    BY <2>1 DEF SetUpPlatform
  <2>3. /\ records' \subseteq records \cup (IF p \in imports THEN PlatformEntities(data, p) ELSE {})
        /\ devices' \subseteq devices \cup ({e[1] : e \in PlatformEntities(data, p)} \ {Hub})
    BY <2>1 DEF SetUpPlatform
  <2>4. records' \subseteq Expected(data, imports)
    BY <1>1, <2>2, <2>3, ExpectedEntity
  <2>5. \A e \in PlatformEntities(data, p) : e[1] \in DOMAIN data \cup {Hub}
    BY PlatformEntity
  <2> QED
    BY <1>1, <2>2, <2>3, <2>4, <2>5
<1>5. CASE FinishSetup \/ RefreshFails
  BY <1>1, <1>5 DEF FinishSetup, RefreshFails, IInv, TypeOK
<1>6. CASE \E choice \in Choices : ChangeOptions(choice)
  BY <1>6 DEF ChangeOptions
<1>7. CASE Unload
  BY <1>7 DEF Unload
<1>8. CASE \E a \in Assets : UserRemovesDevice(a)
  BY <1>1, <1>8 DEF UserRemovesDevice
<1>9. CASE UNCHANGED vars
  BY <1>1, <1>9 DEF vars
<1> QED
  BY <1>2, <1>3, <1>4, <1>5, <1>6, <1>7, <1>8, <1>9 DEF Next

(* A running entity has its record and its device.                         *)
LEMMA LiveStep == IInv /\ [Next]_vars => LiveEntitiesHaveRecords'
<1> SUFFICES ASSUME IInv, [Next]_vars, NEW e \in live'
    PROVE e \in records' /\ (e[1] # Hub => e[1] \in devices')
  BY DEF LiveEntitiesHaveRecords
<1> USE DEF setupVars, regVars
<1>1. e \in live => e \in records /\ (e[1] # Hub => e[1] \in devices)
  BY DEF IInv, LiveEntitiesHaveRecords
<1>2. CASE \E s \in Snapshots : FirstRefresh(s)
  BY <1>2 DEF FirstRefresh, IInv, NothingRuns
<1>3. CASE \E s \in Snapshots : Refresh(s)
  <2>1. PICK s \in Snapshots : Refresh(s)
    BY <1>3
  <2>2. CASE KeepAll(NewEntities(s))
    BY <1>1, <2>2 DEF KeepAll
  <2>3. CASE ReconcileAfter(s, NewEntities(s))
    <3>1. e \in Expected(s, imports) /\ e \in live \cup NewEntities(s)
      BY <2>3 DEF ReconcileAfter
    <3>2. e[1] \in DOMAIN s \cup {Hub}
      BY <3>1, ExpectedAsset
    <3> QED
      BY <1>1, <2>3, <3>1, <3>2 DEF ReconcileAfter
  <2> QED
    BY <2>1, <2>2, <2>3 DEF Refresh
<1>4. CASE \E p \in Platforms : SetUpPlatform(p)
  BY <1>1, <1>4 DEF SetUpPlatform
<1>5. CASE FinishSetup \/ RefreshFails \/ Unload
  BY <1>1, <1>5 DEF FinishSetup, RefreshFails, Unload
<1>6. CASE \E choice \in Choices : ChangeOptions(choice)
  BY <1>1, <1>6 DEF ChangeOptions
<1>7. CASE \E a \in Assets : UserRemovesDevice(a)
  BY <1>1, <1>7 DEF UserRemovesDevice
<1>8. CASE UNCHANGED vars
  BY <1>1, <1>8 DEF vars
<1> QED
  BY <1>2, <1>3, <1>4, <1>5, <1>6, <1>7, <1>8 DEF Next

-----------------------------------------------------------------------------

(* The strengthened invariant holds in every reachable state.              *)
THEOREM Invariance == Spec => []IInv
<1>1. IInv /\ [Next]_vars => TypeOK'
  BY SetupTypes, RegistryTypes, Zenon DEF TypeOK
<1>2. IInv /\ [Next]_vars => IInv'
  BY <1>1, ListenersStep, EntitiesStep, ReconciledStep, LiveStep, Zenon DEF IInv
<1> QED
  BY <1>2, InitIInv, PTL DEF Spec

(* Every variable keeps its type, and no record of a 1.x release outlives  *)
(* the first setup (__init__.py:373-376).                                  *)
THEOREM TypeCorrect == Spec => []TypeOK
<1>1. IInv => TypeOK
  BY DEF IInv
<1> QED
  BY <1>1, Invariance, PTL

(* A running entity always has its record and its asset a device: what the *)
(* reconciliation drops of one it drops of the other                       *)
(* (__init__.py:228-247).                                                  *)
THEOREM RegistriesAgree == Spec => []LiveEntitiesHaveRecords
<1>1. IInv => LiveEntitiesHaveRecords
  BY DEF IInv
<1> QED
  BY <1>1, Invariance, PTL

(* A loaded entry leaves nothing behind of what the data or the options    *)
(* no longer name, unless a poll came in before the reconciliation         *)
(* listened (__init__.py:386-402).                                         *)
THEOREM NothingIsLeftBehind == Spec => []NoStaleRecords
<1>1. IInv => NoStaleRecords
  BY DEF IInv, Reconciled, Current, NoStaleRecords, UpToDate
<1> QED
  BY <1>1, Invariance, PTL

(* Whatever came, went, came back or changed its kind, each asset of the   *)
(* last complete poll has its entities, disk sensors aside                 *)
(* (sensor.py:64-78, switch.py:64-85).                                     *)
THEOREM EveryMemberHasEntities == Spec => []MembersHaveEntities
<1>1. IInv => MembersHaveEntities
  <2> SUFFICES ASSUME IInv, UpToDate, NEW e \in Expected(data, imports), e[2] # "disk"
      PROVE e \in live
    BY DEF MembersHaveEntities
  <2>1. PICK p \in imports : e \in PlatformEntities(data, p)
    BY ExpectedEntity
  <2>2. p \in listening
    BY DEF IInv, TypeOK, ListenersKnow, ImportsListen, Current, UpToDate
  <2> QED
    BY <2>1, <2>2 DEF IInv, EntitiesRun, Current, UpToDate
<1> QED
  BY <1>1, Invariance, PTL

(* The reconciliation removes only what the data or the options no longer  *)
(* name, the unload nothing, and while the entry is unloaded the user one  *)
(* device with its own records (__init__.py:228-247, 405-433).             *)
THEOREM OnlyStaleIsRemoved == Spec => RemovalsAreJustified
<1> DEFINE Kept == RecordsGone = {} /\ DevicesGone = {}
           OneDevice == entry = "unloaded" /\ \E a \in Assets :
                          DevicesGone = {a} /\ \A e \in RecordsGone : e[1] = a
           Stale == /\ RecordsGone \cap Expected(data', imports') = {}
                    /\ DevicesGone \cap DOMAIN data' = {}
<1>1. ASSUME IInv, [Next]_vars
      PROVE  IF data' # NoData THEN Stale ELSE Kept \/ OneDevice
  <2> USE DEF setupVars, regVars
  <2>1. CASE \E s \in Snapshots : FirstRefresh(s)
    <3>1. PICK s \in Snapshots : FirstRefresh(s)
      BY <2>1
    <3>2. /\ data' = s /\ imports' = imports /\ legacy' = {}
          /\ records' = (records \cup Migrated(s)) \cap Expected(s, imports)
          /\ devices' = devices \cap DOMAIN s
      BY <3>1 DEF FirstRefresh
    <3>3. Expected(s, imports) \subseteq Expected(s, Platforms)
      BY <1>1, ExpectedType DEF IInv, TypeOK
    <3>4. Stale
      BY <3>2, <3>3 DEF Migrated, RecordsGone, DevicesGone
    <3> QED
      BY <3>2, <3>4, SnapshotType
  <2>2. CASE \E s \in Snapshots : Refresh(s)
    <3>1. PICK s \in Snapshots : Refresh(s)
      BY <2>2
    <3>2. data' = s /\ imports' = imports /\ entry # "unloaded"
      BY <3>1 DEF Refresh
    <3>3. legacy = {}
      BY <1>1, <3>2 DEF IInv, ListenersKnow
    <3>4. Stale
      BY <3>1, <3>2, <3>3 DEF Refresh, ReconcileAfter, KeepAll, RecordsGone, DevicesGone
    <3> QED
      BY <3>2, <3>4, SnapshotType
  <2>3. CASE \E p \in Platforms : SetUpPlatform(p)
    <3>1. Kept
      BY <2>3 DEF SetUpPlatform, RecordsGone, DevicesGone
    <3> QED
      BY <3>1
  <2>4. CASE FinishSetup \/ RefreshFails \/ Unload
    <3>1. Kept
      BY <2>4 DEF FinishSetup, RefreshFails, Unload, RecordsGone, DevicesGone
    <3> QED
      BY <3>1
  <2>5. CASE \E choice \in Choices : ChangeOptions(choice)
    <3>1. Kept
      BY <2>5 DEF ChangeOptions, RecordsGone, DevicesGone
    <3> QED
      BY <3>1
  <2>6. CASE \E a \in Assets : UserRemovesDevice(a)
    <3>1. PICK a \in Assets : UserRemovesDevice(a)
      BY <2>6
    <3>2. /\ UNCHANGED <<data, imports>> /\ a \in devices /\ a \notin Reported
          /\ records' = {e \in records : e[1] # a} /\ devices' = devices \ {a}
          /\ legacy' = {e \in legacy : e[1] # a}
      BY <3>1 DEF UserRemovesDevice
    <3>3. DevicesGone = {a} /\ \A e \in RecordsGone : e[1] = a
      BY <3>2 DEF DevicesGone, RecordsGone
    <3>4. CASE data = NoData
      <4>1. entry = "unloaded"
        BY <1>1, <3>4, NoDataAssumption DEF IInv, TypeOK, ListenersKnow
      <4> QED
        BY <3>2, <3>3, <3>4, <4>1
    <3>5. CASE data # NoData
      <4>1. a \notin DOMAIN data
        BY <3>2, <3>5 DEF Reported
      <4>2. \A e \in Expected(data, imports) : e[1] # a
        BY <4>1, ExpectedAsset, HubAssumption
      <4> QED
        BY <3>2, <3>3, <3>5, <4>1, <4>2
    <3> QED
      BY <3>4, <3>5
  <2>7. CASE UNCHANGED vars
    <3>1. Kept
      BY <2>7 DEF vars, RecordsGone, DevicesGone
    <3> QED
      BY <3>1
  <2> QED
    BY <1>1, <2>1, <2>2, <2>3, <2>4, <2>5, <2>6, <2>7 DEF Next
<1>2. IInv /\ [Next]_vars =>
        IF data' # NoData
        THEN /\ RecordsGone \cap Expected(data', imports') = {}
             /\ DevicesGone \cap DOMAIN data' = {}
        ELSE \/ RecordsGone = {} /\ DevicesGone = {}
             \/ /\ entry = "unloaded"
                /\ \E a \in Assets : /\ DevicesGone = {a}
                                     /\ \A e \in RecordsGone : e[1] = a
  BY <1>1
<1> QED
  BY <1>2, Invariance, PTL DEF Spec, RemovalsAreJustified

(* The reconciliation never drops a 1.x record, of any platform, whose     *)
(* entity is still expected: it has its new unique ID by then              *)
(* (__init__.py:140-184, 373-376).                                         *)
THEOREM UpgradeKeepsHistory == Spec => LegacyRecordsMigrate
<1>1. ASSUME IInv, [Next]_vars, legacy' # legacy, data' # NoData
      PROVE  legacy \cap Expected(data', imports') \subseteq records'
  <2> USE DEF setupVars, regVars
  <2>1. CASE \E s \in Snapshots : FirstRefresh(s)
    <3>1. PICK s \in Snapshots : FirstRefresh(s)
      BY <2>1
    <3>2. /\ data' = s /\ imports' = imports
          /\ records' = (records \cup Migrated(s)) \cap Expected(s, imports)
      BY <3>1 DEF FirstRefresh
    <3>3. Expected(s, imports) \subseteq Expected(s, Platforms)
      BY <1>1, ExpectedType DEF IInv, TypeOK
    <3> QED
      BY <3>2, <3>3 DEF Migrated
  <2>2. CASE \E s \in Snapshots : Refresh(s)
    BY <1>1, <2>2 DEF Refresh, IInv, ListenersKnow
  <2>3. CASE \E p \in Platforms : SetUpPlatform(p)
    BY <1>1, <2>3 DEF SetUpPlatform
  <2>4. CASE FinishSetup \/ RefreshFails \/ Unload
    BY <1>1, <2>4 DEF FinishSetup, RefreshFails, Unload
  <2>5. CASE \E choice \in Choices : ChangeOptions(choice)
    BY <1>1, <2>5 DEF ChangeOptions
  <2>6. CASE \E a \in Assets : UserRemovesDevice(a)
    <3>1. PICK a \in Assets : UserRemovesDevice(a)
      BY <2>6
    <3>2. /\ UNCHANGED data /\ legacy' = {e \in legacy : e[1] # a}
      BY <3>1 DEF UserRemovesDevice
    <3>3. data \in Snapshots /\ entry # "unloaded"
      BY <1>1, <3>2 DEF IInv, TypeOK, NothingRuns
    <3>4. legacy = {}
      BY <1>1, <3>3 DEF IInv, ListenersKnow
    <3> QED
      BY <3>4
  <2>7. CASE UNCHANGED vars
    BY <1>1, <2>7 DEF vars
  <2> QED
    BY <1>1, <2>1, <2>2, <2>3, <2>4, <2>5, <2>6, <2>7 DEF Next
<1> QED
  BY <1>1, Invariance, PTL DEF Spec, LegacyRecordsMigrate

=============================================================================
