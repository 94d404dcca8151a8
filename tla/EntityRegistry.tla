--------------------------- MODULE EntityRegistry ----------------------------
(***************************************************************************)
(* The entities and registry records of one config entry: setup, the       *)
(* listeners of the three platforms and of the reconciliation, options and *)
(* unloading (custom_components/labtether/__init__.py, sensor.py,          *)
(* binary_sensor.py, switch.py).  A poll is one step here, which delivers  *)
(* a whole snapshot or fails: what PollCoordinator shows of it.            *)
(*                                                                         *)
(* An entity is named by the asset it belongs to and what it shows; a      *)
(* record of the 1.x releases, whose unique ID lacked the entry ID, is     *)
(* marked "legacy".                                                        *)
(***************************************************************************)
EXTENDS FiniteSets, Functions

CONSTANTS
    Assets,     \* every asset ID the Hub may report
    Profiles,   \* the profiles an asset may have, of those below
    Choices,    \* the sets of platforms the options flow may choose
    NoData      \* the snapshot before the first poll

(* A profile is a type and source: "vm" stands for what has power control  *)
(* and all usage metrics, "node" for what has the metrics only.            *)
ASSUME ProfilesAssumption ==
    Profiles \subseteq {"vm", "docker-container", "docker-host", "node"}

Platforms == {"sensor", "binary_sensor", "switch"}
ASSUME ChoicesAssumption == Choices \subseteq SUBSET Platforms

(* usage_metrics: CPU and memory always come together, as "usage".         *)
Metrics(profile) ==
    CASE profile \in {"vm", "node"} -> {"usage", "disk"}
      [] profile = "docker-container" -> {"usage"}
      [] profile = "docker-host" -> {}

Controllable(profile) == profile \in {"vm", "docker-container"}

Features(profile, platform) ==
    CASE platform = "binary_sensor" -> {"status"}
      [] platform = "sensor" -> Metrics(profile)
      [] platform = "switch" -> IF Controllable(profile) THEN {"power"} ELSE {}

HubFeatures(platform) ==
    CASE platform = "binary_sensor" -> {"hub_status"}
      [] platform = "sensor" -> {"hub_totals"}
      [] platform = "switch" -> {}

Snapshots == UNION {[D -> Profiles] : D \in SUBSET Assets}
ASSUME NoDataAssumption == NoData \notin Snapshots

(* What the entities of no asset belong to; the API client refuses an      *)
(* asset of that ID (api.py:337).                                          *)
Hub == "hub"
ASSUME HubAssumption == Hub \notin Assets

(* The entities of asset a that a platform makes, and all of a platform's. *)
EntitiesOf(snapshot, a, platform) == {a} \X Features(snapshot[a], platform)
PlatformEntities(snapshot, platform) ==
    (UNION {EntitiesOf(snapshot, a, platform) : a \in DOMAIN snapshot})
        \cup ({Hub} \X HubFeatures(platform))

(* expected_unique_ids of _reconcile_registry_entries.                     *)
Expected(snapshot, imports) ==
    UNION {PlatformEntities(snapshot, platform) : platform \in imports}

VARIABLES
    entry,      \* "unloaded", "forwarding" the platforms, or "loaded"
    imports,    \* the platforms the entry's options import
    stale,      \* options changed since setup: the entry is to be reloaded
    data,       \* coordinator.data: asset -> profile
    ok,         \* last_update_success
    platforms,  \* the platforms whose setup has run
    listening,  \* those with a listener on the coordinator
    known,      \* known_asset_ids of each platform's listener
    inventory,  \* registry_inventory: what was last reconciled
    live,       \* the entities running in Home Assistant
    records,    \* the entity registry of this entry
    legacy,     \* its records with a unique ID of the 1.x releases
    devices,    \* the assets with a device in the device registry
    missed      \* history: a refresh the reconciliation did not hear of

regVars == <<live, records, legacy, devices>>
setupVars == <<platforms, listening, known, inventory>>
vars == <<entry, imports, stale, data, ok, setupVars, regVars, missed>>

(* The registry a 1.x release may have left behind: the records of all     *)
(* three platforms, for the assets the Hub reported then.                  *)
Legacies == {Expected(s, Platforms) : s \in Snapshots}

Init ==
    /\ entry = "unloaded"
    /\ imports = Platforms
    /\ stale = FALSE
    /\ data = NoData
    /\ ok = TRUE
    /\ platforms = {}
    /\ listening = {}
    /\ known = [p \in Platforms |-> {}]
    /\ inventory = NoData
    /\ live = {}
    /\ records = {}
    /\ legacy \in Legacies \cup {{}}
    /\ devices = {e[1] : e \in legacy} \ {Hub}
    /\ missed = FALSE

-----------------------------------------------------------------------------
(* Listeners.                                                              *)

(* async_add_entities: each entity gets its record and its device.         *)
Added(snapshot, assets, platform) ==
    UNION {EntitiesOf(snapshot, a, platform) : a \in assets}

(* The assets a platform's listener looks for.                             *)
Wanted(snapshot, platform) ==
    {a \in DOMAIN snapshot : Features(snapshot[a], platform) # {}}

(* What a listener knows from then on: an asset that is gone is forgotten, *)
(* so that its entities are made again when it comes back.  Mutant: it is  *)
(* not.                                                                    *)
EverKnown(snapshot, platform) == known[platform] \cup Wanted(snapshot, platform)
NowKnown(snapshot, platform) == Wanted(snapshot, platform)

NewEntities(snapshot) ==
    UNION {Added(snapshot, Wanted(snapshot, p) \ known[p], p) : p \in listening}

(* What _registry_inventory compares.  Mutant: only the asset IDs.         *)
InventoryOfIds(snapshot) == <<DOMAIN snapshot, imports>>
Inventory(snapshot) == <<snapshot, imports>>

(* Mutant: the devices are compared with the previous poll.                *)
ReconcileOldDevices(snapshot, added) ==
    LET expected == Expected(snapshot, imports)
    IN  /\ live' = (live \cup added) \cap expected
        /\ records' = (records \cup added) \cap expected
        /\ legacy' = {}
        /\ devices' = (devices \cup {e[1] : e \in added}) \cap DOMAIN data

(* _reconcile_registry_entries drops every record that is not expected;    *)
(* Home Assistant then drops the entity that runs on it.                   *)
ReconcileAfter(snapshot, added) ==
    LET expected == Expected(snapshot, imports)
    IN  /\ live' = (live \cup added) \cap expected
        /\ records' = (records \cup added) \cap expected
        /\ legacy' = {}
        /\ devices' = (devices \cup {e[1] : e \in added}) \cap DOMAIN snapshot

KeepAll(added) ==
    /\ live' = live \cup added
    /\ records' = records \cup added
    /\ devices' = devices \cup {e[1] : e \in added}
    /\ UNCHANGED legacy

-----------------------------------------------------------------------------
(* Setup.                                                                  *)

(* _migrate_entity_unique_ids: a legacy record takes its new unique ID     *)
(* when the Hub reports its asset, whatever the options import.            *)
(* Mutant: the status records of the assets are forgotten.                 *)
MigratedButStatus(snapshot) == {e \in legacy \cap Expected(snapshot, Platforms) : e[2] # "status"}
Migrated(snapshot) == legacy \cap Expected(snapshot, Platforms)

(* Mutant: setup does not reconcile, only later polls do.                  *)
FirstRefreshUnreconciled(snapshot) ==
    /\ entry = "unloaded"
    /\ entry' = "forwarding"
    /\ stale' = FALSE
    /\ data' = snapshot
    /\ ok' = TRUE
    /\ records' = records \cup (legacy \cap Expected(snapshot, Platforms))
    /\ legacy' = legacy \ Expected(snapshot, Platforms)
    /\ inventory' = Inventory(snapshot)
    /\ missed' = FALSE
    /\ UNCHANGED <<imports, platforms, listening, known, live, devices>>

(* async_setup_entry up to forwarding: first refresh, migration,           *)
(* reconciliation.                                                         *)
FirstRefresh(snapshot) ==
    /\ entry = "unloaded"
    /\ entry' = "forwarding"
    /\ stale' = FALSE
    /\ data' = snapshot
    /\ ok' = TRUE
    /\ LET expected == Expected(snapshot, imports)
       IN  records' = (records \cup Migrated(snapshot)) \cap expected
    /\ legacy' = {}
    /\ devices' = devices \cap DOMAIN snapshot
    /\ inventory' = Inventory(snapshot)
    /\ missed' = FALSE
    /\ UNCHANGED <<imports, platforms, listening, known, live>>

(* A platform's async_setup_entry; the three run in any order.             *)
SetUpPlatform(platform) ==
    /\ entry = "forwarding"
    /\ platform \notin platforms
    /\ platforms' = platforms \cup {platform}
    /\ IF platform \in imports
       THEN LET added == PlatformEntities(data, platform)
            IN  /\ live' = live \cup added
                /\ records' = records \cup added
                /\ devices' = devices \cup ({e[1] : e \in added} \ {Hub})
                /\ listening' = listening \cup {platform}
                /\ known' = [known EXCEPT ![platform] = Wanted(data, platform)]
       ELSE UNCHANGED <<live, records, devices, listening, known>>
    /\ UNCHANGED <<entry, imports, stale, data, ok, inventory, legacy, missed>>

(* The reconciliation listens from here on, after the platforms.           *)
FinishSetup ==
    /\ entry = "forwarding"
    /\ platforms = Platforms
    /\ entry' = "loaded"
    /\ UNCHANGED <<imports, stale, data, ok, setupVars, regVars, missed>>

-----------------------------------------------------------------------------
(* Polls.                                                                  *)

(* A successful poll calls the platforms' listeners, then the              *)
(* reconciliation, which skips a snapshot with the inventory it has seen.  *)
Refresh(snapshot) ==
    /\ entry = "loaded" \/ (entry = "forwarding" /\ listening # {})
    /\ data' = snapshot
    /\ ok' = TRUE
    /\ known' = [p \in Platforms |->
                   IF p \in listening THEN NowKnown(snapshot, p) ELSE {}]
    /\ IF entry = "loaded" /\ Inventory(snapshot) # inventory
       THEN /\ ReconcileAfter(snapshot, NewEntities(snapshot))
            /\ inventory' = Inventory(snapshot)
            /\ missed' = FALSE
       ELSE /\ KeepAll(NewEntities(snapshot))
            /\ missed' = (missed \/ entry = "forwarding")
            /\ UNCHANGED inventory
    /\ UNCHANGED <<entry, imports, stale, platforms, listening>>

(* Mutant: the reconciliation takes a failed poll for an empty one.        *)
RefreshFailsEmpty ==
    /\ entry = "loaded"
    /\ ok' = FALSE
    /\ live' = {e \in live : e[1] = Hub}
    /\ records' = {e \in records : e[1] = Hub}
    /\ devices' = {}
    /\ UNCHANGED <<entry, imports, stale, data, setupVars, legacy, missed>>

(* A failed poll keeps the data, so no listener finds anything to do.      *)
RefreshFails ==
    /\ entry = "loaded" \/ (entry = "forwarding" /\ listening # {})
    /\ ok' = FALSE
    /\ UNCHANGED <<entry, imports, stale, data, setupVars, regVars, missed>>

-----------------------------------------------------------------------------
(* Options, unloading, manual removal.                                     *)

(* The options flow stores the new choice; the reload follows later.       *)
ChangeOptions(choice) ==
    /\ choice # imports
    /\ imports' = choice
    /\ stale' = (entry # "unloaded")
    /\ UNCHANGED <<entry, data, ok, setupVars, regVars, missed>>

(* Mutant: the unloaded entry's records are cleaned up with its platforms. *)
UnloadRemoving ==
    /\ entry = "loaded"
    /\ entry' = "unloaded"
    /\ stale' = FALSE
    /\ data' = NoData
    /\ ok' = TRUE
    /\ platforms' = {}
    /\ listening' = {}
    /\ known' = [p \in Platforms |-> {}]
    /\ inventory' = NoData
    /\ live' = {}
    /\ records' = {}
    /\ devices' = {}
    /\ missed' = FALSE
    /\ UNCHANGED <<imports, legacy>>

(* A reload, a removal of the entry's platforms or a stop of Home          *)
(* Assistant: the registries outlive it.                                   *)
Unload ==
    /\ entry = "loaded"
    /\ entry' = "unloaded"
    /\ stale' = FALSE
    /\ data' = NoData
    /\ ok' = TRUE
    /\ platforms' = {}
    /\ listening' = {}
    /\ known' = [p \in Platforms |-> {}]
    /\ inventory' = NoData
    /\ live' = {}
    /\ missed' = FALSE
    /\ UNCHANGED <<imports, records, legacy, devices>>

Reported == IF data = NoData THEN {} ELSE DOMAIN data

(* async_remove_config_entry_device lets the user remove a device unless   *)
(* the loaded entry's data still has its asset.                            *)
UserRemovesDevice(a) ==
    /\ a \in devices
    /\ a \notin Reported
    /\ devices' = devices \ {a}
    /\ live' = {e \in live : e[1] # a}
    /\ records' = {e \in records : e[1] # a}
    /\ legacy' = {e \in legacy : e[1] # a}
    /\ UNCHANGED <<entry, imports, stale, data, ok, setupVars, missed>>

Next ==
    \/ \E snapshot \in Snapshots : FirstRefresh(snapshot) \/ Refresh(snapshot)
    \/ \E platform \in Platforms : SetUpPlatform(platform)
    \/ FinishSetup
    \/ RefreshFails
    \/ \E choice \in Choices : ChangeOptions(choice)
    \/ Unload
    \/ \E a \in Assets : UserRemovesDevice(a)

Spec == Init /\ [][Next]_vars

-----------------------------------------------------------------------------
(* Properties.                                                             *)

(* Every variable has its type; legacy records exist only before the first *)
(* setup.                                                                  *)
AllEntities == UNION {Expected(s, Platforms) : s \in Snapshots}
TypeOK ==
    /\ entry \in {"unloaded", "forwarding", "loaded"}
    /\ imports \subseteq Platforms
    /\ stale \in BOOLEAN
    /\ data \in Snapshots \cup {NoData}
    /\ ok \in BOOLEAN
    /\ platforms \subseteq Platforms
    /\ listening \subseteq platforms
    /\ known \in [Platforms -> SUBSET Assets]
    /\ inventory \in (Snapshots \X SUBSET Platforms) \cup {NoData}
    /\ live \cup records \cup legacy \subseteq AllEntities
    /\ devices \subseteq Assets
    /\ entry = "loaded" => legacy = {}

UpToDate == entry = "loaded" /\ ~stale

(* A loaded entry leaves no record or device behind of an asset, a feature *)
(* or a platform that the last complete poll or the options no longer      *)
(* name, unless a poll came in while its platforms were being set up,      *)
(* before the reconciliation listened.                                     *)
NoStaleRecords ==
    UpToDate /\ ~missed =>
        /\ records \subseteq Expected(data, imports)
        /\ devices \subseteq DOMAIN data

(* Whatever assets came, went, came back or changed their kind, and in     *)
(* whatever order the platforms were set up, each asset of the last        *)
(* complete poll has its status, usage and power entities.  Disk sensors   *)
(* are left out: the listener of sensor.py:66-78 looks for IDs it does not *)
(* know, and misses an asset that becomes a VM under its old ID.           *)
MembersHaveEntities ==
    UpToDate => {e \in Expected(data, imports) : e[2] # "disk"} \subseteq live

(* Every running entity has its record, and its asset a device.            *)
LiveEntitiesHaveRecords ==
    /\ live \subseteq records
    /\ {e[1] : e \in live} \ {Hub} \subseteq devices

(* What a step takes out of the registries.                                *)
RecordsGone == (records \cup legacy) \ (records' \cup legacy')
DevicesGone == devices \ devices'

(* While there is data, a record or device disappears only when the last   *)
(* complete poll or the options no longer name it: never for a failed      *)
(* poll, nor at the setup that follows a restart.  The unload itself       *)
(* removes nothing, and while the entry is unloaded only the user does,    *)
(* one device at a time and with it its own records.                       *)
RemovalsAreJustified ==
    [][IF data' # NoData
       THEN /\ RecordsGone \cap Expected(data', imports') = {}
            /\ DevicesGone \cap DOMAIN data' = {}
       ELSE \/ RecordsGone = {} /\ DevicesGone = {}
            \/ /\ entry = "unloaded"
               /\ \E a \in Assets : /\ DevicesGone = {a}
                                    /\ \A e \in RecordsGone : e[1] = a]_vars

(* An upgrade keeps the history of every 1.x entity that is still          *)
(* expected, of any platform: when the reconciliation drops what is left   *)
(* of the 1.x records, its record has the new unique ID.                   *)
LegacyRecordsMigrate ==
    [][legacy' # legacy /\ data' # NoData =>
         legacy \cap Expected(data', imports') \subseteq records']_vars

=============================================================================
