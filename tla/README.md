# LabTether for Home Assistant: TLA+ models and proofs

This directory holds the formal models of the LabTether integration for Home
Assistant (`custom_components/labtether`) and of its add-on
(`addon/labtether`), the TLC runs that check them and the TLAPS proofs about
them. `PROJECT.json` maps every definition to the lines it models and lists the
runs, the mutants, the hazards, the findings and the theorems.

Run `tlc -config MCPollSafety.cfg MCPollCoordinator` for a run, and
`tlapm PollCoordinatorProofs.tla` for the proofs of a component.

## 1. Inventory

### The integration (Python, one asyncio event loop)

| Part | State | Operations | Talks to |
|---|---|---|---|
| Polling coordinator (`coordinator.py`, `api.py`) | published snapshot, success flag, asset IDs seen in 24 h | a poll (three parallel requests), cancellation, refusal over budget, publication | Hub (HTTP), Home Assistant's scheduler, all listeners |
| Entities and registry (`__init__.py`, `sensor.py`, `binary_sensor.py`, `switch.py`, `entity.py`) | running entities, entity and device registry, known IDs of each listener, last reconciled inventory | setup, platform setup, add new entities, reconcile, migrate 1.x unique IDs, device removal, unload | coordinator (listeners), registries |
| Power switch (`switch.py`) | requested state and its deadline, shown state | turn on, turn off, coordinator update | Hub (action), coordinator (requested refresh) |
| Config flows and entries (`config_flow.py`, `__init__.py`) | config entries, open flows, client of each entry, update listener | user, reconfigure, reauth and options flow, setup, reload, unload, removal | Hub (preview), coordinator's reauth request |
| `run_action` service (`__init__.py`) | is it registered | register, remove, call (choose the entry) | entries, Hub |
| API client (`api.py`, `tls.py`) | none between calls | paged alert count, asset list, metrics, action, preview | Hub |

### The add-on (shell, Node, s6)

| Part | State | Operations | Talks to |
|---|---|---|---|
| Start (`run.sh`, `lib/runtime-state.sh`) | `runtime.json`, setup token, two markers, generated-credentials file, legacy files | migrate, choose or generate credentials, stage or reissue the token, choose the database, check, exec the Hub | options, Postgres, Hub |
| Stop (`lib/stop-hub.sh`) | processes, `postmaster.pid` | end the services, stop the Hub, then Postgres, then the rest, in 10 s | s6, Supervisor |
| Console (`lib/console-env.sh`, `lib/console-front.mjs`, s6 services) | loaded certificate pair, connections | wait for the Hub's files, proxy, reload certificates, shut down | Hub's files, console |

### What is hard, and what makes each part correct

* **Polling**: siblings of a failed request; a cancelled poll; overlapping scheduled
  and requested polls; the budget over a sliding window. Correct means: whole
  snapshots only, no request outlives its poll, the budget bounds what is published,
  a refusal is true and ends by itself, a reauthentication means a rejected key.
* **Entities**: polls during setup, assets that change their kind under one ID,
  failed polls, upgrades. Correct means: every member has its entities, nothing
  stale stays, nothing is removed without a reason, 1.x history survives.
* **Power switch**: background actions, lost answers, late polls, an expiry
  without a timer. Correct means: it shows what was asked while it should, the
  truth in the end.
* **Entries**: checks before an await, use after it; reloads during setup; several
  entries sharing one service. Correct means: the running client is the configured
  one, the service is offered exactly when an entry enables it, CA and disabled
  checks are never combined.
* **Alert count**: the list changes between the requests for its pages; the Hub may
  not page at all. Correct means: nobody counted twice, at most one missed for
  each alert resolved, an error only when it is true, an end in any case.
* **`run_action`**: entries load, change and unload around the call. Correct means:
  it never reaches another Hub than the one it names, and never one that its entry
  is no longer configured for; without a name, it is rejected when two loaded ones have the asset.
* **Add-on stop**: three things that may hang share 10 s. Correct means: the
  Hub goes before its database, each wait ends, Postgres is told in time.
* **Console services**: files of another process, written in place and at its own
  time. Correct means: both come up whenever the Hub does, the listener never
  goes down for a renewal and serves the new pair in the end.
* **Add-on start**: a kill between any two writes, options and databases that
  change between starts. Correct means: there is a way to log in, the encryption
  key survives, a one-time token is one-time, the Hub comes up.

## 2. Modules

| Module | Models | Checked with | Proofs |
|---|---|---|---|
| `SnapshotPublisher` | abstract: a publisher of whole snapshots with a budget | refined by `PollCoordinator` | |
| `PollCoordinator` | `_async_update_data`, its requests, Home Assistant's scheduling | `MCPollCoordinator` | `PollCoordinatorProofs` |
| `EntityRegistry` | setup, platforms, listeners, reconciliation, unload | `MCEntityRegistry` | `EntityRegistryProofs` |
| `PowerSwitch` | `LabTetherPowerSwitch` with Hub and polls around it | `MCPowerSwitch` | `PowerSwitchProofs` |
| `ConfigEntries` | flows, entry life cycle, service registration, choice of the entry for a call | `MCConfigEntries` | `ConfigEntriesProofs` |
| `AddonBootstrap` | `run.sh` and `runtime-state.sh` | `MCAddonBootstrap` | `AddonBootstrapProofs` |
| `AlertCount` | abstract: a count while alerts fire and are resolved, and how wrong it may be | refined by `AlertPages` | |
| `AlertPages` | `async_get_firing_alerts_count` against a Hub whose list changes | `MCAlertPages` | `AlertPagesProofs` |
| `AddonServices` | `stop-hub.sh`, `console-env.sh`, `console-front.mjs` and the s6 services, with Hub, Postgres and Supervisor around them | `MCAddonServices` | `AddonServicesProofs` |

How they fit together: `PollCoordinator` has every step of a poll. To the other
modules of the integration a poll is what `SnapshotPublisher` promises: a
snapshot taken at one time and published whole, or a failure.
`EntityRegistry` takes such updates one at a time, `PowerSwitch` lets two
overlap, because that is where the order matters. `ConfigEntries` has the
awaits of setup that `EntityRegistry` summarises as "forwarding". `AlertPages`
is the inside of one of the three requests of a poll, which `PollCoordinator`
sees as one answer. `AddonBootstrap` ends where run.sh executes the Hub;
`AddonServices` takes that script as one step and has the container's other
processes and its end.

**PollCoordinator.** `phase`, `request`, `fetched` and `error` are the local
state of the polls in flight; `seen`, `data`, `ok` are `_seen_asset_ids`,
`coordinator.data` and `last_update_success`. Time is the age of what was
seen, so the state stays finite. `GatherFails` is the `except BaseException`
branch, `RequestCleanedUp` one sibling's end, `Publish` and `RefuseOverBudget`
the two ends of a whole poll. `published` is a history variable.

**EntityRegistry.** An entity is a pair of asset and feature. Each platform has
its listener's `known` IDs, the entry its `inventory`, which is what the
reconciliation compares. `FirstRefresh`, `SetUpPlatform` (any order) and
`FinishSetup` are what `async_setup_entry` does between its awaits. The registry may
start with the records of a 1.x release, of all three platforms and for any assets.
`RemovalsAreJustified` judges every step: with data, what is removed is named by
neither the data nor the options; the unload removes nothing; while the entry is
unloaded, which is also the time Home Assistant is down, only the user does.

**PowerSwitch.** `pending` and `left` are `_pending_on` and the time to
`_pending_until`; `shown` is the state last written, which only changes when
the code writes it. A poll is a snapshot under way in one of two slots. The
Hub's queue of accepted actions and every other change of the asset are
external.

**ConfigEntries.** `phase` is where an entry's setup or unload stands between two
awaits, `flow` holds what a flow submitted before its await. `reloadsItself`, which
never changes, tells Home Assistant 2025.8 and newer from older versions
(`hacs.json` supports 2024.12); the update listener of the older ones is there
exactly while the entry is in `hass.data`. `Targets` is
`_select_service_target`: the handler awaits nothing before its request, so a
call is a function of the state and `ActionsReachTheirHub` asks every one that
could be made there: a call that names an entry that is reloading is refused and
never falls back to another Hub, and what is sent goes to the Hub, with the CA,
that is configured now, unless a reload or removal is pending. A connection is the Hub URL, whether
a CA is set, and whether checks are disabled; `BuildClient` cannot build one that has
both, which leaves `SetupFails`.

**AddonBootstrap.** `pc` is the next write of the script. Each file is a variable,
every write its own step, and `Kill` may follow any of them. Values of
credentials are told apart by where they come from; markers hold the token they
hash. The Hub's part (create the owner, remove the token) and the user's are
external.

**AlertPages.** Every request is one step: it reads the page at `offset` from
what fires then. `seen` is `seen_ids`; the Hub is asked for firing alerts, so
`firing_ids` is the same set. `Fire` and `Resolve` may come between any two
requests, anywhere in the list; `repeats` is a Hub that ignores the offset. `steady`,
`touched`, `fires` and `resolves` are history variables that say what happened
during the count; `AlertCount` has nothing else, and allows any number between
what can be explained by them.

**AddonServices.** `main` is the container's command (run.sh, then the Hub), `stop`
the step of the stop, `limited` whether the Supervisor's time runs. Seconds are
counted only in a stop, by `Tick`, which never passes over a step that takes no
time; `elapsed` is the Supervisor's clock and `waited` that of `wait_gone`. `goal`
is the certificate the Hub uses, `cert` and `key` what is in the two files, which
differ from it while the Hub writes. `ReadCert` and `Load` or `Reload` are the
two reads of `readKeyPair`, between which the Hub may write; what follows the second
read has no await and is one step with it. The Hub's own files, Postgres, s6's order
(services, script, the rest) and the Supervisor's kill are external.

## 3. Runs

| Run | Instance | What it shows |
|---|---|---|
| `poll_safety` | 2 polls, 3 assets, budget 2, window 1 | all failures and cancellations of two overlapping polls; budget, honesty, whole snapshots, refinement |
| `poll_liveness` | 1 poll, 2 assets, budget 1 | a refused entry recovers, every poll returns |
| `entities` | 2 assets, 3 profiles, 2 choices of platforms | membership, no stale records, justified removals, migration |
| `power_switch` | 2 calls, 2 jobs, deadline 2 | requested state while promised, truth in the end |
| `config_entries` | 2 entries, 2 flows, 2 URLs, 2 edits, both kinds of Home Assistant | service and clients follow the configuration, calls reach their Hub |
| `addon` | 18 option sets, 1 configured token | way in, token, key, coming up |
| `alert_pages` | 5 alerts, pages of 2, limit 4, 3 changes | how wrong a count can be (refinement of `AlertCount`), true errors, an end |
| `addon_services` | the code's times, 2 certificates | order and time of the stop, services that come up and follow the certificate |
| `reauth_hub_text`, `flip_back`, `ca_race`, `mistyped_key` | smallest that shows it | see Findings |

Bounds. Two overlapping polls are all Home Assistant can produce for one entry
(timer and requested refresh); three assets against a budget of two let two
polls that fit on their own exceed it together; a window of one tick
lets an ID be fresh, old and forgotten. Two assets and three profiles give every
transition between kinds with switch and disk, without disk, and with neither.
Two calls let a second action overtake the first; a
deadline of two ticks has a time before, in and after it. Two edits let one change
fall between any two steps caused by another. One configured token is enough since
the script only compares it with the last one; the option sets combine
database, generation and either a password or a token, with an own key where a
token is set. `HubKeepsChanging` leaves the settled Hub, which only liveness
needs, out of the safety run.

Five alerts on pages of two against a limit of four have a list below, at
and above the limit, full and short last pages, and three changes move an alert
over a page boundary and back. `addon_services` has the code's own limits in seconds
(6 and 3 of `wait_gone`, 5 of the listener, 10 of the Supervisor, as
`config.json` sets no other); the second certificate may keep the key or not,
so a reader can meet every mix of old, new and half-written files.

Symmetry is used in safety runs only. Deadlock checking is off in
`config_entries` (all entries loaded, no edits left) and the add-on runs (a Hub
that runs undisturbed); the poll, entity and switch models must never stop.

Fairness. `PollCoordinator`: a request ends (`aiohttp` timeout), a poll returns
(nothing in it blocks), the event loop's timer fires, time passes; nothing is
assumed of users, unloading or the Hub. `PowerSwitch`: polls go on and return
(that is `PollsReturn`), time passes. `AddonBootstrap`: the script goes on and the
Supervisor restarts it; `HubComesUp` also assumes that nobody kills or
reconfigures it any more (`calm`) and that Postgres gets ready within its 40 tries.

`AlertPages`: a request ends (it has a timeout). `AddonServices`: s6
and the script go on, the listener's timer fires, time passes in a stop, a Hub that
runs finishes the files it writes; nothing is assumed of the console, the Hub or
Postgres ending when told to, of stops, starts or renewals. So a console that never
ends keeps the script from beginning: under the Supervisor's limit the container is
killed, without it (the main command ended by itself) nothing in the repository ends
such a stop, and `ContainerStops` speaks only of one whose console has ended.

Every property of a passing run has a mutant: a definition changed as a plausible
bug would, defined above the original with the comment "Mutant", with which TLC
finds the property violated.

## 4. Findings

* `reauth_hub_text`: the Hub's own error text can start a reauthentication and
  stop polling (`coordinator.py:109`).
* `flip_back`: a poll from before an action that finishes late flips the switch
  back (`switch.py:121`).
* `ca_race`: reconfigure and reauth together store a CA with disabled checks
  (`config_flow.py:400`). The flow reports success, and the setup that follows fails,
  since the API client refuses the combination (`api.py:151`).
* `mistyped_key`: a malformed encryption key replaces the stored one before it is
  checked, and clearing the option does not help (`run.sh:226`).

Four more disagreements came up in the modelling. Each is left out of a property, as
said there or here, and is listed with its hazard:

* An asset that becomes a VM under its old ID gets no disk sensor until the next
  reload (`sensor.py:66`), although README.md:106 lists one for every VM;
  `MembersHaveEntities` leaves disk sensors out.
* Before Home Assistant 2025.8 a certificate preference saved during a setup is
  stored and not applied (`__init__.py:383`), although `config_flow.py:451` says
  those versions rely on the listener; `ClientIsCurrent` leaves it out there.
* A `run_action` call without `entry_id` is not always rejected when two Hubs have the
  device ID, as README.md:140 says: `_select_service_target` counts the loaded ones
  only (`__init__.py:127`), so while one is being set up, reloads or cannot be reached
  the call goes to the other; `ActionsReachTheirHub` speaks of the entry a call names.
* `stop-hub.sh:32` keeps "both steps" under 10 s and does not count the listener's
  drain of up to 5 s before them (`console-front.mjs:25`); `StopFitsGrace` names the
  time the services may leave.

## 5. Proofs

Every safety property of the passing runs, invariant or action property, and both
refinements are theorems: TLC checks them on the instances of section 3, TLAPS
proves them for every value of the constants that satisfies the assumptions below.
All theorems are about `Spec`, so none needs fairness, and the fair
specifications the runs check inherit them. Each module of proofs has the same
order: the parts of `IInv` (the inductive invariant), lemmas about the operators,
`InitIInv`, one lemma per part of `IInv` with a case for each action, `Invariance`,
and a theorem for each property. TLC has checked each `IInv` on the instance of
the component's run before it was proved.

| Component | Assumptions on the constants | Theorems (beside `Invariance` and `TypeCorrect`) |
|---|---|---|
| `PollCoordinator` | finitely many assets; a window; a single response fits the budget (`const.py`) | `NoOrphans`, `BudgetHolds`, `RefusalsAreHonest`, `WholePollsPublish`, `Refinement` of `SnapshotPublisher` |
| `EntityRegistry` | known profiles and platforms; no asset is named "hub" (`api.py:337` refuses it); no data is no snapshot | `RegistriesAgree`, `NothingIsLeftBehind`, `EveryMemberHasEntities`, `OnlyStaleIsRemoved`, `UpgradeKeepsHistory` |
| `PowerSwitch` | a positive deadline; natural bounds | `AskedIsShown` |
| `ConfigEntries` | finitely many entries; a natural bound; no entry is no connection | `ServiceIsOffered`, `LoadedIsCurrent`, `ActionsArrive` |
| `AlertPages` | finitely many alerts, ordered by number; a positive page size; natural bounds | `ExceededIsTrue`, `NoProgressIsTrue`, `Refinement` of `AlertCount` |
| `AddonBootstrap` | the options are options; a token made by the script is not a configured one; an absent value is no value | `OwnerCanBeMade`, `TokenIsUsedOnce`, `NoTokenForAnOwner`, `KeyIsKept` |
| `AddonServices` | natural time limits; at least one certificate | `StopInTime`, `HubFirst`, `KeepsServing` |

Why the invariants are needed, and where the argument is:

* **PollCoordinator.** The code decides by what it remembers, the budget speaks of
  what was published. `Faithful` says that within the window both agree, `AnswersFit`
  that no response in flight is too large. `TypeOK` itself has a bound, the number of
  remembered identities, and is inductive. The hard steps are `Publish`
  (`PublishRecent`) and `Tick` (`TickFaithful`): ageing moves IDs out of both at the
  same tick. The refinement maps `recent` to `Recent`; publications map to `Update`,
  failures and refusals to `UpdateFailed`, `Tick` to `AgeOut`, everything else
  stutters.
* **EntityRegistry.** The properties speak of an entry that is loaded and has its
  options unchanged. `ListenersKnow` and `ImportsListen` say from the first refresh
  on which platforms listen and that each knows exactly the assets it has entities
  for; `EntitiesRun`, that these run; `Reconciled`, that the inventory compared
  last is that of the data shown unless a poll was missed. The step that matters is
  a poll: `NewOrRunning` shows that an expected entity is made by it or was there,
  and `SameFeatures`, which it rests on, is why disk sensors are left out.
* **PowerSwitch.** `Waiting` ties the request to `pending`, `Drawn` what is shown to
  the data and `pending` while the time runs: when it is up nothing is drawn.
* **ConfigEntries.** What an await lets slip is in `ReadIsCurrent` (a setup that no
  reload will repeat has read what is still configured) and `ServiceInSync` (the
  service is right unless an entry in `hass.data` is on its way);
  `SetupsAreStored` and `FlowsAreStored` keep what they refer to from being removed.
* **AlertPages.** The promise says nothing of offsets. `UnderWay` bounds what lies on
  the wrong side of the offset: unseen alerts before it (`Overtaken`, at most one for
  each resolved) and seen ones behind it (`PushedOn`, at most one for each that
  fired). It rests on lemmas about ranks: a change moves every rank by at most one,
  and no rank is left out (`NoRankLeftOut`). In the refinement every request but the
  last stutters, the last is the `Answer` of `AlertCount`.
* **AddonBootstrap.** A kill can follow any write, so each property needs what the
  writes before have brought in order. `MarkersMoved`: past the migration the old
  markers are gone, so that the marker compared with the option is the one that
  names the used token (`SpentIsMarked`). `StagedIsMarked` and `UsedIsMarked`: both
  markers are written before the Hub can use a token. `KeyInUse`: the stored key is
  the one the Hub ran with or one the user configured since, in the older file
  until it is migrated. `OwnerOrToken`: from the token step on there is a way to an
  owner, or the script knows that the token is used; the owner check settles it,
  for which `DatabaseChosen` says that there is a database to ask. `GeneratedNow`:
  what the summary will name is what is stored.
* **AddonServices.** `OnTime` says how much of the Supervisor's time each step of the
  stop may have used, `HubHadItsTime` why the script has come as far as it has, and
  `ServesAPair` what a listener that serves has loaded.

What is not proved. Liveness stays with TLC, as the prover knows neither fairness
nor `ENABLED`: `UpdatesResume`, `PollsReturn`, `SettlesOnTruth`, `CountEnds`,
`HubComesUp`, `FrontCatchesUp`, `ConsoleComesUp`, `ContainerStops`. The properties
of the four violation runs are false of the code.

## 6. Not modelled

URL normalization, TLS contexts, JSON checks and body limits of the API client
(no state beyond a request); the allow-list of actions (a table); sensor values,
names and translations; the forms of the flows and the scan interval; http URLs, for
which the flows refuse a CA (the Hosts of `ConfigEntries` are https); a platform that refuses
to unload, which none of the integration's does; starts of the add-on that end because
a file under `/data` is a link, no regular file or not what the add-on wrote there
(`run.sh:256-262`, `runtime-state.sh:50-52`, `79-81`), or because a setup token is empty,
too long or has a line break (`run.sh:276-281`); the proxying of requests and headers in
`console-front.mjs`, and a listener that cannot bind its port; file modes and
owners; release and CI scripts. How the Hub writes its files is not in this
repository: `AddonServices` assumes the worst of the certificate pair, and of
`api-token` and `ca.crt` only that they appear.

## 7. Plan

Order: by what a failure costs the user and how hard it is to test.

1. Done: `PollCoordinator` with `SnapshotPublisher` and proofs,
   `EntityRegistry`, `AddonBootstrap`, `PowerSwitch`, `ConfigEntries`.
2. Done: `AlertPages` with `AlertCount`, `AddonServices`, and the choice of the
   entry for a call in `ConfigEntries`.
3. Done: the proofs of every safety property and of both refinements (section 5).
4. Left: abstract specifications for two more components, with their refinements
   proved: a registry that follows its inventory (`EntityRegistry`) and a one-time
   token (`AddonBootstrap`).
