---------------------------- MODULE ConfigEntries ----------------------------
(***************************************************************************)
(* The config entries of the integration: the flows that create and change *)
(* them (config_flow.py), their setup and unload (__init__.py), and the    *)
(* labtether.run_action service they share.                                *)
(*                                                                         *)
(* Everything runs on one event loop: a step is what happens between two   *)
(* awaits, and other flows, setups and unloads run in between.  A flow     *)
(* awaits the Hub's preview, a setup the CA file and the first refresh, an *)
(* unload its platforms.                                                   *)
(***************************************************************************)
EXTENDS Naturals, FiniteSets

CONSTANTS
    None,           \* no entry, no flow, no client
    Entries,        \* entry IDs
    Flows,          \* flows the user may have open at once
    Hosts,          \* Hub URLs, normalized and https
    MaxEdits        \* bound: how often entries are created or changed

ASSUME EntriesAssumption == IsFiniteSet(Entries)
ASSUME EditsAssumption == MaxEdits \in Nat

(* A connection: the Hub URL, is a CA path set, is certificate checking    *)
(* off (the effective preference, which every flow stores beside the       *)
(* options).  An entry adds whether it enables run_action.  The flows also *)
(* refuse a CA for an http URL; no host here has one.                      *)
Connections == [host : Hosts, ca : BOOLEAN, ignore : BOOLEAN]
Contradicts(c) == c.ca /\ c.ignore
Connection(e) == [host |-> e.host, ca |-> e.ca, ignore |-> e.ignore]
WithAction(c, action) ==
    [host |-> c.host, ca |-> c.ca, ignore |-> c.ignore, action |-> action]

Phases == {"unloaded", "ca", "refresh", "platforms", "loaded", "unloading", "failed"}
Wishes == {"none", "reload", "remove"}

VARIABLES
    entry,          \* the stored config entries
    phase,          \* where setup or unload of each entry is
    ca,             \* setup: the CA context it has loaded
    client,         \* the connection its API client was built for
    wish,           \* is a reload or the removal scheduled?
    flow,           \* the open flows: submitted input, waiting for the preview
    service,        \* is labtether.run_action registered?
    reloadsItself,  \* does this Home Assistant have OptionsFlowWithReload?
    edits           \* how often entries were created or changed

setup == <<phase, ca, client>>
vars == <<entry, setup, wish, flow, service, reloadsItself, edits>>

Stored == {e \in Entries : entry[e] # None}
InHassData(e) == phase[e] \in {"platforms", "loaded", "unloading"}

TypeEntry == [host : Hosts, ca : BOOLEAN, ignore : BOOLEAN, action : BOOLEAN]

ASSUME NoneAssumption == None \notin TypeEntry \cup Connections

Init ==
    /\ entry \in [Entries -> {None} \cup
         {WithAction([host |-> h, ca |-> FALSE, ignore |-> FALSE], TRUE) : h \in Hosts}]
    /\ \A d, e \in Stored : entry[d] = entry[e] => d = e
    /\ phase = [e \in Entries |-> "unloaded"]
    /\ ca = [e \in Entries |-> FALSE]
    /\ client = [e \in Entries |-> None]
    /\ wish = [e \in Entries |-> "none"]
    /\ flow = [f \in Flows |-> None]
    /\ service = FALSE
    /\ reloadsItself \in BOOLEAN
    /\ edits = 0

-----------------------------------------------------------------------------
(* Setup.                                                                  *)

(* The CA context is loaded off the event loop.                            *)
BeginSetup(e) ==
    /\ entry[e] # None
    /\ phase[e] \in {"unloaded", "failed"}
    /\ wish[e] = "none"
    /\ phase' = [phase EXCEPT ![e] = "ca"]
    /\ ca' = [ca EXCEPT ![e] = entry[e].ca]
    /\ UNCHANGED <<entry, client, wish, flow, service, edits>>

(* The client and the coordinator take the rest from the entry as it is    *)
(* now; then the console URL and the first refresh are awaited.  Its       *)
(* constructor refuses a CA with certificate checking off (api.py:151).    *)
Built(e) == [Connection(entry[e]) EXCEPT !.ca = ca[e]]
BuildClient(e) ==
    /\ phase[e] = "ca"
    /\ ~Contradicts(Built(e))
    /\ phase' = [phase EXCEPT ![e] = "refresh"]
    /\ client' = [client EXCEPT ![e] = Built(e)]
    /\ UNCHANGED <<entry, ca, wish, flow, service, edits>>

(* No CA file, a refused combination, no answer, or a rejected key.        *)
SetupFails(e) ==
    /\ phase[e] \in {"ca", "refresh"}
    /\ phase' = [phase EXCEPT ![e] = "failed"]
    /\ client' = [client EXCEPT ![e] = None]
    /\ UNCHANGED <<entry, ca, wish, flow, service, edits>>

(* The entry goes into hass.data and, on versions of Home Assistant that   *)
(* do not reload it themselves, has an update listener for as long.        *)
FirstRefreshed(e) ==
    /\ phase[e] = "refresh"
    /\ phase' = [phase EXCEPT ![e] = "platforms"]
    /\ UNCHANGED <<entry, ca, client, wish, flow, service, edits>>

(* _sync_run_action_service: data is hass.data.                            *)
SyncedService(data) == \E e \in data : entry[e].action

PlatformsSetUp(e) ==
    /\ phase[e] = "platforms"
    /\ phase' = [phase EXCEPT ![e] = "loaded"]
    /\ service' = SyncedService({d \in Entries : InHassData(d)})
    /\ UNCHANGED <<entry, ca, client, wish, flow, edits>>

-----------------------------------------------------------------------------
(* Reload, unload and removal.  The setup lock of an entry keeps them from *)
(* interrupting each other.                                                *)

(* Mutant: the client is dropped before the platforms are unloaded.        *)
DropClientFirst(e) ==
    /\ phase[e] = "loaded"
    /\ wish[e] # "none"
    /\ phase' = [phase EXCEPT ![e] = "unloading"]
    /\ client' = [client EXCEPT ![e] = None]
    /\ wish' = [wish EXCEPT ![e] = IF @ = "reload" THEN "none" ELSE @]
    /\ UNCHANGED <<entry, ca, flow, service, edits>>

BeginUnload(e) ==
    /\ phase[e] = "loaded"
    /\ wish[e] # "none"
    /\ phase' = [phase EXCEPT ![e] = "unloading"]
    /\ wish' = [wish EXCEPT ![e] = IF @ = "reload" THEN "none" ELSE @]
    /\ UNCHANGED <<entry, ca, client, flow, service, edits>>

(* Mutant: the service is synchronized before the entry leaves hass.data.  *)
SyncBeforePop(e) ==
    /\ phase[e] = "unloading"
    /\ phase' = [phase EXCEPT ![e] = "unloaded"]
    /\ client' = [client EXCEPT ![e] = None]
    /\ service' = SyncedService({d \in Entries : InHassData(d)})
    /\ UNCHANGED <<entry, ca, wish, flow, edits>>

UnloadPlatforms(e) ==
    /\ phase[e] = "unloading"
    /\ phase' = [phase EXCEPT ![e] = "unloaded"]
    /\ client' = [client EXCEPT ![e] = None]
    /\ service' = SyncedService({d \in Entries \ {e} : InHassData(d)})
    /\ UNCHANGED <<entry, ca, wish, flow, edits>>

(* An entry that is not loaded is set up anew, or just goes.               *)
ForgetWish(e) ==
    /\ wish[e] = "reload"
    /\ phase[e] \in {"unloaded", "failed"}
    /\ wish' = [wish EXCEPT ![e] = "none"]
    /\ UNCHANGED <<entry, setup, flow, service, edits>>

DeleteEntry(e) ==
    /\ wish[e] = "remove"
    /\ phase[e] \in {"unloaded", "failed"}
    /\ entry' = [entry EXCEPT ![e] = None]
    /\ phase' = [phase EXCEPT ![e] = "unloaded"]
    /\ wish' = [wish EXCEPT ![e] = "none"]
    /\ flow' = [f \in Flows |->
         IF flow[f] # None /\ flow[f].entry = e THEN None ELSE flow[f]]
    /\ UNCHANGED <<ca, client, service, edits>>

RemoveEntry(e) ==
    /\ entry[e] # None
    /\ edits < MaxEdits
    /\ edits' = edits + 1
    /\ wish' = [wish EXCEPT ![e] = "remove"]
    /\ UNCHANGED <<entry, setup, flow, service>>

-----------------------------------------------------------------------------
(* Flows: what is checked before the preview is awaited, and after it.     *)

EntryForHost(host, ignored) == {e \in Stored \ ignored : entry[e].host = host}

OpenFlows == {f \in Flows : flow[f] # None}

Submit(f, kind, e, c) ==
    /\ flow[f] = None
    /\ edits < MaxEdits
    /\ ~Contradicts(c)
    /\ flow' = [flow EXCEPT ![f] = [kind |-> kind, entry |-> e, input |-> c]]
    /\ UNCHANGED <<entry, setup, wish, service, edits>>

SubmitUser(f) == \E c \in Connections : Submit(f, "user", None, c)

SubmitReconfigure(f) ==
    \E e \in Stored, c \in Connections : Submit(f, "reconfigure", e, c)

(* Only the key and the certificate setting are asked for.  One reauth     *)
(* flow per entry is open at a time.                                       *)
SubmitReauth(f) ==
    \E e \in Stored, ignore \in BOOLEAN :
        /\ \A g \in OpenFlows : ~(flow[g].kind = "reauth" /\ flow[g].entry = e)
        /\ Submit(f, "reauth", e, [Connection(entry[e]) EXCEPT !.ignore = ignore])

(* No valid answer, or the dialog is closed.                               *)
FlowEnds(f) ==
    /\ flow[f] # None
    /\ flow' = [flow EXCEPT ![f] = None]
    /\ UNCHANGED <<entry, setup, wish, service, edits>>

(* The new connection has answered and belongs to no other entry: the      *)
(* import options and the review follow, then the entry is created.        *)
UserPreviewed(f) ==
    /\ flow[f] # None
    /\ flow[f].kind = "user"
    /\ EntryForHost(flow[f].input.host, {}) = {}
    /\ flow' = [flow EXCEPT ![f].kind = "review"]
    /\ UNCHANGED <<entry, setup, wish, service, edits>>

CreateEntry(f) ==
    /\ flow[f] # None
    /\ flow[f].kind = "review"
    /\ edits < MaxEdits
    /\ edits' = edits + 1
    /\ \E e \in Entries \ Stored, action \in BOOLEAN :
         entry' = [entry EXCEPT ![e] = WithAction(flow[f].input, action)]
    /\ flow' = [flow EXCEPT ![f] = None]
    /\ UNCHANGED <<setup, wish, service>>

(* Mutant: only a loaded entry is reloaded.                                *)
ReloadOnlyLoaded(f, new) ==
    /\ edits < MaxEdits
    /\ edits' = edits + 1
    /\ entry' = [entry EXCEPT ![flow[f].entry] = new]
    /\ wish' = [wish EXCEPT ![flow[f].entry] =
         IF @ = "none" /\ phase[flow[f].entry] = "loaded" THEN "reload" ELSE @]
    /\ flow' = [flow EXCEPT ![f] = None]
    /\ UNCHANGED <<setup, service>>

(* async_update_reload_and_abort                                           *)
UpdateAndReload(f, new) ==
    /\ edits < MaxEdits
    /\ edits' = edits + 1
    /\ entry' = [entry EXCEPT ![flow[f].entry] = new]
    /\ wish' = [wish EXCEPT ![flow[f].entry] = IF @ = "remove" THEN @ ELSE "reload"]
    /\ flow' = [flow EXCEPT ![f] = None]
    /\ UNCHANGED <<setup, service>>

Reconfigured(f) ==
    /\ flow[f] # None
    /\ flow[f].kind = "reconfigure"
    /\ EntryForHost(flow[f].input.host, {flow[f].entry}) = {}
    /\ UpdateAndReload(f, WithAction(flow[f].input, entry[flow[f].entry].action))

(* Key and certificate setting are merged into the entry as it is now.     *)
Reauthenticated(f) ==
    /\ flow[f] # None
    /\ flow[f].kind = "reauth"
    /\ UpdateAndReload(f, [entry[flow[f].entry] EXCEPT !.ignore = flow[f].input.ignore])

(* The options flow awaits nothing between its check and its result.  Home *)
(* Assistant reloads the entry, in older versions its listener does.       *)
ChangeOptions(e) ==
    /\ entry[e] # None
    /\ edits < MaxEdits
    /\ edits' = edits + 1
    /\ \E ignore, action \in BOOLEAN :
         /\ ~(ignore /\ entry[e].ca)
         /\ entry' = [entry EXCEPT ![e].ignore = ignore, ![e].action = action]
    /\ entry' # entry
    /\ wish' = [wish EXCEPT ![e] =
         IF @ = "none" /\ (reloadsItself \/ InHassData(e)) THEN "reload" ELSE @]
    /\ UNCHANGED <<setup, flow, service>>

-----------------------------------------------------------------------------
(* A call of run_action.  The handler awaits nothing before its request,   *)
(* so it sends what it finds: the loaded entry that enables the service    *)
(* and whose Hub reports the asset, the requested one if one is named, and *)
(* none if several are left.                                               *)

Eligible == {e \in Entries : InHassData(e) /\ entry[e].action}

(* Mutant: a requested entry that is not there leaves the choice open.     *)
TargetsFallBack(owners, requested) ==
    LET named == IF requested \in Eligible THEN {requested} ELSE Entries
        matches == Eligible \cap owners \cap named
    IN  IF Cardinality(matches) = 1 THEN matches ELSE {}

Targets(owners, requested) ==
    LET named == IF requested = None THEN Entries ELSE {requested}
        matches == Eligible \cap owners \cap named
    IN  IF Cardinality(matches) = 1 THEN matches ELSE {}

-----------------------------------------------------------------------------

SetupStep(e) ==
    \/ BeginSetup(e) \/ BuildClient(e) \/ SetupFails(e) \/ FirstRefreshed(e)
    \/ PlatformsSetUp(e) \/ BeginUnload(e) \/ UnloadPlatforms(e)
    \/ ForgetWish(e) \/ DeleteEntry(e)

FlowStep(f) ==
    \/ SubmitUser(f) \/ SubmitReconfigure(f) \/ SubmitReauth(f) \/ FlowEnds(f)
    \/ UserPreviewed(f) \/ CreateEntry(f) \/ Reconfigured(f) \/ Reauthenticated(f)

Next ==
    /\ \/ \E e \in Entries : SetupStep(e) \/ RemoveEntry(e) \/ ChangeOptions(e)
       \/ \E f \in Flows : FlowStep(f)
    /\ UNCHANGED reloadsItself

Spec == Init /\ [][Next]_vars

-----------------------------------------------------------------------------
(* Properties.                                                             *)

AtRest(e) == phase[e] \in {"unloaded", "loaded", "failed"} /\ wish[e] = "none"

(* The types; an entry in hass.data is a stored one and has a client       *)
(* (__init__.py:378-383).                                                  *)
TypeOK ==
    /\ entry \in [Entries -> TypeEntry \cup {None}]
    /\ phase \in [Entries -> Phases]
    /\ ca \in [Entries -> BOOLEAN]
    /\ client \in [Entries -> Connections \cup {None}]
    /\ wish \in [Entries -> Wishes]
    /\ flow \in [Flows -> {None} \cup
         [kind : {"user", "review", "reconfigure", "reauth"},
          entry : Entries \cup {None}, input : Connections]]
    /\ service \in BOOLEAN /\ reloadsItself \in BOOLEAN
    /\ edits \in 0 .. MaxEdits
    /\ \A e \in Entries : InHassData(e) => entry[e] # None /\ client[e] # None

(* When no entry is on its way, run_action is offered exactly if a loaded  *)
(* entry enables it, however setups, reloads and removals of several       *)
(* entries overlapped (__init__.py:329-334).                               *)
ServiceFollowsEntries ==
    (\A e \in Entries : AtRest(e)) =>
        service = (\E e \in Entries : phase[e] = "loaded" /\ entry[e].action)

(* A loaded entry that no reload awaits talks to the Hub as configured,    *)
(* also when it was changed between two awaits of its setup; only a        *)
(* certificate preference can be lost there, on versions of Home Assistant *)
(* that need the update listener (__init__.py:351-384).                    *)
ClientIsCurrent ==
    \A e \in Entries : (phase[e] = "loaded" /\ wish[e] = "none") =>
        /\ client[e].host = entry[e].host
        /\ client[e].ca = entry[e].ca
        /\ reloadsItself => client[e].ignore = entry[e].ignore

(* Whichever Hubs report the asset and whatever entry was set up, changed  *)
(* or reloaded in between: a call that names an entry never reaches        *)
(* another one, not even while the named one reloads, and every action,    *)
(* with the API key it carries, goes to the Hub that its entry is          *)
(* configured for now and with the CA configured now, unless that entry is *)
(* about to be reloaded or removed (__init__.py:101-137, 267-320).         *)
ActionsReachTheirHub ==
    \A owners \in SUBSET Entries, requested \in Entries \cup {None} :
        \A e \in Targets(owners, requested) :
            /\ requested # None => e = requested
            /\ \/ client[e].host = entry[e].host /\ client[e].ca = entry[e].ca
               \/ wish[e] # "none" \/ phase[e] = "unloading"

(* tests/test_config_flow.py:71: a configured CA never coexists with       *)
(* disabled certificate checks.                                            *)
NeverContradicts == \A e \in Stored : ~(entry[e].ca /\ entry[e].ignore)

=============================================================================
