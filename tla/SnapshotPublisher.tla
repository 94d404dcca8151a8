-------------------------- MODULE SnapshotPublisher --------------------------
(***************************************************************************)
(* What the polling coordinator of the integration promises to the rest of *)
(* Home Assistant (custom_components/labtether/coordinator.py), with       *)
(* nothing of how it polls: it publishes whole snapshots of the Hub's      *)
(* assets, a failed update leaves the last snapshot in place, and the      *)
(* distinct assets published within one window never exceed a budget.      *)
(***************************************************************************)
EXTENDS Naturals, FiniteSets

CONSTANTS
    Assets,         \* every asset ID a Hub may report
    NoData,         \* the coordinator's data before the first update
    MaxAssets,      \* the most assets one snapshot holds
    MaxIdentities   \* the most distinct assets within one window

VARIABLES
    snapshot,   \* the published asset IDs, or NoData
    healthy,    \* did the last update succeed?
    recent      \* the asset IDs published within the window

pubVars == <<snapshot, healthy, recent>>

PubInit ==
    /\ snapshot = NoData
    /\ healthy = TRUE
    /\ recent = {}

Update(S) ==
    /\ Cardinality(S) <= MaxAssets
    /\ Cardinality(recent \cup S) <= MaxIdentities
    /\ snapshot' = S
    /\ healthy' = TRUE
    /\ recent' = recent \cup S

UpdateFailed ==
    /\ healthy' = FALSE
    /\ UNCHANGED <<snapshot, recent>>

AgeOut ==
    /\ recent' \subseteq recent
    /\ UNCHANGED <<snapshot, healthy>>

PubNext ==
    \/ \E S \in SUBSET Assets : Update(S)
    \/ UpdateFailed
    \/ AgeOut

PubSpec == PubInit /\ [][PubNext]_pubVars

=============================================================================
