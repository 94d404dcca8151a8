-------------------------- MODULE MCPollCoordinator --------------------------
(* Instances of PollCoordinator for TLC.                                   *)
EXTENDS PollCoordinator, TLC

Symmetry == Permutations(Assets) \cup Permutations(Polls)

(* Safety needs no Hub that settles: while it churns it may answer as a    *)
(* settled one does.                                                       *)
HubKeepsChanging == hub = Churning

=============================================================================
