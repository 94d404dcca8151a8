--------------------------- MODULE MCConfigEntries ---------------------------
(* Instances of ConfigEntries: entry IDs, flows and Hub URLs are           *)
(* interchangeable.                                                        *)
EXTENDS ConfigEntries, TLC
Symmetry == Permutations(Entries) \cup Permutations(Flows) \cup Permutations(Hosts)
=============================================================================
