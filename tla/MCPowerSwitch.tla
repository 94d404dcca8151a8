---------------------------- MODULE MCPowerSwitch ----------------------------
(* The power switch needs no more than values for its constants.           *)
EXTENDS PowerSwitch
=============================================================================
