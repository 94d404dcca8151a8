---------------------------- MODULE MCAddonServices ----------------------------
(* Instances of AddonServices.                                             *)
EXTENDS AddonServices
=============================================================================
