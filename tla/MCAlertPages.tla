----------------------------- MODULE MCAlertPages -----------------------------
(* Instances of AlertPages.                                                *)
EXTENDS AlertPages
AllAlerts == 1 .. 5
=============================================================================
