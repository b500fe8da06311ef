------------------------- MODULE MCAutomationLimit --------------------------
(* Instances of AutomationLimit for TLC: the .cfg files hold the constants. *)
EXTENDS AutomationLimit
=============================================================================
