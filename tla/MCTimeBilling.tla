--------------------------- MODULE MCTimeBilling ----------------------------
(* Instances of TimeBilling for TLC: the .cfg files hold the constants. *)
EXTENDS TimeBilling
=============================================================================
