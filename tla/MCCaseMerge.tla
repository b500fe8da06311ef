---------------------------- MODULE MCCaseMerge -----------------------------
(* An instance of CaseMerge for TLC. *)
EXTENDS CaseMerge, TLC

MCSymmetry == Permutations(Tickets) \cup Permutations(Edits)
=============================================================================
