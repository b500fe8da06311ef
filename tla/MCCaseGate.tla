----------------------------- MODULE MCCaseGate -----------------------------
(* An instance of CaseGate for TLC. *)
EXTENDS CaseGate, TLC

MCSymmetry == Permutations(Agents) \cup Permutations(Requests)
              \cup Permutations(Editors) \cup Permutations(Replies)
              \cup Permutations(Scans)
=============================================================================
