------------------------- MODULE MCProjectRetainer -------------------------
(* Instances of ProjectRetainer for TLC. *)
EXTENDS ProjectRetainer
=============================================================================
