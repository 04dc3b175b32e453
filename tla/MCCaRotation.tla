---------------------------- MODULE MCCaRotation ----------------------------
(* Small instances of CaRotation for TLC. *)
EXTENDS CaRotation, TLC

Cas == Permutations(Ca) \cup Permutations(Id)
==============================================================================
