--------------------------- MODULE MCHostRegistry ---------------------------
(* Small instances of HostRegistry for TLC. *)
EXTENDS HostRegistry, TLC

CONSTANTS k1, k2

PubKeys == Permutations(PubKey)
==============================================================================
