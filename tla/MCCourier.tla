------------------------------ MODULE MCCourier ------------------------------
(* Small instances of Courier for TLC. *)
EXTENDS Courier, TLC

CONSTANTS j1, j2, j3

\* An ordinary job, a privileged one built with the co-signature or without, and
\* one that the box refuses.
MCWanted == [job : {j1, j3}, bg : {FALSE}] \cup [job : {j2}, bg : BOOLEAN]

Symmetry == Permutations(Proc) \cup Permutations(Stick)
==============================================================================
