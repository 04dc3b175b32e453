---------------------------- MODULE MCTrustAnchors ----------------------------
(* Small instances of TrustAnchors for TLC: four keys, enough to replace both *)
(* the operator's and the break-glass key in one rotation.                    *)
EXTENDS TrustAnchors, Naturals, FiniteSets, TLC

CONSTANTS k1, k2, k3, k4

\* Files of one key, and the empty one.
Singles == {f \in SUBSET Key : Cardinality(f) <= 1}

\* Every file.
All == SUBSET Key

Keys == Permutations(Key)
==============================================================================
