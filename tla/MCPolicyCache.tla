--------------------------- MODULE MCPolicyCache ---------------------------
(* PolicyCache for TLC: two interchangeable threads that read one layer or two. *)
EXTENDS PolicyCache, TLC

CONSTANTS d1, d2, l1, l2

OneLayer == {l1}
TwoLayers == {l1, l2}
TwoReaders == {d1, d2}
OneReader == {d1}

Symmetry == Permutations(TwoReaders) \cup Permutations(TwoLayers)
=============================================================================
