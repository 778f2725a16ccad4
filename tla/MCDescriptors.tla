--------------------------- MODULE MCDescriptors ---------------------------
(***************************************************************************)
(* Descriptors for TLC: a heap of two slots and a heap of one.             *)
(***************************************************************************)
EXTENDS Descriptors

CONSTANTS g1, g2, v1, v2, v3

TwoAndOne == [s \in {v1, v2, v3} |-> IF s = v3 THEN g2 ELSE g1]

Symmetry ==
  Permutations(Threads) \cup Permutations({v1, v2})
  \cup Permutations(SamplerSlots) \cup Permutations(Descriptions)
=============================================================================
