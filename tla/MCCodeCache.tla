---------------------------- MODULE MCCodeCache ----------------------------
EXTENDS CodeCache, TLC

CONSTANTS a, b

\* The block that begins in the first section runs into the second.
Joined == [s \in Sections |-> IF s = 1 /\ N > 1 THEN 2 ELSE s]
Symmetry == Permutations({a, b})
=============================================================================
