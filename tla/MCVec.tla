-------------------------------- MODULE MCVec --------------------------------
(* An instance of Vec for TLC: vecs and blocks are interchangeable.  A     *)
(* block more than there are vecs is what an operation needs in between.   *)
EXTENDS Vec, TLC

Symmetry == Permutations(Vecs) \cup Permutations(Blocks)
=============================================================================
