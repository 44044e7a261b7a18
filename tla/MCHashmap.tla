----------------------------- MODULE MCHashmap -----------------------------
(* Instances of Hashmap for TLC, over every hash function.  Keys differ    *)
(* only in their homes, which Init chooses in every way.                   *)
EXTENDS Hashmap, TLC

Symmetry == Permutations(Keys) \cup Permutations(Values)
=============================================================================
