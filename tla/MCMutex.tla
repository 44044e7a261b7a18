------------------------------ MODULE MCMutex ------------------------------
(* Instances of Mutex for TLC.  The threads are interchangeable.           *)
EXTENDS Mutex, TLC

Symmetry == Permutations(Threads)
=============================================================================
