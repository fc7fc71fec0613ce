--------------------------- MODULE MCPublishing ---------------------------
(* Bounded instances of Publishing for TLC. *)
EXTENDS Publishing, TLC

\* Threads are interchangeable.
ThreadSymmetry == Permutations(Threads)
=============================================================================
