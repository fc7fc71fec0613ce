-------------------------- MODULE MCReviewProject --------------------------
(* Bounded instances of ReviewProject for TLC. *)
EXTENDS ReviewProject, TLC

\* Request threads, and what a plan shows, are interchangeable.
ReviewSymmetry == Permutations(Handlers) \cup Permutations(Looks)
=============================================================================
