---------------------------- MODULE MCBatchRun ----------------------------
(* Bounded instances of BatchRun for TLC. *)
EXTENDS BatchRun, TLC

\* The attempts the bounds allow for.
BatchJobs == Items \X Indices

\* Runner processes are interchangeable.
WorkerSymmetry == Permutations(Workers)
=============================================================================
