-------------------------- MODULE MCReviewPipeline --------------------------
(* ReviewPipeline with two workers that are the same to the queue.         *)
EXTENDS ReviewPipeline, TLC

CONSTANTS w1, w2

WorkerSymmetry == Permutations({w1, w2})
=============================================================================
