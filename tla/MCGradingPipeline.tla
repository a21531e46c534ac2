-------------------------- MODULE MCGradingPipeline --------------------------
(* Small instances of GradingPipeline for TLC.                             *)
EXTENDS GradingRefinement, TLC

CONSTANTS j1, j2, w1, w2

(* One batch holding every paper.                                          *)
OneBatch == [i \in Items |-> j1]
(* A batch of one paper and a batch with the others.                       *)
TwoBatches == [i \in Items |-> IF i = 1 THEN j1 ELSE j2]

LimitOne == [j \in Jobs |-> 1]
LimitTwo == [j \in Jobs |-> 2]
WorkerSymmetry == Permutations(Workers)
=============================================================================
