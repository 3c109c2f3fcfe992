------------------------- MODULE MCDeliveryPipeline -------------------------
(* Instances of DeliveryPipeline for TLC.                                  *)
EXTENDS DeliveryPipeline, TLC

CONSTANTS j1, j2, e1, e2

\* The provider sends the same event twice; e2 is the row of a refused request.
SameEvent == [j \in Jobs |-> e1]

\* Explore at most this many rejections and stalls over the two jobs.
FailureBudget == 2

WithinFailureBudget ==
    attemptsMade[j1] + attemptsMade[j2] + stalledCount[j1] + stalledCount[j2] <= FailureBudget

JobSymmetry == Permutations(Jobs)

=============================================================================
