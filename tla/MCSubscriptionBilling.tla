------------------------ MODULE MCSubscriptionBilling ------------------------
(***************************************************************************)
(* Instances of SubscriptionBilling for TLC.                               *)
(***************************************************************************)
EXTENDS BillingRefinement, TLC

CONSTANTS s1, s2, r1, r2, q1

\* Backoff of 1, 2 and 3 ticks for the 1, 4 and 24 hours of the code.
MCRetryDelays == [n \in 1 .. 3 |-> n]
MCNoDelays == [n \in 1 .. 3 |-> 0]

RunSymmetry == Permutations(Runs)
==============================================================================
