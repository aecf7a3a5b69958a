--------------------------- MODULE MCWebhookQueue ---------------------------
(***************************************************************************)
(* Instances of WebhookQueue for TLC.                                      *)
(***************************************************************************)
EXTENDS WebhookQueue, TLC

CONSTANTS j1, j2, w1, w2, q1

Symmetry == Permutations(Workers) \cup Permutations(Jobs)
==============================================================================
