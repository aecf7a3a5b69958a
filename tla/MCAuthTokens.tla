---------------------------- MODULE MCAuthTokens ----------------------------
(***************************************************************************)
(* Instances of AuthTokens for TLC.                                        *)
(***************************************************************************)
EXTENDS AuthTokens, TLC

CONSTANTS t1, t2, t3, u1, u2, q1, q2

Symmetry == Permutations(Tokens) \cup Permutations(Requests)
==============================================================================
