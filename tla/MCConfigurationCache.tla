----------------------- MODULE MCConfigurationCache -----------------------
(***************************************************************************)
(* Instances of ConfigurationCache for TLC.                                *)
(***************************************************************************)
EXTENDS ConfigurationCache, TLC

CONSTANTS s1, s2, k1, k2, q1, q2

Symmetry == Permutations(Servers) \cup Permutations(Keys) \cup Permutations(Requests)
============================================================================
