---------------------------- MODULE MCRateLimit ----------------------------
(* Keys and workers are interchangeable.                                   *)
EXTENDS RateLimit, TLC

Symmetry == Permutations(Keys) \cup Permutations(Workers)

============================================================================
