--------------------------- MODULE RateLimiterMC ---------------------------
(* Instances of RateLimiter for TLC: requests are interchangeable. *)
EXTENDS RateLimiter, TLC

MCPermutations == Permutations(Worker)
=============================================================================
