--------------------------- MODULE MCRateLimiter ---------------------------
(* Instances of RateLimiter for TLC; callers are interchangeable.            *)
EXTENDS RateLimiter, TLC

Symmetry == Permutations(Callers)
=============================================================================
