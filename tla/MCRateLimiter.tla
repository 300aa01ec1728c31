--------------------------- MODULE MCRateLimiter ---------------------------
(* Instance of RateLimiter for TLC.                                        *)
EXTENDS RateLimiter, TLC

RequestSymmetry == Permutations(Requests)
=============================================================================
