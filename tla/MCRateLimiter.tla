--------------------------- MODULE MCRateLimiter ---------------------------
(* RateLimiter on three tokens, a dict of two entries and a window of three *)
(* ticks: small enough that expiry, refusal and eviction all happen.        *)
EXTENDS RateLimiter, TLC

TokenSymmetry == Permutations(Tokens)
============================================================================
