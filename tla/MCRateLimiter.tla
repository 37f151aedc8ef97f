---------------------------- MODULE MCRateLimiter ----------------------------
(***************************************************************************)
(* Model checking of RateLimiter: the addresses are interchangeable.        *)
(***************************************************************************)
EXTENDS RateLimiter, TLC

Interchangeable == Permutations(Address)
=============================================================================
