---------------------------- MODULE MCRateLimiter ----------------------------
(* Instance of RateLimiter for TLC: interchangeable clients.               *)
EXTENDS RateLimiter, TLC

ClientSymmetry == Permutations(Clients)
=============================================================================
