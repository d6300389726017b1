--------------------------- MODULE MCRateLimiter ---------------------------
(* Small instances of RateLimiter. *)
EXTENDS RateLimiter, TLC

Interchangeable == Permutations(Request) \cup Permutations(Addr)
=============================================================================
