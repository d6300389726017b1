---------------------------- MODULE MCOpenPages -----------------------------
(* Small instances of OpenPages: two tabs of one browser. *)
EXTENDS OpenPages, TLC

Interchangeable == Permutations(Tab) \cup Permutations(Fetch)
=============================================================================
