---------------------------- MODULE MCRateLimiter ----------------------------
(***************************************************************************)
(* Small instances of RateLimiter.  Processes, keys and calls are          *)
(* interchangeable: no property names one.                                 *)
(***************************************************************************)
EXTENDS RateLimiter, TLC

Symmetry == Permutations(Process) \cup Permutations(Key) \cup Permutations(Call)
=============================================================================
