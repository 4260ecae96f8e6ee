---------------------------- MODULE MCRateLimit ----------------------------
(***************************************************************************)
(* A small limiter for TLC.                                                *)
(***************************************************************************)
EXTENDS RateLimit, TLC

Symmetry == Permutations(Address) \cup Permutations(Client)
=============================================================================
