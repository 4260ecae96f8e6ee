--------------------------- MODULE MCLeaderboard ---------------------------
(***************************************************************************)
(* Small projections for TLC.                                              *)
(***************************************************************************)
EXTENDS Leaderboard, TLC

Symmetry == Permutations(Player) \cup Permutations(Syncer)
              \cup Permutations(Reconciler)
=============================================================================
