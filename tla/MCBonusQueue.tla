---------------------------- MODULE MCBonusQueue ----------------------------
(***************************************************************************)
(* Small queues for TLC.                                                   *)
(***************************************************************************)
EXTENDS BonusQueue, TLC

Symmetry == Permutations(Uuid) \cup Permutations(Worker)
=============================================================================
