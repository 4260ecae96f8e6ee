----------------------------- MODULE MCEconomy -----------------------------
(***************************************************************************)
(* Small economies for TLC: prices, rates and the column width are chosen  *)
(* so that players can and cannot afford a level, reach the level cap and  *)
(* overflow the column within a few steps.                                 *)
(***************************************************************************)
EXTENDS Economy, TLC

MCBasePrice == [b \in Building |-> IF b = "mine" THEN 1 ELSE 2]
MCRateIncrease == [b \in Building |-> IF b = "mine" THEN 1 ELSE 2]

Symmetry == Permutations(Api) \cup Permutations(Worker) \cup Permutations(Key)
              \cup Permutations(Occurrence)
=============================================================================
