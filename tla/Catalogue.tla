----------------------------- MODULE Catalogue -----------------------------
(***************************************************************************)
(* The arithmetic the economy is built from: the building catalogue and    *)
(* its prices (buildings/catalogue.ts) and the interval that a collection  *)
(* pays for (players/collect.ts).                                          *)
(*                                                                         *)
(* Money is counted in the smallest unit the database stores (one          *)
(* millionth of a gold piece, numeric(30, 6)), time in clock ticks (one    *)
(* millisecond, the precision of the collection checkpoint).               *)
(***************************************************************************)
EXTENDS Integers

CONSTANTS
  BasePrice,        \* price of the first level of each building
  RateIncrease,     \* units per second that one level of a building adds
  MaxLevel,         \* maximumBuildingLevel
  InitialRate,      \* units per second of a new player
  BonusAmount,      \* units a world event pays to each player
  OfflineTicks,     \* ticks paid for at most by one collection
  TicksPerSecond,
  MaxAmount         \* largest value a numeric(30, 6) column can hold

Building == {"mine", "forge"}

ASSUME CatalogueAssumption ==
  /\ BasePrice \in [Building -> Nat]
  /\ RateIncrease \in [Building -> Nat]
  /\ MaxLevel \in Nat
  /\ InitialRate \in Nat
  /\ BonusAmount \in Nat
  /\ OfflineTicks \in Nat
  /\ TicksPerSecond \in Nat \ {0}
  /\ MaxAmount \in Nat

(***************************************************************************)
(* Every command buys one level; the n-th level costs n times the base.    *)
(***************************************************************************)
PriceForLevel(b, n) == BasePrice[b] * n

(***************************************************************************)
(* The player's resource row.                                              *)
(***************************************************************************)
Row == [gold : Nat, lifetime : Nat, rate : Nat, last : Nat]

NewRow(t) == [gold |-> 0, lifetime |-> 0, rate |-> InitialRate, last |-> t]

Fits(row) == row.gold <= MaxAmount /\ row.lifetime <= MaxAmount

Larger(m, n) == IF m >= n THEN m ELSE n
Smaller(m, n) == IF m <= n THEN m ELSE n

(***************************************************************************)
(* What a collection of the row credits when the database clock reads t:   *)
(* the checkpoint never moves backwards, the paid interval is clamped to   *)
(* the offline limit, and fractions of the smallest unit are cut off.      *)
(***************************************************************************)
\* mutant: the clock as it reads, also when it was set back
CollectedAtClock(row, t) == t

CollectedAt(row, t) == Larger(row.last, t)

Credit(row, t) ==
  (Smaller(OfflineTicks, CollectedAt(row, t) - row.last) * row.rate)
    \div TicksPerSecond

\* mutant: the checkpoint stays
CollectedForNothing(row, t) ==
  [row EXCEPT !.gold = @ + Credit(row, t), !.lifetime = @ + Credit(row, t)]

Collected(row, t) ==
  [gold     |-> row.gold + Credit(row, t),
   lifetime |-> row.lifetime + Credit(row, t),
   rate     |-> row.rate,
   last     |-> CollectedAt(row, t)]

Rewarded(row) ==
  [gold     |-> row.gold + BonusAmount,
   lifetime |-> row.lifetime + BonusAmount,
   rate     |-> row.rate,
   last     |-> row.last]

=============================================================================
