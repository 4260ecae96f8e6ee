------------------------------- MODULE Ledger -------------------------------
(***************************************************************************)
(* What the economy promises, with every command executed alone and in one *)
(* step: the committed rows of PostgreSQL and the serial effect of each    *)
(* operation on them.  Module Economy shows that the transactions of the   *)
(* code, interleaved statement by statement, have no other effects.        *)
(***************************************************************************)
EXTENDS Catalogue, FiniteSets

CONSTANTS
  Player,       \* player ids, ordered as the database orders uuids
  Key,          \* idempotency keys
  Occurrence,   \* world-event occurrence ids
  NoCommand,    \* no purchase_commands row for this player and key
  MaxClock      \* bound: the database clock reads 0..MaxClock

ASSUME LedgerAssumption ==
  /\ Player \subseteq Nat
  /\ IsFiniteSet(Occurrence)
  /\ MaxClock \in Nat

Clock == 0..MaxClock

VARIABLES
  account,      \* the players table: "none", "live" or "deleted"
  resource,     \* the player_resources row of a live player
  level,        \* player_buildings: level owned, 0 when there is no row
  command,      \* purchase_commands: the saved result of each key
  applied,      \* world_events: the occurrences that have a row
  rewarded,     \* history: the players each applied occurrence paid
  due           \* history: what the player may have earned passively

ledgerVars == <<account, resource, level, command, applied, rewarded, due>>

Reason == {"ok", "max_level_reached", "insufficient_funds"}

(***************************************************************************)
(* A saved command: the requested building and its result, of which the    *)
(* model keeps the outcome and the level bought.                           *)
(***************************************************************************)
Command == [building : Building, reason : Reason, level : Nat]

ASSUME NoCommandAssumption == NoCommand \notin Command

NoLevels == [b \in Building |-> 0]
NoCommands == [k \in Key |-> NoCommand]

(***************************************************************************)
(* History for NeverOverpaid: amount is what the rates in force up to the  *)
(* tick since would have paid, times TicksPerSecond.                       *)
(***************************************************************************)
Due == [amount : Nat, since : Nat]
DueAt(p, t) ==
  due[p].amount + (t - due[p].since) * resource[p].rate

LedgerTypeOK ==
  /\ account \in [Player -> {"none", "live", "deleted"}]
  /\ resource \in [Player -> Row]
  /\ level \in [Player -> [Building -> 0..MaxLevel]]
  /\ command \in [Player -> [Key -> Command \cup {NoCommand}]]
  /\ applied \in SUBSET Occurrence
  /\ rewarded \in [Occurrence -> SUBSET Player]
  /\ due \in [Player -> Due]

LedgerInit ==
  /\ account = [p \in Player |-> "none"]
  /\ resource = [p \in Player |-> NewRow(0)]
  /\ level = [p \in Player |-> NoLevels]
  /\ command = [p \in Player |-> NoCommands]
  /\ applied = {}
  /\ rewarded = [o \in Occurrence |-> {}]
  /\ due = [p \in Player |-> [amount |-> 0, since |-> 0]]

Live == {p \in Player : account[p] = "live"}

(***************************************************************************)
(* An account appears with its resource row; the checkpoint is the time of *)
(* the insert.                                                             *)
(***************************************************************************)
Signup(p, t) ==
  /\ account[p] = "none"
  /\ account' = [account EXCEPT ![p] = "live"]
  /\ resource' = [resource EXCEPT ![p] = NewRow(t)]
  /\ due' = [due EXCEPT ![p] = [amount |-> 0, since |-> t]]
  /\ UNCHANGED <<level, command, applied, rewarded>>

(***************************************************************************)
(* An operator deletes the account; the foreign keys cascade.  Player ids  *)
(* are random uuids and never come back.                                   *)
(***************************************************************************)
Delete(p) ==
  /\ account[p] = "live"
  /\ account' = [account EXCEPT ![p] = "deleted"]
  /\ resource' = [resource EXCEPT ![p] = NewRow(0)]
  /\ level' = [level EXCEPT ![p] = NoLevels]
  /\ command' = [command EXCEPT ![p] = NoCommands]
  /\ due' = [due EXCEPT ![p] = [amount |-> 0, since |-> 0]]
  /\ UNCHANGED <<applied, rewarded>>

(***************************************************************************)
(* Passive earning.  A row that would overflow fails the statement.        *)
(***************************************************************************)
Collect(p, t) ==
  /\ account[p] = "live"
  /\ Fits(Collected(resource[p], t))
  /\ resource' = [resource EXCEPT ![p] = Collected(@, t)]
  /\ UNCHANGED <<account, level, command, applied, rewarded, due>>

(***************************************************************************)
(* A purchase under a fresh key: the three outcomes that are saved.        *)
(***************************************************************************)
\* mutant: spending also lowers lifetime earnings
PaidFromLifetime(row, price) ==
  [row EXCEPT !.gold = @ - price, !.lifetime = @ - price]

Paid(row, price) == [row EXCEPT !.gold = @ - price]
Upgraded(row, b) == [row EXCEPT !.rate = @ + RateIncrease[b]]

SaveCommand(p, k, b, reason, n) ==
  command' = [command EXCEPT ![p][k] =
                [building |-> b, reason |-> reason, level |-> n]]

Refuse(p, k, b, reason) ==
  /\ SaveCommand(p, k, b, reason, 0)
  /\ UNCHANGED <<account, resource, level, applied, rewarded, due>>

Upgrade(p, k, b, n, t) ==
  LET settled == Collected(Paid(resource[p], PriceForLevel(b, n)), t) IN
  /\ Fits(settled)
  /\ SaveCommand(p, k, b, "ok", n)
  /\ level' = [level EXCEPT ![p][b] = n]
  /\ resource' = [resource EXCEPT ![p] = Upgraded(settled, b)]
  /\ due' = [due EXCEPT ![p] = [amount |-> DueAt(p, settled.last),
                                since  |-> settled.last]]
  /\ UNCHANGED <<account, applied, rewarded>>

Buy(p, k, b, t) ==
  LET n == level[p][b] + 1 IN
  /\ account[p] = "live"
  /\ command[p][k] = NoCommand
  /\ \/ n > MaxLevel /\ Refuse(p, k, b, "max_level_reached")
     \/ /\ n <= MaxLevel
        /\ resource[p].gold < PriceForLevel(b, n)
        /\ Refuse(p, k, b, "insufficient_funds")
     \/ /\ n <= MaxLevel
        /\ resource[p].gold >= PriceForLevel(b, n)
        /\ Upgrade(p, k, b, n, t)

(***************************************************************************)
(* A world event pays each of its recipients once, all of them or none.    *)
(* Accounts that signed up after the award began are not among them.       *)
(***************************************************************************)
Grant(o, recipients) ==
  /\ o \notin applied
  /\ recipients \subseteq Live
  /\ \A p \in recipients : Fits(Rewarded(resource[p]))
  /\ applied' = applied \cup {o}
  /\ rewarded' = [rewarded EXCEPT ![o] = recipients]
  /\ resource' = [p \in Player |->
       IF p \in recipients THEN Rewarded(resource[p]) ELSE resource[p]]
  /\ UNCHANGED <<account, level, command, due>>

LedgerNext ==
  \/ \E p \in Player :
       \/ Delete(p)
       \/ \E t \in Clock :
            \/ Signup(p, t)
            \/ Collect(p, t)
            \/ \E k \in Key, b \in Building : Buy(p, k, b, t)
  \/ \E o \in Occurrence, recipients \in SUBSET Player : Grant(o, recipients)

LedgerSpec == LedgerInit /\ [][LedgerNext]_ledgerVars

-----------------------------------------------------------------------------
(***************************************************************************)
(* Conservation: gold is never made or lost outside earning and buying.    *)
(* What a player holds is what the player ever earned less the price of    *)
(* every level owned (1 + ... + n times the base price, doubled here to    *)
(* stay in the integers), and the production rate is exactly what the      *)
(* owned levels add up to.  Relates player_resources to player_buildings.  *)
(***************************************************************************)
TwiceSpentOn(p, b) == BasePrice[b] * (level[p][b] * (level[p][b] + 1))

Conserved(p) ==
  /\ 2 * resource[p].gold =
       2 * resource[p].lifetime - TwiceSpentOn(p, "mine")
                                - TwiceSpentOn(p, "forge")
  /\ resource[p].rate =
       InitialRate + RateIncrease["mine"] * level[p]["mine"]
                   + RateIncrease["forge"] * level[p]["forge"]

Conservation == \A p \in Live : Conserved(p)

(***************************************************************************)
(* WithinNumeric: no committed amount exceeds the column, so no read or    *)
(* conversion downstream meets a value the schema cannot hold.             *)
(***************************************************************************)
WithinNumeric == \A p \in Live : Fits(resource[p])

(***************************************************************************)
(* OneCommandPerLevel: every level a player owns was bought by exactly one *)
(* saved successful command, and no successful command was saved for a     *)
(* level the player does not own (no purchase executed twice or lost).     *)
(***************************************************************************)
BoughtBy(p, b, n) ==
  {k \in Key : command[p][k] = [building |-> b, reason |-> "ok", level |-> n]}

OneCommandEach(p, b) ==
  /\ \A n \in 1..level[p][b] : \E k \in BoughtBy(p, b, n) :
                                 \A j \in BoughtBy(p, b, n) : j = k
  /\ \A k \in Key :
       /\ command[p][k] # NoCommand
       /\ k \in BoughtBy(p, b, command[p][k].level)
       => command[p][k].level \in 1..level[p][b]

OneCommandPerLevel == \A p \in Live, b \in Building : OneCommandEach(p, b)

(***************************************************************************)
(* NeverOverpaid: apart from one bonus for each occurrence that lists the  *)
(* player, lifetime earnings never exceed what the rates in force since    *)
(* signup would have paid up to the checkpoint: no interval is credited    *)
(* twice, and none at a rate bought later.  And no recorded recipient      *)
(* missed the bonus.  Relates player_resources to world_events.            *)
(***************************************************************************)
EventsFor(p) == {o \in Occurrence : p \in rewarded[o]}
BonusesOf(p) == BonusAmount * Cardinality(EventsFor(p))

PaidFairly(p) ==
  /\ resource[p].lifetime >= BonusesOf(p)
  /\ TicksPerSecond * (resource[p].lifetime - BonusesOf(p))
       <= DueAt(p, resource[p].last)

NeverOverpaid == \A p \in Live : PaidFairly(p)

(***************************************************************************)
(* LedgerInv: the inductive invariant behind the four properties above.    *)
(* Accounts that are not live own nothing, nobody is paid before signing   *)
(* up, an occurrence without a row paid nobody, and the checkpoint is      *)
(* never before the last change of the rate.                               *)
(***************************************************************************)
NothingLeftOver ==
  \A p \in Player :
    /\ account[p] # "live" => level[p] = NoLevels /\ command[p] = NoCommands
    /\ account[p] = "none" => \A o \in Occurrence : p \notin rewarded[o]
    /\ due[p].since <= resource[p].last

PaidWhenApplied == \A o \in Occurrence \ applied : rewarded[o] = {}

LedgerInv ==
  /\ LedgerTypeOK
  /\ NothingLeftOver
  /\ PaidWhenApplied
  /\ Conservation
  /\ WithinNumeric
  /\ OneCommandPerLevel
  /\ NeverOverpaid

(***************************************************************************)
(* Monotone: while an account lives its lifetime earnings, its production  *)
(* rate and its collection checkpoint never decrease, whatever the         *)
(* database clock does and whatever is bought.                             *)
(***************************************************************************)
MonotoneStep ==
  \A p \in Player :
    account[p] = "live" /\ account'[p] = "live" =>
      /\ resource'[p].lifetime >= resource[p].lifetime
      /\ resource'[p].rate >= resource[p].rate
      /\ resource'[p].last >= resource[p].last

Monotone == [][MonotoneStep]_ledgerVars

(***************************************************************************)
(* Permanent: a saved command result and an applied occurrence are never   *)
(* changed again while their player lives, so a retry at any later time    *)
(* reads the original outcome.                                             *)
(***************************************************************************)
PermanentStep ==
  /\ \A p \in Player, k \in Key :
       account'[p] = "live" /\ command[p][k] # NoCommand =>
         command'[p][k] = command[p][k]
  /\ \A o \in applied : o \in applied' /\ rewarded'[o] = rewarded[o]

Permanent == [][PermanentStep]_ledgerVars

(***************************************************************************)
(* EarningsReported: seen from the leaderboard, which reads only lifetime  *)
(* earnings, the economy is an Authority: a total it has read is never     *)
(* lowered afterwards, and a player it found deleted stays deleted.        *)
(***************************************************************************)
Earnings == INSTANCE Authority
  WITH total <- [p \in Live |-> resource[p].lifetime],
       deleted <- {p \in Player : account[p] = "deleted"}

EarningsReported == Earnings!AuthoritySpec

=============================================================================
