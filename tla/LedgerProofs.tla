---------------------------- MODULE LedgerProofs ----------------------------
(***************************************************************************)
(* The properties of the serial economy, for every value of the constants. *)
(***************************************************************************)
EXTENDS Ledger, FiniteSetTheorems, TLAPS

-----------------------------------------------------------------------------
(***************************************************************************)
(* Arithmetic.  The provers multiply only what is spelled out, so each     *)
(* product law used below is stated once.                                  *)
(***************************************************************************)
LEMMA DivBounds ==
  \A x \in Nat, d \in Nat \ {0} : x \div d \in Nat /\ d * (x \div d) <= x
  OBVIOUS

LEMMA ProductType == \A x, y \in Nat : x * y \in Nat
  OBVIOUS

LEMMA ProductMonotone == \A x, y, z \in Nat : x <= y => x * z <= y * z
  OBVIOUS

LEMMA Distributes == \A x, y, z \in Int : (x + y) * z = x * z + y * z
  OBVIOUS

LEMMA DistributesLeft == \A x, y, z \in Int : z * (x + y) = z * x + z * y
  OBVIOUS

LEMMA Triangular ==
  \A x, n \in Nat : x * ((n + 1) * (n + 2)) = x * (n * (n + 1)) + 2 * (x * (n + 1))
  OBVIOUS

-----------------------------------------------------------------------------
(***************************************************************************)
(* What the operations do to a row.                                        *)
(***************************************************************************)
LEMMA NewRowType == \A t \in Nat : NewRow(t) \in Row
  BY CatalogueAssumption DEF NewRow, Row

LEMMA CollectedAtType ==
  ASSUME NEW row \in Row, NEW t \in Nat
  PROVE  CollectedAt(row, t) \in Nat /\ CollectedAt(row, t) >= row.last
  BY DEF CollectedAt, Row, Larger

\* A collection never credits more than the rate times the whole interval.
LEMMA CreditBounds ==
  ASSUME NEW row \in Row, NEW t \in Nat
  PROVE  /\ Credit(row, t) \in Nat
         /\ TicksPerSecond * Credit(row, t)
              <= (CollectedAt(row, t) - row.last) * row.rate
<1> DEFINE interval == CollectedAt(row, t) - row.last
           paid == Smaller(OfflineTicks, interval)
           earned == paid * row.rate
           limit == interval * row.rate
<1>1. row.rate \in Nat /\ row.last \in Nat /\ interval \in Nat
  BY CollectedAtType DEF Row
<1>2. paid \in Nat /\ paid <= interval
  BY <1>1, CatalogueAssumption DEF Smaller
<1>3. earned \in Nat /\ limit \in Nat /\ earned <= limit
  <2> HIDE DEF paid, interval
  <2> QED BY <1>1, <1>2, ProductType, ProductMonotone
<1>4. Credit(row, t) = earned \div TicksPerSecond
  BY DEF Credit
<1>5. TicksPerSecond \in Nat \ {0}
  BY CatalogueAssumption
<1> HIDE DEF earned, limit
<1>6. Credit(row, t) \in Nat /\ TicksPerSecond * Credit(row, t) <= earned
  BY <1>3, <1>4, <1>5, DivBounds
<1>7. TicksPerSecond * Credit(row, t) \in Nat
  BY <1>5, <1>6
<1>8. TicksPerSecond * Credit(row, t) <= limit
  BY <1>3, <1>6, <1>7
<1> QED
  BY <1>6, <1>8 DEF limit

LEMMA CollectedType ==
  ASSUME NEW row \in Row, NEW t \in Nat
  PROVE  Collected(row, t) \in Row
<1>1. /\ row.gold \in Nat /\ row.lifetime \in Nat /\ row.rate \in Nat
      /\ Credit(row, t) \in Nat /\ CollectedAt(row, t) \in Nat
  BY CreditBounds, CollectedAtType DEF Row
<1>2. row.gold + Credit(row, t) \in Nat /\ row.lifetime + Credit(row, t) \in Nat
  BY <1>1
<1> QED
  BY <1>1, <1>2 DEF Collected, Row

LEMMA RewardedType ==
  ASSUME NEW row \in Row
  PROVE  /\ Rewarded(row) \in Row
         /\ Rewarded(row).gold = row.gold + BonusAmount
         /\ Rewarded(row).lifetime = row.lifetime + BonusAmount
         /\ Rewarded(row).rate = row.rate
         /\ Rewarded(row).last = row.last
<1>1. /\ row.gold \in Nat /\ row.lifetime \in Nat
      /\ row.rate \in Nat /\ row.last \in Nat /\ BonusAmount \in Nat
  BY CatalogueAssumption DEF Row
<1>2. row.gold + BonusAmount \in Nat /\ row.lifetime + BonusAmount \in Nat
  BY <1>1
<1> QED
  BY <1>1, <1>2 DEF Rewarded, Row

LEMMA PaidType ==
  ASSUME NEW row \in Row, NEW price \in Nat, price <= row.gold
  PROVE  /\ Paid(row, price) \in Row
         /\ Paid(row, price).gold = row.gold - price
         /\ Paid(row, price).lifetime = row.lifetime
         /\ Paid(row, price).rate = row.rate
         /\ Paid(row, price).last = row.last
  BY DEF Paid, Row

LEMMA UpgradedType ==
  ASSUME NEW row \in Row, NEW b \in Building
  PROVE  /\ Upgraded(row, b) \in Row
         /\ Upgraded(row, b).gold = row.gold
         /\ Upgraded(row, b).lifetime = row.lifetime
         /\ Upgraded(row, b).rate = row.rate + RateIncrease[b]
         /\ Upgraded(row, b).last = row.last
<1>1. RateIncrease[b] \in Nat
  BY CatalogueAssumption
<1> QED
  BY <1>1 DEF Upgraded, Row

LEMMA PriceType ==
  ASSUME NEW b \in Building, NEW n \in Nat
  PROVE  PriceForLevel(b, n) \in Nat
<1>1. BasePrice[b] \in Nat
  BY CatalogueAssumption
<1> QED
  BY <1>1, ProductType DEF PriceForLevel

\* A player is paid finitely often, and once more by a new occurrence.
LEMMA BonusesType ==
  ASSUME NEW p
  PROVE  BonusesOf(p) \in Nat
<1>1. IsFiniteSet(EventsFor(p))
  BY LedgerAssumption, FS_Subset DEF EventsFor
<1>2. Cardinality(EventsFor(p)) \in Nat
  BY <1>1, FS_CardinalityType
<1> QED
  BY <1>2, CatalogueAssumption, ProductType DEF BonusesOf

-----------------------------------------------------------------------------
(***************************************************************************)
(* The initial state.                                                      *)
(***************************************************************************)
LEMMA NoLevelsType == NoLevels \in [Building -> 0..MaxLevel]
  BY CatalogueAssumption DEF NoLevels

LEMMA NoCommandsType == NoCommands \in [Key -> Command \cup {NoCommand}]
  BY DEF NoCommands

LEMMA LedgerInitInv == LedgerInit => LedgerInv
<1> SUFFICES ASSUME LedgerInit PROVE LedgerInv
  OBVIOUS
<1> USE DEF LedgerInit
<1>1. LedgerTypeOK
  <2>1. NewRow(0) \in Row
    BY NewRowType
  <2> QED
    BY <2>1, NoLevelsType, NoCommandsType DEF LedgerTypeOK, Due
<1>2. Live = {}
  BY DEF Live
<1>3. NothingLeftOver
  BY DEF NothingLeftOver, NewRow
<1>4. PaidWhenApplied
  BY DEF PaidWhenApplied
<1>5. Conservation /\ WithinNumeric /\ OneCommandPerLevel /\ NeverOverpaid
  BY <1>2 DEF Conservation, WithinNumeric, OneCommandPerLevel, NeverOverpaid
<1> QED
  BY <1>1, <1>3, <1>4, <1>5 DEF LedgerInv

-----------------------------------------------------------------------------
(***************************************************************************)
(* A player whose rows a step leaves alone keeps the per-player facts.     *)
(***************************************************************************)
Untouched(p) ==
  /\ resource'[p] = resource[p]
  /\ level'[p] = level[p]
  /\ command'[p] = command[p]
  /\ due'[p] = due[p]

LEMMA UntouchedKeeps ==
  ASSUME NEW p \in Player, Untouched(p),
         Conserved(p), Fits(resource[p]),
         \A b \in Building : OneCommandEach(p, b),
         PaidFairly(p), BonusesOf(p)' = BonusesOf(p)
  PROVE  /\ Conserved(p)'
         /\ Fits(resource[p])'
         /\ \A b \in Building : OneCommandEach(p, b)'
         /\ PaidFairly(p)'
<1> USE DEF Untouched
<1>1. Conserved(p)'
  BY DEF Conserved, TwiceSpentOn
<1>2. Fits(resource[p])'
  OBVIOUS
<1>3. ASSUME NEW b \in Building PROVE OneCommandEach(p, b)'
  BY DEF OneCommandEach, BoughtBy
<1>4. PaidFairly(p)'
  BY DEF PaidFairly, DueAt
<1> QED
  BY <1>1, <1>2, <1>3, <1>4

LEMMA BonusesUnchanged ==
  ASSUME UNCHANGED rewarded, NEW p
  PROVE  BonusesOf(p)' = BonusesOf(p)
  BY DEF BonusesOf, EventsFor

LEMMA SpentType ==
  ASSUME LedgerTypeOK, NEW p \in Player, NEW b \in Building
  PROVE  TwiceSpentOn(p, b) \in Nat
<1>1. level[p][b] \in Nat /\ BasePrice[b] \in Nat
  BY CatalogueAssumption DEF LedgerTypeOK
<1> QED
  BY <1>1, ProductType DEF TwiceSpentOn

LEMMA PerPlayer ==
  ASSUME LedgerInv, NEW p \in Live
  PROVE  /\ p \in Player
         /\ Conserved(p)
         /\ Fits(resource[p])
         /\ \A b \in Building : OneCommandEach(p, b)
         /\ PaidFairly(p)
  BY DEF LedgerInv, Conservation, WithinNumeric, OneCommandPerLevel,
         NeverOverpaid, Live

-----------------------------------------------------------------------------
(***************************************************************************)
(* Signing up and leaving.                                                 *)
(***************************************************************************)
LEMMA SignupInv ==
  ASSUME LedgerInv, NEW p \in Player, NEW t \in Clock, Signup(p, t)
  PROVE  LedgerInv'
<1> USE DEF Signup
<1>1. t \in Nat /\ NewRow(t) \in Row
  BY NewRowType, LedgerAssumption DEF Clock
<1>2. LedgerTypeOK'
  BY <1>1 DEF LedgerInv, LedgerTypeOK, Due
<1>3. /\ resource'[p] = NewRow(t)
      /\ due'[p] = [amount |-> 0, since |-> t]
      /\ level'[p] = NoLevels
      /\ command'[p] = NoCommands
      /\ \A o \in Occurrence : p \notin rewarded[o]
  BY DEF LedgerInv, LedgerTypeOK, NothingLeftOver
<1>4. \A q \in Player \ {p} : Untouched(q) /\ account'[q] = account[q]
  BY DEF LedgerInv, LedgerTypeOK, Untouched
<1>5. NothingLeftOver'
  BY <1>1, <1>3, <1>4
  DEF LedgerInv, NothingLeftOver, NewRow, LedgerTypeOK, Untouched
<1>6. PaidWhenApplied'
  BY DEF PaidWhenApplied, LedgerInv
<1>7. ASSUME NEW q \in Live'
      PROVE  /\ Conserved(q)'
             /\ Fits(resource[q])'
             /\ \A b \in Building : OneCommandEach(q, b)'
             /\ PaidFairly(q)'
  <2>1. CASE q = p
    <3>1. Conserved(p)'
      <4>1. level'[p]["mine"] = 0 /\ level'[p]["forge"] = 0
        BY <1>3 DEF NoLevels, Building
      <4>2. /\ BasePrice["mine"] \in Nat /\ BasePrice["forge"] \in Nat
            /\ RateIncrease["mine"] \in Nat /\ RateIncrease["forge"] \in Nat
            /\ InitialRate \in Nat
        BY CatalogueAssumption DEF Building
      <4> QED
        BY <1>3, <4>1, <4>2 DEF Conserved, TwiceSpentOn, NewRow
    <3>2. Fits(resource[p])'
      BY <1>3, CatalogueAssumption DEF Fits, NewRow
    <3>3. ASSUME NEW b \in Building PROVE OneCommandEach(p, b)'
      BY <1>3 DEF OneCommandEach, NoLevels, NoCommands
    <3>4. PaidFairly(p)'
      <4>1. {o \in Occurrence : p \in rewarded[o]} = {}
        BY <1>3
      <4>2. BonusesOf(p)' = 0
        <5>1. EventsFor(p)' = {}
          BY <4>1 DEF EventsFor
        <5> QED
          BY <5>1, FS_EmptySet, CatalogueAssumption DEF BonusesOf
      <4> QED
        BY <1>1, <1>3, <4>2, CatalogueAssumption DEF PaidFairly, NewRow, DueAt
    <3> QED
      BY <2>1, <3>1, <3>2, <3>3, <3>4
  <2>2. CASE q # p
    <3>1. q \in Live /\ Untouched(q)
      BY <1>4, <2>2 DEF Live
    <3> QED
      BY <3>1, PerPlayer, BonusesUnchanged, UntouchedKeeps
  <2> QED BY <2>1, <2>2
<1> QED
  BY <1>2, <1>5, <1>6, <1>7
  DEF LedgerInv, Conservation, WithinNumeric, OneCommandPerLevel, NeverOverpaid

LEMMA DeleteInv ==
  ASSUME LedgerInv, NEW p \in Player, Delete(p)
  PROVE  LedgerInv'
<1> USE DEF Delete
<1>1. NewRow(0) \in Row
  BY NewRowType
<1>2. LedgerTypeOK'
  BY <1>1, NoLevelsType, NoCommandsType DEF LedgerInv, LedgerTypeOK, Due
<1>3. \A q \in Player \ {p} : Untouched(q) /\ account'[q] = account[q]
  BY DEF LedgerInv, LedgerTypeOK, Untouched
<1>4. /\ account'[p] = "deleted" /\ level'[p] = NoLevels
      /\ command'[p] = NoCommands
      /\ due'[p] = [amount |-> 0, since |-> 0]
      /\ resource'[p] = NewRow(0)
  BY DEF LedgerInv, LedgerTypeOK
<1>5. NothingLeftOver'
  BY <1>3, <1>4 DEF LedgerInv, NothingLeftOver, NewRow, Untouched
<1>6. PaidWhenApplied'
  BY DEF PaidWhenApplied, LedgerInv
<1>7. ASSUME NEW q \in Live'
      PROVE  /\ Conserved(q)'
             /\ Fits(resource[q])'
             /\ \A b \in Building : OneCommandEach(q, b)'
             /\ PaidFairly(q)'
  <2>1. q \in Live /\ Untouched(q)
    BY <1>3, <1>4 DEF Live
  <2> QED
    BY <2>1, PerPlayer, BonusesUnchanged, UntouchedKeeps
<1> QED
  BY <1>2, <1>5, <1>6, <1>7
  DEF LedgerInv, Conservation, WithinNumeric, OneCommandPerLevel, NeverOverpaid

-----------------------------------------------------------------------------
(***************************************************************************)
(* Collecting.  The same step on a row settles a purchase, so what it does *)
(* to the earnings of a player is stated on the row.                       *)
(***************************************************************************)
LEMMA CollectionIsDue ==
  ASSUME NEW row \in Row, NEW t \in Nat, NEW since \in Nat, NEW amount \in Nat,
         NEW bonuses \in Nat, since <= row.last, row.lifetime >= bonuses,
         TicksPerSecond * (row.lifetime - bonuses)
           <= amount + (row.last - since) * row.rate
  PROVE  LET new == Collected(row, t) IN
           /\ new.last >= row.last
           /\ new.lifetime >= row.lifetime
           /\ TicksPerSecond * (new.lifetime - bonuses)
                <= amount + (new.last - since) * row.rate
<1> DEFINE c == Credit(row, t)
           last == CollectedAt(row, t)
<1>1. /\ row.lifetime \in Nat /\ row.rate \in Nat /\ row.last \in Nat
      /\ TicksPerSecond \in Nat
  BY CatalogueAssumption DEF Row
<1>2. /\ c \in Nat /\ last \in Nat /\ last >= row.last
      /\ TicksPerSecond * c <= (last - row.last) * row.rate
  BY CreditBounds, CollectedAtType
<1>3. Collected(row, t).last = last /\ Collected(row, t).lifetime = row.lifetime + c
  BY DEF Collected
<1> HIDE DEF c, last
<1>4. TicksPerSecond * ((row.lifetime - bonuses) + c)
        = TicksPerSecond * (row.lifetime - bonuses) + TicksPerSecond * c
  BY <1>1, <1>2, DistributesLeft
<1>5. ((row.last - since) + (last - row.last)) * row.rate
        = (row.last - since) * row.rate + (last - row.last) * row.rate
  BY <1>1, <1>2, Distributes
<1>6. /\ (row.lifetime + c) - bonuses = (row.lifetime - bonuses) + c
      /\ last - since = (row.last - since) + (last - row.last)
  BY <1>1, <1>2
<1> DEFINE a1 == TicksPerSecond * (row.lifetime - bonuses)
           a2 == TicksPerSecond * c
           b1 == (row.last - since) * row.rate
           b2 == (last - row.last) * row.rate
<1>7. a1 \in Int /\ a2 \in Int /\ b1 \in Int /\ b2 \in Int
  BY <1>1, <1>2
<1>8. a1 <= amount + b1 /\ a2 <= b2
  BY <1>2
<1> HIDE DEF a1, a2, b1, b2
<1>9. a1 + a2 <= amount + (b1 + b2)
  BY <1>7, <1>8
<1>10. TicksPerSecond * ((row.lifetime + c) - bonuses)
         <= amount + (last - since) * row.rate
  BY <1>4, <1>5, <1>6, <1>9 DEF a1, a2, b1, b2
<1> QED
  BY <1>1, <1>2, <1>3, <1>10

\* Earning adds the same to the gold held and to the lifetime earnings.
LEMMA ConservedByEarning ==
  \A gold, lifetime, c, s1, s2 \in Int :
    2 * gold = 2 * lifetime - s1 - s2 =>
      2 * (gold + c) = 2 * (lifetime + c) - s1 - s2
  OBVIOUS

LEMMA CollectInv ==
  ASSUME LedgerInv, NEW p \in Player, NEW t \in Clock, Collect(p, t)
  PROVE  LedgerInv'
<1> DEFINE row == resource[p]
           new == Collected(row, t)
<1>1. p \in Live /\ t \in Nat /\ row \in Row /\ new \in Row
  BY CollectedType, LedgerAssumption
  DEF Collect, Clock, Live, LedgerInv, LedgerTypeOK
<1>2. resource' = [resource EXCEPT ![p] = new]
      /\ UNCHANGED <<account, level, command, applied, rewarded, due>>
      /\ Fits(new)
  BY DEF Collect
<1>3. resource'[p] = new
      /\ \A q \in Player \ {p} : Untouched(q)
  BY <1>2 DEF LedgerInv, LedgerTypeOK, Untouched
<1>4. LedgerTypeOK'
  BY <1>1, <1>2 DEF LedgerInv, LedgerTypeOK
<1>5. /\ due[p].since \in Nat /\ due[p].amount \in Nat
      /\ due[p].since <= row.last
      /\ row.lifetime >= BonusesOf(p) /\ BonusesOf(p) \in Nat
      /\ TicksPerSecond * (row.lifetime - BonusesOf(p))
           <= due[p].amount + (row.last - due[p].since) * row.rate
  BY <1>1, PerPlayer, BonusesType
  DEF LedgerInv, LedgerTypeOK, Due, NothingLeftOver, PaidFairly, DueAt
<1>6. /\ new.last >= row.last /\ new.lifetime >= row.lifetime
      /\ TicksPerSecond * (new.lifetime - BonusesOf(p))
           <= due[p].amount + (new.last - due[p].since) * row.rate
  BY <1>1, <1>5, CollectionIsDue
<1>7. NothingLeftOver'
  BY <1>1, <1>2, <1>3, <1>5, <1>6
  DEF LedgerInv, NothingLeftOver, Untouched, Row
<1>8. PaidWhenApplied'
  BY <1>2 DEF PaidWhenApplied, LedgerInv
<1>9. ASSUME NEW q \in Live'
      PROVE  /\ Conserved(q)'
             /\ Fits(resource[q])'
             /\ \A b \in Building : OneCommandEach(q, b)'
             /\ PaidFairly(q)'
  <2>0. q \in Live
    BY <1>2 DEF Live
  <2>1. CASE q = p
    <3>1. Conserved(p)'
      <4> DEFINE c == Credit(row, t)
      <4>1. c \in Int /\ row.gold \in Int /\ row.lifetime \in Int
        BY <1>1, CreditBounds DEF Row
      <4>2. \A b \in Building :
              TwiceSpentOn(p, b) \in Int /\ TwiceSpentOn(p, b)' = TwiceSpentOn(p, b)
        BY <1>2, SpentType DEF TwiceSpentOn, LedgerInv
      <4>3. "mine" \in Building /\ "forge" \in Building
        BY DEF Building
      <4>4. Conserved(p)
        BY <1>1, PerPlayer
      <4>5. /\ new.gold = row.gold + c /\ new.lifetime = row.lifetime + c
            /\ new.rate = row.rate
        BY DEF Collected
      <4> HIDE DEF c, new
      <4>6. 2 * new.gold = 2 * new.lifetime - TwiceSpentOn(p, "mine")
                                            - TwiceSpentOn(p, "forge")
        BY <4>1, <4>2, <4>3, <4>4, <4>5, ConservedByEarning DEF Conserved
      <4> QED
        BY <1>2, <1>3, <4>2, <4>3, <4>4, <4>5, <4>6 DEF Conserved
    <3>2. Fits(resource[p])'
      BY <1>2, <1>3
    <3>3. ASSUME NEW b \in Building PROVE OneCommandEach(p, b)'
      BY <1>1, <1>2, PerPlayer DEF OneCommandEach, BoughtBy
    <3>4. PaidFairly(p)'
      <4>1. BonusesOf(p)' = BonusesOf(p)
        BY <1>2, BonusesUnchanged
      <4>2. new.rate = row.rate
        BY DEF Collected
      <4> QED
        BY <1>1, <1>2, <1>3, <1>5, <1>6, <4>1, <4>2 DEF PaidFairly, DueAt, Row
    <3> QED
      BY <2>1, <3>1, <3>2, <3>3, <3>4
  <2>2. CASE q # p
    BY <1>2, <1>3, <2>0, <2>2, PerPlayer, BonusesUnchanged, UntouchedKeeps
  <2> QED BY <2>1, <2>2
<1> QED
  BY <1>4, <1>7, <1>8, <1>9
  DEF LedgerInv, Conservation, WithinNumeric, OneCommandPerLevel, NeverOverpaid

-----------------------------------------------------------------------------
(***************************************************************************)
(* Buying.                                                                 *)
(***************************************************************************)
LEMMA SaveType ==
  ASSUME LedgerTypeOK, NEW p \in Player, NEW k \in Key, NEW b \in Building,
         NEW reason \in Reason, NEW n \in Nat, SaveCommand(p, k, b, reason, n)
  PROVE  /\ command' \in [Player -> [Key -> Command \cup {NoCommand}]]
         /\ command'[p][k] = [building |-> b, reason |-> reason, level |-> n]
         /\ \A j \in Key \ {k} : command'[p][j] = command[p][j]
         /\ \A q \in Player \ {p} : command'[q] = command[q]
<1> DEFINE new == [building |-> b, reason |-> reason, level |-> n]
<1>1. new \in Command
  BY DEF Command
<1>2. command' = [command EXCEPT ![p][k] = new]
  BY DEF SaveCommand
<1> HIDE DEF new
<1>3. /\ command' \in [Player -> [Key -> Command \cup {NoCommand}]]
      /\ command'[p][k] = new
      /\ \A j \in Key \ {k} : command'[p][j] = command[p][j]
      /\ \A q \in Player \ {p} : command'[q] = command[q]
  BY <1>1, <1>2 DEF LedgerTypeOK
<1> QED
  BY <1>3 DEF new

LEMMA RefuseInv ==
  ASSUME LedgerInv, NEW p \in Live, NEW k \in Key, NEW b \in Building,
         NEW reason \in Reason \ {"ok"}, command[p][k] = NoCommand,
         Refuse(p, k, b, reason)
  PROVE  LedgerInv'
<1>1. /\ p \in Player /\ 0 \in Nat /\ LedgerTypeOK
      /\ SaveCommand(p, k, b, reason, 0)
      /\ UNCHANGED <<account, resource, level, applied, rewarded, due>>
  BY DEF Refuse, Live, LedgerInv
<1>2. /\ command' \in [Player -> [Key -> Command \cup {NoCommand}]]
      /\ command'[p][k].reason # "ok"
      /\ \A j \in Key \ {k} : command'[p][j] = command[p][j]
      /\ \A q \in Player \ {p} : command'[q] = command[q]
  <2>1. reason \in Reason /\ reason # "ok"
    OBVIOUS
  <2>2. command'[p][k] = [building |-> b, reason |-> reason, level |-> 0]
    BY <1>1, <2>1, SaveType
  <2> QED
    BY <1>1, <2>1, <2>2, SaveType
<1>3. LedgerTypeOK'
  BY <1>1, <1>2 DEF LedgerTypeOK
<1>4. NothingLeftOver'
  BY <1>1, <1>2 DEF LedgerInv, NothingLeftOver, Live
<1>5. PaidWhenApplied'
  BY <1>1 DEF PaidWhenApplied, LedgerInv
<1>6. ASSUME NEW q \in Live'
      PROVE  /\ Conserved(q)'
             /\ Fits(resource[q])'
             /\ \A a \in Building : OneCommandEach(q, a)'
             /\ PaidFairly(q)'
  <2>0. q \in Live /\ q \in Player
    BY <1>1 DEF Live
  <2>1. CASE q = p
    <3>1. Conserved(p)' /\ Fits(resource[p])' /\ PaidFairly(p)'
      BY <1>1, PerPlayer, BonusesUnchanged
      DEF Conserved, TwiceSpentOn, PaidFairly, DueAt
    <3>2. ASSUME NEW a \in Building PROVE OneCommandEach(p, a)'
      <4>1. level[p][a] \in Nat /\ OneCommandEach(p, a)
        BY <1>1, PerPlayer, CatalogueAssumption DEF LedgerTypeOK
      <4>2. ASSUME NEW n \in Nat PROVE BoughtBy(p, a, n)' = BoughtBy(p, a, n)
        <5>1. [building |-> a, reason |-> "ok", level |-> n] \in Command
          BY DEF Command, Reason
        <5>2. k \notin BoughtBy(p, a, n)' /\ k \notin BoughtBy(p, a, n)
          BY <1>2, <5>1, NoCommandAssumption DEF BoughtBy
        <5> QED
          BY <1>2, <5>2 DEF BoughtBy
      <4>3. \A n \in 1..level'[p][a] : \E j \in BoughtBy(p, a, n)' :
                                         \A i \in BoughtBy(p, a, n)' : i = j
        BY <1>1, <4>1, <4>2 DEF OneCommandEach
      <4>4. ASSUME NEW j \in Key, command'[p][j] # NoCommand,
                   j \in BoughtBy(p, a, command[p][j].level)'
            PROVE  command'[p][j].level \in 1..level'[p][a]
        <5>1. j # k
          BY <1>2, <4>4 DEF BoughtBy
        <5> QED
          BY <1>1, <1>2, <4>1, <4>4, <5>1 DEF OneCommandEach, BoughtBy
      <4> QED
        BY <4>3, <4>4 DEF OneCommandEach
    <3> QED
      BY <2>1, <3>1, <3>2
  <2>2. CASE q # p
    <3>1. Untouched(q)
      BY <1>1, <1>2, <2>0, <2>2 DEF Untouched
    <3> QED
      BY <1>1, <2>0, <3>1, PerPlayer, BonusesUnchanged, UntouchedKeeps
  <2> QED BY <2>1, <2>2
<1> QED
  BY <1>3, <1>4, <1>5, <1>6
  DEF LedgerInv, Conservation, WithinNumeric, OneCommandPerLevel, NeverOverpaid

LEMMA UpgradeInv ==
  ASSUME LedgerInv, NEW p \in Live, NEW k \in Key, NEW b \in Building,
         NEW t \in Clock, NEW n, n = level[p][b] + 1, n <= MaxLevel,
         command[p][k] = NoCommand, resource[p].gold >= PriceForLevel(b, n),
         Upgrade(p, k, b, n, t)
  PROVE  LedgerInv'
<1> DEFINE row == resource[p]
           price == PriceForLevel(b, n)
           paid == Paid(row, price)
           c == Credit(paid, t)
           settled == Collected(paid, t)
           new == Upgraded(settled, b)
<1>1. /\ p \in Player /\ t \in Nat /\ LedgerTypeOK /\ row \in Row
      /\ n \in Nat /\ n \in 1..MaxLevel /\ level[p][b] \in Nat
  BY LedgerAssumption, CatalogueAssumption
  DEF Live, Clock, LedgerInv, LedgerTypeOK
<1>2. /\ price \in Nat /\ paid \in Row
      /\ paid.gold = row.gold - price /\ paid.lifetime = row.lifetime
      /\ paid.rate = row.rate /\ paid.last = row.last
  BY <1>1, PriceType, PaidType
<1>3. /\ c \in Nat /\ settled \in Row
      /\ settled.gold = paid.gold + c /\ settled.lifetime = paid.lifetime + c
      /\ settled.rate = paid.rate
  BY <1>1, <1>2, CreditBounds, CollectedType DEF Collected
<1>4. /\ new \in Row
      /\ new.gold = (row.gold - price) + c /\ new.lifetime = row.lifetime + c
      /\ new.rate = row.rate + RateIncrease[b] /\ new.last = settled.last
  BY <1>2, <1>3, UpgradedType
<1>5. /\ Fits(settled)
      /\ SaveCommand(p, k, b, "ok", n)
      /\ level' = [level EXCEPT ![p][b] = n]
      /\ resource' = [resource EXCEPT ![p] = new]
      /\ due' = [due EXCEPT ![p] = [amount |-> DueAt(p, settled.last),
                                    since  |-> settled.last]]
      /\ UNCHANGED <<account, applied, rewarded>>
  BY DEF Upgrade
<1>6. /\ row.gold \in Nat /\ row.lifetime \in Nat /\ row.rate \in Nat
      /\ settled.last \in Nat
  BY <1>1, <1>3 DEF Row
<1>7. /\ due[p].since \in Nat /\ due[p].amount \in Nat
      /\ due[p].since <= row.last
      /\ row.lifetime >= BonusesOf(p) /\ BonusesOf(p) \in Nat
      /\ TicksPerSecond * (row.lifetime - BonusesOf(p))
           <= due[p].amount + (row.last - due[p].since) * row.rate
  BY <1>1, PerPlayer, BonusesType
  DEF LedgerInv, LedgerTypeOK, Due, NothingLeftOver, PaidFairly, DueAt
<1>8. /\ settled.last >= row.last
      /\ TicksPerSecond * (settled.lifetime - BonusesOf(p)) <= DueAt(p, settled.last)
  <2> HIDE DEF paid
  <2> QED
    BY <1>1, <1>2, <1>7, CollectionIsDue DEF DueAt
<1> HIDE DEF row, price, paid, c, settled, new
<1>9. DueAt(p, settled.last) \in Nat
  <2>1. settled.last - due[p].since \in Nat
    BY <1>1, <1>6, <1>7, <1>8 DEF Row
  <2>2. (settled.last - due[p].since) * row.rate \in Nat
    BY <1>6, <2>1, ProductType
  <2> QED
    BY <1>7, <2>2 DEF DueAt, row
<1>10. "ok" \in Reason
  BY DEF Reason
<1>11. /\ command' \in [Player -> [Key -> Command \cup {NoCommand}]]
       /\ command'[p][k] = [building |-> b, reason |-> "ok", level |-> n]
       /\ \A j \in Key \ {k} : command'[p][j] = command[p][j]
       /\ \A q \in Player \ {p} : command'[q] = command[q]
  BY <1>1, <1>5, <1>10, SaveType
<1>12. /\ level' \in [Player -> [Building -> 0..MaxLevel]]
       /\ level'[p][b] = n
       /\ \A a \in Building \ {b} : level'[p][a] = level[p][a]
       /\ \A q \in Player \ {p} : level'[q] = level[q]
  BY <1>1, <1>5 DEF LedgerTypeOK
<1>13. /\ resource'[p] = new
       /\ due'[p] = [amount |-> DueAt(p, settled.last), since |-> settled.last]
       /\ \A q \in Player \ {p} : Untouched(q)
  BY <1>1, <1>5, <1>11, <1>12 DEF LedgerTypeOK, Untouched
<1>14. LedgerTypeOK'
  <2>1. [amount |-> DueAt(p, settled.last), since |-> settled.last] \in Due
    BY <1>6, <1>9 DEF Due
  <2> QED
    BY <1>1, <1>4, <1>5, <1>11, <1>12, <2>1 DEF LedgerTypeOK
<1>15. NothingLeftOver'
  BY <1>4, <1>5, <1>6, <1>13 DEF LedgerInv, NothingLeftOver, Untouched, Live
<1>16. PaidWhenApplied'
  BY <1>5 DEF PaidWhenApplied, LedgerInv
<1>17. Conserved(p)'
  <2>1. /\ BasePrice[b] \in Nat /\ RateIncrease[b] \in Nat
        /\ \A a \in Building : TwiceSpentOn(p, a) \in Nat
        /\ \A a \in Building : RateIncrease[a] \in Nat /\ level[p][a] \in Nat
        /\ InitialRate \in Nat
    BY <1>1, SpentType, CatalogueAssumption DEF LedgerTypeOK
  <2>2. Conserved(p)
    BY PerPlayer
  <2>3. TwiceSpentOn(p, b)' = TwiceSpentOn(p, b) + 2 * price
    <3> DEFINE m == level[p][b]
               x == BasePrice[b]
    <3>1. m \in Nat /\ x \in Nat /\ n = m + 1 /\ n + 1 = m + 2
      BY <1>1, <2>1
    <3>2. /\ TwiceSpentOn(p, b) = x * (m * (m + 1))
          /\ TwiceSpentOn(p, b)' = x * (n * (n + 1))
          /\ price = x * n
      BY <1>12 DEF TwiceSpentOn, price, PriceForLevel
    <3> HIDE DEF m, x
    <3> QED
      BY <3>1, <3>2, Triangular
  <2>4. \A a \in Building \ {b} : TwiceSpentOn(p, a)' = TwiceSpentOn(p, a)
    BY <1>12 DEF TwiceSpentOn
  <2>5. RateIncrease[b] * level'[p][b] = RateIncrease[b] * level[p][b] + RateIncrease[b]
    BY <1>1, <1>12, <2>1, DistributesLeft
  <2>6. /\ 2 * new.gold = 2 * new.lifetime - TwiceSpentOn(p, "mine")'
                                           - TwiceSpentOn(p, "forge")'
        /\ new.rate = InitialRate + RateIncrease["mine"] * level'[p]["mine"]
                                  + RateIncrease["forge"] * level'[p]["forge"]
    <3> DEFINE m == RateIncrease["mine"] * level[p]["mine"]
               f == RateIncrease["forge"] * level[p]["forge"]
               sm == TwiceSpentOn(p, "mine")
               sf == TwiceSpentOn(p, "forge")
    <3>1. m \in Nat /\ f \in Nat /\ sm \in Nat /\ sf \in Nat
      BY <2>1, ProductType DEF Building
    <3>2. 2 * row.gold = 2 * row.lifetime - sm - sf /\ row.rate = InitialRate + m + f
      BY <2>2 DEF Conserved, row
    <3>3. /\ 2 * new.gold = 2 * new.lifetime - (sm + 2 * price) - sf
          /\ 2 * new.gold = 2 * new.lifetime - sm - (sf + 2 * price)
      <4> HIDE DEF m, f, sm, sf
      <4>1. /\ row.gold \in Int /\ row.lifetime \in Int /\ c \in Int
            /\ price \in Int /\ sm \in Int /\ sf \in Int
        BY <1>2, <1>3, <1>6, <3>1
      <4>2. 2 * ((row.gold - price) + c) = 2 * (row.lifetime + c) - (sm + 2 * price) - sf
        BY <3>2, <4>1
      <4>3. 2 * ((row.gold - price) + c) = 2 * (row.lifetime + c) - sm - (sf + 2 * price)
        BY <3>2, <4>1
      <4> QED
        BY <1>4, <4>2, <4>3
    <3>4. CASE b = "mine"
      <4>1. /\ TwiceSpentOn(p, "mine")' = sm + 2 * price
            /\ TwiceSpentOn(p, "forge")' = sf
            /\ RateIncrease["mine"] * level'[p]["mine"] = m + RateIncrease[b]
            /\ RateIncrease["forge"] * level'[p]["forge"] = f
        BY <1>12, <2>3, <2>4, <2>5, <3>4 DEF Building
      <4> HIDE DEF m, f, sm, sf
      <4>2. 2 * new.gold = 2 * new.lifetime - TwiceSpentOn(p, "mine")'
                                           - TwiceSpentOn(p, "forge")'
        BY <3>3, <4>1
      <4>3. new.rate = InitialRate + RateIncrease["mine"] * level'[p]["mine"]
                                   + RateIncrease["forge"] * level'[p]["forge"]
        BY <1>4, <2>1, <3>1, <3>2, <4>1
      <4> QED
        BY <4>2, <4>3
    <3>5. CASE b = "forge"
      <4>1. /\ TwiceSpentOn(p, "mine")' = sm
            /\ TwiceSpentOn(p, "forge")' = sf + 2 * price
            /\ RateIncrease["mine"] * level'[p]["mine"] = m
            /\ RateIncrease["forge"] * level'[p]["forge"] = f + RateIncrease[b]
        BY <1>12, <2>3, <2>4, <2>5, <3>5 DEF Building
      <4> HIDE DEF m, f, sm, sf
      <4>2. 2 * new.gold = 2 * new.lifetime - TwiceSpentOn(p, "mine")'
                                           - TwiceSpentOn(p, "forge")'
        BY <3>3, <4>1
      <4>3. new.rate = InitialRate + RateIncrease["mine"] * level'[p]["mine"]
                                   + RateIncrease["forge"] * level'[p]["forge"]
        BY <1>4, <2>1, <3>1, <3>2, <4>1
      <4> QED
        BY <4>2, <4>3
    <3> QED BY <3>4, <3>5 DEF Building
  <2> QED
    BY <1>13, <2>6 DEF Conserved
<1>18. Fits(resource[p])'
  BY <1>2, <1>3, <1>4, <1>5, <1>13 DEF Fits
<1>19. ASSUME NEW a \in Building PROVE OneCommandEach(p, a)'
  <2>1. OneCommandEach(p, a) /\ level[p][a] \in Nat
    BY <1>1, PerPlayer, CatalogueAssumption DEF LedgerTypeOK
  <2>2. ASSUME NEW i \in Nat, a # b \/ i # n
        PROVE  BoughtBy(p, a, i)' = BoughtBy(p, a, i)
    <3>1. [building |-> a, reason |-> "ok", level |-> i] \in Command
      BY <1>10 DEF Command
    <3>2. k \notin BoughtBy(p, a, i)' /\ k \notin BoughtBy(p, a, i)
      BY <1>11, <2>2, <3>1, NoCommandAssumption DEF BoughtBy
    <3> QED
      BY <1>11, <3>2 DEF BoughtBy
  <2>3. ASSUME a = b PROVE BoughtBy(p, a, n)' = {k}
    <3>1. ASSUME NEW j \in Key, j \in BoughtBy(p, b, n) PROVE FALSE
      <4>1. [building |-> b, reason |-> "ok", level |-> n] \in Command
        BY <1>1, <1>10 DEF Command
      <4>2. command[p][j] # NoCommand /\ command[p][j].level = n
        BY <3>1, <4>1, NoCommandAssumption DEF BoughtBy
      <4>3. n \in 1..level[p][b]
        BY <2>1, <2>3, <3>1, <4>2 DEF OneCommandEach
      <4> QED
        BY <1>1, <4>3
    <3> QED
      BY <1>11, <2>3, <3>1 DEF BoughtBy
  <2>4. ASSUME NEW i \in 1..level'[p][a]
        PROVE  \E j \in BoughtBy(p, a, i)' : \A h \in BoughtBy(p, a, i)' : h = j
    <3>1. CASE a = b /\ i = n
      BY <2>3, <3>1
    <3>2. CASE ~(a = b /\ i = n)
      <4>1. i \in Nat /\ i \in 1..level[p][a]
        BY <1>1, <1>12, <2>1, <3>2
      <4> QED
        BY <2>1, <2>2, <3>2, <4>1 DEF OneCommandEach
    <3> QED BY <3>1, <3>2
  <2>5. ASSUME NEW j \in Key, command'[p][j] # NoCommand,
               j \in BoughtBy(p, a, command[p][j].level)'
        PROVE  command'[p][j].level \in 1..level'[p][a]
    <3>1. CASE j = k
      <4>1. a = b
        BY <1>11, <2>5, <3>1 DEF BoughtBy
      <4> QED
        BY <1>1, <1>11, <1>12, <3>1, <4>1
    <3>2. CASE j # k
      <4>1. command'[p][j] = command[p][j] /\ j \in BoughtBy(p, a, command[p][j].level)
        BY <1>11, <2>5, <3>2 DEF BoughtBy
      <4>2. command[p][j].level \in 1..level[p][a]
        BY <2>1, <2>5, <4>1 DEF OneCommandEach
      <4> QED
        BY <1>1, <1>12, <2>1, <4>1, <4>2
    <3> QED BY <3>1, <3>2
  <2> QED
    BY <2>4, <2>5 DEF OneCommandEach
<1>20. PaidFairly(p)'
  <2>1. BonusesOf(p)' = BonusesOf(p)
    BY <1>5, BonusesUnchanged
  <2>2. DueAt(p, resource[p].last)' = DueAt(p, settled.last)
    <3>1. DueAt(p, resource[p].last)'
            = due'[p].amount + (resource'[p].last - due'[p].since) * resource'[p].rate
      BY DEF DueAt
    <3>2. /\ resource'[p].last - due'[p].since = 0
          /\ resource'[p].rate \in Nat
          /\ due'[p].amount = DueAt(p, settled.last)
      BY <1>4, <1>6, <1>13 DEF Row
    <3> QED
      BY <1>9, <3>1, <3>2
  <2>4. new.lifetime = settled.lifetime /\ new.lifetime >= BonusesOf(p)
    BY <1>2, <1>3, <1>4, <1>6, <1>7 DEF row
  <2> QED
    BY <1>8, <1>13, <2>1, <2>2, <2>4 DEF PaidFairly
<1>21. ASSUME NEW q \in Live', q # p
       PROVE  /\ Conserved(q)'
              /\ Fits(resource[q])'
              /\ \A a \in Building : OneCommandEach(q, a)'
              /\ PaidFairly(q)'
  <2>1. q \in Live /\ Untouched(q)
    BY <1>5, <1>13, <1>21 DEF Live
  <2> QED
    BY <1>5, <2>1, PerPlayer, BonusesUnchanged, UntouchedKeeps
<1> QED
  BY <1>14, <1>15, <1>16, <1>17, <1>18, <1>19, <1>20, <1>21
  DEF LedgerInv, Conservation, WithinNumeric, OneCommandPerLevel, NeverOverpaid

LEMMA BuyInv ==
  ASSUME LedgerInv, NEW p \in Player, NEW k \in Key, NEW b \in Building,
         NEW t \in Clock, Buy(p, k, b, t)
  PROVE  LedgerInv'
<1> DEFINE n == level[p][b] + 1
<1>1. p \in Live /\ command[p][k] = NoCommand
  BY DEF Buy, Live
<1>2. \/ Refuse(p, k, b, "max_level_reached")
      \/ Refuse(p, k, b, "insufficient_funds")
      \/ n <= MaxLevel /\ resource[p].gold >= PriceForLevel(b, n) /\ Upgrade(p, k, b, n, t)
  BY DEF Buy
<1>3. /\ "max_level_reached" \in Reason \ {"ok"}
      /\ "insufficient_funds" \in Reason \ {"ok"}
  BY DEF Reason
<1>4. CASE Refuse(p, k, b, "max_level_reached")
  BY <1>1, <1>3, <1>4, RefuseInv
<1>5. CASE Refuse(p, k, b, "insufficient_funds")
  BY <1>1, <1>3, <1>5, RefuseInv
<1>6. CASE n <= MaxLevel /\ resource[p].gold >= PriceForLevel(b, n) /\ Upgrade(p, k, b, n, t)
  BY <1>1, <1>6, UpgradeInv
<1> QED
  BY <1>2, <1>4, <1>5, <1>6

-----------------------------------------------------------------------------
(***************************************************************************)
(* World events.                                                           *)
(***************************************************************************)
LEMMA GrantInv ==
  ASSUME LedgerInv, NEW o \in Occurrence, NEW recipients \in SUBSET Player,
         Grant(o, recipients)
  PROVE  LedgerInv'
<1>1. /\ LedgerTypeOK /\ o \notin applied /\ rewarded[o] = {}
      /\ recipients \subseteq Live
      /\ \A p \in recipients : Fits(Rewarded(resource[p]))
      /\ applied' = applied \cup {o}
      /\ rewarded' = [rewarded EXCEPT ![o] = recipients]
      /\ resource' = [p \in Player |->
           IF p \in recipients THEN Rewarded(resource[p]) ELSE resource[p]]
      /\ UNCHANGED <<account, level, command, due>>
  BY DEF Grant, LedgerInv, PaidWhenApplied
<1>2. \A p \in Player : resource[p] \in Row
  BY <1>1 DEF LedgerTypeOK
<1>3. LedgerTypeOK'
  BY <1>1, <1>2, RewardedType DEF LedgerTypeOK
<1>4. /\ rewarded'[o] = recipients
      /\ \A e \in Occurrence \ {o} : rewarded'[e] = rewarded[e]
  BY <1>1 DEF LedgerTypeOK
<1>5. NothingLeftOver'
  <2> SUFFICES ASSUME NEW p \in Player
               PROVE  /\ account'[p] # "live" =>
                           level'[p] = NoLevels /\ command'[p] = NoCommands
                      /\ account'[p] = "none" => \A e \in Occurrence : p \notin rewarded'[e]
                      /\ due'[p].since <= resource'[p].last
    BY DEF NothingLeftOver
  <2>1. resource'[p].last = resource[p].last
    BY <1>1, <1>2, RewardedType
  <2>2. account[p] = "none" => p \notin recipients
    BY <1>1 DEF Live
  <2> QED
    BY <1>1, <1>4, <2>1, <2>2 DEF LedgerInv, NothingLeftOver
<1>6. PaidWhenApplied'
  BY <1>1, <1>4 DEF LedgerInv, PaidWhenApplied
<1>7. ASSUME NEW q \in Live'
      PROVE  /\ Conserved(q)'
             /\ Fits(resource[q])'
             /\ \A b \in Building : OneCommandEach(q, b)'
             /\ PaidFairly(q)'
  <2>1. q \in Live /\ q \in Player
    BY <1>1 DEF Live
  <2>2. CASE q \in recipients
    <3> DEFINE row == resource[q]
               new == Rewarded(row)
    <3>1. /\ resource'[q] = new /\ row \in Row
          /\ new.gold = row.gold + BonusAmount
          /\ new.lifetime = row.lifetime + BonusAmount
          /\ new.rate = row.rate /\ new.last = row.last
      BY <1>1, <1>2, <2>1, <2>2, RewardedType
    <3>2. row.gold \in Nat /\ row.lifetime \in Nat /\ BonusAmount \in Nat
      BY <3>1, CatalogueAssumption DEF Row
    <3>3. Conserved(q)'
      <4>1. \A b \in Building :
              TwiceSpentOn(q, b) \in Nat /\ TwiceSpentOn(q, b)' = TwiceSpentOn(q, b)
        BY <1>1, <2>1, SpentType DEF TwiceSpentOn
      <4>2. "mine" \in Building /\ "forge" \in Building
        BY DEF Building
      <4>3. Conserved(q)
        BY <2>1, PerPlayer
      <4> HIDE DEF new
      <4>4. 2 * new.gold = 2 * new.lifetime - TwiceSpentOn(q, "mine")
                                            - TwiceSpentOn(q, "forge")
        <5> DEFINE sm == TwiceSpentOn(q, "mine")
                   sf == TwiceSpentOn(q, "forge")
        <5>1. 2 * row.gold = 2 * row.lifetime - sm - sf /\ sm \in Nat /\ sf \in Nat
          BY <4>1, <4>2, <4>3 DEF Conserved
        <5>2. /\ row.gold \in Int /\ row.lifetime \in Int /\ BonusAmount \in Int
              /\ sm \in Int /\ sf \in Int
          BY <3>2, <5>1
        <5> HIDE DEF sm, sf
        <5>3. 2 * (row.gold + BonusAmount) = 2 * (row.lifetime + BonusAmount) - sm - sf
          BY <5>1, <5>2
        <5> QED
          BY <3>1, <5>3 DEF sm, sf
      <4> QED
        BY <1>1, <3>1, <4>1, <4>2, <4>3, <4>4 DEF Conserved
    <3>4. Fits(resource[q])'
      BY <1>1, <2>2, <3>1
    <3>5. ASSUME NEW b \in Building PROVE OneCommandEach(q, b)'
      BY <1>1, <2>1, PerPlayer DEF OneCommandEach, BoughtBy
    <3>6. BonusesOf(q)' = BonusesOf(q) + BonusAmount
      <4>1. EventsFor(q)' = EventsFor(q) \cup {o}
        BY <1>4, <2>2 DEF EventsFor
      <4>2. IsFiniteSet(EventsFor(q)) /\ o \notin EventsFor(q)
        BY <1>1, LedgerAssumption, FS_Subset DEF EventsFor
      <4>3. /\ Cardinality(EventsFor(q)') = Cardinality(EventsFor(q)) + 1
            /\ Cardinality(EventsFor(q)) \in Nat
        BY <4>1, <4>2, FS_AddElement, FS_CardinalityType
      <4> QED
        BY <3>2, <4>3, DistributesLeft DEF BonusesOf
    <3>7. PaidFairly(q)'
      <4>1. PaidFairly(q) /\ BonusesOf(q) \in Nat
        BY <2>1, PerPlayer, BonusesType
      <4>2. DueAt(q, resource[q].last)' = DueAt(q, resource[q].last)
        BY <1>1, <3>1 DEF DueAt
      <4>3. /\ resource'[q].lifetime - BonusesOf(q)' = resource[q].lifetime - BonusesOf(q)
            /\ resource'[q].lifetime >= BonusesOf(q)'
        BY <3>1, <3>2, <3>6, <4>1 DEF PaidFairly
      <4> QED
        BY <4>1, <4>2, <4>3 DEF PaidFairly
    <3> QED
      BY <3>3, <3>4, <3>5, <3>7
  <2>3. CASE q \notin recipients
    <3>1. Untouched(q)
      BY <1>1, <2>1, <2>3 DEF Untouched
    <3>2. EventsFor(q)' = EventsFor(q)
      BY <1>1, <1>4, <2>3 DEF EventsFor
    <3>3. BonusesOf(q)' = BonusesOf(q)
      BY <3>2 DEF BonusesOf
    <3> QED
      BY <2>1, <3>1, <3>3, PerPlayer, UntouchedKeeps
  <2> QED BY <2>2, <2>3
<1> QED
  BY <1>3, <1>5, <1>6, <1>7
  DEF LedgerInv, Conservation, WithinNumeric, OneCommandPerLevel, NeverOverpaid

-----------------------------------------------------------------------------
(***************************************************************************)
(* Every step of the serial economy keeps the invariant.                   *)
(***************************************************************************)
LEMMA LedgerNextInv == LedgerInv /\ [LedgerNext]_ledgerVars => LedgerInv'
<1> SUFFICES ASSUME LedgerInv, [LedgerNext]_ledgerVars PROVE LedgerInv'
  OBVIOUS
<1>1. CASE LedgerNext
  <2>1. ASSUME NEW p \in Player, Delete(p) PROVE LedgerInv'
    BY <2>1, DeleteInv
  <2>2. ASSUME NEW p \in Player, NEW t \in Clock, Signup(p, t) PROVE LedgerInv'
    BY <2>2, SignupInv
  <2>3. ASSUME NEW p \in Player, NEW t \in Clock, Collect(p, t) PROVE LedgerInv'
    BY <2>3, CollectInv
  <2>4. ASSUME NEW p \in Player, NEW t \in Clock, NEW k \in Key, NEW b \in Building,
               Buy(p, k, b, t)
        PROVE  LedgerInv'
    BY <2>4, BuyInv
  <2>5. ASSUME NEW o \in Occurrence, NEW recipients \in SUBSET Player,
               Grant(o, recipients)
        PROVE  LedgerInv'
    BY <2>5, GrantInv
  <2> QED
    BY <1>1, <2>1, <2>2, <2>3, <2>4, <2>5 DEF LedgerNext
<1>2. CASE UNCHANGED ledgerVars
  <2> USE <1>2 DEF ledgerVars
  <2>1. LedgerTypeOK' /\ NothingLeftOver' /\ PaidWhenApplied' /\ Live' = Live
    BY DEF LedgerInv, LedgerTypeOK, NothingLeftOver, PaidWhenApplied, Live
  <2>2. ASSUME NEW q \in Live
        PROVE  /\ Conserved(q)'
               /\ Fits(resource[q])'
               /\ \A b \in Building : OneCommandEach(q, b)'
               /\ PaidFairly(q)'
    <3>1. Untouched(q)
      BY DEF Untouched
    <3> QED
      BY <3>1, PerPlayer, BonusesUnchanged, UntouchedKeeps
  <2> QED
    BY <2>1, <2>2
    DEF LedgerInv, Conservation, WithinNumeric, OneCommandPerLevel, NeverOverpaid
<1> QED
  BY <1>1, <1>2

-----------------------------------------------------------------------------
(***************************************************************************)
(* Theorem LedgerInvariant: in every reachable state of the serial economy *)
(* gold is conserved, every amount fits its column, every level has one    *)
(* command, and nobody is overpaid.                                        *)
(***************************************************************************)
THEOREM LedgerInvariant == LedgerSpec => []LedgerInv
<1>1. LedgerInit => LedgerInv
  BY LedgerInitInv
<1>2. LedgerInv /\ [LedgerNext]_ledgerVars => LedgerInv'
  BY LedgerNextInv
<1> QED
  BY <1>1, <1>2, PTL DEF LedgerSpec

LEMMA CollectionMonotone ==
  ASSUME NEW row \in Row, NEW t \in Nat
  PROVE  /\ Collected(row, t).lifetime >= row.lifetime
         /\ Collected(row, t).rate >= row.rate
         /\ Collected(row, t).last >= row.last
<1>1. /\ Credit(row, t) \in Nat /\ row.lifetime \in Nat /\ row.rate \in Nat
      /\ CollectedAt(row, t) >= row.last
  BY CreditBounds, CollectedAtType DEF Row
<1>2. row.lifetime + Credit(row, t) >= row.lifetime /\ row.rate >= row.rate
  BY <1>1
<1> QED
  BY <1>1, <1>2 DEF Collected

LEMMA UpgradeMonotone ==
  ASSUME NEW row \in Row, NEW t \in Nat, NEW b \in Building,
         NEW price \in Nat, price <= row.gold
  PROVE  LET new == Upgraded(Collected(Paid(row, price), t), b) IN
           /\ new.lifetime >= row.lifetime
           /\ new.rate >= row.rate
           /\ new.last >= row.last
<1> DEFINE paid == Paid(row, price)
           settled == Collected(paid, t)
           new == Upgraded(settled, b)
<1>1. /\ paid \in Row /\ paid.lifetime = row.lifetime
      /\ paid.rate = row.rate /\ paid.last = row.last
  BY PaidType
<1> HIDE DEF paid
<1>2. /\ settled \in Row /\ settled.lifetime >= paid.lifetime
      /\ settled.rate >= paid.rate /\ settled.last >= paid.last
  BY <1>1, CollectedType, CollectionMonotone
<1> HIDE DEF settled
<1>3. /\ new.lifetime = settled.lifetime /\ new.rate = settled.rate + RateIncrease[b]
      /\ new.last = settled.last
  BY <1>2, UpgradedType
<1>4. /\ RateIncrease[b] \in Nat /\ settled.rate \in Nat /\ row.rate \in Nat
  BY <1>2, CatalogueAssumption DEF Row
<1>5. new.rate >= row.rate
  BY <1>1, <1>2, <1>3, <1>4
<1> QED
  BY <1>1, <1>2, <1>3, <1>5 DEF settled, paid

LEMMA MonotoneNext == LedgerInv /\ [LedgerNext]_ledgerVars => MonotoneStep
<1> SUFFICES ASSUME LedgerInv, [LedgerNext]_ledgerVars, NEW p \in Player,
                    account[p] = "live", account'[p] = "live"
             PROVE  /\ resource'[p].lifetime >= resource[p].lifetime
                    /\ resource'[p].rate >= resource[p].rate
                    /\ resource'[p].last >= resource[p].last
  BY DEF MonotoneStep
<1>1. /\ resource[p] \in Row /\ LedgerTypeOK
      /\ resource[p].lifetime \in Nat /\ resource[p].rate \in Nat
      /\ resource[p].last \in Nat
  BY DEF LedgerInv, LedgerTypeOK, Row
<1>2. CASE resource'[p] = resource[p]
  BY <1>1, <1>2
<1>3. ASSUME NEW t \in Clock, resource'[p] = Collected(resource[p], t)
      PROVE  /\ resource'[p].lifetime >= resource[p].lifetime
             /\ resource'[p].rate >= resource[p].rate
             /\ resource'[p].last >= resource[p].last
  <2>1. t \in Nat
    BY LedgerAssumption DEF Clock
  <2> QED
    BY <1>1, <1>3, <2>1, CollectionMonotone
<1>4. CASE LedgerNext
  <2>1. ASSUME NEW q \in Player, Delete(q) PROVE resource'[p] = resource[p]
    BY <1>1, <2>1 DEF Delete, LedgerTypeOK
  <2>2. ASSUME NEW q \in Player, NEW t \in Clock, Signup(q, t)
        PROVE  resource'[p] = resource[p]
    BY <1>1, <2>2 DEF Signup, LedgerTypeOK
  <2>3. ASSUME NEW q \in Player, NEW t \in Clock, Collect(q, t)
        PROVE  resource'[p] = resource[p] \/ resource'[p] = Collected(resource[p], t)
    BY <1>1, <2>3 DEF Collect, LedgerTypeOK
  <2>4. ASSUME NEW q \in Player, NEW t \in Clock, NEW k \in Key, NEW b \in Building,
               Buy(q, k, b, t), resource'[p] # resource[p]
        PROVE  /\ resource'[p].lifetime >= resource[p].lifetime
               /\ resource'[p].rate >= resource[p].rate
               /\ resource'[p].last >= resource[p].last
    <3> DEFINE n == level[q][b] + 1
               price == PriceForLevel(b, n)
    <3>1. n <= MaxLevel /\ resource[q].gold >= price /\ Upgrade(q, k, b, n, t)
      BY <2>4 DEF Buy, Refuse
    <3>2. /\ q = p
          /\ resource'[p] = Upgraded(Collected(Paid(resource[p], price), t), b)
      BY <1>1, <2>4, <3>1 DEF Upgrade, LedgerTypeOK
    <3>3. n \in Nat /\ t \in Nat
      BY <1>1, LedgerAssumption, CatalogueAssumption DEF LedgerTypeOK, Clock
    <3> HIDE DEF n
    <3>4. price \in Nat
      BY <3>3, PriceType
    <3> HIDE DEF price
    <3> QED
      BY <1>1, <3>1, <3>2, <3>3, <3>4, UpgradeMonotone
  <2>5. ASSUME NEW o \in Occurrence, NEW recipients \in SUBSET Player,
               Grant(o, recipients)
        PROVE  /\ resource'[p].lifetime >= resource[p].lifetime
               /\ resource'[p].rate >= resource[p].rate
               /\ resource'[p].last >= resource[p].last
    <3>1. resource'[p] = resource[p] \/ resource'[p] = Rewarded(resource[p])
      BY <2>5 DEF Grant
    <3>2. BonusAmount \in Nat
      BY CatalogueAssumption
    <3> QED
      BY <1>1, <3>1, <3>2, RewardedType
  <2> QED
    BY <1>2, <1>3, <1>4, <2>1, <2>2, <2>3, <2>4, <2>5 DEF LedgerNext
<1> QED
  BY <1>2, <1>4 DEF ledgerVars

(***************************************************************************)
(* Theorem LedgerMonotone: earnings, rate and checkpoint of a live account *)
(* never decrease.                                                         *)
(***************************************************************************)
THEOREM LedgerMonotone == LedgerSpec => Monotone
<1>1. LedgerInv /\ [LedgerNext]_ledgerVars => [MonotoneStep]_ledgerVars
  BY MonotoneNext
<1> QED
  BY <1>1, LedgerInvariant, PTL DEF LedgerSpec, Monotone

LEMMA PermanentNext == LedgerInv /\ [LedgerNext]_ledgerVars => PermanentStep
<1> SUFFICES ASSUME LedgerInv, [LedgerNext]_ledgerVars PROVE PermanentStep
  OBVIOUS
<1>1. LedgerTypeOK
  BY DEF LedgerInv
<1>2. CASE UNCHANGED <<command, applied, rewarded>>
  BY <1>2 DEF PermanentStep
<1>3. ASSUME NEW q \in Player, Delete(q) PROVE PermanentStep
  BY <1>1, <1>3 DEF Delete, PermanentStep, LedgerTypeOK
<1>4. ASSUME NEW q \in Player, NEW k \in Key, NEW b \in Building, NEW reason,
             NEW n, command[q][k] = NoCommand, SaveCommand(q, k, b, reason, n),
             UNCHANGED <<applied, rewarded>>
      PROVE  PermanentStep
  BY <1>1, <1>4 DEF SaveCommand, PermanentStep, LedgerTypeOK
<1>5. ASSUME NEW o \in Occurrence, NEW recipients, Grant(o, recipients)
      PROVE  PermanentStep
  BY <1>1, <1>5 DEF Grant, PermanentStep, LedgerTypeOK
<1>6. ASSUME NEW q \in Player, NEW t \in Clock, NEW k \in Key, NEW b \in Building,
             Buy(q, k, b, t)
      PROVE  PermanentStep
  BY <1>4, <1>6 DEF Buy, Refuse, Upgrade
<1>7. ASSUME NEW q \in Player, NEW t \in Clock, Signup(q, t) \/ Collect(q, t)
      PROVE  PermanentStep
  BY <1>2, <1>7 DEF Signup, Collect
<1> QED
  BY <1>2, <1>3, <1>5, <1>6, <1>7 DEF LedgerNext, ledgerVars

(***************************************************************************)
(* Theorem LedgerPermanent: saved commands and applied occurrences are     *)
(* never rewritten.                                                        *)
(***************************************************************************)
THEOREM LedgerPermanent == LedgerSpec => Permanent
<1>1. LedgerInv /\ [LedgerNext]_ledgerVars => [PermanentStep]_ledgerVars
  BY PermanentNext
<1> QED
  BY <1>1, LedgerInvariant, PTL DEF LedgerSpec, Permanent

-----------------------------------------------------------------------------
LEMMA AccountNext ==
  ASSUME LedgerInv, [LedgerNext]_ledgerVars, NEW p \in Player
  PROVE  /\ account[p] = "deleted" => account'[p] = "deleted"
         /\ account[p] = "live" => account'[p] \in {"live", "deleted"}
<1>1. account \in [Player -> {"none", "live", "deleted"}]
  BY DEF LedgerInv, LedgerTypeOK
<1>2. ASSUME NEW q \in Player, NEW t, Delete(q) \/ Signup(q, t)
      PROVE  /\ account[p] = "deleted" => account'[p] = "deleted"
             /\ account[p] = "live" => account'[p] \in {"live", "deleted"}
  BY <1>1, <1>2 DEF Delete, Signup
<1>3. ASSUME NEW q \in Player, NEW t \in Clock, NEW k \in Key, NEW b \in Building,
             Collect(q, t) \/ Buy(q, k, b, t)
      PROVE  UNCHANGED account
  BY <1>3 DEF Collect, Buy, Refuse, Upgrade
<1>4. ASSUME NEW o \in Occurrence, NEW recipients, Grant(o, recipients)
      PROVE  UNCHANGED account
  BY <1>4 DEF Grant
<1>5. CASE UNCHANGED ledgerVars
  BY <1>5 DEF ledgerVars
<1>6. CASE \E q \in Player, t \in Clock : Collect(q, t)
  BY <1>6 DEF Collect
<1>7. CASE \E q \in Player : Delete(q) \/ \E t \in Clock : Signup(q, t)
  BY <1>2, <1>7
<1> QED
  BY <1>3, <1>4, <1>5, <1>6, <1>7 DEF LedgerNext

LEMMA EarningsNext ==
  LedgerInv /\ LedgerInv' /\ [LedgerNext]_ledgerVars => Earnings!AuthorityNext
<1> SUFFICES ASSUME LedgerInv, LedgerInv', [LedgerNext]_ledgerVars
             PROVE  Earnings!AuthorityNext
  OBVIOUS
<1> DEFINE total == [p \in Live |-> resource[p].lifetime]
           deleted == {p \in Player : account[p] = "deleted"}
<1>1. deleted \subseteq deleted'
  BY AccountNext
<1>2. DOMAIN total' \subseteq Player \ deleted'
  BY DEF Live
<1>3. ASSUME NEW p \in DOMAIN total, p \notin deleted'
      PROVE  p \in DOMAIN total' /\ total'[p] >= total[p]
  <2>1. p \in Player /\ account[p] = "live" /\ p \in Live
    BY <1>3 DEF Live
  <2>2. account'[p] = "live" /\ p \in Live'
    BY <1>3, <2>1, AccountNext DEF Live
  <2>3. resource'[p].lifetime >= resource[p].lifetime
    BY <2>1, <2>2, MonotoneNext DEF MonotoneStep
  <2> QED
    BY <2>1, <2>2, <2>3
<1> QED
  BY <1>1, <1>2, <1>3 DEF Earnings!AuthorityNext, Earnings!NeverLowered

(***************************************************************************)
(* Theorem LedgerEarnings: the economy is the authority the leaderboard    *)
(* relies on: totals it reads are never lowered while their player lives,  *)
(* and deleted players never return.                                       *)
(***************************************************************************)
THEOREM LedgerEarnings == LedgerSpec => EarningsReported
<1>1. LedgerInit => Earnings!AuthorityInit
  BY DEF LedgerInit, Earnings!AuthorityInit, Live
<1>2. LedgerInv /\ LedgerInv' /\ [LedgerNext]_ledgerVars
        => [Earnings!AuthorityNext]_(Earnings!authorityVars)
  BY EarningsNext
<1> QED
  BY <1>1, <1>2, LedgerInvariant, PTL
  DEF LedgerSpec, EarningsReported, Earnings!AuthoritySpec
=============================================================================
