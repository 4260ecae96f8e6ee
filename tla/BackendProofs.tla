--------------------------- MODULE BackendProofs ---------------------------
(***************************************************************************)
(* The economy provides what the leaderboard relies on, so what is proved  *)
(* of the leaderboard over any such database holds of the whole backend.   *)
(***************************************************************************)
EXTENDS Backend, EconomyProofs

\* the results about the leaderboard, read in this system
Proved == INSTANCE LeaderboardProofs
  WITH total <- Earned, deleted <- Gone,
       MaxTotal <- MaxAmount, MaxDeleted <- 0, MaxClock <- MaxTicks

\* the constants meet the leaderboard's own assumption
LEMMA ConstantsFit ==
  /\ Proved!IsFiniteSet(Player)
  /\ MaxScore \in Nat /\ MaxAmount \in Nat /\ 0 \in Nat
  /\ MaxTicks \in Nat /\ MaxFaults \in Nat /\ Unit \in Nat \ {0}
  /\ MaxAge \in Nat \ {0} /\ BatchSize \in Nat \ {0}
  /\ Fault \subseteq {"restart", "clock"}
<1>1. IsFiniteSet(Player) <=> Proved!IsFiniteSet(Player)
  BY DEF IsFiniteSet, Proved!IsFiniteSet
<1> QED BY <1>1, BackendAssumption, CatalogueAssumption

LEMMA BackendIsEconomy == BackendSpec => Spec
<1>1. BackendInit => Init
  BY DEF BackendInit
<1>2. [BackendNext]_backendVars => [Next]_vars
  BY DEF BackendNext, TransactionStep, LeaderboardStep, backendVars
<1> QED BY <1>1, <1>2, PTL DEF BackendSpec, Spec

LEMMA EarnedTotals ==
  EconomyInv => Earned \in Projection!Totals /\ Gone \subseteq Player
<1> SUFFICES ASSUME EconomyInv
             PROVE  Earned \in Projection!Totals /\ Gone \subseteq Player
  OBVIOUS
<1>1. \A p \in Live : resource[p].lifetime \in 0..MaxAmount
  <2> TAKE p \in Live
  <2>1. p \in Player /\ resource[p] \in Row /\ Fits(resource[p])
    BY DEF EconomyInv, LedgerInv, LedgerTypeOK, WithinNumeric, Live
  <2> QED BY <2>1, CatalogueAssumption DEF Row, Fits
<1>2. Live \in SUBSET Player
  BY DEF Live
<1>3. Earned \in [Live -> 0..MaxAmount]
  BY <1>1 DEF Earned
<1>4. Earned \in UNION {[S -> 0..MaxAmount] : S \in SUBSET Player}
  BY <1>2, <1>3
<1>5. Earned \in Projection!Totals
  BY <1>4 DEF Projection!Totals
<1> QED BY <1>5 DEF Gone

LEMMA TransactionAuthority ==
  EconomyInv /\ EconomyInv' /\ TransactionStep => Projection!AnyAuthority
<1> SUFFICES ASSUME EconomyInv, EconomyInv', TransactionStep
             PROVE  Projection!AnyAuthority
  OBVIOUS
<1>1. [LedgerNext]_ledgerVars
  BY NextInv DEF TransactionStep
<1>2. LedgerInv /\ LedgerInv'
  BY DEF EconomyInv
<1>3. Projection!AuthorityNext
  BY <1>1, <1>2, EarningsNext
  DEF Earnings!AuthorityNext, Earnings!NeverLowered,
      Projection!AuthorityNext, Projection!NeverLowered, Earned, Gone
<1>4. EconomyInv' => (Earned \in Projection!Totals /\ Gone \subseteq Player)'
  BY EarnedTotals, PTL
<1> QED BY <1>3, <1>4 DEF Projection!AnyAuthority, TransactionStep, projectionVars,
       Projection!redisVars, Projection!processVars, Projection!timeVars, Projection!Totals

LEMMA BackendStepSound ==
  EconomyInv /\ EconomyInv' /\ [BackendNext]_backendVars
    => [Projection!AnyAuthority \/ Projection!ProjectionStep]_(Projection!vars)
<1>1. UNCHANGED backendVars => UNCHANGED Projection!vars
  BY DEF backendVars, vars, ledgerVars, projectionVars, Projection!vars,
         Projection!authorityVars, Projection!redisVars, Projection!processVars,
         Projection!timeVars, Earned, Gone, Live
<1> QED BY <1>1, TransactionAuthority DEF BackendNext, LeaderboardStep

(***************************************************************************)
(* BackendRefines: every step of the backend, be it a statement of a       *)
(* transaction or a command to Redis, is a step of the leaderboard over a  *)
(* database that keeps the promise of Authority.                           *)
(***************************************************************************)
THEOREM BackendRefines == BackendSpec => ProjectionSound
<1>1. BackendInit => Projection!Init
  BY DEF BackendInit
<1>2. BackendSpec => []EconomyInv
  BY BackendIsEconomy, EconomyInvariant, PTL
<1> QED BY <1>1, <1>2, BackendStepSound, PTL
       DEF BackendSpec, ProjectionSound, Projection!OpenSpec

-----------------------------------------------------------------------------
(***************************************************************************)
(* Projection and Proved are the same module read twice.                   *)
(***************************************************************************)
LEMMA SameCardinality == \A S : Projection!Cardinality(S) = Proved!Cardinality(S)
  BY DEF Projection!Cardinality, Proved!Cardinality

LEMMA SameSpec == Projection!OpenSpec <=> Proved!OpenSpec
<1>1. Projection!Init <=> Proved!Init
  BY DEF
      Projection!Init, Projection!AuthorityInit, Projection!Empty,
      Projection!NoJob, Proved!Init, Proved!AuthorityInit, Proved!Empty,
      Proved!NoJob
<1>2. Projection!AnyAuthority <=> Proved!AnyAuthority
  BY DEF
      Projection!AnyAuthority, Projection!AuthorityNext,
      Projection!NeverLowered, Projection!Totals, Projection!redisVars,
      Projection!processVars, Projection!timeVars, Proved!AnyAuthority,
      Proved!AuthorityNext, Proved!NeverLowered, Proved!Totals,
      Proved!redisVars, Proved!processVars, Proved!timeVars
<1>3. Projection!ProjectionStep <=> Proved!ProjectionStep
  <2>1. \A s \in Syncer, p \in Player : Projection!SyncRead(s, p) <=> Proved!SyncRead(s, p)
    BY DEF
        Projection!SyncRead, Projection!AsText, Projection!authorityVars,
        Projection!redisVars, Projection!processVars, Projection!timeVars,
        Proved!SyncRead, Proved!AsText, Proved!authorityVars,
        Proved!redisVars, Proved!processVars, Proved!timeVars
  <2>2. \A s \in Syncer : Projection!SyncRemove(s) <=> Proved!SyncRemove(s)
    BY DEF
        Projection!SyncRemove, Projection!SyncDone, Projection!Restrict,
        Projection!authorityVars, Projection!redisVars,
        Projection!processVars, Projection!timeVars, Proved!SyncRemove,
        Proved!SyncDone, Proved!Restrict, Proved!authorityVars,
        Proved!redisVars, Proved!processVars, Proved!timeVars
  <2>3. \A s \in Syncer : Projection!SyncRaise(s) <=> Proved!SyncRaise(s)
    BY DEF
        Projection!SyncRaise, Projection!SyncDone, Projection!HasScore,
        Projection!ToLeaderboardScore, Projection!authorityVars,
        Projection!redisVars, Projection!processVars, Projection!timeVars,
        Proved!SyncRaise, Proved!SyncDone, Proved!HasScore,
        Proved!ToLeaderboardScore, Proved!authorityVars, Proved!redisVars,
        Proved!processVars, Proved!timeVars
  <2>4. \A s \in Syncer : Projection!SyncInvalidate(s) <=> Proved!SyncInvalidate(s)
    BY DEF
        Projection!SyncInvalidate, Projection!SyncDone, Projection!HasScore,
        Projection!ToLeaderboardScore, Projection!authorityVars,
        Projection!redisVars, Projection!processVars, Projection!timeVars,
        Proved!SyncInvalidate, Proved!SyncDone, Proved!HasScore,
        Proved!ToLeaderboardScore, Proved!authorityVars, Proved!redisVars,
        Proved!processVars, Proved!timeVars
  <2>5. \A s \in Syncer : Projection!SyncFail(s) <=> Proved!SyncFail(s)
    BY DEF
        Projection!SyncFail, Projection!SyncDone, Projection!authorityVars,
        Projection!redisVars, Projection!processVars, Projection!timeVars,
        Proved!SyncFail, Proved!SyncDone, Proved!authorityVars,
        Proved!redisVars, Proved!processVars, Proved!timeVars
  <2>6. \A r \in Reconciler : Projection!Start(r) <=> Proved!Start(r)
    BY DEF
        Projection!Start, Projection!SetJob, Projection!NoJob,
        Projection!Empty, Projection!authorityVars, Projection!redisVars,
        Projection!processVars, Projection!timeVars, Proved!Start,
        Proved!SetJob, Proved!NoJob, Proved!Empty, Proved!authorityVars,
        Proved!redisVars, Proved!processVars, Proved!timeVars
  <2>7. \A r \in Reconciler : Projection!Read(r) <=> Proved!Read(r)
    BY DEF
        Projection!Read, Projection!SetJob, Projection!Scored,
        Projection!HasScore, Projection!AsText, Projection!ToLeaderboardScore,
        Projection!authorityVars, Projection!redisVars,
        Projection!processVars, Projection!timeVars, Proved!Read,
        Proved!SetJob, Proved!Scored, Proved!HasScore, Proved!AsText,
        Proved!ToLeaderboardScore, Proved!authorityVars, Proved!redisVars,
        Proved!processVars, Proved!timeVars
  <2>8. \A r \in Reconciler : Projection!Invalidate(r) <=> Proved!Invalidate(r)
    BY DEF
        Projection!Invalidate, Projection!SetJob, Projection!NoJob,
        Projection!Empty, Projection!authorityVars, Projection!redisVars,
        Projection!processVars, Projection!timeVars, Proved!Invalidate,
        Proved!SetJob, Proved!NoJob, Proved!Empty, Proved!authorityVars,
        Proved!redisVars, Proved!processVars, Proved!timeVars
  <2>9. \A r \in Reconciler : Projection!Stage(r) <=> Proved!Stage(r)
    BY SameCardinality DEF
        Projection!Stage, Projection!SetJob, Projection!authorityVars,
        Projection!redisVars, Projection!processVars, Projection!timeVars,
        Proved!Stage, Proved!SetJob, Proved!authorityVars, Proved!redisVars,
        Proved!processVars, Proved!timeVars
  <2>10. \A r \in Reconciler : Projection!Publish(r) <=> Proved!Publish(r)
    BY SameCardinality DEF
        Projection!Publish, Projection!SetJob, Projection!NoJob,
        Projection!Empty, Projection!Expired, Projection!Superseded,
        Projection!Complete, Projection!NewMarker, Projection!Restrict,
        Projection!authorityVars, Projection!redisVars,
        Projection!processVars, Projection!timeVars, Proved!Publish,
        Proved!SetJob, Proved!NoJob, Proved!Empty, Proved!Expired,
        Proved!Superseded, Proved!Complete, Proved!NewMarker, Proved!Restrict,
        Proved!authorityVars, Proved!redisVars, Proved!processVars,
        Proved!timeVars
  <2>11. \A r \in Reconciler : Projection!Fail(r) <=> Proved!Fail(r)
    BY DEF
        Projection!Fail, Projection!SetJob, Projection!NoJob,
        Projection!Empty, Projection!authorityVars, Projection!redisVars,
        Projection!processVars, Projection!timeVars, Proved!Fail,
        Proved!SetJob, Proved!NoJob, Proved!Empty, Proved!authorityVars,
        Proved!redisVars, Proved!processVars, Proved!timeVars
  <2>12. Projection!Tick <=> Proved!Tick
    BY DEF
        Projection!Tick, Projection!authorityVars, Projection!redisVars,
        Projection!processVars, Projection!timeVars, Proved!Tick,
        Proved!authorityVars, Proved!redisVars, Proved!processVars,
        Proved!timeVars
  <2>13. Projection!Expire <=> Proved!Expire
    BY DEF
        Projection!Expire, Projection!authorityVars, Projection!redisVars,
        Projection!processVars, Projection!timeVars, Proved!Expire,
        Proved!authorityVars, Proved!redisVars, Proved!processVars,
        Proved!timeVars
  <2>14. Projection!Persist <=> Proved!Persist
    BY DEF
        Projection!Persist, Projection!authorityVars, Projection!redisVars,
        Projection!processVars, Projection!timeVars, Proved!Persist,
        Proved!authorityVars, Proved!redisVars, Proved!processVars,
        Proved!timeVars
  <2>15. Projection!Restart <=> Proved!Restart
    BY SameCardinality DEF
        Projection!Restart, Projection!FaultHappens, Projection!authorityVars,
        Projection!redisVars, Projection!processVars, Projection!timeVars,
        Proved!Restart, Proved!FaultHappens, Proved!authorityVars,
        Proved!redisVars, Proved!processVars, Proved!timeVars
  <2>16. Projection!ClockSetBack <=> Proved!ClockSetBack
    BY SameCardinality DEF
        Projection!ClockSetBack, Projection!FaultHappens,
        Projection!authorityVars, Projection!redisVars,
        Projection!processVars, Projection!timeVars, Proved!ClockSetBack,
        Proved!FaultHappens, Proved!authorityVars, Proved!redisVars,
        Proved!processVars, Proved!timeVars
  <2> QED BY <2>1, <2>2, <2>3, <2>4, <2>5, <2>6, <2>7, <2>8, <2>9, <2>10, <2>11, <2>12, <2>13, <2>14, <2>15, <2>16
     DEF Projection!ProjectionStep, Proved!ProjectionStep, Projection!SyncStep, Proved!SyncStep
<1>4. UNCHANGED Projection!vars <=> UNCHANGED Proved!vars
  BY DEF
      Projection!vars, Projection!redisVars, Projection!processVars,
      Projection!timeVars, Projection!authorityVars, Proved!vars,
      Proved!redisVars, Proved!processVars, Proved!timeVars,
      Proved!authorityVars
<1>5. [Projection!AnyAuthority \/ Projection!ProjectionStep]_(Projection!vars)
        <=> [Proved!AnyAuthority \/ Proved!ProjectionStep]_(Proved!vars)
  BY <1>2, <1>3, <1>4
<1> QED BY <1>1, <1>5, PTL DEF Projection!OpenSpec, Proved!OpenSpec

LEMMA ProjectionInvariant == BackendSpec => []Proved!LeaderboardInv
  BY BackendRefines, SameSpec, ConstantsFit, Proved!OpenInvariant, PTL DEF ProjectionSound

(***************************************************************************)
(* BackendNothingInflated: whatever transactions run, wait and roll back,  *)
(* no page shows a player more than what is committed.                     *)
(***************************************************************************)
THEOREM BackendNothingInflated == BackendSpec => []Projection!NoInflation
<1>1. Proved!LeaderboardInv => Projection!NoInflation
  BY ConstantsFit, Proved!InvNoInflation
     DEF Proved!NoInflation, Proved!Shown, Proved!AtMost, Proved!AsText,
         Proved!FromLeaderboardScore, Projection!NoInflation, Projection!Shown,
         Projection!AtMost, Projection!AsText, Projection!FromLeaderboardScore
<1> QED BY <1>1, ProjectionInvariant, PTL

(***************************************************************************)
(* BackendPagesFresh: a page served shows everybody who had a row MaxAge   *)
(* ago with at least the committed earnings of then.                       *)
(***************************************************************************)
THEOREM BackendPagesFresh == BackendSpec => []Projection!FreshPage
<1>1. Proved!LeaderboardInv => Projection!FreshPage
  BY ConstantsFit, Proved!InvFreshPage, SameCardinality
     DEF Proved!FreshPage, Proved!Servable, Proved!Shown, Proved!AtMost, Proved!AsText,
         Proved!FromLeaderboardScore, Projection!FreshPage, Projection!Servable,
         Projection!Shown, Projection!AtMost, Projection!AsText,
         Projection!FromLeaderboardScore
<1> QED BY <1>1, ProjectionInvariant, PTL

(***************************************************************************)
(* EverythingAccounted: what a page shows is accounted for by the world    *)
(* events on record and by the rates that were in force.                   *)
(***************************************************************************)
THEOREM EverythingAccounted == BackendSpec => []ShownAccounted
<1>1. EconomyInv /\ Proved!LeaderboardInv => ShownAccounted
  <2> SUFFICES ASSUME EconomyInv, Proved!LeaderboardInv, NEW p \in Live \cap DOMAIN live
               PROVE  TicksPerSecond * (live[p] - BonusesOf(p)) <= DueAt(p, resource[p].last)
    BY DEF ShownAccounted
  <2> DEFINE row == resource[p]
             paid == BonusesOf(p)
             owed == DueAt(p, row.last)
  <2>1. DOMAIN Earned = Live /\ Earned[p] = row.lifetime
    BY DEF Earned
  <2>2. live[p] \in Nat /\ row.lifetime \in Nat /\ live[p] <= row.lifetime
    BY <2>1, ConstantsFit, Proved!InvShown
  <2>3. p \in Player /\ LedgerTypeOK /\ PaidFairly(p)
    BY DEF EconomyInv, LedgerInv, NeverOverpaid, Live
  <2>4. paid \in Nat
    BY <2>3, BonusesType DEF LedgerTypeOK
  <2>5. paid <= row.lifetime /\ TicksPerSecond * (row.lifetime - paid) <= owed
    BY <2>3 DEF PaidFairly
  <2>6. owed \in Int
    <3>1. due[p] \in Due /\ row \in Row
      BY <2>3 DEF LedgerTypeOK
    <3>2. due[p].amount \in Nat /\ due[p].since \in Nat /\ row.last \in Nat /\ row.rate \in Nat
      BY <3>1 DEF Due, Row
    <3> QED BY <3>2 DEF DueAt
  <2> HIDE DEF row, paid, owed
  <2>7. TicksPerSecond * (live[p] - paid) <= TicksPerSecond * (row.lifetime - paid)
    <3>1. \A a, b \in Int, n \in Nat : a <= b => n * a <= n * b
      OBVIOUS
    <3>2. live[p] - paid <= row.lifetime - paid /\ live[p] - paid \in Int /\ row.lifetime - paid \in Int
      BY <2>2, <2>4 DEF row
    <3> QED BY <3>1, <3>2, CatalogueAssumption
  <2>8. /\ TicksPerSecond * (live[p] - paid) \in Int
        /\ TicksPerSecond * (row.lifetime - paid) \in Int
    BY <2>2, <2>4, CatalogueAssumption DEF row
  <2>9. TicksPerSecond * (live[p] - paid) <= owed
    BY <2>5, <2>6, <2>7, <2>8
  <2> QED BY <2>9 DEF row, paid, owed
<1>2. BackendSpec => []EconomyInv
  BY BackendIsEconomy, EconomyInvariant, PTL
<1> QED BY <1>1, <1>2, ProjectionInvariant, PTL

=============================================================================
