------------------------------ MODULE Backend ------------------------------
(***************************************************************************)
(* The economy and its leaderboard as one system (server.ts, worker.ts):   *)
(* the transactions of Economy change PostgreSQL, and the processes of     *)
(* Leaderboard read what those have committed, whenever they get to it,    *)
(* and write Redis.  No transaction spans the two stores, so a step is a   *)
(* step of one of them.                                                    *)
(***************************************************************************)
EXTENDS Economy

CONSTANTS
  Syncer, Reconciler, NoMarker, NoSync, MaxScore, MaxAge, BatchSize, Unit,
  Fault, MaxFaults,
  MaxTicks      \* bound: the clock of the processes and Redis reads 0..MaxTicks

ASSUME BackendAssumption ==
  /\ IsFiniteSet(Player)
  /\ MaxScore \in Nat /\ MaxTicks \in Nat /\ MaxFaults \in Nat
  /\ Unit \in Nat \ {0} /\ MaxAge \in Nat \ {0} /\ BatchSize \in Nat \ {0}
  /\ Fault \subseteq {"restart", "clock"}

VARIABLES live, marker, staging, disk, sync, job, now, faults, window, detected

projectionVars ==
  <<live, marker, staging, disk, sync, job, now, faults, window, detected>>

backendVars == <<vars, projectionVars>>

(***************************************************************************)
(* The leaderboard reads lifetime earnings, and which rows there are.  Its *)
(* own bounds of earnings and deletions are the economy's.                 *)
(***************************************************************************)
\* mutant: the totals a transaction under way is about to write
EarnedUncommitted ==
  [p \in Live |-> IF rowLock[p] \in Api
                   THEN order[rowLock[p]].row.lifetime ELSE resource[p].lifetime]

Earned == [p \in Live |-> resource[p].lifetime]
Gone == {p \in Player : account[p] = "deleted"}

Projection == INSTANCE Leaderboard
  WITH total <- Earned, deleted <- Gone,
       MaxTotal <- MaxAmount, MaxDeleted <- 0, MaxClock <- MaxTicks

BackendInit == Init /\ Projection!Init

\* a statement of a transaction, in PostgreSQL
TransactionStep == Next /\ UNCHANGED projectionVars

\* a synchronisation after a commit, a refresh of the worker, or Redis
LeaderboardStep == UNCHANGED vars /\ Projection!ProjectionStep

BackendNext == TransactionStep \/ LeaderboardStep

BackendSpec == BackendInit /\ [][BackendNext]_backendVars

(***************************************************************************)
(* ProjectionSound: seen through Earned and Gone, the transactions are the *)
(* database that the leaderboard is proved over: whatever is committed     *)
(* between two steps of a synchronisation or a refresh, and whatever is    *)
(* rolled back, no total they have read is ever too high.                  *)
(***************************************************************************)
ProjectionSound == Projection!OpenSpec

(***************************************************************************)
(* ShownAccounted: what a page shows of a player is accounted for: one     *)
(* bonus for each world event that lists the player, and for the rest what *)
(* the production rates in force paid up to the checkpoint.  Relates the   *)
(* sorted set in Redis to three tables of PostgreSQL.                      *)
(***************************************************************************)
ShownAccounted ==
  \A p \in Live \cap DOMAIN live :
    TicksPerSecond * (live[p] - BonusesOf(p)) <= DueAt(p, resource[p].last)

=============================================================================
