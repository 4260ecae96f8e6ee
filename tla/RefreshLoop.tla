---------------------------- MODULE RefreshLoop ----------------------------
(***************************************************************************)
(* One worker process (worker.ts): the loop that coalesces leaderboard     *)
(* refreshes, the bonus job that waits for one, and the shutdown that      *)
(* waits for both.                                                         *)
(*                                                                         *)
(* JavaScript runs each piece of code up to its next await alone, so an    *)
(* action is such a piece.  A promise is represented by the state of what  *)
(* resolves it: awaiting activeRefresh ends when the loop settles.         *)
(***************************************************************************)
EXTENDS Integers

CONSTANT MaxEarned  \* bound: commits to the earnings

ASSUME RefreshAssumption == MaxEarned \in Nat

VARIABLES
  closing,     \* shutdown was requested
  requested,   \* refreshRequested
  loop,        \* activeRefresh: null, a running pass, or about to settle
  bonus,       \* the job the bonus worker processes (concurrency 1)
  stage,       \* progress of shutdown()
  earned,      \* commits to the earnings in PostgreSQL so far
  seen,        \* commits the running or last pass read
  shown,       \* commits the last published pass had read
  owed         \* history: commits up to the current job's own

vars == <<closing, requested, loop, bonus, stage, earned, seen, shown, owed>>

TypeOK ==
  /\ closing \in BOOLEAN /\ requested \in BOOLEAN
  /\ loop \in {"null", "pass", "settling"}
  /\ bonus \in {"none", "applying", "applied", "awaiting"}
  /\ stage \in {"running", "closing worker", "awaiting refresh", "stopped"}
  /\ earned \in 0..MaxEarned
  /\ stage = "running" <=> ~closing
  /\ seen \in 0..earned /\ shown \in 0..earned /\ owed \in 0..earned

\* the module has run: the first refresh is under way
Init ==
  /\ closing = FALSE /\ requested = FALSE
  /\ loop = "pass" /\ bonus = "none" /\ stage = "running"
  /\ earned = 0 /\ seen = 0 /\ shown = 0 /\ owed = 0

-----------------------------------------------------------------------------
(***************************************************************************)
(* A pass takes its clock reading and starts reading when it is called; it *)
(* may see anything committed by then.  (Commits it also sees because they *)
(* came before its SELECT would only help.)                                *)
(***************************************************************************)
StartPass ==
  /\ loop' = "pass"
  /\ requested' = FALSE
  /\ seen' = earned

\* refreshLeaderboard
Refresh ==
  IF closing THEN UNCHANGED <<requested, loop, seen>>
  ELSE IF loop = "null" THEN StartPass
       ELSE requested' = TRUE /\ UNCHANGED <<loop, seen>>

\* setInterval and the connection's "ready" event; the timer is cleared by
\* the shutdown, the event finds closing set
RefreshDue ==
  /\ ~closing
  /\ Refresh
  /\ UNCHANGED <<closing, bonus, stage, earned, shown, owed>>

\* reconcileLeaderboard ends with its snapshot published, or without
PassEnds == shown' = seen \/ UNCHANGED shown

\* do ... while (refreshRequested && !closing)
NextPass ==
  /\ loop = "pass" /\ requested /\ ~closing
  /\ PassEnds
  /\ StartPass
  /\ UNCHANGED <<closing, bonus, stage, earned, owed>>

LastPass ==
  /\ loop = "pass" /\ (~requested \/ closing)
  /\ PassEnds
  /\ loop' = "settling"
  /\ UNCHANGED <<closing, requested, bonus, stage, earned, seen, owed>>

\* .catch: a pass that throws ends the loop, whatever was requested
PassThrows ==
  /\ loop = "pass"
  /\ loop' = "settling"
  /\ UNCHANGED <<closing, requested, bonus, stage, earned, seen, shown, owed>>

\* who awaits activeRefresh goes on
Resume == bonus' = IF bonus = "awaiting" THEN "none" ELSE bonus

\* mutant: no restart
SettleWithoutRestart ==
  /\ loop = "settling"
  /\ loop' = "null"
  /\ Resume
  /\ UNCHANGED <<closing, requested, stage, earned, seen, shown, owed>>

\* mutant: activeRefresh is not reset
SettleForgetsReset ==
  /\ loop = "settling"
  /\ Resume
  /\ UNCHANGED <<closing, requested, loop, stage, earned, seen, shown, owed>>

\* mutant: .finally returns the restarted refresh (the void is dropped)
SettleAwaitingRestart ==
  /\ loop = "settling"
  /\ IF requested /\ ~closing
     THEN StartPass /\ UNCHANGED bonus
     ELSE loop' = "null" /\ Resume /\ UNCHANGED <<requested, seen>>
  /\ UNCHANGED <<closing, stage, earned, shown, owed>>

\* .finally
Settle ==
  /\ loop = "settling"
  /\ IF requested /\ ~closing
     THEN StartPass
     ELSE loop' = "null" /\ UNCHANGED <<requested, seen>>
  /\ Resume
  /\ UNCHANGED <<closing, stage, earned, shown, owed>>

-----------------------------------------------------------------------------
(***************************************************************************)
(* The bonus worker: it takes no job once it is closing.                   *)
(***************************************************************************)
TakeJob ==
  /\ bonus = "none" /\ ~closing
  /\ bonus' = "applying"
  /\ UNCHANGED <<closing, requested, loop, stage, earned, seen, shown, owed>>

\* applyGoldBonus commits, or finds the occurrence applied earlier
JobCommits ==
  /\ bonus = "applying"
  /\ bonus' = "applied"
  /\ earned' \in {earned, earned + 1}
  /\ earned' <= MaxEarned
  /\ owed' = earned'
  /\ UNCHANGED <<closing, requested, loop, stage, seen, shown>>

JobFails ==
  /\ bonus = "applying"
  /\ bonus' = "none"
  /\ UNCHANGED <<closing, requested, loop, stage, earned, seen, shown, owed>>

\* mutant: awaits a refresh also when none will run
AfterBonusAlwaysWaits ==
  /\ bonus = "applied"
  /\ Refresh
  /\ bonus' = "awaiting"
  /\ UNCHANGED <<closing, stage, earned, shown, owed>>

\* await afterBonus()
AfterBonus ==
  /\ bonus = "applied"
  /\ Refresh
  /\ bonus' = IF closing THEN "none" ELSE "awaiting"
  /\ UNCHANGED <<closing, stage, earned, shown, owed>>

\* the players' own requests, served by the API processes
PlayersEarn ==
  /\ earned < MaxEarned
  /\ earned' = earned + 1
  /\ UNCHANGED <<closing, requested, loop, bonus, stage, seen, shown, owed>>

-----------------------------------------------------------------------------
(***************************************************************************)
(* shutdown(): closing, then the bonus worker (whose close waits for its   *)
(* job, or fails), then the refresh, then the connections.                 *)
(***************************************************************************)
Shutdown ==
  /\ ~closing
  /\ closing' = TRUE
  /\ stage' = "closing worker"
  /\ UNCHANGED <<requested, loop, bonus, earned, seen, shown, owed>>

WorkerClosed ==
  /\ stage = "closing worker"
  /\ bonus = "none"
  /\ stage' = "awaiting refresh"
  /\ UNCHANGED <<closing, requested, loop, bonus, earned, seen, shown, owed>>

WorkerCloseFails ==
  /\ stage = "closing worker"
  /\ stage' = "awaiting refresh"
  /\ UNCHANGED <<closing, requested, loop, bonus, earned, seen, shown, owed>>

\* mutant: the refresh is not awaited
DisconnectAtOnce ==
  /\ stage = "awaiting refresh"
  /\ stage' = "stopped"
  /\ UNCHANGED <<closing, requested, loop, bonus, earned, seen, shown, owed>>

Disconnect ==
  /\ stage = "awaiting refresh"
  /\ loop = "null"
  /\ stage' = "stopped"
  /\ UNCHANGED <<closing, requested, loop, bonus, earned, seen, shown, owed>>

-----------------------------------------------------------------------------
LoopStep == NextPass \/ LastPass \/ PassThrows \/ Settle
JobStep == JobCommits \/ JobFails \/ AfterBonus
ShutdownStep == WorkerClosed \/ WorkerCloseFails \/ Disconnect

Next ==
  \/ RefreshDue \/ LoopStep
  \/ TakeJob \/ JobStep \/ PlayersEarn
  \/ Shutdown \/ ShutdownStep

Spec == Init /\ [][Next]_vars

(***************************************************************************)
(* The event loop runs whatever is ready and the timer keeps firing.  The  *)
(* commands of a pass end or time out, and not every pass fails.  A pass   *)
(* is shorter than the interval of the timer, so of the passes that could  *)
(* be the last of a loop some are not interrupted by another request.      *)
(***************************************************************************)
Published == (NextPass \/ LastPass) /\ shown' = seen

Fairness ==
  /\ WF_vars(RefreshDue)
  /\ WF_vars(LoopStep)
  /\ SF_vars(Published)
  /\ SF_vars(LastPass)
  /\ WF_vars(JobStep)
  /\ WF_vars(WorkerClosed) /\ WF_vars(Disconnect)

FairSpec == Spec /\ Fairness

-----------------------------------------------------------------------------
(***************************************************************************)
(* JobReflected: a bonus job that waited for the leaderboard goes on only  *)
(* when a pass has begun after its commit, also when it joined a loop that *)
(* was about to settle or whose pass threw, unless the worker shuts down.  *)
(***************************************************************************)
JobReflected ==
  [][bonus = "awaiting" /\ bonus' = "none" /\ ~closing => seen' >= owed]_vars

(***************************************************************************)
(* QuietStop: once the connections are closed no pass is running and none  *)
(* starts again, even if closing the bonus worker failed and its job goes  *)
(* on to ask for a refresh.                                                *)
(***************************************************************************)
QuietStop == stage = "stopped" => loop = "null"

(***************************************************************************)
(* ShownAtLast: whatever is committed is on the leaderboard at last, or    *)
(* the worker shuts down.                                                  *)
(***************************************************************************)
ShownAtLast ==
  \A n \in 1..MaxEarned : earned >= n ~> shown >= n \/ closing

(***************************************************************************)
(* JobFinishes: the job's wait ends although it shares the loop with the   *)
(* timer.  ShutdownEnds: the process stops when it is told to.             *)
(***************************************************************************)
JobFinishes == bonus = "awaiting" ~> bonus # "awaiting"

ShutdownEnds == closing ~> stage = "stopped"

=============================================================================
