-------------------------- MODULE RefreshLoopProofs --------------------------
(***************************************************************************)
(* Proofs about the worker process, for any number of commits.             *)
(***************************************************************************)
EXTENDS RefreshLoop, TLAPS

\* a job that waits will be woken by a loop that has read its commit, or has
\* been asked to read once more
WaitCovered ==
  bonus = "awaiting" /\ ~closing => loop # "null" /\ (requested \/ seen >= owed)

RefreshInv == TypeOK /\ QuietStop /\ WaitCovered

\* TypeOK in two parts: what the code is doing, and the commits it has seen
Controls ==
  /\ closing \in BOOLEAN /\ requested \in BOOLEAN
  /\ loop \in {"null", "pass", "settling"}
  /\ bonus \in {"none", "applying", "applied", "awaiting"}
  /\ stage \in {"running", "closing worker", "awaiting refresh", "stopped"}
  /\ stage = "running" <=> ~closing

Numbers ==
  /\ earned \in 0..MaxEarned
  /\ seen \in 0..earned /\ shown \in 0..earned /\ owed \in 0..earned

-----------------------------------------------------------------------------
LEMMA TypeParts == TypeOK <=> Controls /\ Numbers
  BY Zenon DEF TypeOK, Controls, Numbers

LEMMA TypePartsNext == TypeOK' <=> Controls' /\ Numbers'
  BY Zenon DEF TypeOK, Controls, Numbers

LEMMA RefreshInit == Init => RefreshInv
<1> SUFFICES ASSUME Init PROVE RefreshInv
  OBVIOUS
<1>1. Controls
  BY Zenon DEF Init, Controls
<1>2. Numbers
  BY RefreshAssumption DEF Init, Numbers
<1>3. QuietStop /\ WaitCovered
  BY DEF Init, QuietStop, WaitCovered
<1> QED BY <1>1, <1>2, <1>3, TypeParts DEF RefreshInv

LEMMA ControlsKept == ASSUME Controls, [Next]_vars PROVE Controls'
<1> USE DEF Controls
<1>1. CASE RefreshDue
  BY <1>1, Zenon DEF RefreshDue, Refresh, StartPass
<1>2. CASE LoopStep
  <2>1. CASE NextPass
    BY <2>1, Zenon DEF NextPass, StartPass
  <2>2. CASE LastPass
    BY <2>2, Zenon DEF LastPass
  <2>3. CASE PassThrows
    BY <2>3, Zenon DEF PassThrows
  <2>4. CASE Settle
    BY <2>4, Zenon DEF Settle, StartPass, Resume
  <2> QED BY <1>2, <2>1, <2>2, <2>3, <2>4, Zenon DEF LoopStep
<1>3. CASE TakeJob \/ JobCommits \/ JobFails \/ PlayersEarn
  <2>1. CASE TakeJob
    BY <2>1, Zenon DEF TakeJob
  <2>2. CASE JobCommits
    BY <2>2, Zenon DEF JobCommits
  <2>3. CASE JobFails
    BY <2>3, Zenon DEF JobFails
  <2>4. CASE PlayersEarn
    BY <2>4, Zenon DEF PlayersEarn
  <2> QED BY <1>3, <2>1, <2>2, <2>3, <2>4, Zenon
<1>4. CASE AfterBonus
  BY <1>4, Zenon DEF AfterBonus, Refresh, StartPass
<1>5. CASE Shutdown \/ ShutdownStep
  BY <1>5, Zenon DEF Shutdown, ShutdownStep, WorkerClosed, WorkerCloseFails, Disconnect
<1>6. CASE UNCHANGED vars
  BY <1>6, Zenon DEF vars
<1> QED BY <1>1, <1>2, <1>3, <1>4, <1>5, <1>6, Zenon DEF Next, JobStep

LEMMA NumbersKept == ASSUME Numbers, [Next]_vars PROVE Numbers'
<1>1. /\ earned' = earned \/ (earned' = earned + 1 /\ (earned < MaxEarned \/ earned' <= MaxEarned))
      /\ seen' = seen \/ seen' = earned
      /\ shown' = shown \/ shown' = seen
      /\ owed' = owed \/ owed' = earned'
  BY Zenon DEF Next, LoopStep, JobStep, ShutdownStep, RefreshDue, Refresh, StartPass,
     NextPass, LastPass, PassEnds, PassThrows, Settle, TakeJob, JobCommits, JobFails,
     AfterBonus, PlayersEarn, Shutdown, WorkerClosed, WorkerCloseFails, Disconnect, vars
<1>2. earned' \in 0..MaxEarned /\ earned <= earned'
  BY <1>1, RefreshAssumption DEF Numbers
<1>3. seen' \in 0..earned'
  BY <1>1, <1>2, RefreshAssumption DEF Numbers
<1>4. shown' \in 0..earned'
  BY <1>1, <1>2, RefreshAssumption DEF Numbers
<1>5. owed' \in 0..earned'
  BY <1>1, <1>2, RefreshAssumption DEF Numbers
<1> QED BY <1>2, <1>3, <1>4, <1>5 DEF Numbers

LEMMA QuietStopKept ==
  ASSUME Controls, QuietStop, [Next]_vars
  PROVE  QuietStop'
<1>1. stage = "stopped" => closing
  BY Zenon DEF Controls
<1> USE DEF QuietStop
<1>2. CASE RefreshDue \/ AfterBonus
  BY <1>1, <1>2, Zenon DEF RefreshDue, AfterBonus, Refresh
<1>3. CASE LoopStep
  BY <1>3, Zenon DEF LoopStep, NextPass, LastPass, PassThrows, Settle
<1>4. CASE TakeJob \/ JobCommits \/ JobFails \/ PlayersEarn
  BY <1>4, Zenon DEF TakeJob, JobCommits, JobFails, PlayersEarn
<1>5. CASE Shutdown \/ ShutdownStep
  BY <1>5, Zenon DEF Shutdown, ShutdownStep, WorkerClosed, WorkerCloseFails, Disconnect
<1>6. CASE UNCHANGED vars
  BY <1>6, Zenon DEF vars
<1> QED BY <1>2, <1>3, <1>4, <1>5, <1>6, Zenon DEF Next, JobStep

(***************************************************************************)
(* Who waits after a step has asked for a pass with this step, or waited   *)
(* before and lost nothing, or a pass begins that reads everything.        *)
(***************************************************************************)
LEMMA WaitingAfter ==
  ASSUME WaitCovered, [Next]_vars, bonus' = "awaiting", ~closing'
  PROVE  /\ owed' = owed /\ loop' # "null"
         /\ \/ seen' = earned
            \/ requested'
            \/ bonus = "awaiting" /\ ~closing /\ seen' = seen /\ ~requested
<1> USE DEF WaitCovered
<1>1. CASE RefreshDue
  BY <1>1, Zenon DEF RefreshDue, Refresh, StartPass
<1>2. CASE LoopStep
  <2>1. CASE NextPass
    BY <2>1, Zenon DEF NextPass, StartPass
  <2>2. CASE LastPass
    BY <2>2, Zenon DEF LastPass
  <2>3. CASE PassThrows
    BY <2>3, Zenon DEF PassThrows
  <2>4. CASE Settle
    BY <2>4, Zenon DEF Settle, StartPass, Resume
  <2> QED BY <1>2, <2>1, <2>2, <2>3, <2>4, Zenon DEF LoopStep
<1>3. CASE TakeJob \/ JobCommits \/ JobFails \/ PlayersEarn
  <2>1. CASE TakeJob
    BY <2>1, Zenon DEF TakeJob
  <2>2. CASE JobCommits
    BY <2>2, Zenon DEF JobCommits
  <2>3. CASE JobFails
    BY <2>3, Zenon DEF JobFails
  <2>4. CASE PlayersEarn
    BY <2>4, Zenon DEF PlayersEarn
  <2> QED BY <1>3, <2>1, <2>2, <2>3, <2>4, Zenon
<1>4. CASE AfterBonus
  BY <1>4, Zenon DEF AfterBonus, Refresh, StartPass
<1>5. CASE Shutdown \/ ShutdownStep
  <2>1. CASE Shutdown
    BY <2>1, Zenon DEF Shutdown
  <2>2. CASE ShutdownStep
    <3>1. UNCHANGED <<closing, requested, loop, bonus, seen, owed>>
      BY <2>2, Zenon DEF ShutdownStep, WorkerClosed, WorkerCloseFails, Disconnect
    <3> QED BY <3>1, Zenon
  <2> QED BY <1>5, <2>1, <2>2, Zenon
<1>6. CASE UNCHANGED vars
  BY <1>6, Zenon DEF vars
<1> QED BY <1>1, <1>2, <1>3, <1>4, <1>5, <1>6, Zenon DEF Next, JobStep

LEMMA WaitCoveredKept ==
  ASSUME Numbers, WaitCovered, [Next]_vars
  PROVE  WaitCovered'
<1> SUFFICES ASSUME bonus' = "awaiting", ~closing'
             PROVE  loop' # "null" /\ (requested' \/ seen' >= owed')
  BY Zenon DEF WaitCovered
<1>1. earned >= owed
  BY RefreshAssumption DEF Numbers
<1>2. bonus = "awaiting" /\ ~closing /\ ~requested => seen >= owed
  BY Zenon DEF WaitCovered
<1> QED BY <1>1, <1>2, WaitingAfter, Zenon

LEMMA RefreshStep == RefreshInv /\ [Next]_vars => RefreshInv'
  BY TypeParts, TypePartsNext, ControlsKept, NumbersKept, QuietStopKept, WaitCoveredKept,
     Zenon DEF RefreshInv

(***************************************************************************)
(* The worker's invariant, for the bonus job that waits and the shutdown.  *)
(***************************************************************************)
THEOREM RefreshInvariant == Spec => []RefreshInv
BY RefreshInit, RefreshStep, PTL DEF Spec

\* The variables of module RefreshLoop keep their types.
THEOREM RefreshTypeCorrect == Spec => []TypeOK
<1>1. RefreshInv => TypeOK
  BY DEF RefreshInv
<1> QED BY <1>1, RefreshInvariant, PTL

(***************************************************************************)
(* shutdown() disconnects only when no pass runs, and no later call of     *)
(* refreshLeaderboard starts one.                                          *)
(***************************************************************************)
THEOREM NothingAfterStop == Spec => []QuietStop
<1>1. RefreshInv => QuietStop
  BY DEF RefreshInv
<1> QED BY <1>1, RefreshInvariant, PTL

(***************************************************************************)
(* A job's wait ends only after a pass that began after its commit: the    *)
(* job that joins a pass which is already reading is covered by the flag.  *)
(***************************************************************************)
THEOREM JobsReflected == Spec => JobReflected
<1>1. ASSUME RefreshInv, [Next]_vars,
             bonus = "awaiting", bonus' = "none", ~closing
      PROVE  seen' >= owed
  <2>1. Settle
    BY <1>1 DEF Next, LoopStep, JobStep, ShutdownStep, RefreshDue, NextPass, LastPass,
         PassThrows, TakeJob, JobCommits, JobFails, AfterBonus, PlayersEarn, Shutdown,
         WorkerClosed, WorkerCloseFails, Disconnect, vars
  <2>2. earned >= owed
    BY <1>1, TypeParts, RefreshAssumption DEF RefreshInv, Numbers
  <2>3. ~requested => seen >= owed
    BY <1>1, Zenon DEF RefreshInv, WaitCovered
  <2> QED BY <1>1, <2>1, <2>2, <2>3, Zenon DEF Settle, StartPass
<1> QED BY <1>1, RefreshInvariant, PTL DEF Spec, JobReflected

=============================================================================
