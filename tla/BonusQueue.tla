----------------------------- MODULE BonusQueue -----------------------------
(***************************************************************************)
(* Delivery of the global gold bonus (world-events/queue.ts,               *)
(* world-events/worker.ts): admins and the hourly schedule add jobs to a   *)
(* BullMQ queue in Redis, workers run them against PostgreSQL.             *)
(*                                                                         *)
(* BullMQ is external: it hands a job to one worker at a time under a      *)
(* lock, retries a failed attempt, and gives a job whose lock was not      *)
(* renewed (the worker died, or lost Redis for too long and goes on) to    *)
(* another worker.  The transaction of applyGoldBonus is one step here;    *)
(* module Economy has its statements.                                      *)
(***************************************************************************)
EXTENDS Integers, FiniteSets

CONSTANTS
  Uuid,           \* occurrence ids chosen by admins
  Foreign,        \* jobs validatedJob rejects (left by another version)
  Worker,         \* worker processes, concurrency 1 each
  None,           \* no job, no owner
  Attempts,       \* bonusJobOptions.attempts
  KeepCompleted,  \* bonusJobOptions.removeOnComplete
  MaxStalls,      \* BullMQ's maxStalledCount
  MaxHour,        \* bound: full hours
  MaxRestarts     \* bound: crashes of Redis

ASSUME QueueAssumption ==
  /\ Attempts \in Nat \ {0}
  /\ KeepCompleted \in Nat /\ MaxStalls \in Nat
  /\ MaxHour \in Nat /\ MaxRestarts \in Nat
  /\ None \notin Worker

Manual == {"manual"} \X Uuid
Scheduled == {"scheduled"} \X (1..MaxHour)
JobId == Manual \cup Scheduled \cup ({"foreign"} \X Foreign)

ASSUME NoneAssumption == None \notin JobId

VARIABLES
  queue,      \* Redis: the job under each id
  disk,       \* Redis: what its append-only file holds of queue
  worker,     \* what each worker process runs
  paid,       \* PostgreSQL: bonuses paid, by occurrence
  hour,       \* full hours that have passed
  restarts,   \* crashes of Redis so far
  accepted,   \* history: uuids answered with 202
  reenqueued  \* history: uuids answered with 202 while their job had failed

vars == <<queue, disk, worker, paid, hour, restarts, accepted, reenqueued>>

\* "waiting" includes the backoff before another attempt
State == {"absent", "delayed", "waiting", "active", "completed", "failed"}
Job == [state : State, attempts : 0..Attempts, stalls : 0..(MaxStalls + 1),
        owner : Worker \cup {None}]
NoJob == [state |-> "absent", attempts |-> 0, stalls |-> 0, owner |-> None]
Process == [step : {"idle", "processing", "invalid", "applied", "error"},
            job : JobId \cup {None}]
Idle == [step |-> "idle", job |-> None]

\* manual-<uuid>, or scheduled-<sha256 of the job id>: one to one
OccurrenceForJob(job) == job

TypeOK ==
  /\ queue \in [JobId -> Job] /\ disk \in [JobId -> Job]
  /\ worker \in [Worker -> Process]
  /\ DOMAIN paid \subseteq JobId
  /\ \A o \in DOMAIN paid : paid[o] \in Nat \ {0}
  /\ hour \in 0..MaxHour /\ restarts \in 0..MaxRestarts
  /\ accepted \subseteq Uuid /\ reenqueued \subseteq accepted
  /\ \A w \in Worker : (worker[w] = Idle) <=> (worker[w].step = "idle")
  /\ \A j \in JobId : queue[j].owner # None => queue[j].state = "active"

Fresh(state) == [NoJob EXCEPT !.state = state]
SetJob(j, new) == queue' = [queue EXCEPT ![j] = new]
SetWorker(w, step, j) == worker' = [worker EXCEPT ![w] = [step |-> step, job |-> j]]
Paid(o) == o \in DOMAIN paid

Init ==
  /\ queue = [j \in JobId |->
       IF j[1] = "foreign" THEN Fresh("waiting") ELSE NoJob]
  /\ disk = queue
  /\ worker = [w \in Worker |-> Idle]
  /\ paid = [o \in {} |-> 0]
  /\ hour = 0 /\ restarts = 0
  /\ accepted = {} /\ reenqueued = {}

-----------------------------------------------------------------------------
(***************************************************************************)
(* The producers.                                                          *)
(***************************************************************************)
\* queue.add: an id the queue knows, in whatever state, is not added again
Add(j) ==
  IF queue[j].state = "absent" THEN SetJob(j, Fresh("waiting"))
  ELSE UNCHANGED queue

\* POST /admin/world-events/gold-bonus.  The answer is 503 when the
\* connection is not ready (nothing happens) and when the command times out,
\* although Redis may execute it.
EnqueueManual(u, answered) ==
  LET j == <<"manual", u>> IN
  /\ Add(j)
  /\ accepted' = IF answered THEN accepted \cup {u} ELSE accepted
  /\ reenqueued' = IF answered /\ queue[j].state = "failed"
                   THEN reenqueued \cup {u} ELSE reenqueued
  /\ UNCHANGED <<disk, worker, paid, hour, restarts>>

NotStarted(j) == j \in Scheduled /\ queue[j].state \in {"delayed", "waiting"}
                   /\ queue[j].attempts = 0 /\ queue[j].stalls = 0

\* registerBonusSchedule: upsertJobScheduler replaces what was scheduled
\* before and not started
RegisterBonusSchedule ==
  /\ hour < MaxHour
  /\ queue' = [j \in JobId |->
       IF j = <<"scheduled", hour + 1>> /\ queue[j].state = "absent"
       THEN Fresh("delayed")
       ELSE IF NotStarted(j) /\ j # <<"scheduled", hour + 1>> THEN NoJob
       ELSE queue[j]]
  /\ UNCHANGED <<disk, worker, paid, hour, restarts, accepted, reenqueued>>

\* the top of the hour: the job of this hour becomes due
Hour ==
  /\ hour < MaxHour
  /\ hour' = hour + 1
  /\ LET j == <<"scheduled", hour + 1>> IN
       queue' = IF queue[j].state = "delayed"
                THEN [queue EXCEPT ![j].state = "waiting"] ELSE queue
  /\ UNCHANGED <<disk, worker, paid, restarts, accepted, reenqueued>>

-----------------------------------------------------------------------------
(***************************************************************************)
(* The worker.                                                             *)
(***************************************************************************)
\* as a scheduled job starts, the next one is scheduled
Take(w, j) ==
  /\ worker[w] = Idle
  /\ queue[j].state = "waiting"
  /\ SetWorker(w, "processing", j)
  /\ queue' = [i \in JobId |->
       IF i = j THEN [queue[j] EXCEPT !.state = "active", !.owner = w]
       ELSE IF NotStarted(j) /\ i = <<"scheduled", hour + 1>>
                 /\ queue[i].state = "absent" THEN Fresh("delayed")
       ELSE queue[i]]
  /\ UNCHANGED <<disk, paid, hour, restarts, accepted, reenqueued>>

\* validatedJob throws an UnrecoverableError
RejectJob(w) ==
  /\ worker[w].step = "processing"
  /\ worker[w].job[1] = "foreign"
  /\ worker' = [worker EXCEPT ![w].step = "invalid"]
  /\ UNCHANGED <<queue, disk, paid, hour, restarts, accepted, reenqueued>>

\* mutant: the occurrence is not reserved
PayAnyway(o) ==
  paid' = [q \in DOMAIN paid \cup {o} |->
             IF q = o THEN (IF Paid(o) THEN paid[o] + 1 ELSE 1) ELSE paid[q]]

\* the outcome of an applied occurrence is replayed
ApplyGoldBonus(o) ==
  IF Paid(o) THEN UNCHANGED paid
  ELSE paid' = [q \in DOMAIN paid \cup {o} |-> IF q = o THEN 1 ELSE paid[q]]

\* mutant: the error is logged and swallowed
ProcessSwallowing(w) ==
  /\ worker[w].step = "processing"
  /\ worker[w].job[1] # "foreign"
  /\ ApplyGoldBonus(OccurrenceForJob(worker[w].job)) \/ UNCHANGED paid
  /\ worker' = [worker EXCEPT ![w].step = "applied"]
  /\ UNCHANGED <<queue, disk, hour, restarts, accepted, reenqueued>>

\* the processor: the transaction commits, or does not, and the worker may
\* see an error either way (the connection may fail during COMMIT)
ProcessJob(w) ==
  /\ worker[w].step = "processing"
  /\ worker[w].job[1] # "foreign"
  /\ \/ /\ ApplyGoldBonus(OccurrenceForJob(worker[w].job))
        /\ \E step \in {"applied", "error"} :
             worker' = [worker EXCEPT ![w].step = step]
     \/ /\ worker' = [worker EXCEPT ![w].step = "error"]
        /\ UNCHANGED paid
  /\ UNCHANGED <<queue, disk, hour, restarts, accepted, reenqueued>>

\* the worker still holds the lock of its job
Owns(w) == worker[w].job # None /\ queue[worker[w].job].owner = w

Release(job, state) == [job EXCEPT !.state = state, !.owner = None]

\* completed; the oldest beyond KeepCompleted are removed
Complete(w) ==
  LET j == worker[w].job
      completed == {i \in JobId \ {j} : queue[i].state = "completed"} IN
  /\ worker[w].step = "applied"
  /\ IF Owns(w)
     THEN \E kept \in SUBSET completed :
            /\ Cardinality(kept) =
                 IF Cardinality(completed) < KeepCompleted
                 THEN Cardinality(completed)
                 ELSE IF KeepCompleted = 0 THEN 0 ELSE KeepCompleted - 1
            /\ queue' = [i \in JobId |->
                 IF i = j
                 THEN IF KeepCompleted = 0 THEN NoJob
                      ELSE Release(queue[j], "completed")
                 ELSE IF i \in completed \ kept THEN NoJob ELSE queue[i]]
     ELSE UNCHANGED queue
  /\ worker' = [worker EXCEPT ![w] = Idle]
  /\ UNCHANGED <<disk, paid, hour, restarts, accepted, reenqueued>>

\* mutant: one attempt too few
RetriesLeftFewer(job) == job.attempts + 2 < Attempts

RetriesLeft(job) == job.attempts + 1 < Attempts

\* mutant: the attempt is not counted
RequeuedUncounted(job) == Release(job, "waiting")

Requeued(job) == [Release(job, "waiting") EXCEPT !.attempts = job.attempts + 1]

\* mutant: removeOnFail
RemoveFailed(job) == NoJob

\* removeOnFail: false
KeepFailed(job) == [Release(job, "failed") EXCEPT !.attempts = job.attempts + 1]

\* a failed attempt: retried with a backoff, unless it was the last one or
\* the error is unrecoverable
FailAttempt(w) ==
  LET j == worker[w].job IN
  /\ worker[w].step \in {"error", "invalid"}
  /\ IF ~Owns(w) THEN UNCHANGED queue
     ELSE IF worker[w].step = "error" /\ RetriesLeft(queue[j])
     THEN SetJob(j, Requeued(queue[j]))
     ELSE SetJob(j, KeepFailed(queue[j]))
  /\ worker' = [worker EXCEPT ![w] = Idle]
  /\ UNCHANGED <<disk, paid, hour, restarts, accepted, reenqueued>>

-----------------------------------------------------------------------------
(***************************************************************************)
(* Failures.                                                               *)
(***************************************************************************)
\* the process ends and is started again
Crash(w) ==
  /\ worker[w] # Idle
  /\ worker' = [worker EXCEPT ![w] = Idle]
  /\ UNCHANGED <<queue, disk, paid, hour, restarts, accepted, reenqueued>>

\* the lock expired: its owner is gone, or goes on without it
Stall(j) ==
  /\ queue[j].state = "active"
  /\ SetJob(j, [Release(queue[j], IF queue[j].stalls < MaxStalls
                                  THEN "waiting" ELSE "failed")
                  EXCEPT !.stalls = @ + 1])
  /\ UNCHANGED <<disk, worker, paid, hour, restarts, accepted, reenqueued>>

\* appendfsync everysec, and a crash of Redis that falls back to it
Persist ==
  /\ restarts < MaxRestarts
  /\ disk' = queue
  /\ UNCHANGED <<queue, worker, paid, hour, restarts, accepted, reenqueued>>

Restart ==
  /\ restarts < MaxRestarts
  /\ restarts' = restarts + 1
  /\ queue' = disk
  /\ UNCHANGED <<disk, worker, paid, hour, accepted, reenqueued>>

-----------------------------------------------------------------------------
Next ==
  \/ \E u \in Uuid, answered \in BOOLEAN : EnqueueManual(u, answered)
  \/ RegisterBonusSchedule \/ Hour
  \/ \E w \in Worker : \/ \E j \in JobId : Take(w, j)
                       \/ RejectJob(w) \/ ProcessJob(w)
                       \/ Complete(w) \/ FailAttempt(w) \/ Crash(w)
  \/ \E j \in JobId : Stall(j)
  \/ Persist \/ Restart

Spec == Init /\ [][Next]_vars

(***************************************************************************)
(* A worker that runs goes on; BullMQ serves its jobs in order, so none is *)
(* passed over for ever, and finds the active jobs nobody holds.  Crashes, *)
(* failed attempts and stalls may come as often as the limits let them.    *)
(***************************************************************************)
Held(j) == \E w \in Worker : queue[j].owner = w /\ worker[w].job = j

Fairness ==
  /\ \A w \in Worker :
       WF_vars(RejectJob(w) \/ ProcessJob(w) \/ Complete(w) \/ FailAttempt(w))
  /\ \A j \in JobId :
       /\ SF_vars(\E w \in Worker : Take(w, j))
       /\ WF_vars(~Held(j) /\ Stall(j))

FairSpec == Spec /\ Fairness

-----------------------------------------------------------------------------
(***************************************************************************)
(* PaidOnce: an occurrence is paid once although its job may be delivered  *)
(* to two workers, delivered again after its commit, forgotten by the      *)
(* queue and added again, or restored from disk.                           *)
(***************************************************************************)
PaidOnce == \A o \in DOMAIN paid : paid[o] = 1

(***************************************************************************)
(* CompletedPaid: a job the queue calls completed was paid as an           *)
(* occurrence of its own, also after Redis lost writes; an invalid job     *)
(* never completes.                                                        *)
(***************************************************************************)
CompletedPaid == \A j \in JobId : queue[j].state = "completed" => Paid(j)

(***************************************************************************)
(* AcceptedKept: an occurrence answered with 202 is paid or still in the   *)
(* queue, if only among the failed jobs, unless Redis crashed.             *)
(***************************************************************************)
AcceptedKept ==
  restarts = 0 =>
    \A u \in accepted :
      Paid(<<"manual", u>>) \/ queue[<<"manual", u>>].state # "absent"

(***************************************************************************)
(* RetryBudget: a valid job fails for good only after all its attempts,    *)
(* or when its workers lost it too often.                                  *)
(***************************************************************************)
RetryBudget ==
  \A j \in Manual \cup Scheduled :
    queue[j].state = "failed" =>
      queue[j].attempts = Attempts \/ queue[j].stalls > MaxStalls

(***************************************************************************)
(* JobsSettle: no job is retried, redelivered or passed over for ever.     *)
(***************************************************************************)
JobsSettle ==
  \A j \in JobId :
    queue[j].state \in {"waiting", "active"} ~>
      queue[j].state \notin {"waiting", "active"}

(***************************************************************************)
(* ReenqueueRuns: an occurrence enqueued again after its job failed is     *)
(* waiting to run again.                                                   *)
(***************************************************************************)
ReenqueueRuns ==
  [][\A u \in reenqueued' \ reenqueued :
       queue'[<<"manual", u>>].state = "waiting"]_vars

=============================================================================
