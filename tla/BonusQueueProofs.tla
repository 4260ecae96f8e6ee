-------------------------- MODULE BonusQueueProofs --------------------------
(***************************************************************************)
(* Proofs about the delivery of bonuses, for any number of occurrences,    *)
(* workers, attempts, stalls, hours and crashes of Redis.                  *)
(*                                                                         *)
(* What is known of a job holds for its copy on disk as well, since Redis  *)
(* may fall back to that at any time.                                      *)
(***************************************************************************)
EXTENDS BonusQueue, TLAPS

\* a job that will run has an attempt and a stall left
Unsettled == {"delayed", "waiting", "active"}

GoodJob(j, job) ==
  /\ job \in Job
  /\ job.owner # None => job.state = "active"
  /\ job.state \in Unsettled => job.attempts < Attempts /\ job.stalls <= MaxStalls
  /\ job.state = "completed" => Paid(j)
  /\ job.state = "failed" /\ j[1] # "foreign" =>
       job.attempts = Attempts \/ job.stalls > MaxStalls

GoodJobs(jobs) ==
  /\ jobs \in [JobId -> Job]
  /\ \A j \in JobId : GoodJob(j, jobs[j])

GoodWorker(w) ==
  /\ worker[w] \in Process
  /\ worker[w].job = None <=> worker[w].step = "idle"
  /\ worker[w].step = "applied" => Paid(worker[w].job)
  /\ worker[w].step = "invalid" => worker[w].job[1] = "foreign"

GoodWorkers ==
  /\ worker \in [Worker -> Process]
  /\ \A w \in Worker : GoodWorker(w)

GoodPayments ==
  /\ DOMAIN paid \subseteq JobId
  /\ PaidOnce

GoodCounters ==
  /\ hour \in 0..MaxHour /\ restarts \in 0..MaxRestarts
  /\ accepted \subseteq Uuid /\ reenqueued \subseteq accepted

QueueInv ==
  /\ GoodJobs(queue) /\ GoodJobs(disk)
  /\ GoodWorkers /\ GoodPayments /\ GoodCounters
  /\ AcceptedKept

-----------------------------------------------------------------------------
(***************************************************************************)
(* Job ids.                                                                *)
(***************************************************************************)
LEMMA ManualIds ==
  \A u \in Uuid : /\ <<"manual", u>> \in JobId
                 /\ <<"manual", u>> \notin Scheduled
  BY DEF JobId, Manual, Scheduled

LEMMA BonusIds == \A j \in Manual \cup Scheduled : j \in JobId /\ j[1] # "foreign"
  BY DEF JobId, Manual, Scheduled

-----------------------------------------------------------------------------
(***************************************************************************)
(* Each way in which a job changes keeps it good.                          *)
(***************************************************************************)
LEMMA FreshGood ==
  ASSUME NEW j, NEW state \in {"waiting", "delayed"}
  PROVE  GoodJob(j, Fresh(state))
  BY QueueAssumption DEF GoodJob, Fresh, NoJob, Job, State

LEMMA NoJobGood == ASSUME NEW j PROVE GoodJob(j, NoJob)
  BY QueueAssumption DEF GoodJob, NoJob, Job, State, Unsettled

LEMMA TakenGood ==
  ASSUME NEW j, NEW job, GoodJob(j, job), job.state = "waiting", NEW w \in Worker
  PROVE  GoodJob(j, [job EXCEPT !.state = "active", !.owner = w])
  BY DEF GoodJob, Job, State, Unsettled

LEMMA CompletedGood ==
  ASSUME NEW j, NEW job, GoodJob(j, job), Paid(j)
  PROVE  GoodJob(j, Release(job, "completed"))
  BY DEF GoodJob, Release, Job, State, Unsettled

LEMMA Released ==
  ASSUME NEW job \in Job, NEW state \in State
  PROVE  /\ Release(job, state) \in Job
         /\ Release(job, state).state = state
         /\ Release(job, state).owner = None
         /\ Release(job, state).attempts = job.attempts
         /\ Release(job, state).stalls = job.stalls
  BY DEF Release, Job

LEMMA RequeuedGood ==
  ASSUME NEW j, NEW job, GoodJob(j, job), job.state = "active", RetriesLeft(job)
  PROVE  GoodJob(j, Requeued(job))
<1> DEFINE r == Release(job, "waiting")
<1>1. /\ job \in Job /\ job.attempts + 1 < Attempts /\ job.stalls <= MaxStalls
  BY DEF GoodJob, RetriesLeft, Unsettled
<1>2. /\ r \in Job /\ r.state = "waiting" /\ r.owner = None /\ r.stalls = job.stalls
  BY <1>1, Released DEF State
<1> HIDE DEF r
<1>3. GoodJob(j, [r EXCEPT !.attempts = job.attempts + 1])
  BY <1>1, <1>2, QueueAssumption DEF GoodJob, Job, Unsettled
<1> QED BY <1>3 DEF Requeued, r

LEMMA FailedGood ==
  ASSUME NEW j, NEW job, GoodJob(j, job), job.state = "active",
         ~RetriesLeft(job) \/ j[1] = "foreign"
  PROVE  GoodJob(j, KeepFailed(job))
<1> DEFINE r == Release(job, "failed")
<1>1. /\ job \in Job /\ job.attempts < Attempts
      /\ job.attempts + 1 = Attempts \/ j[1] = "foreign"
  BY QueueAssumption DEF GoodJob, RetriesLeft, Unsettled, Job
<1>2. /\ r \in Job /\ r.state = "failed" /\ r.owner = None
  BY <1>1, Released DEF State
<1> HIDE DEF r
<1>3. GoodJob(j, [r EXCEPT !.attempts = job.attempts + 1])
  BY <1>1, <1>2, QueueAssumption DEF GoodJob, Job, Unsettled
<1> QED BY <1>3 DEF KeepFailed, r

LEMMA StalledGood ==
  ASSUME NEW j, NEW job, GoodJob(j, job), job.state = "active"
  PROVE  GoodJob(j, [Release(job, IF job.stalls < MaxStalls
                                  THEN "waiting" ELSE "failed")
                       EXCEPT !.stalls = @ + 1])
<1> DEFINE state == IF job.stalls < MaxStalls THEN "waiting" ELSE "failed"
           r == Release(job, state)
<1>1. /\ job \in Job /\ job.attempts < Attempts /\ job.stalls <= MaxStalls
  BY DEF GoodJob, Unsettled
<1>2. state \in State /\ state \in {"waiting", "failed"}
      /\ (state = "waiting" <=> job.stalls < MaxStalls)
  BY DEF State
<1> HIDE DEF state
<1>3. /\ r \in Job /\ r.state = state /\ r.owner = None
      /\ r.attempts = job.attempts /\ r.stalls = job.stalls
  BY <1>1, <1>2, Released
<1> HIDE DEF r
<1>4. GoodJob(j, [r EXCEPT !.stalls = @ + 1])
  BY <1>1, <1>2, <1>3, QueueAssumption DEF GoodJob, Job, Unsettled
<1> QED BY <1>4 DEF r, state

\* one job changes
LEMMA OneJob ==
  ASSUME GoodJobs(queue), UNCHANGED paid,
         NEW j \in JobId, NEW new, GoodJob(j, new), SetJob(j, new)
  PROVE  GoodJobs(queue)'
  BY DEF GoodJobs, GoodJob, SetJob, Paid

\* nothing is unpaid
LEMMA DiskKept ==
  ASSUME GoodJobs(disk), UNCHANGED disk, DOMAIN paid \subseteq DOMAIN paid'
  PROVE  GoodJobs(disk)'
  BY DEF GoodJobs, GoodJob, Paid

LEMMA QueueKept ==
  ASSUME GoodJobs(queue), UNCHANGED queue, DOMAIN paid \subseteq DOMAIN paid'
  PROVE  GoodJobs(queue)'
  BY DEF GoodJobs, GoodJob, Paid

\* the other workers, and a worker that becomes idle
LEMMA WorkersKept ==
  ASSUME GoodWorkers, UNCHANGED worker, DOMAIN paid \subseteq DOMAIN paid'
  PROVE  GoodWorkers'
  BY DEF GoodWorkers, GoodWorker, Paid

LEMMA WorkerIdle ==
  ASSUME GoodWorkers, UNCHANGED paid, NEW w \in Worker,
         worker' = [worker EXCEPT ![w] = Idle]
  PROVE  GoodWorkers'
  BY NoneAssumption DEF GoodWorkers, GoodWorker, Idle, Process, Paid

\* a manual job is absent only if it was before or has been paid
LEMMA AcceptedStays ==
  ASSUME AcceptedKept, accepted' = accepted, restarts' = restarts,
         DOMAIN paid \subseteq DOMAIN paid',
         \A u \in Uuid : LET j == <<"manual", u>> IN
           queue[j].state # "absent" => queue'[j].state # "absent" \/ Paid(j)',
         accepted \subseteq Uuid
  PROVE  AcceptedKept'
  BY DEF AcceptedKept, Paid

-----------------------------------------------------------------------------
(***************************************************************************)
(* The invariant.                                                          *)
(***************************************************************************)
LEMMA QueueInit == Init => QueueInv
<1> SUFFICES ASSUME Init PROVE QueueInv
  OBVIOUS
<1>1. \A j \in JobId : GoodJob(j, queue[j])
  BY FreshGood, NoJobGood DEF Init
<1>2. GoodJobs(queue) /\ GoodJobs(disk)
  BY <1>1 DEF GoodJobs, Init, GoodJob
<1>3. GoodWorkers
  BY DEF Init, GoodWorkers, GoodWorker, Idle, Process
<1>4. GoodPayments /\ GoodCounters /\ AcceptedKept
  BY QueueAssumption DEF Init, GoodPayments, GoodCounters, AcceptedKept, PaidOnce
<1> QED BY <1>2, <1>3, <1>4 DEF QueueInv

LEMMA EnqueueManualStep ==
  ASSUME QueueInv, NEW u \in Uuid, NEW answered \in BOOLEAN,
         EnqueueManual(u, answered)
  PROVE  QueueInv'
<1> DEFINE j == <<"manual", u>>
<1>1. GoodJobs(queue) /\ GoodJobs(disk) /\ GoodWorkers /\ UNCHANGED <<disk, worker, paid>>
  BY DEF QueueInv, EnqueueManual
<1>2. j \in JobId
  BY ManualIds
<1> HIDE DEF j
<1>3. Add(j)
  BY DEF EnqueueManual, j
<1>4. GoodJobs(queue)'
  BY <1>1, <1>2, <1>3, FreshGood, OneJob, QueueKept DEF Add
<1>5. /\ \A i \in JobId : queue[i].state # "absent" => queue'[i].state # "absent"
      /\ queue'[j].state # "absent"
  BY <1>1, <1>2, <1>3 DEF Add, SetJob, Fresh, NoJob, GoodJobs
<1>6. GoodCounters' /\ GoodPayments'
  BY DEF QueueInv, EnqueueManual, GoodCounters, GoodPayments, PaidOnce
<1>7. accepted' \subseteq accepted \cup {u} /\ restarts' = restarts
  BY DEF EnqueueManual
<1>8. AcceptedKept'
  BY <1>5, <1>7, ManualIds DEF QueueInv, AcceptedKept, GoodCounters, Paid, EnqueueManual, j
<1> QED BY <1>1, <1>4, <1>6, <1>8, DiskKept, WorkersKept DEF QueueInv

LEMMA RegisterStep ==
  ASSUME QueueInv, RegisterBonusSchedule
  PROVE  QueueInv'
<1>1. GoodJobs(queue) /\ GoodJobs(disk) /\ GoodWorkers
      /\ UNCHANGED <<disk, worker, paid, accepted, restarts>>
  BY DEF QueueInv, RegisterBonusSchedule
<1>2. \A j \in JobId : GoodJob(j, queue'[j])
  BY <1>1, FreshGood, NoJobGood DEF RegisterBonusSchedule, GoodJobs
<1>3. GoodJobs(queue)'
  BY <1>1, <1>2 DEF RegisterBonusSchedule, GoodJobs, GoodJob, Paid
<1>4. \A j \in JobId \ Scheduled : queue'[j].state # "absent" \/ queue'[j] = queue[j]
  BY DEF RegisterBonusSchedule, NotStarted, Fresh, NoJob
<1>5. AcceptedKept'
  BY <1>1, <1>4, ManualIds, AcceptedStays DEF QueueInv, GoodCounters
<1>6. GoodCounters' /\ GoodPayments'
  BY DEF QueueInv, RegisterBonusSchedule, GoodCounters, GoodPayments, PaidOnce
<1> QED BY <1>1, <1>3, <1>5, <1>6, DiskKept, WorkersKept DEF QueueInv

LEMMA HourStep ==
  ASSUME QueueInv, Hour
  PROVE  QueueInv'
<1> DEFINE j == <<"scheduled", hour + 1>>
<1>1. GoodJobs(queue) /\ GoodJobs(disk) /\ GoodWorkers
      /\ UNCHANGED <<disk, worker, paid, accepted, restarts>>
  BY DEF QueueInv, Hour
<1>2. j \in JobId /\ hour + 1 \in 0..MaxHour
  BY QueueAssumption DEF QueueInv, GoodCounters, Hour, JobId, Scheduled
<1> HIDE DEF j
<1>3. queue' = IF queue[j].state = "delayed"
               THEN [queue EXCEPT ![j].state = "waiting"] ELSE queue
  BY DEF Hour, j
<1>4. queue[j].state = "delayed" => GoodJob(j, [queue[j] EXCEPT !.state = "waiting"])
  BY <1>1, <1>2 DEF GoodJobs, GoodJob, Job, State, Unsettled
<1>5. GoodJobs(queue)'
  BY <1>1, <1>2, <1>3, <1>4, OneJob, QueueKept DEF SetJob
<1>6. \A i \in JobId : queue[i].state # "absent" => queue'[i].state # "absent"
  BY <1>1, <1>2, <1>3 DEF GoodJobs, Job
<1>7. AcceptedKept'
  BY <1>1, <1>6, ManualIds, AcceptedStays DEF QueueInv, GoodCounters
<1>8. GoodCounters' /\ GoodPayments'
  BY <1>2 DEF QueueInv, Hour, GoodCounters, GoodPayments, PaidOnce
<1> QED BY <1>1, <1>5, <1>7, <1>8, DiskKept, WorkersKept DEF QueueInv

LEMMA TakeStep ==
  ASSUME QueueInv, NEW w \in Worker, NEW j \in JobId, Take(w, j)
  PROVE  QueueInv'
<1>1. GoodJobs(queue) /\ GoodJobs(disk) /\ GoodWorkers
      /\ UNCHANGED <<disk, paid, accepted, restarts>>
  BY DEF QueueInv, Take
<1>2. GoodJob(j, [queue[j] EXCEPT !.state = "active", !.owner = w])
  BY <1>1, TakenGood DEF Take, GoodJobs
<1>3. \A i \in JobId : GoodJob(i, queue'[i])
  BY <1>1, <1>2, FreshGood DEF Take, GoodJobs
<1>4. GoodJobs(queue)'
  BY <1>1, <1>3 DEF Take, GoodJobs, GoodJob, Paid
<1>5. \A i \in JobId : queue[i].state # "absent" => queue'[i].state # "absent"
  BY <1>1, QueueAssumption DEF Take, GoodJobs, Job, Fresh, NoJob
<1>6. AcceptedKept'
  BY <1>1, <1>5, ManualIds, AcceptedStays DEF QueueInv, GoodCounters
<1>7. GoodWorkers'
  BY <1>1, NoneAssumption DEF Take, SetWorker, GoodWorkers, GoodWorker, Process, Paid
<1>8. GoodCounters' /\ GoodPayments'
  BY DEF QueueInv, Take, GoodCounters, GoodPayments, PaidOnce
<1> QED BY <1>1, <1>4, <1>6, <1>7, <1>8, DiskKept DEF QueueInv

LEMMA RejectJobStep ==
  ASSUME QueueInv, NEW w \in Worker, RejectJob(w)
  PROVE  QueueInv'
<1>1. GoodWorkers'
  BY DEF QueueInv, RejectJob, GoodWorkers, GoodWorker, Process, Paid
<1>2. GoodJobs(queue)' /\ GoodJobs(disk)'
  BY QueueKept, DiskKept DEF QueueInv, RejectJob
<1>3. GoodCounters' /\ GoodPayments' /\ AcceptedKept'
  BY DEF QueueInv, RejectJob, GoodCounters, GoodPayments, PaidOnce, AcceptedKept, Paid
<1> QED BY <1>1, <1>2, <1>3 DEF QueueInv

LEMMA ProcessJobStep ==
  ASSUME QueueInv, NEW w \in Worker, ProcessJob(w)
  PROVE  QueueInv'
<1> DEFINE o == worker[w].job
<1>1. GoodJobs(queue) /\ GoodJobs(disk) /\ GoodWorkers /\ GoodPayments
      /\ UNCHANGED <<queue, disk, accepted, restarts>>
  BY DEF QueueInv, ProcessJob
<1>2. o \in JobId
  BY <1>1 DEF ProcessJob, GoodWorkers, GoodWorker, Process
<1> HIDE DEF o
<1>3. \/ ApplyGoldBonus(o)
      \/ UNCHANGED paid /\ worker' = [worker EXCEPT ![w].step = "error"]
  BY DEF ProcessJob, OccurrenceForJob, o
<1>4. /\ DOMAIN paid \subseteq DOMAIN paid' /\ GoodPayments'
      /\ ApplyGoldBonus(o) => o \in DOMAIN paid'
  BY <1>1, <1>2, <1>3 DEF ApplyGoldBonus, GoodPayments, PaidOnce, Paid
<1>5. GoodWorkers'
  BY <1>1, <1>2, <1>3, <1>4 DEF ProcessJob, GoodWorkers, GoodWorker, Process, Paid, o
<1>6. AcceptedKept'
  BY <1>1, <1>4, AcceptedStays DEF QueueInv, GoodCounters
<1>7. GoodCounters'
  BY DEF QueueInv, ProcessJob, GoodCounters
<1> QED BY <1>1, <1>4, <1>5, <1>6, <1>7, QueueKept, DiskKept DEF QueueInv

LEMMA CompleteStep ==
  ASSUME QueueInv, NEW w \in Worker, Complete(w)
  PROVE  QueueInv'
<1> DEFINE j == worker[w].job
<1>1. GoodJobs(queue) /\ GoodJobs(disk) /\ GoodWorkers
      /\ UNCHANGED <<disk, paid, accepted, restarts>>
      /\ worker' = [worker EXCEPT ![w] = Idle]
  BY DEF QueueInv, Complete
<1>2. j \in JobId /\ Paid(j)
  BY <1>1 DEF Complete, GoodWorkers, GoodWorker, Process
<1>3. GoodJob(j, Release(queue[j], "completed"))
  BY <1>1, <1>2, CompletedGood DEF GoodJobs
<1> HIDE DEF j
<1>4. ASSUME Owns(w) PROVE GoodJobs(queue)' /\ AcceptedKept'
  <2>1. PICK kept : queue' = [i \in JobId |->
                 IF i = j
                 THEN IF KeepCompleted = 0 THEN NoJob
                      ELSE Release(queue[j], "completed")
                 ELSE IF i \in {k \in JobId \ {j} : queue[k].state = "completed"} \ kept
                 THEN NoJob ELSE queue[i]]
    BY <1>4 DEF Complete, j
  <2>2. \A i \in JobId : GoodJob(i, queue'[i])
    BY <1>1, <1>3, <2>1, NoJobGood DEF GoodJobs
  <2>3. GoodJobs(queue)'
    BY <1>1, <2>1, <2>2 DEF GoodJobs, GoodJob, Paid
  <2>4. \A i \in JobId : queue'[i] = queue[i] \/ Paid(i)
    BY <1>1, <1>2, <2>1 DEF GoodJobs, GoodJob
  <2>5. AcceptedKept'
    BY <1>1, <2>4, ManualIds, AcceptedStays DEF QueueInv, GoodCounters, Paid
  <2> QED BY <2>3, <2>5
<1>5. ASSUME ~Owns(w) PROVE GoodJobs(queue)' /\ AcceptedKept'
  <2>1. UNCHANGED queue
    BY <1>5 DEF Complete
  <2> QED BY <1>1, <2>1, QueueKept DEF QueueInv, AcceptedKept, Paid
<1>6. GoodCounters' /\ GoodPayments'
  BY DEF QueueInv, Complete, GoodCounters, GoodPayments, PaidOnce
<1> QED BY <1>1, <1>4, <1>5, <1>6, DiskKept, WorkerIdle DEF QueueInv

LEMMA FailAttemptStep ==
  ASSUME QueueInv, NEW w \in Worker, FailAttempt(w)
  PROVE  QueueInv'
<1> DEFINE j == worker[w].job
<1>1. GoodJobs(queue) /\ GoodJobs(disk) /\ GoodWorkers
      /\ UNCHANGED <<disk, paid, accepted, restarts>>
      /\ worker' = [worker EXCEPT ![w] = Idle]
  BY DEF QueueInv, FailAttempt
<1>2. j \in JobId /\ (worker[w].step = "invalid" => j[1] = "foreign")
  BY <1>1 DEF FailAttempt, GoodWorkers, GoodWorker, Process
<1>3. Owns(w) => queue[j].state = "active" /\ GoodJob(j, queue[j])
  BY <1>1, <1>2, QueueAssumption DEF Owns, GoodJobs, GoodJob
<1>4. \/ UNCHANGED queue
      \/ Owns(w) /\ RetriesLeft(queue[j]) /\ SetJob(j, Requeued(queue[j]))
      \/ /\ Owns(w) /\ SetJob(j, KeepFailed(queue[j]))
         /\ ~RetriesLeft(queue[j]) \/ j[1] = "foreign"
  BY <1>2 DEF FailAttempt
<1> HIDE DEF j
<1>5. GoodJobs(queue)'
  BY <1>1, <1>2, <1>3, <1>4, RequeuedGood, FailedGood, OneJob, QueueKept
<1>6. \A i \in JobId : queue[i].state # "absent" => queue'[i].state # "absent"
  <2>1. ASSUME Owns(w)
        PROVE  /\ Requeued(queue[j]).state = "waiting"
               /\ KeepFailed(queue[j]).state = "failed"
    BY <1>3, <2>1 DEF GoodJob, Job, Requeued, KeepFailed, Release
  <2> QED BY <1>1, <1>2, <1>4, <2>1 DEF SetJob, GoodJobs
<1>7. AcceptedKept'
  BY <1>1, <1>6, ManualIds, AcceptedStays DEF QueueInv, GoodCounters
<1>8. GoodCounters' /\ GoodPayments'
  BY DEF QueueInv, FailAttempt, GoodCounters, GoodPayments, PaidOnce
<1> QED BY <1>1, <1>5, <1>7, <1>8, DiskKept, WorkerIdle DEF QueueInv

LEMMA CrashStep ==
  ASSUME QueueInv, NEW w \in Worker, Crash(w)
  PROVE  QueueInv'
<1>1. GoodWorkers'
  BY WorkerIdle DEF QueueInv, Crash
<1>2. GoodJobs(queue)' /\ GoodJobs(disk)'
  BY QueueKept, DiskKept DEF QueueInv, Crash
<1>3. GoodCounters' /\ GoodPayments' /\ AcceptedKept'
  BY DEF QueueInv, Crash, GoodCounters, GoodPayments, PaidOnce, AcceptedKept, Paid
<1> QED BY <1>1, <1>2, <1>3 DEF QueueInv

LEMMA StallStep ==
  ASSUME QueueInv, NEW j \in JobId, Stall(j)
  PROVE  QueueInv'
<1> DEFINE new == [Release(queue[j], IF queue[j].stalls < MaxStalls
                                     THEN "waiting" ELSE "failed")
                     EXCEPT !.stalls = @ + 1]
<1>1. GoodJobs(queue) /\ GoodJobs(disk) /\ GoodWorkers
      /\ UNCHANGED <<disk, worker, paid, accepted, restarts>>
  BY DEF QueueInv, Stall
<1>2. GoodJob(j, new) /\ SetJob(j, new)
  BY <1>1, StalledGood DEF Stall, GoodJobs
<1>3. new.state # "absent"
  BY <1>1 DEF Release, GoodJobs, Job
<1> HIDE DEF new
<1>4. GoodJobs(queue)'
  BY <1>1, <1>2, OneJob
<1>5. \A i \in JobId : queue[i].state # "absent" => queue'[i].state # "absent"
  BY <1>1, <1>2, <1>3 DEF SetJob, GoodJobs
<1>6. AcceptedKept'
  BY <1>1, <1>5, ManualIds, AcceptedStays DEF QueueInv, GoodCounters
<1>7. GoodCounters' /\ GoodPayments'
  BY DEF QueueInv, Stall, GoodCounters, GoodPayments, PaidOnce
<1> QED BY <1>1, <1>4, <1>6, <1>7, DiskKept, WorkersKept DEF QueueInv

LEMMA RedisStep ==
  ASSUME QueueInv, Persist \/ Restart
  PROVE  QueueInv'
<1>1. GoodJobs(queue)' /\ GoodJobs(disk)'
  BY DEF QueueInv, Persist, Restart, GoodJobs, GoodJob, Paid
<1>2. GoodWorkers'
  BY WorkersKept DEF QueueInv, Persist, Restart
<1>3. GoodPayments' /\ GoodCounters'
  BY QueueAssumption DEF QueueInv, Persist, Restart, GoodCounters, GoodPayments, PaidOnce
<1>4. AcceptedKept'
  <2>1. CASE Persist
    BY <2>1 DEF QueueInv, Persist, AcceptedKept, Paid
  <2>2. CASE Restart
    <3>1. restarts' # 0
      BY <2>2, QueueAssumption DEF QueueInv, Restart, GoodCounters
    <3> QED BY <3>1 DEF AcceptedKept
  <2> QED BY <2>1, <2>2
<1> QED BY <1>1, <1>2, <1>3, <1>4 DEF QueueInv

(***************************************************************************)
(* The inductive invariant of the queue, the workers and the payments.     *)
(***************************************************************************)
THEOREM QueueInvariant == Spec => []QueueInv
<1>1. QueueInv /\ [Next]_vars => QueueInv'
  <2> SUFFICES ASSUME QueueInv, [Next]_vars PROVE QueueInv'
    OBVIOUS
  <2>1. CASE \E u \in Uuid, answered \in BOOLEAN : EnqueueManual(u, answered)
    BY <2>1, EnqueueManualStep
  <2>2. CASE RegisterBonusSchedule \/ Hour
    BY <2>2, RegisterStep, HourStep
  <2>3. CASE \E w \in Worker : \/ \E j \in JobId : Take(w, j)
                              \/ RejectJob(w) \/ ProcessJob(w)
                              \/ Complete(w) \/ FailAttempt(w) \/ Crash(w)
    BY <2>3, TakeStep, RejectJobStep, ProcessJobStep, CompleteStep,
       FailAttemptStep, CrashStep
  <2>4. CASE \E j \in JobId : Stall(j)
    BY <2>4, StallStep
  <2>5. CASE Persist \/ Restart
    BY <2>5, RedisStep
  <2>6. CASE UNCHANGED vars
    <3>1. GoodJobs(queue)' /\ GoodJobs(disk)' /\ GoodWorkers'
      BY <2>6, QueueKept, DiskKept, WorkersKept DEF QueueInv, vars
    <3>2. GoodPayments' /\ GoodCounters' /\ AcceptedKept'
      BY <2>6 DEF QueueInv, vars, GoodPayments, GoodCounters, PaidOnce,
                  AcceptedKept, Paid
    <3> QED BY <3>1, <3>2 DEF QueueInv
  <2> QED BY <2>1, <2>2, <2>3, <2>4, <2>5, <2>6 DEF Next
<1> QED BY QueueInit, <1>1, PTL DEF Spec

(***************************************************************************)
(* The queue, its copy on disk and the workers stay well formed: no job    *)
(* gets more attempts or stalls than it has, and only an active job has an *)
(* owner.                                                                  *)
(***************************************************************************)
THEOREM QueueTypeCorrect == Spec => []TypeOK
<1>1. QueueInv => TypeOK
  <2> SUFFICES ASSUME QueueInv PROVE TypeOK
    OBVIOUS
  <2>1. \A o \in DOMAIN paid : paid[o] \in Nat \ {0}
    BY DEF QueueInv, GoodPayments, PaidOnce
  <2>2. \A w \in Worker : (worker[w] = Idle) <=> (worker[w].step = "idle")
    BY DEF QueueInv, GoodWorkers, GoodWorker, Idle, Process
  <2> QED BY <2>1, <2>2 DEF TypeOK, QueueInv, GoodJobs, GoodJob, GoodWorkers,
                            GoodPayments, GoodCounters
<1> QED BY QueueInvariant, <1>1, PTL

(***************************************************************************)
(* PaidOnce for any number of workers, redeliveries and crashes.           *)
(***************************************************************************)
THEOREM BonusPaidOnce == Spec => []PaidOnce
<1>1. QueueInv => PaidOnce
  BY DEF QueueInv, GoodPayments
<1> QED BY QueueInvariant, <1>1, PTL

(***************************************************************************)
(* CompletedPaid: completed jobs were paid, also after Redis lost writes.  *)
(***************************************************************************)
THEOREM CompletionMeansPaid == Spec => []CompletedPaid
<1>1. QueueInv => CompletedPaid
  BY DEF QueueInv, GoodJobs, GoodJob, CompletedPaid
<1> QED BY QueueInvariant, <1>1, PTL

(***************************************************************************)
(* AcceptedKept: what was answered with 202 is paid or in the queue.       *)
(***************************************************************************)
THEOREM AcceptedNotLost == Spec => []AcceptedKept
<1>1. QueueInv => AcceptedKept
  BY DEF QueueInv
<1> QED BY QueueInvariant, <1>1, PTL

(***************************************************************************)
(* RetryBudget: no valid job fails for good with attempts left.            *)
(***************************************************************************)
THEOREM NoEarlyFailure == Spec => []RetryBudget
<1>1. QueueInv => RetryBudget
  BY BonusIds DEF QueueInv, GoodJobs, GoodJob, RetryBudget
<1> QED BY QueueInvariant, <1>1, PTL

=============================================================================
