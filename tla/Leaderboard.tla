---------------------------- MODULE Leaderboard ----------------------------
(***************************************************************************)
(* The Redis projection of lifetime earnings (leaderboard/service.ts,      *)
(* leaderboard/store.ts): API requests synchronise one player after their  *)
(* commit, reconcilers (the worker's refresh, the rebuild command) replace *)
(* the whole sorted set, and readers accept a page only while its          *)
(* completeness marker is fresh.                                           *)
(*                                                                         *)
(* A process may lose its database or Redis connection before any of its   *)
(* steps; a command that Redis executes after the client gave up is a late *)
(* step of another process.  Redis restarts from its append-only file,     *)
(* which lags behind what it acknowledged.                                 *)
(***************************************************************************)
EXTENDS Authority, FiniteSets, Functions

CONSTANTS
  Syncer,       \* API requests that synchronise a player
  Reconciler,   \* reconcileLeaderboard calls, of any process
  NoMarker,     \* the :ready key does not exist
  NoSync,       \* the request has no synchronisation under way
  MaxScore,     \* largest score a sorted set holds exactly
  MaxAge,       \* leaderboardMaxAgeMs
  BatchSize,    \* members staged by one command
  Unit,         \* smallest fractions in a gold piece
  Fault,        \* the faults of this instance
  MaxFaults,    \* bound: kinds of faults in a behaviour, each once
  MaxTotal,     \* bound: lifetime earnings
  MaxDeleted,   \* bound: deletions
  MaxClock      \* bound: the clock reads 0..MaxClock

ASSUME LeaderboardAssumption ==
  /\ IsFiniteSet(Player)
  /\ MaxScore \in Nat /\ MaxTotal \in Nat /\ MaxDeleted \in Nat
  /\ MaxClock \in Nat /\ MaxFaults \in Nat /\ Unit \in Nat \ {0}
  /\ MaxAge \in Nat \ {0} /\ BatchSize \in Nat \ {0}
  /\ Fault \subseteq {"restart", "clock"}

VARIABLES
  live,       \* the sorted set: scores by member
  marker,     \* the :ready key: start and size of the published snapshot
  staging,    \* members in the temporary set of each reconciler
  disk,       \* what Redis has on disk: live, marker and staging
  sync,       \* per request: the player and the total read from PostgreSQL
  job,        \* per reconciler: its step, start, snapshot and unstaged rest
  now,        \* the synchronised clock of the processes and Redis
  faults,     \* the faults that have happened
  window,     \* history: window[i] is total as it was i ticks ago
  detected    \* history: players whose too large total deleted the marker

redisVars == <<live, marker, staging, disk>>
processVars == <<sync, job>>
timeVars == <<now, faults, window>>
vars == <<authorityVars, redisVars, processVars, timeVars, detected>>

(***************************************************************************)
(* Amounts are texts of whole gold and a fraction, scores are integers.    *)
(***************************************************************************)
Text == [whole : Nat, fraction : 0..(Unit - 1)]

\* the text of a numeric column; total counts smallest fractions
AsText(amount) == [whole |-> amount \div Unit, fraction |-> amount % Unit]

ToLeaderboardScore(text) == text.whole * Unit + text.fraction

FromLeaderboardScore(score) ==
  [whole |-> score \div Unit, fraction |-> score % Unit]

\* mutant: totals are rounded to fit
RoundedScore(text) == TRUE

\* toLeaderboardScore throws a RangeError otherwise
HasScore(text) == ToLeaderboardScore(text) <= MaxScore

AtMost(a, b) ==
  a.whole < b.whole \/ (a.whole = b.whole /\ a.fraction <= b.fraction)

Totals == UNION {[S -> 0..MaxTotal] : S \in SUBSET Player}
Scores == UNION {[S -> 0..MaxScore] : S \in SUBSET Player}
Marker == [startedAt : 0..MaxClock, count : Nat]
Sync == [player : Player, found : BOOLEAN, total : Text]
Job == [step : {"idle", "read", "stage", "invalidate"}, startedAt : 0..MaxClock,
        snapshot : Totals, todo : SUBSET Player]

Empty == [p \in {} |-> 0]
NoJob == [step |-> "idle", startedAt |-> 0, snapshot |-> Empty, todo |-> {}]

TypeOK ==
  /\ total \in Totals
  /\ deleted \subseteq Player
  /\ live \in Scores
  /\ marker \in Marker \cup {NoMarker}
  /\ staging \in [Reconciler -> SUBSET Player]
  /\ disk \in [live : Scores, marker : Marker \cup {NoMarker},
               staging : [Reconciler -> SUBSET Player]]
  /\ sync \in [Syncer -> Sync \cup {NoSync}]
  /\ job \in [Reconciler -> Job]
  /\ now \in 0..MaxClock
  /\ faults \subseteq Fault
  /\ window \in [1..MaxAge -> Totals]
  /\ detected \subseteq Player

Init ==
  /\ AuthorityInit
  /\ live = Empty
  /\ marker = NoMarker
  /\ staging = [r \in Reconciler |-> {}]
  /\ disk = [live |-> live, marker |-> marker, staging |-> staging]
  /\ sync = [s \in Syncer |-> NoSync]
  /\ job = [r \in Reconciler |-> NoJob]
  /\ now = 0
  /\ faults = {}
  /\ window = [i \in 1..MaxAge |-> Empty]
  /\ detected = {}

-----------------------------------------------------------------------------
(***************************************************************************)
(* PostgreSQL: rows appear, grow (one by a collection or a purchase, all   *)
(* by a world event) and are deleted.                                      *)
(***************************************************************************)
Appear(p) ==
  /\ p \notin DOMAIN total \cup deleted
  /\ total' = [q \in DOMAIN total \cup {p} |-> IF q = p THEN 0 ELSE total[q]]
  /\ UNCHANGED <<deleted, redisVars, processVars, timeVars, detected>>

Earn(earners) ==
  /\ \A p \in earners : total[p] < MaxTotal
  /\ total' = [p \in DOMAIN total |->
                 IF p \in earners THEN total[p] + 1 ELSE total[p]]
  /\ UNCHANGED <<deleted, redisVars, processVars, timeVars, detected>>

Vanish(p) ==
  /\ p \in DOMAIN total
  /\ Cardinality(deleted) < MaxDeleted
  /\ total' = Restrict(total, DOMAIN total \ {p})
  /\ deleted' = deleted \cup {p}
  /\ UNCHANGED <<redisVars, processVars, timeVars, detected>>

-----------------------------------------------------------------------------
(***************************************************************************)
(* syncPlayerLeaderboard: read the committed total, then write it.         *)
(***************************************************************************)
\* mutant: the total of a transaction that may still roll back
SyncReadUncommitted(s, p) ==
  /\ sync[s] = NoSync
  /\ p \in DOMAIN total
  /\ sync' = [sync EXCEPT ![s] =
       [player |-> p, found |-> TRUE, total |-> AsText(total[p] + 1)]]
  /\ UNCHANGED <<authorityVars, redisVars, job, timeVars, detected>>

SyncRead(s, p) ==
  /\ sync[s] = NoSync
  /\ p \in DOMAIN total \cup deleted
  /\ sync' = [sync EXCEPT ![s] =
       [player |-> p, found |-> p \in DOMAIN total,
        total |-> AsText(IF p \in DOMAIN total THEN total[p] ELSE 0)]]
  /\ UNCHANGED <<authorityVars, redisVars, job, timeVars, detected>>

SyncDone(s) == sync' = [sync EXCEPT ![s] = NoSync]

\* ZREM: the player has no row
SyncRemove(s) ==
  /\ sync[s] # NoSync
  /\ ~sync[s].found
  /\ live' = Restrict(live, DOMAIN live \ {sync[s].player})
  /\ SyncDone(s)
  /\ UNCHANGED <<authorityVars, marker, staging, disk, job, timeVars, detected>>

\* ZADD ... GT: a member's score only rises
SyncRaise(s) ==
  /\ sync[s] # NoSync
  /\ sync[s].found /\ HasScore(sync[s].total)
  /\ LET p == sync[s].player
         score == ToLeaderboardScore(sync[s].total) IN
       IF p \in DOMAIN live => live[p] < score
       THEN live' = [q \in DOMAIN live \cup {p} |->
                       IF q = p THEN score ELSE live[q]]
       ELSE UNCHANGED live
  /\ SyncDone(s)
  /\ UNCHANGED <<authorityVars, marker, staging, disk, job, timeVars, detected>>

\* toLeaderboardScore throws: DEL of the marker
SyncInvalidate(s) ==
  /\ sync[s] # NoSync
  /\ sync[s].found /\ ~HasScore(sync[s].total)
  /\ marker' = NoMarker
  /\ detected' = detected \cup {sync[s].player}
  /\ SyncDone(s)
  /\ UNCHANGED <<authorityVars, live, staging, disk, job, timeVars>>

\* an error or the end of the process; the request answers all the same
SyncFail(s) ==
  /\ sync[s] # NoSync
  /\ SyncDone(s)
  /\ UNCHANGED <<authorityVars, redisVars, job, timeVars, detected>>

-----------------------------------------------------------------------------
(***************************************************************************)
(* reconcileLeaderboard.                                                   *)
(***************************************************************************)
SetJob(r, new) == job' = [job EXCEPT ![r] = new]

\* readLeaderboardSnapshot: the clock first, then the rows.  The temporary
\* set has a name of its own, so nothing of an earlier one is in it.
Start(r) ==
  /\ job[r].step = "idle"
  /\ SetJob(r, [NoJob EXCEPT !.step = "read", !.startedAt = now])
  /\ staging' = [staging EXCEPT ![r] = {}]
  /\ disk' = [disk EXCEPT !.staging[r] = {}]
  /\ UNCHANGED <<authorityVars, live, marker, sync, timeVars, detected>>

\* one SELECT, so one database snapshot; every total is converted at once
Scored(rows) == [p \in DOMAIN rows |-> ToLeaderboardScore(AsText(rows[p]))]

Read(r) ==
  /\ job[r].step = "read"
  /\ LET converted == [job[r] EXCEPT !.snapshot = Scored(total)] IN
       IF \A p \in DOMAIN total : HasScore(AsText(total[p]))
       THEN SetJob(r, [converted EXCEPT !.step = "stage", !.todo = DOMAIN total])
       ELSE SetJob(r, [converted EXCEPT !.step = "invalidate"])
  /\ UNCHANGED <<authorityVars, redisVars, sync, timeVars, detected>>

\* DEL of the marker after a RangeError
Invalidate(r) ==
  /\ job[r].step = "invalidate"
  /\ marker' = NoMarker
  /\ detected' = detected \cup
       {p \in DOMAIN job[r].snapshot : job[r].snapshot[p] > MaxScore}
  /\ SetJob(r, NoJob)
  /\ UNCHANGED <<authorityVars, live, staging, disk, sync, timeVars>>

\* MULTI ZADD, PEXPIRE for the next batch
Stage(r) ==
  /\ job[r].step = "stage"
  /\ \E batch \in SUBSET job[r].todo :
       /\ batch # {}
       /\ \/ Cardinality(batch) = BatchSize
          \/ Cardinality(batch) < BatchSize /\ batch = job[r].todo
       /\ staging' = [staging EXCEPT ![r] = @ \cup batch]
       /\ SetJob(r, [job[r] EXCEPT !.todo = @ \ batch])
  /\ UNCHANGED <<authorityVars, live, marker, disk, sync, timeVars, detected>>

(***************************************************************************)
(* publishSnapshotScript, one atomic script.  It refuses a snapshot of the *)
(* future or of more than MaxAge ago, yields to a newer one, unless that   *)
(* comes from the future, and refuses an incomplete temporary set.         *)
(***************************************************************************)
Expired(startedAt) == startedAt > now \/ startedAt + MaxAge <= now

\* mutant: a marker of the future wins too
SupersededByAny(startedAt) ==
  marker # NoMarker /\ marker.startedAt > startedAt

Superseded(startedAt) ==
  /\ marker # NoMarker
  /\ marker.startedAt <= now
  /\ marker.startedAt > startedAt

\* mutant: ZCARD is not compared
AnyStaging(r) == TRUE

Complete(r) ==
  Cardinality(staging[r]) = Cardinality(DOMAIN job[r].snapshot)

\* mutant: the marker carries the time of the publication
MarkerOfNow(r) ==
  [startedAt |-> now, count |-> Cardinality(DOMAIN job[r].snapshot)]

NewMarker(r) ==
  [startedAt |-> job[r].startedAt, count |-> Cardinality(DOMAIN job[r].snapshot)]

Publish(r) ==
  LET startedAt == job[r].startedAt IN
  /\ job[r].step = "stage" /\ job[r].todo = {}
  /\ IF ~Expired(startedAt) /\ ~Superseded(startedAt) /\ Complete(r)
     THEN /\ live' = Restrict(job[r].snapshot, staging[r])
          /\ marker' = NewMarker(r)
     ELSE UNCHANGED <<live, marker>>
  /\ staging' = [staging EXCEPT ![r] = {}]
  /\ SetJob(r, NoJob)
  /\ UNCHANGED <<authorityVars, disk, sync, timeVars, detected>>

\* PostgreSQL or Redis fails a step, or the process ends
Fail(r) ==
  /\ job[r].step # "idle"
  /\ SetJob(r, NoJob)
  /\ UNCHANGED <<authorityVars, redisVars, sync, timeVars, detected>>

-----------------------------------------------------------------------------
(***************************************************************************)
(* Time and Redis itself.                                                  *)
(***************************************************************************)
Tick ==
  /\ now < MaxClock
  /\ now' = now + 1
  /\ window' = [i \in 1..MaxAge |-> IF i = 1 THEN total ELSE window[i - 1]]
  /\ UNCHANGED <<authorityVars, redisVars, processVars, faults, detected>>

\* PXAT
Expire ==
  /\ marker # NoMarker
  /\ marker.startedAt + MaxAge <= now
  /\ marker' = NoMarker
  /\ UNCHANGED <<authorityVars, live, staging, disk, processVars, timeVars, detected>>

\* appendfsync everysec
Persist ==
  /\ "restart" \in Fault
  /\ disk' = [live |-> live, marker |-> marker, staging |-> staging]
  /\ UNCHANGED <<authorityVars, live, marker, staging, processVars, timeVars, detected>>

FaultHappens(fault) ==
  /\ fault \in Fault \ faults
  /\ Cardinality(faults) < MaxFaults
  /\ faults' = faults \cup {fault}

Restart ==
  /\ FaultHappens("restart")
  /\ live' = disk.live
  /\ marker' = disk.marker
  /\ staging' = disk.staging
  /\ UNCHANGED <<authorityVars, disk, processVars, now, window, detected>>

ClockSetBack ==
  /\ FaultHappens("clock")
  /\ now > 0
  /\ now' = now - 1
  /\ UNCHANGED <<authorityVars, redisVars, processVars, window, detected>>

-----------------------------------------------------------------------------
SyncStep(s) == SyncRemove(s) \/ SyncRaise(s) \/ SyncInvalidate(s)

DatabaseStep ==
  \/ \E p \in Player : Appear(p) \/ Vanish(p)
  \/ \E earners \in SUBSET DOMAIN total \ {{}} : Earn(earners)

ProjectionStep ==
  \/ \E s \in Syncer :
       SyncStep(s) \/ SyncFail(s) \/ \E p \in Player : SyncRead(s, p)
  \/ \E r \in Reconciler :
       Start(r) \/ Read(r) \/ Invalidate(r) \/ Stage(r) \/ Publish(r) \/ Fail(r)
  \/ Tick \/ Expire \/ Persist \/ Restart \/ ClockSetBack

Next == DatabaseStep \/ ProjectionStep

Spec == Init /\ [][Next]_vars

(***************************************************************************)
(* The projection over any database that keeps the promise of Authority:   *)
(* rows appear, vanish and grow together and by any amounts.               *)
(***************************************************************************)
AnyAuthority ==
  /\ AuthorityNext
  /\ total' \in Totals
  /\ deleted' \subseteq Player
  /\ UNCHANGED <<redisVars, processVars, timeVars, detected>>

OpenSpec == Init /\ [][AnyAuthority \/ ProjectionStep]_vars

(***************************************************************************)
(* The worker starts a refresh every leaderboardRefreshMs, and outages     *)
(* end: from some time on no reconciliation fails.                         *)
(***************************************************************************)
OutagesEnd == <>[][\A r \in Reconciler : ~Fail(r)]_vars

Fairness ==
  /\ \A r \in Reconciler :
       WF_vars(Start(r) \/ Read(r) \/ Invalidate(r) \/ Stage(r) \/ Publish(r))
  /\ OutagesEnd

FairSpec == Spec /\ Fairness

-----------------------------------------------------------------------------
(***************************************************************************)
(* readLeaderboard: one MULTI reads the marker and the set; Servable is    *)
(* when it answers with a page instead of an error.                        *)
(***************************************************************************)
Servable ==
  /\ marker # NoMarker
  /\ marker.startedAt <= now
  /\ now - marker.startedAt < MaxAge
  /\ Cardinality(DOMAIN live) >= marker.count

(***************************************************************************)
(* The amount a page shows for a member of the set.                        *)
(***************************************************************************)
Shown(p) == FromLeaderboardScore(live[p])

(***************************************************************************)
(* NoInflation: the projection never shows a player more than the player   *)
(* has earned, whatever was delayed, restored from disk or republished.    *)
(***************************************************************************)
NoInflation ==
  \A p \in DOMAIN live \cap DOMAIN total : AtMost(Shown(p), AsText(total[p]))

(***************************************************************************)
(* FreshPage: a page that is served shows every player whose row is at     *)
(* least MaxAge old, with at least the earnings of MaxAge ago.  Relates    *)
(* the projection to the database of an earlier time; the clocks are       *)
(* assumed not to be set back.                                             *)
(***************************************************************************)
FreshPage ==
  Servable /\ "clock" \notin faults =>
    \A p \in DOMAIN window[MaxAge] \cap DOMAIN total :
      p \in DOMAIN live /\ AtMost(AsText(window[MaxAge][p]), Shown(p))

(***************************************************************************)
(* CatchesUp: once earnings, deletions and faults stop, the projection     *)
(* becomes servable, equals the database and stays so.                     *)
(***************************************************************************)
CatchesUp == <>[](Servable /\ live = total)

(***************************************************************************)
(* DetectionInvalidates: a total found too large for a score invalidates   *)
(* the projection: while that player exists no page is served.             *)
(***************************************************************************)
DetectionInvalidates ==
  Servable => detected \cap DOMAIN total = {}

=============================================================================
