-------------------------- MODULE LeaderboardProofs --------------------------
(***************************************************************************)
(* Proofs about the Redis projection, for any finite set of players, any   *)
(* number of requests and reconcilers, any age, batch size and largest     *)
(* score.                                                                  *)
(***************************************************************************)
EXTENDS Leaderboard, FiniteSetTheorems, TLAPS

\* f shows no more than the totals t; players who are gone count as before
BelowAt(f, t, d) ==
  /\ DOMAIN f \subseteq DOMAIN t \cup d
  /\ \A p \in DOMAIN f \cap DOMAIN t : f[p] <= t[p]

Below(f) == BelowAt(f, total, deleted)

\* f shows at least what had been earned when the tick of startedAt began
CoversAt(f, startedAt, w, t, n) ==
  \A i \in 1..MaxAge : n - startedAt < i =>
    \A p \in DOMAIN w[i] \cap DOMAIN t : p \in DOMAIN f /\ w[i][p] <= f[p]

Covers(f, startedAt) == CoversAt(f, startedAt, window, total, now)

Dated(f, startedAt) ==
  "clock" \notin faults => startedAt <= now /\ Covers(f, startedAt)

\* a sorted set and its marker, in Redis or on disk
GoodSet(scores, mark) ==
  /\ Below(scores)
  /\ mark # NoMarker => Dated(scores, mark.startedAt)

GoodJob(r) ==
  /\ Below(job[r].snapshot)
  /\ job[r].step \in {"read", "stage"} =>
       ("clock" \notin faults => job[r].startedAt <= now)
  /\ job[r].step = "read" => staging[r] = {} /\ disk.staging[r] = {}
  /\ job[r].step = "stage" =>
       /\ job[r].snapshot \in Scores
       /\ Dated(job[r].snapshot, job[r].startedAt)
       /\ job[r].todo \subseteq DOMAIN job[r].snapshot
       /\ staging[r] \subseteq DOMAIN job[r].snapshot
       /\ disk.staging[r] \subseteq DOMAIN job[r].snapshot

GoodSync(s) ==
  sync[s] # NoSync =>
    LET p == sync[s].player IN
    /\ p \in DOMAIN total \cup deleted
    /\ sync[s].found /\ p \in DOMAIN total =>
         ToLeaderboardScore(sync[s].total) <= total[p]
    /\ ~sync[s].found => p \in deleted

LeaderboardInv ==
  /\ TypeOK
  /\ DOMAIN total \cap deleted = {}
  /\ \A i \in 1..MaxAge : Below(window[i])
  /\ GoodSet(live, marker) /\ GoodSet(disk.live, disk.marker)
  /\ \A r \in Reconciler : GoodJob(r)
  /\ \A s \in Syncer : GoodSync(s)

-----------------------------------------------------------------------------
(***************************************************************************)
(* Amounts and maps.                                                       *)
(***************************************************************************)
LEMMA DivMod ==
  ASSUME NEW n \in Nat, NEW d \in Nat \ {0}
  PROVE  /\ n \div d \in Nat /\ n % d \in 0..(d - 1)
         /\ (n \div d) * d + (n % d) = n
<1>1. n \div d \in Nat
  OBVIOUS
<1>2. n % d \in 0..(d - 1)
  OBVIOUS
<1>3. (n \div d) * d + (n % d) = n
  OBVIOUS
<1> QED BY <1>1, <1>2, <1>3

LEMMA TextFacts ==
  ASSUME NEW n \in Nat
  PROVE  AsText(n) \in Text /\ ToLeaderboardScore(AsText(n)) = n
<1>1. n \div Unit \in Nat /\ n % Unit \in 0..(Unit - 1)
  BY DivMod, LeaderboardAssumption
<1>2. AsText(n).whole = n \div Unit /\ AsText(n).fraction = n % Unit
  BY DEF AsText
<1>3. AsText(n) \in Text
  BY <1>1 DEF AsText, Text
<1>4. (n \div Unit) * Unit + (n % Unit) = n
  BY DivMod, LeaderboardAssumption
<1>5. ToLeaderboardScore(AsText(n)) = (n \div Unit) * Unit + (n % Unit)
  BY <1>2 DEF ToLeaderboardScore
<1> QED BY <1>3, <1>4, <1>5

LEMMA DivMonotone ==
  \A a, b \in Nat, d \in Nat \ {0} :
    a <= b => \/ a \div d < b \div d
              \/ a \div d = b \div d /\ a % d <= b % d
  OBVIOUS

LEMMA TextMonotone ==
  ASSUME NEW a \in Nat, NEW b \in Nat, a <= b
  PROVE  /\ AtMost(AsText(a), FromLeaderboardScore(b))
         /\ AtMost(FromLeaderboardScore(a), AsText(b))
<1>1. \/ a \div Unit < b \div Unit
      \/ a \div Unit = b \div Unit /\ a % Unit <= b % Unit
  BY DivMonotone, LeaderboardAssumption
<1> QED BY <1>1 DEF AtMost, AsText, FromLeaderboardScore

LEMMA MapFacts ==
  ASSUME NEW m \in Nat, NEW f \in UNION {[S -> 0..m] : S \in SUBSET Player}
  PROVE  /\ DOMAIN f \subseteq Player
         /\ \A p \in DOMAIN f : f[p] \in 0..m
<1>1. PICK S \in SUBSET Player : f \in [S -> 0..m]
  OBVIOUS
<1> QED BY <1>1

LEMMA MapIntro ==
  ASSUME NEW m \in Nat, NEW S \in SUBSET Player, NEW f \in [S -> 0..m]
  PROVE  f \in UNION {[T -> 0..m] : T \in SUBSET Player}
  OBVIOUS

LEMMA TotalFacts ==
  ASSUME NEW f \in Totals
  PROVE  DOMAIN f \subseteq Player /\ \A p \in DOMAIN f : f[p] \in 0..MaxTotal
  BY MapFacts, LeaderboardAssumption DEF Totals

LEMMA ScoreFacts ==
  ASSUME NEW f \in Scores
  PROVE  DOMAIN f \subseteq Player /\ \A p \in DOMAIN f : f[p] \in 0..MaxScore
  BY MapFacts, LeaderboardAssumption DEF Scores

LEMMA TotalIntro ==
  ASSUME NEW S \in SUBSET Player, NEW f \in [S -> 0..MaxTotal]
  PROVE  f \in Totals
  BY MapIntro, LeaderboardAssumption DEF Totals

LEMMA ScoreIntro ==
  ASSUME NEW S \in SUBSET Player, NEW f \in [S -> 0..MaxScore]
  PROVE  f \in Scores
  BY MapIntro, LeaderboardAssumption DEF Scores

LEMMA RestrictFacts ==
  ASSUME NEW f, NEW S \in SUBSET DOMAIN f
  PROVE  DOMAIN Restrict(f, S) = S /\ \A p \in S : Restrict(f, S)[p] = f[p]
  BY DEF Restrict

LEMMA RestrictScores ==
  ASSUME NEW f \in Scores, NEW S \in SUBSET DOMAIN f
  PROVE  Restrict(f, S) \in Scores
<1>1. Restrict(f, S) \in [S -> 0..MaxScore]
  BY ScoreFacts DEF Restrict
<1> QED BY <1>1, ScoreFacts, ScoreIntro

LEMMA EmptyFacts == Empty \in Totals /\ Empty \in Scores /\ DOMAIN Empty = {}
<1>1. Empty \in [{} -> 0..MaxTotal] /\ Empty \in [{} -> 0..MaxScore] /\ DOMAIN Empty = {}
  BY DEF Empty
<1> QED BY <1>1, TotalIntro, ScoreIntro

LEMMA NoJobFacts == NoJob \in Job /\ NoJob.snapshot = Empty /\ NoJob.step = "idle"
<1>1. 0 \in 0..MaxClock
  BY LeaderboardAssumption
<1> QED BY <1>1, EmptyFacts DEF NoJob, Job

\* every number that can be compared is one
LEMMA NumberFacts ==
  ASSUME TypeOK
  PROVE  /\ total \in Totals /\ live \in Scores /\ disk.live \in Scores
         /\ \A i \in 1..MaxAge : window[i] \in Totals
         /\ \A r \in Reconciler : job[r] \in Job /\ job[r].snapshot \in Totals
         /\ \A s \in Syncer : sync[s] # NoSync => sync[s] \in Sync
  BY DEF TypeOK, Job

-----------------------------------------------------------------------------
(***************************************************************************)
(* PostgreSQL: rows appear, grow and vanish.                               *)
(***************************************************************************)
Grows(t, d, t2, d2) ==
  /\ d \subseteq d2 /\ DOMAIN t \subseteq DOMAIN t2 \cup d2
  /\ \A p \in DOMAIN t2 \cap (DOMAIN t \cup d) : p \in DOMAIN t /\ t[p] <= t2[p]

LEMMA BelowGrows ==
  ASSUME NEW f, NEW t, NEW d, NEW t2, NEW d2,
         \A p \in DOMAIN f : f[p] \in Nat,
         \A p \in DOMAIN t : t[p] \in Nat,
         \A p \in DOMAIN t2 : t2[p] \in Nat,
         Grows(t, d, t2, d2), BelowAt(f, t, d)
  PROVE  BelowAt(f, t2, d2)
<1>1. DOMAIN f \subseteq DOMAIN t2 \cup d2
  BY DEF Grows, BelowAt
<1>2. ASSUME NEW p \in DOMAIN f \cap DOMAIN t2
      PROVE  f[p] <= t2[p]
  <2>1. p \in DOMAIN t /\ t[p] <= t2[p] /\ f[p] <= t[p]
    BY <1>2 DEF Grows, BelowAt
  <2>2. f[p] \in Nat /\ t[p] \in Nat /\ t2[p] \in Nat
    BY <2>1, <1>2
  <2> QED BY <2>1, <2>2
<1> QED BY <1>1, <1>2 DEF BelowAt

LEMMA CoversGrows ==
  ASSUME NEW f, NEW s, NEW w, NEW n, NEW t, NEW d, NEW t2, NEW d2,
         \A i \in 1..MaxAge : BelowAt(w[i], t, d),
         Grows(t, d, t2, d2), CoversAt(f, s, w, t, n)
  PROVE  CoversAt(f, s, w, t2, n)
<1> SUFFICES ASSUME NEW i \in 1..MaxAge, n - s < i, NEW p \in DOMAIN w[i] \cap DOMAIN t2
             PROVE  p \in DOMAIN f /\ w[i][p] <= f[p]
  BY Zenon DEF CoversAt
<1>1. p \in DOMAIN t
  BY Zenon DEF BelowAt, Grows
<1> QED BY <1>1, Zenon DEF CoversAt

LEMMA AuthorityStep ==
  ASSUME LeaderboardInv, total' \in Totals, deleted' \subseteq Player,
         DOMAIN total' \cap deleted' = {}, Grows(total, deleted, total', deleted'),
         UNCHANGED <<redisVars, processVars, timeVars, detected>>
  PROVE  LeaderboardInv'
<1> USE DEF redisVars, processVars, timeVars
<1>1. TypeOK /\ TypeOK'
  BY DEF LeaderboardInv, TypeOK
<1>2. /\ \A p \in DOMAIN total : total[p] \in Nat
      /\ \A p \in DOMAIN total' : total'[p] \in Nat
  BY <1>1, NumberFacts, TotalFacts, LeaderboardAssumption
<1>3. ASSUME NEW f \in Totals \cup Scores, Below(f)
      PROVE  BelowAt(f, total', deleted')
  <2>1. \A p \in DOMAIN f : f[p] \in Nat
    BY TotalFacts, ScoreFacts, LeaderboardAssumption
  <2> QED BY <1>2, <1>3, <2>1, BelowGrows DEF Below
<1>4. \A i \in 1..MaxAge : BelowAt(window[i], total, deleted)
  BY DEF LeaderboardInv, Below
<1>5. ASSUME NEW f, NEW s, Dated(f, s)
      PROVE  "clock" \notin faults' => s <= now' /\ CoversAt(f, s, window', total', now')
  BY <1>4, <1>5, CoversGrows DEF Dated, Covers
<1>6. \A i \in 1..MaxAge : Below(window[i])'
  BY <1>1, <1>3, NumberFacts DEF LeaderboardInv, Below
<1>7. GoodSet(live, marker)' /\ GoodSet(disk.live, disk.marker)'
  BY <1>1, <1>3, <1>5, NumberFacts DEF LeaderboardInv, GoodSet, Below, Dated, Covers
<1>8. ASSUME NEW r \in Reconciler
      PROVE  GoodJob(r)'
  <2>1. GoodJob(r) /\ job[r].snapshot \in Totals
    BY <1>1, NumberFacts DEF LeaderboardInv
  <2>2. Below(job[r].snapshot)'
    BY <1>3, <2>1 DEF GoodJob, Below
  <2>3. job[r].step = "stage" => Dated(job[r].snapshot, job[r].startedAt)'
    BY <1>5, <2>1 DEF GoodJob, Dated, Covers
  <2> QED BY <2>1, <2>2, <2>3 DEF GoodJob
<1>9. ASSUME NEW s \in Syncer
      PROVE  GoodSync(s)'
  <2> SUFFICES ASSUME sync[s] # NoSync
               PROVE  GoodSync(s)'
    BY DEF GoodSync
  <2> DEFINE p == sync[s].player
             score == ToLeaderboardScore(sync[s].total)
  <2>1. /\ p \in DOMAIN total \cup deleted
        /\ sync[s].found /\ p \in DOMAIN total => score <= total[p]
        /\ ~sync[s].found => p \in deleted
    BY DEF LeaderboardInv, GoodSync
  <2>2. score \in Nat
    BY <1>1, NumberFacts, LeaderboardAssumption DEF Sync, Text, ToLeaderboardScore
  <2>3. p \in DOMAIN total' \cup deleted' /\ (~sync[s].found => p \in deleted')
    BY <2>1 DEF Grows
  <2>4. ASSUME sync[s].found, p \in DOMAIN total'
        PROVE  score <= total'[p]
    <3>1. p \in DOMAIN total /\ total[p] <= total'[p]
      BY <2>1, <2>4 DEF Grows
    <3>2. score <= total[p]
      BY <2>1, <2>4, <3>1
    <3>3. total[p] \in Nat /\ total'[p] \in Nat
      BY <1>2, <2>4, <3>1
    <3> QED BY <2>2, <3>1, <3>2, <3>3
  <2> QED BY <2>3, <2>4 DEF GoodSync
<1> QED BY <1>1, <1>6, <1>7, <1>8, <1>9 DEF LeaderboardInv

LEMMA AppearStep ==
  ASSUME LeaderboardInv, NEW p \in Player, Appear(p)
  PROVE  LeaderboardInv'
<1>1. total \in Totals /\ deleted \subseteq Player /\ DOMAIN total \cap deleted = {}
  BY DEF LeaderboardInv, TypeOK
<1>2. DOMAIN total \subseteq Player /\ \A q \in DOMAIN total : total[q] \in 0..MaxTotal
  BY <1>1, TotalFacts
<1>3. /\ p \notin DOMAIN total /\ p \notin deleted
      /\ total' = [q \in DOMAIN total \cup {p} |-> IF q = p THEN 0 ELSE total[q]]
      /\ deleted' = deleted
  BY DEF Appear
<1>4. total' \in [DOMAIN total \cup {p} -> 0..MaxTotal]
  BY <1>2, <1>3, LeaderboardAssumption
<1>5. total' \in Totals
  BY <1>2, <1>4, TotalIntro
<1>6. \A q \in DOMAIN total : total'[q] = total[q] /\ total[q] <= total'[q]
  BY <1>2, <1>3, LeaderboardAssumption
<1>7. Grows(total, deleted, total', deleted')
  BY <1>3, <1>4, <1>6 DEF Grows
<1>8. DOMAIN total' \cap deleted' = {}
  BY <1>1, <1>3, <1>4
<1> QED BY <1>1, <1>3, <1>5, <1>7, <1>8, AuthorityStep DEF Appear

LEMMA EarnStep ==
  ASSUME LeaderboardInv, NEW earners \in SUBSET DOMAIN total, Earn(earners)
  PROVE  LeaderboardInv'
<1>1. total \in Totals /\ deleted \subseteq Player /\ DOMAIN total \cap deleted = {}
  BY DEF LeaderboardInv, TypeOK
<1>2. DOMAIN total \subseteq Player /\ \A q \in DOMAIN total : total[q] \in 0..MaxTotal
  BY <1>1, TotalFacts
<1>3. /\ \A p \in earners : total[p] < MaxTotal
      /\ total' = [p \in DOMAIN total |-> IF p \in earners THEN total[p] + 1 ELSE total[p]]
      /\ deleted' = deleted
  BY DEF Earn
<1>4. total' \in [DOMAIN total -> 0..MaxTotal]
  BY <1>2, <1>3, LeaderboardAssumption
<1>5. total' \in Totals
  BY <1>2, <1>4, TotalIntro
<1>6. \A q \in DOMAIN total : total[q] <= total'[q]
  BY <1>2, <1>3, LeaderboardAssumption
<1>7. Grows(total, deleted, total', deleted')
  BY <1>3, <1>4, <1>6 DEF Grows
<1>8. DOMAIN total' \cap deleted' = {}
  BY <1>1, <1>3, <1>4
<1> QED BY <1>1, <1>3, <1>5, <1>7, <1>8, AuthorityStep DEF Earn

LEMMA VanishStep ==
  ASSUME LeaderboardInv, NEW p \in Player, Vanish(p)
  PROVE  LeaderboardInv'
<1>1. total \in Totals /\ deleted \subseteq Player /\ DOMAIN total \cap deleted = {}
  BY DEF LeaderboardInv, TypeOK
<1>2. DOMAIN total \subseteq Player /\ \A q \in DOMAIN total : total[q] \in 0..MaxTotal
  BY <1>1, TotalFacts
<1>3. total' = Restrict(total, DOMAIN total \ {p}) /\ deleted' = deleted \cup {p}
  BY DEF Vanish
<1>4. /\ DOMAIN total' = DOMAIN total \ {p}
      /\ \A q \in DOMAIN total' : total'[q] = total[q]
  BY <1>3, RestrictFacts
<1>5. total' \in [DOMAIN total \ {p} -> 0..MaxTotal]
  BY <1>2, <1>3 DEF Restrict
<1>6. total' \in Totals
  BY <1>2, <1>5, TotalIntro
<1>7. \A q \in DOMAIN total' : q \in DOMAIN total /\ total[q] <= total'[q]
  BY <1>2, <1>4, LeaderboardAssumption
<1>8. Grows(total, deleted, total', deleted')
  BY <1>3, <1>4, <1>7 DEF Grows
<1>9. DOMAIN total' \cap deleted' = {}
  BY <1>1, <1>3, <1>4
<1>10. deleted' \subseteq Player
  BY <1>1, <1>3
<1> QED BY <1>6, <1>8, <1>9, <1>10, AuthorityStep DEF Vanish

-----------------------------------------------------------------------------
(***************************************************************************)
(* What a step that leaves PostgreSQL and the clock alone keeps.           *)
(***************************************************************************)
LEMMA Kept ==
  ASSUME LeaderboardInv, UNCHANGED <<authorityVars, timeVars>>
  PROVE  /\ DOMAIN total' \cap deleted' = {}
         /\ \A i \in 1..MaxAge : Below(window[i])'
         /\ UNCHANGED <<live, marker>> => GoodSet(live, marker)'
         /\ UNCHANGED disk => GoodSet(disk.live, disk.marker)'
<1> USE DEF authorityVars, timeVars
<1>1. DOMAIN total' \cap deleted' = {}
  BY DEF LeaderboardInv
<1>2. \A i \in 1..MaxAge : Below(window[i])'
  BY DEF LeaderboardInv, Below
<1>3. UNCHANGED <<live, marker>> => GoodSet(live, marker)'
  BY DEF LeaderboardInv, GoodSet, Below, Dated, Covers
<1>4. UNCHANGED disk => GoodSet(disk.live, disk.marker)'
  BY DEF LeaderboardInv, GoodSet, Below, Dated, Covers
<1> QED BY <1>1, <1>2, <1>3, <1>4

LEMMA JobKept ==
  ASSUME LeaderboardInv, UNCHANGED <<authorityVars, timeVars>>,
         NEW r \in Reconciler, UNCHANGED job[r],
         staging'[r] = staging[r], disk'.staging[r] = disk.staging[r]
  PROVE  GoodJob(r)'
<1> USE DEF authorityVars, timeVars
<1>1. GoodJob(r)
  BY DEF LeaderboardInv
<1> QED BY <1>1 DEF GoodJob, Below, Dated, Covers

LEMMA JobDone ==
  ASSUME NEW r \in Reconciler, job'[r] = NoJob
  PROVE  GoodJob(r)'
<1>1. job'[r].step = "idle" /\ DOMAIN job'[r].snapshot = {}
  BY NoJobFacts, EmptyFacts
<1> QED BY <1>1 DEF GoodJob, Below, BelowAt

LEMMA SyncKept ==
  ASSUME LeaderboardInv, UNCHANGED <<authorityVars, timeVars>>,
         NEW s \in Syncer, sync'[s] \in {sync[s], NoSync}
  PROVE  GoodSync(s)'
<1> USE DEF authorityVars, timeVars
<1>1. GoodSync(s)
  BY DEF LeaderboardInv
<1> QED BY <1>1 DEF GoodSync

-----------------------------------------------------------------------------
(***************************************************************************)
(* syncPlayerLeaderboard.                                                  *)
(***************************************************************************)
LEMMA SyncReadStep ==
  ASSUME LeaderboardInv, NEW s \in Syncer, NEW p \in Player, SyncRead(s, p)
  PROVE  LeaderboardInv'
<1> DEFINE amount == IF p \in DOMAIN total THEN total[p] ELSE 0
           new == [player |-> p, found |-> p \in DOMAIN total, total |-> AsText(amount)]
<1> USE DEF redisVars, timeVars, authorityVars
<1>1. TypeOK
  BY DEF LeaderboardInv
<1>2. amount \in Nat
  BY <1>1, NumberFacts, TotalFacts, LeaderboardAssumption
<1>3. AsText(amount) \in Text /\ ToLeaderboardScore(AsText(amount)) = amount
  BY <1>2, TextFacts
<1>4. new \in Sync
  BY <1>3 DEF Sync
<1>5. sync' = [sync EXCEPT ![s] = new] /\ p \in DOMAIN total \cup deleted
  BY DEF SyncRead
<1>6. sync \in [Syncer -> Sync \cup {NoSync}]
  BY <1>1 DEF TypeOK
<1>7. UNCHANGED <<authorityVars, redisVars, job, timeVars, detected>>
  BY DEF SyncRead
<1>8. sync' \in [Syncer -> Sync \cup {NoSync}]
  BY <1>4, <1>5, <1>6
<1>9. TypeOK'
  BY <1>1, <1>7, <1>8 DEF TypeOK
<1>10. GoodSync(s)'
  <2>1. sync'[s] = new
    BY <1>5, <1>6
  <2>2. /\ sync'[s].player = p
        /\ ToLeaderboardScore(sync'[s].total) = amount
    BY <1>3, <2>1
  <2>3. p \in DOMAIN total => amount <= total[p]
    BY <1>1, NumberFacts, TotalFacts, LeaderboardAssumption
  <2>4. sync'[s].player \in DOMAIN total' \cup deleted'
    BY <1>5, <1>7, <2>2
  <2>5. ASSUME p \in DOMAIN total
        PROVE  sync'[s].found
    <3>1. sync'[s] = [player |-> p, found |-> TRUE, total |-> AsText(amount)]
      BY <2>1, <2>5
    <3> QED BY <3>1
  <2>6. sync'[s].player \in DOMAIN total' =>
          ToLeaderboardScore(sync'[s].total) <= total'[sync'[s].player]
    BY <1>7, <2>2, <2>3
  <2>7. ~sync'[s].found => sync'[s].player \in deleted'
    <3>1. sync'[s].player = p /\ deleted' = deleted
      BY <1>7, <2>2
    <3>2. CASE p \in deleted
      BY <3>1, <3>2, Zenon
    <3>3. CASE p \in DOMAIN total
      BY <2>5, <3>3, Zenon
    <3> QED BY <1>5, <3>2, <3>3, Zenon
  <2> QED BY <2>4, <2>6, <2>7, Zenon DEF GoodSync
<1>11. ASSUME NEW q \in Syncer
       PROVE  GoodSync(q)'
  <2>1. CASE q = s
    BY <1>10, <2>1
  <2>2. CASE q # s
    <3>1. sync'[q] = sync[q]
      BY <1>5, <1>6, <2>2
    <3> QED BY <1>7, <3>1, SyncKept
  <2> QED BY <2>1, <2>2
<1>12. \A r \in Reconciler : GoodJob(r)'
  BY <1>7, JobKept
<1> QED BY <1>7, <1>9, <1>11, <1>12, Kept DEF LeaderboardInv

LEMMA SyncDoneFacts ==
  ASSUME LeaderboardInv, NEW s \in Syncer, SyncDone(s),
         UNCHANGED <<authorityVars, timeVars, job, staging, disk>>
  PROVE  /\ sync' \in [Syncer -> Sync \cup {NoSync}]
         /\ \A q \in Syncer : GoodSync(q)'
         /\ \A r \in Reconciler : GoodJob(r)'
         /\ GoodSet(disk.live, disk.marker)'
<1>1. sync \in [Syncer -> Sync \cup {NoSync}]
  BY DEF LeaderboardInv, TypeOK
<1>2. sync' \in [Syncer -> Sync \cup {NoSync}]
  BY <1>1 DEF SyncDone
<1>3. \A q \in Syncer : sync'[q] \in {sync[q], NoSync}
  BY <1>1 DEF SyncDone
<1>4. \A q \in Syncer : GoodSync(q)'
  BY <1>3, SyncKept
<1>5. \A r \in Reconciler : GoodJob(r)'
  BY JobKept
<1>6. GoodSet(disk.live, disk.marker)'
  BY Kept
<1> QED BY <1>2, <1>4, <1>5, <1>6

\* a set without members that are gone
LEMMA SyncRemoveStep ==
  ASSUME LeaderboardInv, NEW s \in Syncer, SyncRemove(s)
  PROVE  LeaderboardInv'
<1> DEFINE p == sync[s].player
<1> USE DEF timeVars, authorityVars
<1>1. TypeOK /\ live \in Scores
  BY NumberFacts DEF LeaderboardInv
<1>2. UNCHANGED <<authorityVars, timeVars, job, staging, disk, marker, detected>> /\ SyncDone(s)
  BY DEF SyncRemove
<1>3. p \in deleted
  BY DEF SyncRemove, LeaderboardInv, GoodSync
<1>4. p \notin DOMAIN total
  BY <1>3 DEF LeaderboardInv
<1>5. live' = Restrict(live, DOMAIN live \ {p})
  BY DEF SyncRemove
<1>6. DOMAIN live' = DOMAIN live \ {p} /\ \A q \in DOMAIN live' : live'[q] = live[q]
  BY <1>5, RestrictFacts
<1>7. live' \in Scores
  BY <1>1, <1>5, RestrictScores
<1>8. TypeOK'
  BY <1>1, <1>2, <1>7, SyncDoneFacts DEF TypeOK
<1>9. GoodSet(live, marker)
  BY DEF LeaderboardInv
<1>10. Below(live)'
  BY <1>2, <1>6, <1>9 DEF GoodSet, Below, BelowAt
<1>11. ASSUME marker # NoMarker, "clock" \notin faults
       PROVE  marker.startedAt <= now /\ CoversAt(live', marker.startedAt, window, total, now)
  <2>1. marker.startedAt <= now /\ CoversAt(live, marker.startedAt, window, total, now)
    BY <1>9, <1>11 DEF GoodSet, Dated, Covers
  <2> QED BY <1>4, <1>6, <2>1, Zenon DEF CoversAt
<1>12. GoodSet(live, marker)'
  BY <1>2, <1>10, <1>11 DEF GoodSet, Dated, Covers
<1> QED BY <1>2, <1>8, <1>12, SyncDoneFacts, Kept DEF LeaderboardInv

LEMMA SyncRaiseStep ==
  ASSUME LeaderboardInv, NEW s \in Syncer, SyncRaise(s)
  PROVE  LeaderboardInv'
<1> DEFINE p == sync[s].player
           score == ToLeaderboardScore(sync[s].total)
<1> USE DEF timeVars, authorityVars
<1>1. TypeOK /\ live \in Scores /\ sync[s] \in Sync /\ total \in Totals
  BY NumberFacts DEF LeaderboardInv, SyncRaise
<1>2. UNCHANGED <<authorityVars, timeVars, job, staging, disk, marker, detected>> /\ SyncDone(s)
  BY DEF SyncRaise
<1>3. score \in 0..MaxScore
  BY <1>1, LeaderboardAssumption DEF SyncRaise, HasScore, Sync, Text, ToLeaderboardScore
<1>4. p \in DOMAIN total \cup deleted /\ (p \in DOMAIN total => score <= total[p])
  BY DEF LeaderboardInv, GoodSync, SyncRaise
<1>5. /\ DOMAIN live \subseteq Player /\ \A q \in DOMAIN live : live[q] \in 0..MaxScore
      /\ DOMAIN total \subseteq Player /\ \A q \in DOMAIN total : total[q] \in 0..MaxTotal
  BY <1>1, ScoreFacts, TotalFacts
<1>6. p \in Player
  BY <1>1 DEF Sync
<1>7. GoodSet(live, marker)
  BY DEF LeaderboardInv
<1>8. CASE UNCHANGED live
  <2>1. GoodSet(live, marker)'
    BY <1>2, <1>8, Kept
  <2>2. TypeOK'
    BY <1>1, <1>2, <1>8, SyncDoneFacts DEF TypeOK
  <2> QED BY <1>2, <2>1, <2>2, SyncDoneFacts, Kept DEF LeaderboardInv
<1>9. CASE /\ p \in DOMAIN live => live[p] < score
           /\ live' = [q \in DOMAIN live \cup {p} |-> IF q = p THEN score ELSE live[q]]
  <2>1. live' \in [DOMAIN live \cup {p} -> 0..MaxScore]
    BY <1>3, <1>5, <1>9
  <2>2. live' \in Scores
    BY <1>5, <1>6, <2>1, ScoreIntro
  <2>3. TypeOK'
    BY <1>1, <1>2, <2>2, SyncDoneFacts DEF TypeOK
  <2>4. \A q \in DOMAIN live : q \in DOMAIN live' /\ live[q] <= live'[q]
    BY <1>3, <1>5, <1>9
  <2>5. live'[p] = score /\ \A q \in DOMAIN live' : q # p => q \in DOMAIN live /\ live'[q] = live[q]
    BY <1>9
  <2>6. DOMAIN live' \subseteq DOMAIN total \cup deleted
    BY <1>4, <1>7, <1>9 DEF GoodSet, Below, BelowAt
  <2>7. \A q \in DOMAIN live' \cap DOMAIN total : live'[q] <= total[q]
    BY <1>4, <1>7, <2>5 DEF GoodSet, Below, BelowAt
  <2>8. Below(live)'
    BY <1>2, <2>6, <2>7 DEF Below, BelowAt
  <2>9. ASSUME marker # NoMarker, "clock" \notin faults
        PROVE  marker.startedAt <= now /\ CoversAt(live', marker.startedAt, window, total, now)
    <3>1. marker.startedAt <= now /\ CoversAt(live, marker.startedAt, window, total, now)
      BY <1>7, <2>9 DEF GoodSet, Dated, Covers
    <3>2. ASSUME NEW i \in 1..MaxAge, now - marker.startedAt < i,
                 NEW q \in DOMAIN window[i] \cap DOMAIN total
          PROVE  q \in DOMAIN live' /\ window[i][q] <= live'[q]
      <4>1. q \in DOMAIN live /\ window[i][q] <= live[q]
        BY <3>1, <3>2, Zenon DEF CoversAt
      <4>2. window[i][q] \in Nat /\ live[q] \in Nat /\ live'[q] \in Nat
        BY <1>1, <1>5, <2>1, <2>4, <4>1, NumberFacts, TotalFacts, LeaderboardAssumption
      <4> QED BY <2>4, <4>1, <4>2
    <3> QED BY <3>1, <3>2, Zenon DEF CoversAt
  <2>10. GoodSet(live, marker)'
    BY <1>2, <2>8, <2>9 DEF GoodSet, Dated, Covers
  <2> QED BY <1>2, <2>3, <2>10, SyncDoneFacts, Kept DEF LeaderboardInv
<1> QED BY <1>8, <1>9 DEF SyncRaise

LEMMA SyncInvalidateStep ==
  ASSUME LeaderboardInv, NEW s \in Syncer, SyncInvalidate(s)
  PROVE  LeaderboardInv'
<1> USE DEF timeVars, authorityVars
<1>1. TypeOK /\ sync[s] \in Sync
  BY NumberFacts DEF LeaderboardInv, SyncInvalidate
<1>2. UNCHANGED <<authorityVars, timeVars, job, live, staging, disk>> /\ SyncDone(s)
  BY DEF SyncInvalidate
<1>3. marker' = NoMarker /\ detected' \subseteq Player
  BY <1>1 DEF SyncInvalidate, TypeOK, Sync
<1>4. TypeOK'
  BY <1>1, <1>2, <1>3, SyncDoneFacts DEF TypeOK
<1>5. GoodSet(live, marker)'
  BY <1>2, <1>3 DEF LeaderboardInv, GoodSet, Below
<1> QED BY <1>2, <1>4, <1>5, SyncDoneFacts, Kept DEF LeaderboardInv

LEMMA SyncFailStep ==
  ASSUME LeaderboardInv, NEW s \in Syncer, SyncFail(s)
  PROVE  LeaderboardInv'
<1>1. TypeOK
  BY DEF LeaderboardInv
<1>2. UNCHANGED <<authorityVars, redisVars, job, timeVars, detected>> /\ SyncDone(s)
  BY DEF SyncFail
<1>3. TypeOK'
  BY <1>1, <1>2, SyncDoneFacts DEF TypeOK, authorityVars, redisVars, timeVars
<1> QED BY <1>2, <1>3, SyncDoneFacts, Kept DEF LeaderboardInv, redisVars

-----------------------------------------------------------------------------
(***************************************************************************)
(* reconcileLeaderboard.                                                   *)
(***************************************************************************)
\* a step of one reconciler leaves the jobs of the others alone
OnlyJob(r) ==
  \A q \in Reconciler \ {r} :
    job'[q] = job[q] /\ staging'[q] = staging[q] /\ disk'.staging[q] = disk.staging[q]

LEMMA ReconcilerStep ==
  ASSUME LeaderboardInv, NEW r \in Reconciler,
         UNCHANGED <<authorityVars, timeVars, sync, disk.live, disk.marker>>,
         OnlyJob(r), TypeOK', GoodJob(r)', GoodSet(live, marker)'
  PROVE  LeaderboardInv'
<1>1. \A s \in Syncer : GoodSync(s)'
  BY SyncKept
<1>2. ASSUME NEW q \in Reconciler
      PROVE  GoodJob(q)'
  <2>1. CASE q = r
    BY <2>1
  <2>2. CASE q # r
    BY <2>2, JobKept DEF OnlyJob
  <2> QED BY <2>1, <2>2
<1>3. GoodSet(disk.live, disk.marker)'
  BY DEF LeaderboardInv, GoodSet, Below, Dated, Covers, authorityVars, timeVars
<1> QED BY <1>1, <1>2, <1>3, Kept DEF LeaderboardInv

LEMMA StartStep ==
  ASSUME LeaderboardInv, NEW r \in Reconciler, Start(r)
  PROVE  LeaderboardInv'
<1> DEFINE new == [NoJob EXCEPT !.step = "read", !.startedAt = now]
<1>1. TypeOK
  BY DEF LeaderboardInv
<1>2. /\ job \in [Reconciler -> Job] /\ now \in 0..MaxClock
      /\ staging \in [Reconciler -> SUBSET Player]
      /\ disk \in [live : Scores, marker : Marker \cup {NoMarker},
                   staging : [Reconciler -> SUBSET Player]]
  BY <1>1 DEF TypeOK
<1>3. /\ job' = [job EXCEPT ![r] = new]
      /\ staging' = [staging EXCEPT ![r] = {}]
      /\ disk' = [disk EXCEPT !.staging[r] = {}]
      /\ UNCHANGED <<authorityVars, live, marker, sync, timeVars, detected>>
  BY DEF Start, SetJob
<1>4. new \in Job /\ new.step = "read" /\ new.startedAt = now /\ new.snapshot = Empty
  BY <1>2, NoJobFacts DEF Job
<1>5. /\ disk' \in [live : Scores, marker : Marker \cup {NoMarker},
                    staging : [Reconciler -> SUBSET Player]]
      /\ disk'.live = disk.live /\ disk'.marker = disk.marker
      /\ disk'.staging = [disk.staging EXCEPT ![r] = {}]
  BY <1>2, <1>3
<1>6. job' \in [Reconciler -> Job] /\ staging' \in [Reconciler -> SUBSET Player]
  BY <1>2, <1>3, <1>4
<1>7. TypeOK'
  BY <1>1, <1>3, <1>5, <1>6 DEF TypeOK, authorityVars, timeVars
<1>8. OnlyJob(r)
  BY <1>2, <1>3, <1>5 DEF OnlyJob
<1>9. GoodJob(r)'
  <2>1. job'[r] = new /\ staging'[r] = {} /\ disk'.staging[r] = {}
    BY <1>2, <1>3, <1>5
  <2>2. now <= now'
    BY <1>2, <1>3, LeaderboardAssumption DEF timeVars
  <2>3. DOMAIN job'[r].snapshot = {} /\ job'[r].step = "read" /\ job'[r].startedAt <= now'
    BY <1>4, <2>1, <2>2, EmptyFacts
  <2> QED BY <2>1, <2>3 DEF GoodJob, Below, BelowAt
<1>10. GoodSet(live, marker)'
  BY <1>3, Kept
<1> QED BY <1>3, <1>5, <1>7, <1>8, <1>9, <1>10, ReconcilerStep

\* one SELECT reads every total as it is
LEMMA ScoredFacts ==
  ASSUME LeaderboardInv
  PROVE  /\ Scored(total) \in Totals
         /\ DOMAIN Scored(total) = DOMAIN total
         /\ \A p \in DOMAIN total : Scored(total)[p] = total[p]
<1>1. total \in Totals
  BY DEF LeaderboardInv, TypeOK
<1>2. DOMAIN total \subseteq Player /\ \A p \in DOMAIN total : total[p] \in 0..MaxTotal
  BY <1>1, TotalFacts
<1>3. \A p \in DOMAIN total : ToLeaderboardScore(AsText(total[p])) = total[p]
  BY <1>2, TextFacts, LeaderboardAssumption
<1>4. Scored(total) = [p \in DOMAIN total |-> ToLeaderboardScore(AsText(total[p]))]
  BY DEF Scored
<1>5. Scored(total) \in [DOMAIN total -> 0..MaxTotal]
  BY <1>2, <1>3, <1>4
<1>6. Scored(total) \in Totals
  BY <1>2, <1>5, TotalIntro
<1> QED BY <1>3, <1>4, <1>6

\* a snapshot read now is below the rows, and covers every earlier time
LEMMA SnapshotFacts ==
  ASSUME LeaderboardInv, NEW startedAt
  PROVE  Below(Scored(total)) /\ Covers(Scored(total), startedAt)
<1>1. /\ DOMAIN Scored(total) = DOMAIN total
      /\ \A p \in DOMAIN total : Scored(total)[p] = total[p]
  BY ScoredFacts
<1>2. total \in Totals
  BY DEF LeaderboardInv, TypeOK
<1>3. \A p \in DOMAIN total : total[p] <= total[p]
  BY <1>2, TotalFacts, LeaderboardAssumption
<1>4. Below(Scored(total))
  BY <1>1, <1>3 DEF Below, BelowAt
<1>5. ASSUME NEW i \in 1..MaxAge, NEW p \in DOMAIN window[i] \cap DOMAIN total
      PROVE  p \in DOMAIN Scored(total) /\ window[i][p] <= Scored(total)[p]
  BY <1>1 DEF LeaderboardInv, Below, BelowAt
<1>6. Covers(Scored(total), startedAt)
  BY <1>5, Zenon DEF Covers, CoversAt
<1> QED BY <1>4, <1>6

LEMMA ReadStep ==
  ASSUME LeaderboardInv, NEW r \in Reconciler, Read(r)
  PROVE  LeaderboardInv'
<1> DEFINE converted == [job[r] EXCEPT !.snapshot = Scored(total)]
<1> USE DEF redisVars, timeVars, authorityVars
<1>1. TypeOK /\ GoodJob(r)
  BY DEF LeaderboardInv
<1>2. job \in [Reconciler -> Job] /\ job[r] \in Job /\ job[r].step = "read"
  BY <1>1 DEF TypeOK, Read
<1>3. UNCHANGED <<authorityVars, redisVars, sync, timeVars, detected>>
  BY DEF Read
<1>4. Scored(total) \in Totals /\ DOMAIN total \subseteq Player
  BY ScoredFacts, TotalFacts DEF LeaderboardInv, TypeOK
<1>5. GoodSet(live, marker)'
  BY <1>3, Kept
<1>6. ASSUME NEW new \in Job, job' = [job EXCEPT ![r] = new], GoodJob(r)'
      PROVE  LeaderboardInv'
  <2>1. TypeOK'
    BY <1>1, <1>2, <1>3, <1>6 DEF TypeOK
  <2>2. OnlyJob(r)
    BY <1>2, <1>3, <1>6 DEF OnlyJob
  <2> QED BY <1>3, <1>5, <1>6, <2>1, <2>2, ReconcilerStep
<1>7. CASE \A p \in DOMAIN total : HasScore(AsText(total[p]))
  <2> DEFINE new == [converted EXCEPT !.step = "stage", !.todo = DOMAIN total]
  <2>1. job' = [job EXCEPT ![r] = new]
    BY <1>7 DEF Read, SetJob
  <2>2. new \in Job
    BY <1>2, <1>4 DEF Job
  <2>3. /\ job'[r].step = "stage" /\ job'[r].snapshot = Scored(total)
        /\ job'[r].todo = DOMAIN total /\ job'[r].startedAt = job[r].startedAt
    BY <1>2, <2>1 DEF Job
  <2>4. Scored(total) \in Scores
    <3>1. \A p \in DOMAIN total : Scored(total)[p] \in 0..MaxScore
      <4> SUFFICES ASSUME NEW p \in DOMAIN total
                   PROVE  Scored(total)[p] \in 0..MaxScore
        OBVIOUS
      <4>1. Scored(total)[p] = total[p] /\ total[p] \in Nat
        BY ScoredFacts, TotalFacts, LeaderboardAssumption DEF LeaderboardInv, TypeOK
      <4>2. ToLeaderboardScore(AsText(total[p])) <= MaxScore
        BY <1>7 DEF HasScore
      <4>3. total[p] <= MaxScore
        BY <4>1, <4>2, TextFacts
      <4> QED BY <4>1, <4>3, LeaderboardAssumption
    <3>2. Scored(total) \in [DOMAIN total -> 0..MaxScore]
      BY <3>1 DEF Scored
    <3> QED BY <1>4, <3>2, ScoreIntro
  <2>5. Below(Scored(total)) /\ Covers(Scored(total), job[r].startedAt)
    BY SnapshotFacts
  <2>6. "clock" \notin faults => job[r].startedAt <= now
    BY <1>1, <1>2 DEF GoodJob
  <2>7. Below(job[r].snapshot)'
    BY <1>3, <2>3, <2>5 DEF Below
  <2>8. Dated(job[r].snapshot, job[r].startedAt)'
    BY <1>3, <2>3, <2>5, <2>6 DEF Dated, Covers
  <2>9. staging'[r] = {} /\ disk'.staging[r] = {}
    BY <1>1, <1>2, <1>3 DEF GoodJob
  <2>10. DOMAIN total \subseteq DOMAIN Scored(total)
    BY ScoredFacts
  <2>11. "clock" \notin faults' => job'[r].startedAt <= now'
    BY <1>3, <2>3, <2>6
  <2>12. GoodJob(r)'
    BY <2>3, <2>4, <2>7, <2>8, <2>9, <2>10, <2>11 DEF GoodJob
  <2> QED BY <1>6, <2>1, <2>2, <2>12
<1>8. CASE ~ \A p \in DOMAIN total : HasScore(AsText(total[p]))
  <2> DEFINE new == [converted EXCEPT !.step = "invalidate"]
  <2>1. job' = [job EXCEPT ![r] = new]
    BY <1>8 DEF Read, SetJob
  <2>2. new \in Job
    BY <1>2, <1>4 DEF Job
  <2>3. job'[r].step = "invalidate" /\ job'[r].snapshot = Scored(total)
    BY <1>2, <2>1 DEF Job
  <2>4. Below(job[r].snapshot)'
    BY <1>3, <2>3, SnapshotFacts DEF Below
  <2>5. GoodJob(r)'
    BY <2>3, <2>4 DEF GoodJob
  <2> QED BY <1>6, <2>1, <2>2, <2>5
<1> QED BY <1>7, <1>8

LEMMA InvalidateStep ==
  ASSUME LeaderboardInv, NEW r \in Reconciler, Invalidate(r)
  PROVE  LeaderboardInv'
<1> USE DEF timeVars, authorityVars
<1>1. TypeOK /\ job[r].snapshot \in Totals
  BY NumberFacts DEF LeaderboardInv
<1>2. /\ UNCHANGED <<authorityVars, live, staging, disk, sync, timeVars>>
      /\ marker' = NoMarker /\ job' = [job EXCEPT ![r] = NoJob]
      /\ detected' = detected \cup
           {p \in DOMAIN job[r].snapshot : job[r].snapshot[p] > MaxScore}
  BY DEF Invalidate, SetJob
<1>3. DOMAIN job[r].snapshot \subseteq Player
  BY <1>1, TotalFacts
<1>4. job \in [Reconciler -> Job]
  BY <1>1 DEF TypeOK
<1>5. job' \in [Reconciler -> Job] /\ job'[r] = NoJob /\ OnlyJob(r)
  BY <1>2, <1>4, NoJobFacts DEF OnlyJob
<1>6. detected' \subseteq Player
  BY <1>1, <1>2, <1>3 DEF TypeOK
<1>7. TypeOK'
  BY <1>1, <1>2, <1>5, <1>6 DEF TypeOK
<1>8. GoodSet(live, marker)'
  BY <1>2 DEF LeaderboardInv, GoodSet, Below
<1> QED BY <1>2, <1>5, <1>7, <1>8, JobDone, ReconcilerStep

LEMMA FailStep ==
  ASSUME LeaderboardInv, NEW r \in Reconciler, Fail(r)
  PROVE  LeaderboardInv'
<1>1. TypeOK
  BY DEF LeaderboardInv
<1>2. /\ UNCHANGED <<authorityVars, redisVars, sync, timeVars, detected>>
      /\ job' = [job EXCEPT ![r] = NoJob]
  BY DEF Fail, SetJob
<1>3. job \in [Reconciler -> Job]
  BY <1>1 DEF TypeOK
<1>4. job' \in [Reconciler -> Job] /\ job'[r] = NoJob /\ OnlyJob(r)
  BY <1>2, <1>3, NoJobFacts DEF OnlyJob, redisVars
<1>5. TypeOK'
  BY <1>1, <1>2, <1>4 DEF TypeOK, redisVars, timeVars, authorityVars
<1>6. GoodSet(live, marker)'
  BY <1>2, Kept DEF redisVars
<1> QED BY <1>2, <1>4, <1>5, <1>6, JobDone, ReconcilerStep DEF redisVars

LEMMA StageStep ==
  ASSUME LeaderboardInv, NEW r \in Reconciler, Stage(r)
  PROVE  LeaderboardInv'
<1> USE DEF timeVars, authorityVars
<1>1. TypeOK /\ GoodJob(r)
  BY DEF LeaderboardInv
<1>2. PICK batch \in SUBSET job[r].todo :
        /\ staging' = [staging EXCEPT ![r] = @ \cup batch]
        /\ job' = [job EXCEPT ![r] = [job[r] EXCEPT !.todo = @ \ batch]]
  BY DEF Stage, SetJob
<1>3. /\ job[r].step = "stage"
      /\ UNCHANGED <<authorityVars, live, marker, disk, sync, timeVars, detected>>
  BY DEF Stage
<1>4. /\ job \in [Reconciler -> Job] /\ job[r] \in Job
      /\ staging \in [Reconciler -> SUBSET Player]
  BY <1>1 DEF TypeOK
<1>5. /\ job[r].snapshot \in Scores
      /\ Dated(job[r].snapshot, job[r].startedAt)
      /\ job[r].todo \subseteq DOMAIN job[r].snapshot
      /\ staging[r] \subseteq DOMAIN job[r].snapshot
      /\ disk.staging[r] \subseteq DOMAIN job[r].snapshot
  BY <1>1, <1>3 DEF GoodJob
<1>6. [job[r] EXCEPT !.todo = @ \ batch] \in Job
  BY <1>4 DEF Job
<1>7. batch \subseteq Player
  BY <1>4 DEF Job
<1>8. job' \in [Reconciler -> Job] /\ staging' \in [Reconciler -> SUBSET Player]
  BY <1>2, <1>4, <1>6, <1>7
<1>9. TypeOK'
  BY <1>1, <1>3, <1>8 DEF TypeOK
<1>10. OnlyJob(r)
  BY <1>2, <1>3, <1>4 DEF OnlyJob
<1>11. GoodJob(r)'
  <2>1. /\ job'[r].step = "stage" /\ job'[r].snapshot = job[r].snapshot
        /\ job'[r].startedAt = job[r].startedAt
        /\ job'[r].todo = job[r].todo \ batch
        /\ staging'[r] = staging[r] \cup batch
    BY <1>2, <1>3, <1>4 DEF Job
  <2>2. Below(job[r].snapshot)'
    BY <1>1, <1>3, <2>1 DEF GoodJob, Below
  <2>3. Dated(job[r].snapshot, job[r].startedAt)'
    BY <1>3, <1>5, <2>1 DEF Dated, Covers
  <2>4. job'[r].todo \subseteq DOMAIN job'[r].snapshot
    BY <1>5, <2>1
  <2>5. staging'[r] \subseteq DOMAIN job'[r].snapshot
    BY <1>2, <1>5, <2>1
  <2>6. "clock" \notin faults' => job'[r].startedAt <= now'
    BY <2>3 DEF Dated
  <2>7. disk'.staging[r] \subseteq DOMAIN job'[r].snapshot /\ job'[r].snapshot \in Scores
    BY <1>3, <1>5, <2>1
  <2> QED BY <2>1, <2>2, <2>3, <2>4, <2>5, <2>6, <2>7 DEF GoodJob
<1>12. GoodSet(live, marker)'
  BY <1>3, Kept
<1> QED BY <1>3, <1>9, <1>10, <1>11, <1>12, ReconcilerStep

\* a complete temporary set is the whole snapshot
LEMMA CompleteFacts ==
  ASSUME TypeOK, NEW r \in Reconciler,
         staging[r] \subseteq DOMAIN job[r].snapshot, Complete(r)
  PROVE  staging[r] = DOMAIN job[r].snapshot
<1>1. DOMAIN job[r].snapshot \subseteq Player
  BY NumberFacts, TotalFacts
<1>2. IsFiniteSet(DOMAIN job[r].snapshot)
  BY <1>1, FS_Subset, LeaderboardAssumption
<1> QED BY <1>2, FS_Subset DEF Complete

LEMMA PublishStep ==
  ASSUME LeaderboardInv, NEW r \in Reconciler, Publish(r)
  PROVE  LeaderboardInv'
<1> DEFINE snapshot == job[r].snapshot
           startedAt == job[r].startedAt
<1> USE DEF timeVars, authorityVars
<1>1. TypeOK /\ GoodJob(r)
  BY DEF LeaderboardInv
<1>2. /\ job[r].step = "stage"
      /\ staging' = [staging EXCEPT ![r] = {}] /\ job' = [job EXCEPT ![r] = NoJob]
      /\ UNCHANGED <<authorityVars, disk, sync, timeVars, detected>>
  BY DEF Publish, SetJob
<1>3. /\ snapshot \in Scores /\ Below(snapshot) /\ Dated(snapshot, startedAt)
      /\ staging[r] \subseteq DOMAIN snapshot
  BY <1>1, <1>2 DEF GoodJob
<1>4. /\ job \in [Reconciler -> Job] /\ job[r] \in Job
      /\ staging \in [Reconciler -> SUBSET Player]
  BY <1>1 DEF TypeOK
<1>5. /\ job' \in [Reconciler -> Job] /\ job'[r] = NoJob
      /\ staging' \in [Reconciler -> SUBSET Player] /\ OnlyJob(r)
  BY <1>2, <1>4, NoJobFacts DEF OnlyJob
<1>6. ASSUME live' \in Scores, marker' \in Marker \cup {NoMarker}, GoodSet(live, marker)'
      PROVE  LeaderboardInv'
  <2>1. TypeOK'
    BY <1>1, <1>2, <1>5, <1>6 DEF TypeOK
  <2> QED BY <1>2, <1>5, <1>6, <2>1, JobDone, ReconcilerStep
<1>7. CASE UNCHANGED <<live, marker>>
  BY <1>1, <1>2, <1>6, <1>7, Kept DEF TypeOK
<1>8. CASE /\ Complete(r)
           /\ live' = Restrict(snapshot, staging[r]) /\ marker' = NewMarker(r)
  <2>1. staging[r] = DOMAIN snapshot
    BY <1>1, <1>3, <1>8, CompleteFacts
  <2>2. DOMAIN live' = DOMAIN snapshot /\ \A p \in DOMAIN snapshot : live'[p] = snapshot[p]
    BY <1>8, <2>1, RestrictFacts
  <2>3. live' \in Scores
    BY <1>3, <1>8, RestrictScores
  <2>4. marker' \in Marker /\ marker'.startedAt = startedAt
    <3>1. Cardinality(DOMAIN snapshot) \in Nat
      BY <1>3, ScoreFacts, FS_Subset, FS_CardinalityType, LeaderboardAssumption
    <3> QED BY <1>4, <1>8, <3>1 DEF NewMarker, Marker, Job
  <2>5. Below(live)'
    BY <1>2, <1>3, <2>2 DEF Below, BelowAt
  <2>6. ASSUME "clock" \notin faults
        PROVE  startedAt <= now /\ CoversAt(live', startedAt, window, total, now)
    <3>1. startedAt <= now /\ CoversAt(snapshot, startedAt, window, total, now)
      BY <1>3, <2>6 DEF Dated, Covers
    <3> QED BY <2>2, <3>1, Zenon DEF CoversAt
  <2>7. GoodSet(live, marker)'
    BY <1>2, <2>4, <2>5, <2>6 DEF GoodSet, Dated, Covers
  <2> QED BY <1>6, <2>3, <2>4, <2>7
<1> QED BY <1>7, <1>8 DEF Publish

-----------------------------------------------------------------------------
(***************************************************************************)
(* Time and Redis itself.                                                  *)
(***************************************************************************)
\* a tick before f was read makes its start older by one and the window too
LEMMA CoversTick ==
  ASSUME LeaderboardInv, Tick, NEW f, NEW startedAt \in Int, startedAt <= now,
         CoversAt(f, startedAt, window, total, now)
  PROVE  CoversAt(f, startedAt, window', total, now')
<1>1. now \in Nat /\ now' = now + 1 /\ MaxAge \in Nat \ {0}
  BY LeaderboardAssumption DEF LeaderboardInv, TypeOK, Tick
<1>2. window' = [i \in 1..MaxAge |-> IF i = 1 THEN total ELSE window[i - 1]]
  BY DEF Tick
<1> SUFFICES ASSUME NEW i \in 1..MaxAge, now' - startedAt < i
             PROVE  \A p \in DOMAIN window'[i] \cap DOMAIN total :
                      p \in DOMAIN f /\ window'[i][p] <= f[p]
  BY Zenon DEF CoversAt
<1>3. i - 1 \in 1..MaxAge /\ now - startedAt < i - 1 /\ i # 1
  BY <1>1
<1>4. window'[i] = window[i - 1]
  BY <1>2, <1>3
<1> QED BY <1>3, <1>4, Zenon DEF CoversAt

LEMMA TickStep ==
  ASSUME LeaderboardInv, Tick
  PROVE  LeaderboardInv'
<1>1. TypeOK
  BY DEF LeaderboardInv
<1>2. UNCHANGED <<authorityVars, redisVars, processVars, faults, detected>>
  BY DEF Tick
<1> USE DEF authorityVars, redisVars, processVars
<1>3. /\ now \in 0..MaxClock /\ now' \in 0..MaxClock /\ now' = now + 1
      /\ total \in Totals
  BY <1>1, LeaderboardAssumption DEF TypeOK, Tick
<1>4. \A i \in 1..MaxAge : window'[i] = IF i = 1 THEN total ELSE window[i - 1]
  BY DEF Tick
<1>5. \A i \in (1..MaxAge) \ {1} : i - 1 \in 1..MaxAge
  BY LeaderboardAssumption
<1>6. \A i \in 1..MaxAge : window'[i] \in Totals
  BY <1>1, <1>3, <1>4, <1>5 DEF TypeOK
<1>7. window' \in [1..MaxAge -> Totals]
  BY <1>6 DEF Tick
<1>8. TypeOK'
  BY <1>1, <1>2, <1>3, <1>7 DEF TypeOK
<1>9. Below(total)
  <2>1. \A p \in DOMAIN total : total[p] <= total[p]
    BY <1>3, TotalFacts, LeaderboardAssumption
  <2> QED BY <2>1 DEF Below, BelowAt
<1>10. \A i \in 1..MaxAge : BelowAt(window'[i], total, deleted)
  BY <1>4, <1>5, <1>9 DEF LeaderboardInv, Below
<1>11. \A i \in 1..MaxAge : Below(window[i])'
  BY <1>2, <1>10 DEF Below
<1>12. ASSUME NEW f, NEW startedAt \in Int, Dated(f, startedAt)
       PROVE  "clock" \notin faults =>
                startedAt <= now' /\ CoversAt(f, startedAt, window', total, now')
  <2> SUFFICES ASSUME "clock" \notin faults
               PROVE  startedAt <= now' /\ CoversAt(f, startedAt, window', total, now')
    OBVIOUS
  <2>1. startedAt <= now /\ CoversAt(f, startedAt, window, total, now)
    BY <1>12 DEF Dated, Covers
  <2>2. CoversAt(f, startedAt, window', total, now')
    BY <2>1, CoversTick
  <2>3. startedAt <= now'
    BY <1>3, <2>1
  <2> QED BY <2>2, <2>3
<1>13. /\ marker # NoMarker => marker.startedAt \in Int
       /\ disk.marker # NoMarker => disk.marker.startedAt \in Int
  BY <1>1 DEF TypeOK, Marker
<1>14. GoodSet(live, marker)'
  BY <1>2, <1>12, <1>13 DEF LeaderboardInv, GoodSet, Below, Dated, Covers
<1>15. GoodSet(disk.live, disk.marker)'
  BY <1>2, <1>12, <1>13 DEF LeaderboardInv, GoodSet, Below, Dated, Covers
<1>16. ASSUME NEW r \in Reconciler
       PROVE  GoodJob(r)'
  <2>1. GoodJob(r) /\ job[r].startedAt \in 0..MaxClock
    BY <1>1 DEF LeaderboardInv, TypeOK, Job
  <2>2. Below(job[r].snapshot)'
    BY <1>2, <2>1 DEF GoodJob, Below
  <2>3. job[r].step = "stage" => Dated(job[r].snapshot, job[r].startedAt)'
    BY <1>2, <1>12, <2>1 DEF GoodJob, Dated, Covers
  <2>4. job[r].step \in {"read", "stage"} =>
          ("clock" \notin faults => job[r].startedAt <= now')
    <3> SUFFICES ASSUME job[r].step \in {"read", "stage"}, "clock" \notin faults
                 PROVE  job[r].startedAt <= now'
      OBVIOUS
    <3>1. job[r].startedAt <= now
      BY <2>1 DEF GoodJob
    <3> QED BY <1>3, <2>1, <3>1
  <2> QED BY <1>2, <2>1, <2>2, <2>3, <2>4 DEF GoodJob
<1>17. \A s \in Syncer : GoodSync(s)'
  BY <1>2 DEF LeaderboardInv, GoodSync
<1>18. (DOMAIN total \cap deleted = {})'
  BY <1>2 DEF LeaderboardInv
<1> QED BY <1>8, <1>11, <1>14, <1>15, <1>16, <1>17, <1>18 DEF LeaderboardInv

LEMMA ExpireStep ==
  ASSUME LeaderboardInv, Expire
  PROVE  LeaderboardInv'
<1>1. /\ UNCHANGED <<authorityVars, live, staging, disk, processVars, timeVars, detected>>
      /\ marker' = NoMarker
  BY DEF Expire
<1> USE DEF processVars
<1>2. TypeOK'
  BY <1>1 DEF LeaderboardInv, TypeOK, authorityVars, timeVars
<1>3. GoodSet(live, marker)'
  BY <1>1 DEF LeaderboardInv, GoodSet, Below, authorityVars
<1>4. \A r \in Reconciler : GoodJob(r)'
  BY <1>1, JobKept
<1>5. \A s \in Syncer : GoodSync(s)'
  BY <1>1, SyncKept
<1> QED BY <1>1, <1>2, <1>3, <1>4, <1>5, Kept DEF LeaderboardInv

LEMMA PersistStep ==
  ASSUME LeaderboardInv, Persist
  PROVE  LeaderboardInv'
<1>1. /\ UNCHANGED <<authorityVars, live, marker, staging, processVars, timeVars, detected>>
      /\ disk' = [live |-> live, marker |-> marker, staging |-> staging]
  BY DEF Persist
<1> USE DEF processVars, authorityVars, timeVars
<1>2. TypeOK'
  BY <1>1 DEF LeaderboardInv, TypeOK
<1>3. GoodSet(live, marker)' /\ GoodSet(disk.live, disk.marker)'
  BY <1>1 DEF LeaderboardInv, GoodSet, Below, Dated, Covers
<1>4. ASSUME NEW r \in Reconciler
      PROVE  GoodJob(r)'
  <2>1. GoodJob(r)
    BY DEF LeaderboardInv
  <2>2. disk'.staging[r] = staging[r]
    BY <1>1
  <2> QED BY <1>1, <2>1, <2>2 DEF GoodJob, Below, Dated, Covers
<1>5. \A s \in Syncer : GoodSync(s)'
  BY <1>1, SyncKept
<1> QED BY <1>1, <1>2, <1>3, <1>4, <1>5, Kept DEF LeaderboardInv

LEMMA RestartStep ==
  ASSUME LeaderboardInv, Restart
  PROVE  LeaderboardInv'
<1>1. /\ UNCHANGED <<authorityVars, disk, processVars, now, window, detected>>
      /\ live' = disk.live /\ marker' = disk.marker /\ staging' = disk.staging
      /\ faults' = faults \cup {"restart"} /\ "restart" \in Fault
  BY DEF Restart, FaultHappens
<1> USE DEF processVars, authorityVars
<1>2. TypeOK'
  BY <1>1 DEF LeaderboardInv, TypeOK
<1>3. "clock" \notin faults' => "clock" \notin faults
  BY <1>1
<1>4. GoodSet(live, marker)' /\ GoodSet(disk.live, disk.marker)'
  BY <1>1, <1>3 DEF LeaderboardInv, GoodSet, Below, Dated, Covers
<1>5. ASSUME NEW r \in Reconciler
      PROVE  GoodJob(r)'
  <2>1. GoodJob(r)
    BY DEF LeaderboardInv
  <2> QED BY <1>1, <1>3, <2>1 DEF GoodJob, Below, Dated, Covers
<1>6. \A s \in Syncer : GoodSync(s)'
  BY <1>1 DEF LeaderboardInv, GoodSync
<1>7. (DOMAIN total \cap deleted = {})' /\ \A i \in 1..MaxAge : Below(window[i])'
  BY <1>1 DEF LeaderboardInv, Below
<1> QED BY <1>2, <1>4, <1>5, <1>6, <1>7 DEF LeaderboardInv

LEMMA ClockSetBackStep ==
  ASSUME LeaderboardInv, ClockSetBack
  PROVE  LeaderboardInv'
<1>1. /\ UNCHANGED <<authorityVars, redisVars, processVars, window, detected>>
      /\ now > 0 /\ now' = now - 1
      /\ faults' = faults \cup {"clock"} /\ "clock" \in Fault
  BY DEF ClockSetBack, FaultHappens
<1> USE DEF processVars, authorityVars, redisVars
<1>2. now' \in 0..MaxClock
  BY <1>1, LeaderboardAssumption DEF LeaderboardInv, TypeOK
<1>3. TypeOK'
  BY <1>1, <1>2 DEF LeaderboardInv, TypeOK
<1>4. "clock" \in faults'
  BY <1>1
<1>5. GoodSet(live, marker)' /\ GoodSet(disk.live, disk.marker)'
  BY <1>1, <1>4 DEF LeaderboardInv, GoodSet, Below, Dated
<1>6. \A r \in Reconciler : GoodJob(r)'
  BY <1>1, <1>4 DEF LeaderboardInv, GoodJob, Below, Dated
<1>7. \A s \in Syncer : GoodSync(s)'
  BY <1>1 DEF LeaderboardInv, GoodSync
<1>8. (DOMAIN total \cap deleted = {})' /\ \A i \in 1..MaxAge : Below(window[i])'
  BY <1>1 DEF LeaderboardInv, Below
<1> QED BY <1>3, <1>5, <1>6, <1>7, <1>8 DEF LeaderboardInv

-----------------------------------------------------------------------------
(***************************************************************************)
(* The theorems.                                                           *)
(***************************************************************************)
LEMMA LeaderboardInit == Init => LeaderboardInv
<1> SUFFICES ASSUME Init
             PROVE  LeaderboardInv
  OBVIOUS
<1> USE DEF Init, AuthorityInit
<1>1. 0 \in 0..MaxClock
  BY LeaderboardAssumption
<1>2. total = Empty /\ deleted = {}
  BY DEF Empty
<1>3. TypeOK
  BY <1>1, <1>2, EmptyFacts, NoJobFacts DEF TypeOK
<1>4. Below(Empty)
  BY EmptyFacts DEF Below, BelowAt
<1>5. GoodSet(live, marker) /\ GoodSet(disk.live, disk.marker)
  BY <1>4 DEF GoodSet
<1>6. \A r \in Reconciler : GoodJob(r)
  BY <1>4, NoJobFacts DEF GoodJob
<1>7. \A s \in Syncer : GoodSync(s)
  BY DEF GoodSync
<1> QED BY <1>2, <1>3, <1>4, <1>5, <1>6, <1>7 DEF LeaderboardInv

LEMMA LeaderboardStutter ==
  ASSUME LeaderboardInv, UNCHANGED vars
  PROVE  LeaderboardInv'
<1> USE DEF vars, redisVars, processVars
<1>1. TypeOK'
  BY DEF LeaderboardInv, TypeOK, authorityVars, timeVars
<1>2. \A r \in Reconciler : GoodJob(r)'
  BY JobKept
<1>3. \A s \in Syncer : GoodSync(s)'
  BY SyncKept
<1> QED BY <1>1, <1>2, <1>3, Kept DEF LeaderboardInv

LEMMA DatabaseStepInv == LeaderboardInv /\ DatabaseStep => LeaderboardInv'
  BY AppearStep, VanishStep, EarnStep DEF DatabaseStep

LEMMA ProjectionStepInv == LeaderboardInv /\ ProjectionStep => LeaderboardInv'
<1> SUFFICES ASSUME LeaderboardInv, ProjectionStep
             PROVE  LeaderboardInv'
  OBVIOUS
<1>1. ASSUME NEW s \in Syncer,
             SyncStep(s) \/ SyncFail(s) \/ \E p \in Player : SyncRead(s, p)
      PROVE  LeaderboardInv'
  BY <1>1, SyncReadStep, SyncRemoveStep, SyncRaiseStep, SyncInvalidateStep, SyncFailStep
     DEF SyncStep
<1>2. ASSUME NEW r \in Reconciler,
             Start(r) \/ Read(r) \/ Invalidate(r) \/ Stage(r) \/ Publish(r) \/ Fail(r)
      PROVE  LeaderboardInv'
  BY <1>2, StartStep, ReadStep, InvalidateStep, StageStep, PublishStep, FailStep
<1>3. CASE Tick \/ Expire \/ Persist \/ Restart \/ ClockSetBack
  BY <1>3, TickStep, ExpireStep, PersistStep, RestartStep, ClockSetBackStep
<1> QED BY <1>1, <1>2, <1>3 DEF ProjectionStep

LEMMA LeaderboardStep == LeaderboardInv /\ [Next]_vars => LeaderboardInv'
  BY DatabaseStepInv, ProjectionStepInv, LeaderboardStutter DEF Next

(***************************************************************************)
(* LeaderboardInvariant: the sets in Redis, on disk and in the hands of    *)
(* every process show no more than the rows, and what carries a start time *)
(* shows at least what the rows were when that tick began.                 *)
(***************************************************************************)
THEOREM LeaderboardInvariant == Spec => []LeaderboardInv
<1> QED BY LeaderboardInit, LeaderboardStep, PTL DEF Spec

(***************************************************************************)
(* LeaderboardTypeCorrect: every variable keeps its type; in particular no *)
(* score beyond MaxScore is ever written.                                  *)
(***************************************************************************)
THEOREM LeaderboardTypeCorrect == Spec => []TypeOK
<1>1. LeaderboardInv => TypeOK
  BY DEF LeaderboardInv
<1> QED BY <1>1, LeaderboardInvariant, PTL

LEMMA InvShown ==
  LeaderboardInv => \A p \in DOMAIN live \cap DOMAIN total :
                      live[p] \in Nat /\ total[p] \in Nat /\ live[p] <= total[p]
<1> SUFFICES ASSUME LeaderboardInv, NEW p \in DOMAIN live \cap DOMAIN total
             PROVE  live[p] \in Nat /\ total[p] \in Nat /\ live[p] <= total[p]
  OBVIOUS
<1>1. total \in Totals /\ live \in Scores
  BY DEF LeaderboardInv, TypeOK
<1>2. live[p] \in Nat /\ total[p] \in Nat
  BY <1>1, ScoreFacts, TotalFacts, LeaderboardAssumption
<1>3. live[p] <= total[p]
  BY DEF LeaderboardInv, GoodSet, Below, BelowAt
<1> QED BY <1>2, <1>3

LEMMA InvNoInflation == LeaderboardInv => NoInflation
  BY InvShown, TextMonotone DEF NoInflation, Shown

LEMMA InvFreshPage == LeaderboardInv => FreshPage
<1> SUFFICES ASSUME LeaderboardInv, Servable, "clock" \notin faults,
                    NEW p \in DOMAIN window[MaxAge] \cap DOMAIN total
             PROVE  p \in DOMAIN live /\ AtMost(AsText(window[MaxAge][p]), Shown(p))
  BY DEF FreshPage
<1>1. live \in Scores /\ MaxAge \in 1..MaxAge /\ window[MaxAge] \in Totals
  BY LeaderboardAssumption DEF LeaderboardInv, TypeOK
<1>2. now - marker.startedAt < MaxAge /\ marker # NoMarker
  BY DEF Servable
<1>3. CoversAt(live, marker.startedAt, window, total, now)
  BY <1>2 DEF LeaderboardInv, GoodSet, Dated, Covers
<1>4. p \in DOMAIN live /\ window[MaxAge][p] <= live[p]
  BY <1>1, <1>2, <1>3, Zenon DEF CoversAt
<1>5. window[MaxAge][p] \in Nat /\ live[p] \in Nat
  BY <1>1, <1>4, ScoreFacts, TotalFacts, LeaderboardAssumption
<1> QED BY <1>4, <1>5, TextMonotone DEF Shown

(***************************************************************************)
(* NothingInflated: whatever is delayed, restored or republished, and even *)
(* when the clocks are set back, no player is shown with more than the     *)
(* player has earned.                                                      *)
(***************************************************************************)
THEOREM NothingInflated == Spec => []NoInflation
  BY InvNoInflation, LeaderboardInvariant, PTL

(***************************************************************************)
(* PagesFresh: while the clocks are not set back, a page that is served    *)
(* shows every player of MaxAge ago with at least the earnings of then.    *)
(***************************************************************************)
THEOREM PagesFresh == Spec => []FreshPage
  BY InvFreshPage, LeaderboardInvariant, PTL

-----------------------------------------------------------------------------
(***************************************************************************)
(* The projection over any database.  Appear, Earn and Vanish are chosen   *)
(* for TLC, one unit of earnings at a time; what the economy is proved to  *)
(* provide is Authority, and AnyAuthority is any step it allows.           *)
(***************************************************************************)
LEMMA AnyAuthorityStep == LeaderboardInv /\ AnyAuthority => LeaderboardInv'
<1> SUFFICES ASSUME LeaderboardInv, AnyAuthority
             PROVE  LeaderboardInv'
  OBVIOUS
<1>1. DOMAIN total \cap deleted = {}
  BY DEF LeaderboardInv
<1>2. /\ deleted \subseteq deleted'
      /\ DOMAIN total' \subseteq Player \ deleted'
      /\ \A p \in DOMAIN total :
           p \in deleted' \/ (p \in DOMAIN total' /\ total'[p] >= total[p])
  BY DEF AnyAuthority, AuthorityNext, NeverLowered
<1>3. total \in Totals /\ total' \in Totals /\ deleted' \subseteq Player
  BY DEF AnyAuthority, LeaderboardInv, TypeOK
<1>4. DOMAIN total \subseteq DOMAIN total' \cup deleted'
  BY <1>2
<1>5. ASSUME NEW p \in DOMAIN total' \cap (DOMAIN total \cup deleted)
      PROVE  p \in DOMAIN total /\ total[p] <= total'[p]
  <2>1. p \in DOMAIN total /\ p \in DOMAIN total' /\ p \notin deleted'
    BY <1>2, <1>5
  <2>2. total[p] \in Nat /\ total'[p] \in Nat
    BY <1>3, <2>1, TotalFacts, LeaderboardAssumption
  <2> QED BY <1>2, <2>1, <2>2
<1>6. Grows(total, deleted, total', deleted')
  BY <1>2, <1>4, <1>5 DEF Grows
<1>7. DOMAIN total' \cap deleted' = {}
  BY <1>2
<1> QED BY <1>3, <1>6, <1>7, AuthorityStep DEF AnyAuthority

LEMMA OpenInvariant == OpenSpec => []LeaderboardInv
<1>1. LeaderboardInv /\ [AnyAuthority \/ ProjectionStep]_vars => LeaderboardInv'
  BY AnyAuthorityStep, ProjectionStepInv, LeaderboardStutter
<1> QED BY <1>1, LeaderboardInit, PTL DEF OpenSpec

(***************************************************************************)
(* OpenNothingInflated: no player is shown with more than the player has   *)
(* earned over any database that keeps the promise of Authority.           *)
(***************************************************************************)
THEOREM OpenNothingInflated == OpenSpec => []NoInflation
  BY InvNoInflation, OpenInvariant, PTL

(***************************************************************************)
(* OpenPagesFresh: pages are fresh over any database that keeps the        *)
(* promise of Authority.                                                   *)
(***************************************************************************)
THEOREM OpenPagesFresh == OpenSpec => []FreshPage
  BY InvFreshPage, OpenInvariant, PTL

(***************************************************************************)
(* LeaderboardAuthority: the database of the runs, with its steps of one   *)
(* unit, is one of those that keep the promise.                            *)
(***************************************************************************)
THEOREM LeaderboardAuthority == Spec => AuthoritySpec
<1>1. Init => AuthorityInit
  BY DEF Init
<1>2. LeaderboardInv /\ [Next]_vars => [AuthorityNext]_authorityVars
  <2> SUFFICES ASSUME LeaderboardInv, Next
               PROVE  AuthorityNext \/ UNCHANGED authorityVars
    BY DEF vars, authorityVars
  <2>1. total \in Totals /\ deleted \subseteq Player /\ DOMAIN total \cap deleted = {}
    BY DEF LeaderboardInv, TypeOK
  <2>2. DOMAIN total \subseteq Player /\ \A p \in DOMAIN total : total[p] \in Nat
    BY <2>1, TotalFacts, LeaderboardAssumption
  <2>3. ASSUME NEW p \in Player, Appear(p)
        PROVE  AuthorityNext
    <3>1. /\ DOMAIN total' = DOMAIN total \cup {p} /\ deleted' = deleted /\ p \notin deleted
          /\ \A q \in DOMAIN total : total'[q] = total[q]
      BY <2>3 DEF Appear
    <3>2. \A q \in DOMAIN total : total'[q] >= total[q]
      BY <2>2, <3>1
    <3> QED BY <2>1, <2>2, <3>1, <3>2 DEF AuthorityNext, NeverLowered
  <2>4. ASSUME NEW earners \in SUBSET DOMAIN total, Earn(earners)
        PROVE  AuthorityNext
    <3>1. /\ DOMAIN total' = DOMAIN total /\ deleted' = deleted
          /\ \A q \in DOMAIN total : total'[q] \in {total[q], total[q] + 1}
      BY <2>4 DEF Earn
    <3>2. \A q \in DOMAIN total : total'[q] >= total[q]
      BY <2>2, <3>1
    <3> QED BY <2>1, <2>2, <3>1, <3>2 DEF AuthorityNext, NeverLowered
  <2>5. ASSUME NEW p \in Player, Vanish(p)
        PROVE  AuthorityNext
    <3>1. deleted' = deleted \cup {p} /\ total' = Restrict(total, DOMAIN total \ {p})
      BY <2>5 DEF Vanish
    <3>2. /\ DOMAIN total' = DOMAIN total \ {p}
          /\ \A q \in DOMAIN total \ {p} : total'[q] = total[q]
      BY <3>1, RestrictFacts
    <3>3. \A q \in DOMAIN total \ {p} : total'[q] >= total[q]
      BY <2>2, <3>2
    <3> QED BY <2>1, <2>2, <3>1, <3>2, <3>3 DEF AuthorityNext, NeverLowered
  <2>6. ASSUME NEW s \in Syncer,
               SyncStep(s) \/ SyncFail(s) \/ \E p \in Player : SyncRead(s, p)
        PROVE  UNCHANGED authorityVars
    BY <2>6 DEF SyncStep, SyncRemove, SyncRaise, SyncInvalidate, SyncFail, SyncRead
  <2>7. ASSUME NEW r \in Reconciler,
               Start(r) \/ Read(r) \/ Invalidate(r) \/ Stage(r) \/ Publish(r) \/ Fail(r)
        PROVE  UNCHANGED authorityVars
    BY <2>7 DEF Start, Read, Invalidate, Stage, Publish, Fail
  <2>8. CASE Tick \/ Expire \/ Persist \/ Restart \/ ClockSetBack
    BY <2>8 DEF Tick, Expire, Persist, Restart, ClockSetBack
  <2> QED BY <2>3, <2>4, <2>5, <2>6, <2>7, <2>8 DEF Next, DatabaseStep, ProjectionStep
<1> QED BY <1>1, <1>2, LeaderboardInvariant, PTL DEF Spec, AuthoritySpec

=============================================================================
