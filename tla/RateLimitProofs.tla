--------------------------- MODULE RateLimitProofs ---------------------------
(***************************************************************************)
(* Proofs about one limiter, for any addresses, windows, limits, pruning   *)
(* sizes and clock corrections.                                            *)
(***************************************************************************)
EXTENDS RateLimit, FiniteSetTheorems, TLAPS

\* a bucket began counting with a request that passed
Started(k) ==
  LET start == buckets[k].resetAt - Window IN
  /\ start <= clock
  /\ ~Expired(buckets[k]) => recent[k][clock - start + 1] > 0

PromisesCover ==
  \A k \in DOMAIN buckets : promise[k] # NoPromise => buckets[k].resetAt <= promise[k]

AllStarted == clock = time => \A k \in DOMAIN buckets : Started(k)

LimiterInv ==
  /\ TypeOK
  /\ IsFiniteSet(DOMAIN buckets)
  /\ PromisesCover
  /\ AllStarted

-----------------------------------------------------------------------------
(***************************************************************************)
(* The pieces of the middleware.                                           *)
(***************************************************************************)
LEMMA PrunedFacts ==
  ASSUME IsFiniteSet(DOMAIN buckets)
  PROVE  /\ DOMAIN Pruned \subseteq DOMAIN buckets
         /\ \A k \in DOMAIN Pruned : Pruned[k] = buckets[k]
         /\ \A k \in DOMAIN buckets \ DOMAIN Pruned : Expired(buckets[k])
         /\ \/ Cardinality(DOMAIN buckets) < PruneAt
            \/ \A k \in DOMAIN Pruned : ~Expired(Pruned[k])
  BY DEF Pruned, Restrict

LEMMA CountedFacts ==
  ASSUME NEW bucket \in Bucket
  PROVE  Counted(bucket) \in Bucket /\ Counted(bucket).resetAt = bucket.resetAt
  BY RateLimitAssumption DEF Counted, Bucket

\* rounding up: the promise is never earlier than the end of the window
LEMMA CeilingBound ==
  \A left \in Nat, d \in Nat \ {0} : ((left + d - 1) \div d) * d >= left
  OBVIOUS

LEMMA RetryAfterLate ==
  ASSUME NEW left \in Nat
  PROVE  /\ RetryAfter(left) \in Nat
         /\ RetryAfter(left) * TicksPerSecond \in Nat
         /\ RetryAfter(left) * TicksPerSecond >= left
<1> DEFINE seconds == (left + TicksPerSecond - 1) \div TicksPerSecond
<1>1. seconds \in Nat
  BY RateLimitAssumption
<1>2. seconds * TicksPerSecond >= left
  BY CeilingBound, RateLimitAssumption
<1> HIDE DEF seconds
<1>3. RetryAfter(left) = IF seconds > 1 THEN seconds ELSE 1
  BY DEF RetryAfter, seconds
<1>4. CASE seconds > 1
  BY <1>1, <1>2, <1>3, <1>4, RateLimitAssumption
<1>5. CASE seconds = 1
  BY <1>1, <1>2, <1>3, <1>5, RateLimitAssumption
<1>6. CASE seconds = 0
  BY <1>1, <1>2, <1>3, <1>6, RateLimitAssumption
<1> QED BY <1>1, <1>4, <1>5, <1>6

(***************************************************************************)
(* A request starts a window, counts in one, or is refused in one.         *)
(***************************************************************************)
\* a request of k that is the first of its window
Fresh(k) == k \notin DOMAIN Pruned \/ Expired(Pruned[k])

LEMMA RequestCases ==
  ASSUME NEW c \in Client, NEW ip \in Address, RateLimiter(c, ip)
  PROVE  /\ UNCHANGED <<clock, time>>
         /\ \E k \in Key :
              \/ Fresh(k) /\ Pass(k, [count |-> 1, resetAt |-> clock + Window])
              \/ /\ k \in DOMAIN Pruned /\ ~Expired(Pruned[k])
                 /\ \/ ~(Counted(Pruned[k]).count > Limit) /\ Pass(k, Counted(Pruned[k]))
                    \/ Refuse(k, Counted(Pruned[k]))
<1> DEFINE k == PlayerOrIpKey(Arriving(c, ip))
<1>1. k \in Key
  BY DEF PlayerOrIpKey, Arriving, Key
<1> HIDE DEF k
<1>2. IF k \notin DOMAIN Pruned \/ Expired(Pruned[k])
      THEN Pass(k, [count |-> 1, resetAt |-> clock + Window])
      ELSE IF Counted(Pruned[k]).count > Limit THEN Refuse(k, Counted(Pruned[k]))
                                               ELSE Pass(k, Counted(Pruned[k]))
  BY DEF RateLimiter, k
<1> QED BY <1>1, <1>2 DEF RateLimiter, Fresh

-----------------------------------------------------------------------------
(***************************************************************************)
(* What a request leaves: the bucket of its key and some of the others.    *)
(***************************************************************************)
\* the new bucket starts a window now, or counts in the one there is
Fits(k, bucket) ==
  \/ bucket.resetAt = clock + Window
  \/ k \in DOMAIN buckets /\ bucket.resetAt = buckets[k].resetAt

LEMMA BucketStep ==
  ASSUME LimiterInv, NEW k \in Key, NEW bucket \in Bucket,
         Fits(k, bucket),
         buckets' = WithBucket(Pruned, k, bucket),
         UNCHANGED <<clock, time>>,
         recent' \in [Key -> [1..Window -> Nat]],
         \A x \in Key : \A i \in 1..Window : recent'[x][i] >= recent[x][i],
         clock = time /\ bucket.resetAt = clock + Window => recent'[k][1] > 0
  PROVE  /\ DOMAIN buckets' \subseteq Key
         /\ \A x \in DOMAIN buckets' : buckets'[x] \in Bucket
         /\ IsFiniteSet(DOMAIN buckets')
         /\ buckets'[k] = bucket
         /\ \A x \in DOMAIN buckets' \ {k} :
              x \in DOMAIN buckets /\ buckets'[x] = buckets[x]
         /\ AllStarted'
<1>1. IsFiniteSet(DOMAIN buckets) /\ TypeOK
  BY DEF LimiterInv
<1>2. /\ DOMAIN buckets' \subseteq DOMAIN buckets \cup {k}
      /\ buckets'[k] = bucket
      /\ \A x \in DOMAIN buckets' \ {k} : x \in DOMAIN buckets /\ buckets'[x] = buckets[x]
  <2> DEFINE kept == Pruned
  <2>1. DOMAIN kept \subseteq DOMAIN buckets /\ \A x \in DOMAIN kept : kept[x] = buckets[x]
    BY <1>1, PrunedFacts
  <2>2. buckets' = WithBucket(kept, k, bucket)
    OBVIOUS
  <2> HIDE DEF kept
  <2>3. /\ DOMAIN buckets' = DOMAIN kept \cup {k}
        /\ buckets'[k] = bucket
        /\ \A x \in DOMAIN kept \ {k} : buckets'[x] = kept[x]
    BY <2>2 DEF WithBucket
  <2> QED BY <2>1, <2>3
<1>3. IsFiniteSet(DOMAIN buckets')
  BY <1>1, <1>2, FS_AddElement, FS_Subset
<1>4. /\ DOMAIN buckets' \subseteq Key
      /\ \A x \in DOMAIN buckets' : buckets'[x] \in Bucket
  BY <1>1, <1>2 DEF TypeOK
<1>5. ASSUME clock = time, NEW x \in DOMAIN buckets'
      PROVE  Started(x)'
  <2>1. /\ clock \in Int /\ Window \in Nat \ {0}
        /\ bucket.resetAt \in Int /\ buckets'[x].resetAt \in Int /\ x \in Key
    BY <1>1, <1>4, RateLimitAssumption DEF TypeOK, Bucket
  <2>2. CASE x = k /\ bucket.resetAt = clock + Window
    <3>1. buckets'[k].resetAt - Window = clock
      BY <1>2, <2>1, <2>2
    <3>2. clock - clock + 1 = 1 /\ recent'[k][1] > 0 /\ clock <= clock
      BY <1>5, <2>1, <2>2
    <3> QED BY <2>2, <3>1, <3>2 DEF Started, Expired
  <2>3. CASE x \in DOMAIN buckets /\ buckets'[x].resetAt = buckets[x].resetAt
    <3> DEFINE start == buckets[x].resetAt - Window
               i == clock - start + 1
    <3>1. start <= clock /\ (~Expired(buckets[x]) => recent[x][i] > 0)
      BY <1>5, <2>3 DEF LimiterInv, AllStarted, Started
    <3>2. ~Expired(buckets[x]) => i \in 1..Window
      BY <2>1, <2>3, <3>1 DEF Expired
    <3>3. ~Expired(buckets[x]) => recent'[x][i] > 0
      BY <1>1, <2>1, <3>1, <3>2 DEF TypeOK
    <3> QED BY <2>3, <3>1, <3>3 DEF Started, Expired
  <2> QED BY <1>2, <2>2, <2>3 DEF Fits
<1> QED BY <1>2, <1>3, <1>4, <1>5 DEF AllStarted

\* a request that passes is one more in every stretch up to now
LEMMA PassRecent ==
  ASSUME recent \in [Key -> [1..Window -> Nat]], NEW k \in Key, NEW bucket, Pass(k, bucket)
  PROVE  /\ recent' \in [Key -> [1..Window -> Nat]]
         /\ \A x \in Key : \A i \in 1..Window :
              recent'[x][i] = IF x = k THEN recent[x][i] + 1 ELSE recent[x][i]
<1>1. recent' = [recent EXCEPT ![k] = [i \in 1..Window |-> @[i] + 1]]
  BY DEF Pass
<1>2. [i \in 1..Window |-> recent[k][i] + 1] \in [1..Window -> Nat]
  <2> SUFFICES ASSUME NEW i \in 1..Window PROVE recent[k][i] + 1 \in Nat
    OBVIOUS
  <2>1. recent[k][i] \in Nat
    OBVIOUS
  <2> QED BY <2>1
<1>3. recent'[k] = [i \in 1..Window |-> recent[k][i] + 1]
  BY <1>1
<1>4. \A x \in Key \ {k} : recent'[x] = recent[x]
  BY <1>1
<1>5. recent' \in [Key -> [1..Window -> Nat]]
  BY <1>1, <1>2
<1> QED BY <1>3, <1>4, <1>5

LEMMA PassStep ==
  ASSUME LimiterInv, NEW k \in Key, NEW bucket \in Bucket, Fits(k, bucket),
         Pass(k, bucket), UNCHANGED <<clock, time>>
  PROVE  LimiterInv'
<1>1. /\ buckets' = WithBucket(Pruned, k, bucket)
      /\ promise' = [promise EXCEPT ![k] = NoPromise]
      /\ TypeOK
  BY DEF Pass, LimiterInv
<1>2. /\ recent' \in [Key -> [1..Window -> Nat]] /\ recent'[k][1] > 0
      /\ \A x \in Key : \A i \in 1..Window : recent'[x][i] >= recent[x][i]
  <2>1. recent \in [Key -> [1..Window -> Nat]] /\ 1 \in 1..Window
    BY <1>1, RateLimitAssumption DEF TypeOK
  <2>2. \A x \in Key : \A i \in 1..Window :
          recent'[x][i] = IF x = k THEN recent[x][i] + 1 ELSE recent[x][i]
    BY <2>1, PassRecent
  <2>3. recent' \in [Key -> [1..Window -> Nat]]
    BY <1>1, <2>1, PassRecent
  <2>4. ASSUME NEW x \in Key, NEW i \in 1..Window
        PROVE  recent'[x][i] >= recent[x][i]
    <3>1. recent[x][i] \in Nat
      BY <2>1
    <3> QED BY <2>2, <3>1
  <2>5. recent'[k][1] > 0
    <3>1. recent[k][1] \in Nat
      BY <2>1
    <3> QED BY <2>1, <2>2, <3>1
  <2> QED BY <2>3, <2>4, <2>5
<1>3. /\ DOMAIN buckets' \subseteq Key
      /\ \A x \in DOMAIN buckets' : buckets'[x] \in Bucket
      /\ IsFiniteSet(DOMAIN buckets')
      /\ \A x \in DOMAIN buckets' \ {k} :
           x \in DOMAIN buckets /\ buckets'[x] = buckets[x]
      /\ AllStarted'
  BY <1>1, <1>2, BucketStep
<1>4. TypeOK'
  BY <1>1, <1>2, <1>3 DEF TypeOK
<1>5. PromisesCover'
  BY <1>1, <1>3 DEF LimiterInv, TypeOK, PromisesCover
<1> QED BY <1>3, <1>4, <1>5 DEF LimiterInv

LEMMA RefuseStep ==
  ASSUME LimiterInv, NEW k \in Key, NEW bucket \in Bucket,
         k \in DOMAIN buckets, bucket.resetAt = buckets[k].resetAt,
         ~Expired(bucket), Refuse(k, bucket), UNCHANGED <<clock, time>>
  PROVE  LimiterInv'
<1> DEFINE left == bucket.resetAt - clock
           until == clock + RetryAfter(left) * TicksPerSecond
<1>1. /\ buckets' = WithBucket(Pruned, k, bucket)
      /\ recent' = recent
      /\ promise' = [promise EXCEPT ![k] = until]
      /\ TypeOK
  BY DEF Refuse, LimiterInv
<1>2. left \in Nat /\ clock \in Int
  BY <1>1, RateLimitAssumption DEF Expired, Bucket, TypeOK
<1>3. until \in Int /\ until >= clock + left
  <2> HIDE DEF left
  <2>1. /\ RetryAfter(left) * TicksPerSecond \in Nat
        /\ RetryAfter(left) * TicksPerSecond >= left
    BY <1>2, RetryAfterLate
  <2> DEFINE wait == RetryAfter(left) * TicksPerSecond
  <2> HIDE DEF wait
  <2>2. wait \in Nat /\ wait >= left
    BY <2>1 DEF wait
  <2>3. clock + wait \in Int /\ clock + wait >= clock + left
    BY <1>2, <2>2
  <2> QED BY <2>3 DEF wait
<1>4. until \in Int /\ bucket.resetAt <= until
  BY <1>2, <1>3 DEF Bucket
<1> HIDE DEF until
<1>5. /\ DOMAIN buckets' \subseteq Key
      /\ \A x \in DOMAIN buckets' : buckets'[x] \in Bucket
      /\ IsFiniteSet(DOMAIN buckets')
      /\ buckets'[k] = bucket
      /\ \A x \in DOMAIN buckets' \ {k} :
           x \in DOMAIN buckets /\ buckets'[x] = buckets[x]
      /\ AllStarted'
  <2>1. ASSUME clock = time, bucket.resetAt = clock + Window
        PROVE  recent[k][1] > 0
    <3>1. Started(k)
      BY <2>1 DEF LimiterInv, AllStarted
    <3>2. clock - (buckets[k].resetAt - Window) + 1 = 1
      BY <1>2, <2>1, RateLimitAssumption
    <3> QED BY <3>1, <3>2 DEF Started, Expired
  <2>2. recent' \in [Key -> [1..Window -> Nat]] /\ Fits(k, bucket)
    BY <1>1 DEF Fits, TypeOK
  <2>3. ASSUME NEW x \in Key, NEW i \in 1..Window
        PROVE  recent'[x][i] >= recent[x][i]
    <3>1. recent[x][i] \in Nat
      BY <1>1 DEF TypeOK
    <3> QED BY <1>1, <3>1
  <2>4. clock = time /\ bucket.resetAt = clock + Window => recent'[k][1] > 0
    BY <1>1, <2>1
  <2> QED BY <1>1, <2>2, <2>3, <2>4, BucketStep
<1>6. TypeOK'
  BY <1>1, <1>4, <1>5 DEF TypeOK
<1>7. PromisesCover'
  BY <1>1, <1>4, <1>5 DEF LimiterInv, TypeOK, PromisesCover
<1> QED BY <1>5, <1>6, <1>7 DEF LimiterInv

-----------------------------------------------------------------------------
(***************************************************************************)
(* The invariant.                                                          *)
(***************************************************************************)
LEMMA LimiterInit == Init => LimiterInv
<1> SUFFICES ASSUME Init PROVE LimiterInv
  OBVIOUS
<1>1. DOMAIN buckets = {}
  BY DEF Init
<1>2. IsFiniteSet(DOMAIN buckets)
  BY <1>1, FS_EmptySet
<1>3. TypeOK
  BY <1>1, RateLimitAssumption DEF Init, TypeOK
<1>4. PromisesCover /\ AllStarted
  BY <1>1 DEF PromisesCover, AllStarted
<1> QED BY <1>2, <1>3, <1>4 DEF LimiterInv

LEMMA RequestStep ==
  ASSUME LimiterInv, NEW c \in Client, NEW ip \in Address, RateLimiter(c, ip)
  PROVE  LimiterInv'
<1>1. PICK k \in Key :
        \/ Pass(k, [count |-> 1, resetAt |-> clock + Window])
        \/ /\ k \in DOMAIN Pruned /\ ~Expired(Pruned[k])
           /\ \/ Pass(k, Counted(Pruned[k]))
              \/ Refuse(k, Counted(Pruned[k]))
  BY RequestCases
<1>2. UNCHANGED <<clock, time>>
  BY RequestCases
<1>3. CASE Pass(k, [count |-> 1, resetAt |-> clock + Window])
  <2> DEFINE bucket == [count |-> 1, resetAt |-> clock + Window]
  <2>1. bucket \in Bucket /\ Fits(k, bucket)
    BY RateLimitAssumption DEF Bucket, Fits, LimiterInv, TypeOK
  <2> HIDE DEF bucket
  <2>2. Pass(k, bucket)
    BY <1>3 DEF bucket
  <2> QED BY <1>2, <2>1, <2>2, PassStep
<1>4. CASE k \in DOMAIN Pruned /\ ~Expired(Pruned[k])
           /\ (Pass(k, Counted(Pruned[k])) \/ Refuse(k, Counted(Pruned[k])))
  <2> DEFINE bucket == Counted(Pruned[k])
  <2>1. k \in DOMAIN buckets /\ Pruned[k] = buckets[k] /\ buckets[k] \in Bucket
    BY <1>4, PrunedFacts DEF LimiterInv, TypeOK
  <2>2. bucket \in Bucket /\ bucket.resetAt = buckets[k].resetAt
    BY <2>1, CountedFacts
  <2>3. ~Expired(bucket) /\ Fits(k, bucket)
    BY <1>4, <2>1, <2>2 DEF Expired, Fits
  <2> HIDE DEF bucket
  <2>4. Pass(k, bucket) \/ Refuse(k, bucket)
    BY <1>4 DEF bucket
  <2> QED BY <1>2, <2>1, <2>2, <2>3, <2>4, PassStep, RefuseStep
<1> QED BY <1>1, <1>3, <1>4

LEMMA TickStep == ASSUME LimiterInv, Tick PROVE LimiterInv'
<1> USE RateLimitAssumption
<1>1. /\ TypeOK /\ UNCHANGED <<buckets, promise>>
      /\ time < MaxTime /\ time' = time + 1 /\ clock' = clock + 1
      /\ recent' = [k \in Key |-> [i \in 1..Window |->
                      IF i = 1 THEN 0 ELSE recent[k][i - 1]]]
  BY DEF LimiterInv, Tick
<1>2. recent' \in [Key -> [1..Window -> Nat]]
  <2> SUFFICES ASSUME NEW k \in Key, NEW i \in 1..Window
               PROVE  (IF i = 1 THEN 0 ELSE recent[k][i - 1]) \in Nat
    BY <1>1
  <2>1. i # 1 => i - 1 \in 1..Window
    OBVIOUS
  <2> QED BY <1>1, <2>1 DEF TypeOK
<1>3. time' \in 0..MaxTime /\ clock' \in (time' - MaxBack)..time'
  BY <1>1 DEF TypeOK
<1>4. TypeOK'
  BY <1>1, <1>2, <1>3 DEF TypeOK
<1>5. AllStarted'
  <2> SUFFICES ASSUME clock' = time', NEW k \in DOMAIN buckets
               PROVE  Started(k)'
    BY <1>1 DEF AllStarted
  <2> DEFINE start == buckets[k].resetAt - Window
             i == clock - start + 1
  <2>1. clock \in Int /\ time \in Int /\ k \in Key /\ buckets[k].resetAt \in Int
    BY <1>1 DEF TypeOK, Bucket
  <2>2. clock = time
    BY <1>1, <2>1
  <2>3. start <= clock /\ (~Expired(buckets[k]) => recent[k][i] > 0)
    BY <2>2 DEF LimiterInv, AllStarted, Started
  <2>4. CASE buckets[k].resetAt <= clock + 1
    BY <1>1, <2>1, <2>3, <2>4 DEF Started, Expired
  <2>5. CASE ~(buckets[k].resetAt <= clock + 1)
    <3>1. ~Expired(buckets[k])
      BY <2>1, <2>3, <2>5 DEF Expired
    <3>2. recent'[k][i + 1] = recent[k][i]
      <4> DEFINE n == i + 1
      <4>1. n \in 1..Window /\ n # 1 /\ n - 1 = i
        BY <2>1, <2>3, <2>5 DEF Expired
      <4> HIDE DEF i, n
      <4>2. recent'[k][n] = recent[k][n - 1]
        <5>1. recent'[k] = [m \in 1..Window |-> IF m = 1 THEN 0 ELSE recent[k][m - 1]]
          BY <1>1, <2>1
        <5> QED BY <4>1, <5>1
      <4>3. recent'[k][n] = recent[k][i]
        BY <4>1, <4>2
      <4> QED BY <4>3 DEF n
    <3>3. clock' - start + 1 = i + 1 /\ start <= clock'
      BY <1>1, <2>1, <2>3
    <3> QED BY <1>1, <2>3, <3>1, <3>2, <3>3 DEF Started
  <2> QED BY <2>4, <2>5
<1>6. IsFiniteSet(DOMAIN buckets)' /\ PromisesCover'
  BY <1>1 DEF LimiterInv, PromisesCover
<1> QED BY <1>4, <1>5, <1>6 DEF LimiterInv

LEMMA ClockSetBackStep == ASSUME LimiterInv, ClockSetBack PROVE LimiterInv'
<1>1. TypeOK' /\ clock' # time'
  BY RateLimitAssumption DEF LimiterInv, ClockSetBack, TypeOK
<1>2. IsFiniteSet(DOMAIN buckets)' /\ PromisesCover'
  BY DEF LimiterInv, ClockSetBack, PromisesCover, TypeOK
<1> QED BY <1>1, <1>2 DEF LimiterInv, AllStarted

(***************************************************************************)
(* The inductive invariant of a limiter.                                   *)
(***************************************************************************)
THEOREM LimiterInvariant == Spec => []LimiterInv
<1>1. LimiterInv /\ [Next]_vars => LimiterInv'
  <2> SUFFICES ASSUME LimiterInv, [Next]_vars PROVE LimiterInv'
    OBVIOUS
  <2>1. CASE UNCHANGED vars
    BY <2>1 DEF vars, LimiterInv, TypeOK, PromisesCover, AllStarted, Started, Expired
  <2> QED BY <2>1, RequestStep, TickStep, ClockSetBackStep DEF Next
<1> QED BY LimiterInit, <1>1, PTL DEF Spec

(***************************************************************************)
(* The limiter's state stays well formed; the clock is behind real time by *)
(* no more than it was set back.                                           *)
(***************************************************************************)
THEOREM LimiterTypeCorrect == Spec => []TypeOK
<1>1. LimiterInv => TypeOK
  BY DEF LimiterInv
<1> QED BY LimiterInvariant, <1>1, PTL

-----------------------------------------------------------------------------
(***************************************************************************)
(* What the buckets ration.  A bucket allows Limit requests; at most Limit *)
(* of the bucket before it can lie in the same stretch of Window ticks,    *)
(* and none once as much of the clock has passed since its own start.      *)
(***************************************************************************)
\* requests a bucket has let through
Used(bucket) == IF bucket.count > Limit THEN Limit ELSE bucket.count

Covers(bucket, passed, now) ==
  \A i \in 1..Window :
    /\ passed[i] <= Limit + Used(bucket)
    /\ i <= now - (bucket.resetAt - Window) => passed[i] <= Used(bucket)

Within(k) == Covers(buckets[k], recent[k], clock)

Rationed(k) ==
  IF k \in DOMAIN buckets THEN Within(k) ELSE \A i \in 1..Window : recent[k][i] <= Limit

Monotone ==
  \A k \in Key : \A i, j \in 1..Window : i <= j => recent[k][i] <= recent[k][j]

HistoryInv == Monotone /\ \A k \in Key : Rationed(k)

LEMMA UsedFacts ==
  ASSUME NEW bucket \in Bucket
  PROVE  /\ Used(bucket) \in 0..Limit
         /\ Used(Counted(bucket)) \in 0..Limit
         /\ Used(bucket) <= Used(Counted(bucket))
         /\ ~(Counted(bucket).count > Limit) => Used(Counted(bucket)) = Used(bucket) + 1
  BY RateLimitAssumption DEF Used, Counted, Bucket

\* a key whose window is over has room for a whole one
LEMMA FreshRoom ==
  ASSUME LimiterInv, NEW k \in Key, Rationed(k), Fresh(k), NEW i \in 1..Window
  PROVE  recent[k][i] <= Limit
<1>1. CASE k \notin DOMAIN buckets
  BY <1>1 DEF Rationed
<1>2. CASE k \in DOMAIN buckets
  <2>1. Expired(buckets[k])
    BY <1>2, PrunedFacts DEF LimiterInv, Fresh
  <2>2. buckets[k] \in Bucket /\ clock \in Int /\ recent[k][i] \in Nat
    BY <1>2, RateLimitAssumption DEF LimiterInv, TypeOK
  <2>3. i <= clock - (buckets[k].resetAt - Window)
    BY <2>1, <2>2, RateLimitAssumption DEF Expired, Bucket
  <2>4. recent[k][i] <= Used(buckets[k])
    BY <1>2, <2>3 DEF Rationed, Within, Covers
  <2>5. Used(buckets[k]) \in 0..Limit
    BY <2>2, UsedFacts
  <2> QED BY <2>2, <2>4, <2>5, RateLimitAssumption
<1> QED BY <1>1, <1>2

\* the keys a request is not about
LEMMA OthersRationed ==
  ASSUME LimiterInv, NEW k \in Key, NEW bucket,
         buckets' = WithBucket(Pruned, k, bucket), clock' = clock,
         NEW x \in Key, x # k, Rationed(x), recent'[x] = recent[x]
  PROVE  Rationed(x)'
<1>1. CASE x \in DOMAIN Pruned
  <2>1. x \in DOMAIN buckets /\ Pruned[x] = buckets[x]
    BY <1>1, PrunedFacts DEF LimiterInv
  <2>2. x \in DOMAIN buckets' /\ buckets'[x] = buckets[x]
    BY <1>1, <2>1 DEF WithBucket
  <2>3. Within(x)
    BY <2>1 DEF Rationed
  <2> QED BY <2>2, <2>3 DEF Rationed, Within, Covers
<1>2. CASE x \notin DOMAIN Pruned
  <2>1. x \notin DOMAIN buckets'
    BY <1>2 DEF WithBucket
  <2>2. \A i \in 1..Window : recent[x][i] <= Limit
    BY <1>2, FreshRoom DEF Fresh
  <2> QED BY <2>1, <2>2 DEF Rationed
<1> QED BY <1>1, <1>2

\* one more request in every stretch, the shorter ones included
LEMMA PassMonotone ==
  ASSUME LimiterInv, Monotone, NEW k \in Key, NEW bucket, Pass(k, bucket)
  PROVE  Monotone'
<1> SUFFICES ASSUME NEW x \in Key, NEW i \in 1..Window, NEW j \in 1..Window, i <= j
             PROVE  recent'[x][i] <= recent'[x][j]
  BY DEF Monotone
<1>1. recent \in [Key -> [1..Window -> Nat]]
  BY DEF LimiterInv, TypeOK
<1>2. recent[x][i] \in Nat /\ recent[x][j] \in Nat /\ recent[x][i] <= recent[x][j]
  BY <1>1 DEF Monotone
<1>3. \A n \in 1..Window :
        recent'[x][n] = IF x = k THEN recent[x][n] + 1 ELSE recent[x][n]
  BY <1>1, PassRecent
<1> QED BY <1>2, <1>3

\* the first request of a window
LEMMA FreshPassHistory ==
  ASSUME LimiterInv, HistoryInv, NEW k \in Key, Fresh(k), clock' = clock,
         Pass(k, [count |-> 1, resetAt |-> clock + Window])
  PROVE  HistoryInv'
<1> DEFINE bucket == [count |-> 1, resetAt |-> clock + Window]
<1>1. recent \in [Key -> [1..Window -> Nat]] /\ clock \in Int
  BY RateLimitAssumption DEF LimiterInv, TypeOK
<1>2. \A x \in Key : \A i \in 1..Window :
        recent'[x][i] = IF x = k THEN recent[x][i] + 1 ELSE recent[x][i]
  BY <1>1, PassRecent
<1>3. buckets' = WithBucket(Pruned, k, bucket)
  BY DEF Pass
<1>4. k \in DOMAIN buckets' /\ buckets'[k] = bucket
  BY <1>3 DEF WithBucket
<1>5. Used(bucket) = 1
  BY RateLimitAssumption DEF Used
<1>6. Rationed(k)'
  <2> SUFFICES ASSUME NEW i \in 1..Window
               PROVE  /\ recent'[k][i] <= Limit + 1
                      /\ ~(i <= clock - (bucket.resetAt - Window))
    BY <1>4, <1>5 DEF Rationed, Within, Covers, Used
  <2>1. recent[k][i] <= Limit /\ recent[k][i] \in Nat
    BY <1>1, FreshRoom DEF HistoryInv
  <2>2. recent'[k][i] = recent[k][i] + 1
    BY <1>2
  <2>3. clock - (bucket.resetAt - Window) = 0
    BY <1>1, RateLimitAssumption
  <2> QED BY <2>1, <2>2, <2>3, RateLimitAssumption
<1>7. ASSUME NEW x \in Key, x # k PROVE Rationed(x)'
  <2>1. recent'[x] = recent[x]
    BY <1>7 DEF Pass, LimiterInv, TypeOK
  <2> QED BY <1>3, <1>7, <2>1, OthersRationed DEF HistoryInv
<1> QED BY <1>6, <1>7, PassMonotone DEF HistoryInv

\* another request of a window
LEMMA CountedPassHistory ==
  ASSUME LimiterInv, HistoryInv, NEW k \in Key, k \in DOMAIN Pruned, clock' = clock,
         ~(Counted(Pruned[k]).count > Limit), Pass(k, Counted(Pruned[k]))
  PROVE  HistoryInv'
<1> DEFINE bucket == Counted(buckets[k])
<1>1. recent \in [Key -> [1..Window -> Nat]]
  BY DEF LimiterInv, TypeOK
<1>2. \A x \in Key : \A i \in 1..Window :
        recent'[x][i] = IF x = k THEN recent[x][i] + 1 ELSE recent[x][i]
  BY <1>1, PassRecent
<1>3. k \in DOMAIN buckets /\ Pruned[k] = buckets[k] /\ buckets[k] \in Bucket
  BY PrunedFacts DEF LimiterInv, TypeOK
<1>4. buckets' = WithBucket(Pruned, k, bucket) /\ ~(bucket.count > Limit)
  BY <1>3 DEF Pass
<1>5. k \in DOMAIN buckets' /\ buckets'[k] = bucket
  BY <1>4 DEF WithBucket
<1>6. /\ bucket.resetAt = buckets[k].resetAt
      /\ Used(bucket) = Used(buckets[k]) + 1 /\ Used(buckets[k]) \in 0..Limit
  BY <1>3, <1>4, CountedFacts, UsedFacts
<1> HIDE DEF bucket
<1>7. Rationed(k)'
  <2> SUFFICES ASSUME NEW i \in 1..Window
               PROVE  /\ recent'[k][i] <= Limit + Used(bucket)
                      /\ i <= clock - (bucket.resetAt - Window) => recent'[k][i] <= Used(bucket)
    BY <1>5 DEF Rationed, Within, Covers, Used
  <2>1. recent[k][i] <= Limit + Used(buckets[k])
    BY <1>3 DEF HistoryInv, Rationed, Within, Covers
  <2>2. i <= clock - (buckets[k].resetAt - Window) => recent[k][i] <= Used(buckets[k])
    BY <1>3 DEF HistoryInv, Rationed, Within, Covers
  <2>3. recent'[k][i] = recent[k][i] + 1 /\ recent[k][i] \in Nat
    BY <1>1, <1>2
  <2> DEFINE used == Used(buckets[k])
  <2>4. used \in 0..Limit /\ Used(bucket) = used + 1
    BY <1>6
  <2> HIDE DEF used
  <2>5. recent[k][i] <= Limit + used
    BY <2>1 DEF used
  <2>6. recent'[k][i] <= Limit + Used(bucket)
    BY <2>3, <2>4, <2>5, RateLimitAssumption
  <2>7. ASSUME i <= clock - (bucket.resetAt - Window) PROVE recent'[k][i] <= Used(bucket)
    <3>1. recent[k][i] <= used
      BY <1>6, <2>2, <2>7 DEF used
    <3> QED BY <2>3, <2>4, <3>1
  <2> QED BY <2>6, <2>7
<1>8. ASSUME NEW x \in Key, x # k PROVE Rationed(x)'
  <2>1. recent'[x] = recent[x]
    BY <1>8 DEF Pass, LimiterInv, TypeOK
  <2> QED BY <1>4, <1>8, <2>1, OthersRationed DEF HistoryInv
<1> QED BY <1>7, <1>8, PassMonotone DEF HistoryInv

\* a refused request lets nothing through
LEMMA RefuseHistory ==
  ASSUME LimiterInv, HistoryInv, NEW k \in Key, k \in DOMAIN Pruned, clock' = clock,
         Refuse(k, Counted(Pruned[k]))
  PROVE  HistoryInv'
<1> DEFINE bucket == Counted(buckets[k])
<1>1. k \in DOMAIN buckets /\ Pruned[k] = buckets[k] /\ buckets[k] \in Bucket
  BY PrunedFacts DEF LimiterInv, TypeOK
<1>2. buckets' = WithBucket(Pruned, k, bucket) /\ recent' = recent
  BY <1>1 DEF Refuse
<1>3. k \in DOMAIN buckets' /\ buckets'[k] = bucket
  BY <1>2 DEF WithBucket
<1>4. /\ bucket.resetAt = buckets[k].resetAt
      /\ Used(buckets[k]) <= Used(bucket)
      /\ Used(buckets[k]) \in 0..Limit /\ Used(bucket) \in 0..Limit
  BY <1>1, CountedFacts, UsedFacts
<1> HIDE DEF bucket
<1>5. Rationed(k)'
  <2> SUFFICES ASSUME NEW i \in 1..Window
               PROVE  /\ recent[k][i] <= Limit + Used(bucket)
                      /\ i <= clock - (bucket.resetAt - Window) => recent[k][i] <= Used(bucket)
    BY <1>2, <1>3 DEF Rationed, Within, Covers, Used
  <2>1. recent[k][i] <= Limit + Used(buckets[k])
    BY <1>1 DEF HistoryInv, Rationed, Within, Covers
  <2>2. i <= clock - (buckets[k].resetAt - Window) => recent[k][i] <= Used(buckets[k])
    BY <1>1 DEF HistoryInv, Rationed, Within, Covers
  <2>3. recent[k][i] \in Nat
    BY DEF LimiterInv, TypeOK
  <2>4. recent[k][i] <= Limit + Used(bucket)
    BY <1>4, <2>1, <2>3, RateLimitAssumption
  <2>5. ASSUME i <= clock - (bucket.resetAt - Window) PROVE recent[k][i] <= Used(bucket)
    <3>1. recent[k][i] <= Used(buckets[k])
      BY <1>4, <2>2, <2>5
    <3> QED BY <1>4, <2>3, <3>1
  <2> QED BY <2>4, <2>5
<1>6. ASSUME NEW x \in Key, x # k PROVE Rationed(x)'
  BY <1>2, <1>6, OthersRationed DEF HistoryInv
<1>7. Monotone'
  BY <1>2 DEF HistoryInv, Monotone
<1> QED BY <1>5, <1>6, <1>7 DEF HistoryInv

\* what a bucket covers, a tick later
LEMMA CoversTick ==
  ASSUME NEW bucket \in Bucket, NEW passed, NEW later, NEW now \in Int,
         Covers(bucket, passed, now),
         \A i \in 1..Window :
           /\ later[i] = IF i = 1 THEN 0 ELSE passed[i - 1]
           /\ i # 1 => i - 1 \in 1..Window /\ passed[i - 1] \in Nat
  PROVE  Covers(bucket, later, now + 1)
<1> DEFINE used == Used(bucket)
           start == bucket.resetAt - Window
<1>1. used \in 0..Limit /\ start \in Int
  BY UsedFacts, RateLimitAssumption DEF Bucket
<1>2. /\ \A i \in 1..Window : passed[i] <= Limit + used
      /\ \A i \in 1..Window : i <= now - start => passed[i] <= used
  BY DEF Covers
<1> SUFFICES ASSUME NEW i \in 1..Window
             PROVE  /\ later[i] <= Limit + used
                    /\ i <= (now + 1) - start => later[i] <= used
  BY DEF Covers
<1> HIDE DEF used, start
<1>3. CASE i = 1
  BY <1>1, <1>3, RateLimitAssumption
<1>4. CASE i # 1
  <2>1. i - 1 \in 1..Window /\ later[i] = passed[i - 1]
    BY <1>4
  <2>2. i <= (now + 1) - start => i - 1 <= now - start
    BY <1>1
  <2> QED BY <1>2, <2>1, <2>2
<1> QED BY <1>3, <1>4

\* with the clock, every stretch moves on by a tick
LEMMA TickHistory == ASSUME LimiterInv, HistoryInv, Tick PROVE HistoryInv'
<1>1. /\ recent \in [Key -> [1..Window -> Nat]] /\ clock \in Int
      /\ buckets' = buckets /\ clock' = clock + 1
  BY RateLimitAssumption DEF LimiterInv, TypeOK, Tick
<1>2. ASSUME NEW k \in Key, NEW i \in 1..Window
      PROVE  /\ recent'[k][i] = IF i = 1 THEN 0 ELSE recent[k][i - 1]
             /\ i # 1 => i - 1 \in 1..Window /\ recent[k][i - 1] \in Nat
  <2>1. recent'[k] = [n \in 1..Window |-> IF n = 1 THEN 0 ELSE recent[k][n - 1]]
    BY DEF Tick
  <2>2. i # 1 => i - 1 \in 1..Window
    BY RateLimitAssumption
  <2> QED BY <1>1, <2>1, <2>2
<1>3. Monotone'
  <2> SUFFICES ASSUME NEW k \in Key, NEW i \in 1..Window, NEW j \in 1..Window, i <= j
               PROVE  recent'[k][i] <= recent'[k][j]
    BY DEF Monotone
  <2>1. CASE i = 1
    <3>1. recent'[k][i] = 0
      BY <1>2, <2>1
    <3>2. recent'[k][j] \in Nat
      BY <1>2
    <3> QED BY <3>1, <3>2
  <2>2. CASE i # 1
    <3>1. j # 1 /\ i - 1 <= j - 1
      BY <2>2, RateLimitAssumption
    <3>2. i - 1 \in 1..Window /\ j - 1 \in 1..Window
      BY <1>2, <2>2, <3>1
    <3>3. recent[k][i - 1] <= recent[k][j - 1]
      BY <3>1, <3>2 DEF HistoryInv, Monotone
    <3>4. recent'[k][i] = recent[k][i - 1] /\ recent'[k][j] = recent[k][j - 1]
      BY <1>2, <2>2, <3>1
    <3> QED BY <3>3, <3>4
  <2> QED BY <2>1, <2>2
<1>4. ASSUME NEW k \in Key PROVE Rationed(k)'
  <2>1. CASE k \notin DOMAIN buckets
    <3> SUFFICES ASSUME NEW i \in 1..Window PROVE recent'[k][i] <= Limit
      BY <1>1, <2>1 DEF Rationed
    <3>1. CASE i = 1
      BY <1>2, <3>1, RateLimitAssumption
    <3>2. CASE i # 1
      <4>1. i - 1 \in 1..Window /\ recent'[k][i] = recent[k][i - 1]
        BY <1>2, <3>2
      <4> QED BY <2>1, <4>1 DEF HistoryInv, Rationed
    <3> QED BY <3>1, <3>2
  <2>2. CASE k \in DOMAIN buckets
    <3>1. buckets[k] \in Bucket /\ Covers(buckets[k], recent[k], clock)
      BY <2>2 DEF LimiterInv, TypeOK, HistoryInv, Rationed, Within
    <3>2. Covers(buckets[k], recent'[k], clock + 1)
      BY <1>1, <1>2, <3>1, CoversTick
    <3> QED BY <1>1, <2>2, <3>2 DEF Rationed, Within
  <2> QED BY <2>1, <2>2
<1> QED BY <1>3, <1>4 DEF HistoryInv

\* a clock that is set back makes windows longer, never shorter
LEMMA ClockSetBackHistory ==
  ASSUME LimiterInv, HistoryInv, ClockSetBack PROVE HistoryInv'
<1>1. recent' = recent /\ buckets' = buckets /\ clock' = clock - 1
  BY DEF ClockSetBack
<1>2. Monotone'
  BY <1>1 DEF HistoryInv, Monotone
<1>3. ASSUME NEW k \in Key PROVE Rationed(k)'
  <2>1. CASE k \notin DOMAIN buckets
    BY <1>1, <2>1 DEF HistoryInv, Rationed
  <2>2. CASE k \in DOMAIN buckets
    <3> DEFINE start == buckets[k].resetAt - Window
    <3>1. clock \in Int /\ start \in Int
      BY <2>2, RateLimitAssumption DEF LimiterInv, TypeOK, Bucket
    <3>2. Within(k)
      BY <2>2 DEF HistoryInv, Rationed
    <3>3. \A i \in 1..Window : i <= clock - 1 - start => i <= clock - start
      BY <3>1
    <3>4. Within(k)'
      BY <1>1, <3>2, <3>3 DEF Within, Covers
    <3> QED BY <1>1, <2>2, <3>4 DEF Rationed
  <2> QED BY <2>1, <2>2
<1> QED BY <1>2, <1>3 DEF HistoryInv

LEMMA RequestHistory ==
  ASSUME LimiterInv, HistoryInv, NEW c \in Client, NEW ip \in Address, RateLimiter(c, ip)
  PROVE  HistoryInv'
<1>1. PICK k \in Key :
        \/ Fresh(k) /\ Pass(k, [count |-> 1, resetAt |-> clock + Window])
        \/ /\ k \in DOMAIN Pruned /\ ~Expired(Pruned[k])
           /\ \/ ~(Counted(Pruned[k]).count > Limit) /\ Pass(k, Counted(Pruned[k]))
              \/ Refuse(k, Counted(Pruned[k]))
  BY RequestCases
<1>2. clock' = clock
  BY DEF RateLimiter
<1> QED BY <1>1, <1>2, FreshPassHistory, CountedPassHistory, RefuseHistory

LEMMA HistoryInit == Init => HistoryInv
  BY RateLimitAssumption DEF Init, HistoryInv, Monotone, Rationed, Key

(***************************************************************************)
(* The inductive invariant over what passed lately: what a live bucket has *)
(* let through, and the Limit before it.                                   *)
(***************************************************************************)
THEOREM HistoryInvariant == Spec => []HistoryInv
<1>1. LimiterInv /\ HistoryInv /\ [Next]_vars => HistoryInv'
  <2> SUFFICES ASSUME LimiterInv, HistoryInv, [Next]_vars PROVE HistoryInv'
    OBVIOUS
  <2>1. CASE UNCHANGED vars
    BY <2>1 DEF vars, HistoryInv, Monotone, Rationed, Within, Covers
  <2> QED BY <2>1, RequestHistory, TickHistory, ClockSetBackHistory DEF Next
<1> QED BY HistoryInit, LimiterInvariant, <1>1, PTL DEF Spec

(***************************************************************************)
(* WindowLimit: no stretch of a window's length lets more than twice the   *)
(* limit of one key through, wherever it begins and however often the      *)
(* clock is set back.                                                      *)
(***************************************************************************)
THEOREM WindowRespected == Spec => []WindowLimit
<1>1. LimiterInv /\ HistoryInv => WindowLimit
  <2> SUFFICES ASSUME LimiterInv, HistoryInv, NEW k \in Key
               PROVE  recent[k][Window] <= 2 * Limit
    BY DEF WindowLimit
  <2>1. Window \in 1..Window /\ Rationed(k)
    BY RateLimitAssumption DEF HistoryInv
  <2>2. recent[k][Window] \in Nat
    BY <2>1 DEF LimiterInv, TypeOK
  <2>3. CASE k \notin DOMAIN buckets
    BY <2>1, <2>2, <2>3, RateLimitAssumption DEF Rationed
  <2>4. CASE k \in DOMAIN buckets
    <3>1. recent[k][Window] <= Limit + Used(buckets[k])
      BY <2>1, <2>4 DEF Rationed, Within, Covers
    <3>2. Used(buckets[k]) \in 0..Limit
      BY <2>4, UsedFacts DEF LimiterInv, TypeOK
    <3> QED BY <2>2, <3>1, <3>2, RateLimitAssumption
  <2> QED BY <2>3, <2>4
<1> QED BY LimiterInvariant, HistoryInvariant, <1>1, PTL

-----------------------------------------------------------------------------
\* a promise that is due is met by the next request
LEMMA PromiseMet ==
  ASSUME LimiterInv, [Next]_vars, NEW x \in Key,
         promise[x] # NoPromise, promise[x] <= clock
  PROVE  promise'[x] \in {promise[x], NoPromise}
<1>1. ASSUME NEW c \in Client, NEW ip \in Address, RateLimiter(c, ip)
      PROVE  promise'[x] \in {promise[x], NoPromise}
  <2>1. PICK k \in Key :
          \/ Pass(k, [count |-> 1, resetAt |-> clock + Window])
          \/ /\ k \in DOMAIN Pruned /\ ~Expired(Pruned[k])
             /\ \/ Pass(k, Counted(Pruned[k]))
                \/ Refuse(k, Counted(Pruned[k]))
    BY <1>1, RequestCases
  <2>2. CASE \E bucket : Pass(k, bucket)
    BY <2>2 DEF Pass, LimiterInv, TypeOK
  <2>3. CASE k \in DOMAIN Pruned /\ ~Expired(Pruned[k])
             /\ Refuse(k, Counted(Pruned[k]))
    <3>1. k \in DOMAIN buckets /\ ~Expired(buckets[k])
      BY <2>3, PrunedFacts DEF LimiterInv
    <3>2. x # k
      <4>1. ASSUME x = k PROVE FALSE
        <5>1. buckets[k].resetAt <= promise[k] /\ promise[k] <= clock
          BY <3>1, <4>1 DEF LimiterInv, PromisesCover
        <5>2. buckets[k].resetAt \in Int /\ promise[k] \in Int /\ clock \in Int
          BY <3>1, <4>1, RateLimitAssumption DEF LimiterInv, TypeOK, Bucket
        <5>3. buckets[k].resetAt <= clock
          BY <5>1, <5>2
        <5> QED BY <3>1, <5>3 DEF Expired
      <4> QED BY <4>1
    <3>3. \E until : promise' = [promise EXCEPT ![k] = until]
      BY <2>3 DEF Refuse
    <3> QED BY <3>2, <3>3 DEF LimiterInv, TypeOK
  <2> QED BY <2>1, <2>2, <2>3
<1>2. CASE Tick \/ UNCHANGED vars
  BY <1>2 DEF Tick, vars
<1>3. CASE ClockSetBack
  BY <1>3 DEF ClockSetBack
<1> QED BY <1>1, <1>2, <1>3 DEF Next

(***************************************************************************)
(* RetryHonored: waiting as long as Retry-After says is enough.            *)
(***************************************************************************)
THEOREM RetryAfterSuffices == Spec => RetryHonored
<1>1. LimiterInv /\ [Next]_vars =>
        [\A k \in Key : promise[k] # NoPromise /\ promise[k] <= clock =>
           promise'[k] \in {promise[k], NoPromise}]_vars
  BY PromiseMet
<1> QED BY LimiterInvariant, <1>1, PTL DEF Spec, RetryHonored

\* a request leaves few buckets, or buckets of the last window only
LEMMA RequestBound ==
  ASSUME LimiterInv, LimiterInv', Monotone', NEW c \in Client, NEW ip \in Address,
         RateLimiter(c, ip), clock = time
  PROVE  \/ Cardinality(DOMAIN buckets') <= PruneAt
         \/ \A k \in DOMAIN buckets' : recent'[k][Window] > 0
<1>1. PICK k, bucket :
        /\ k \in Key
        /\ buckets' = WithBucket(Pruned, k, bucket)
        /\ ~Expired(bucket)
  <2>1. PICK k \in Key :
          \/ Pass(k, [count |-> 1, resetAt |-> clock + Window])
          \/ /\ k \in DOMAIN Pruned /\ ~Expired(Pruned[k])
             /\ \/ Pass(k, Counted(Pruned[k]))
                \/ Refuse(k, Counted(Pruned[k]))
    BY RequestCases
  <2>2. CASE Pass(k, [count |-> 1, resetAt |-> clock + Window])
    <3>1. ~Expired([count |-> 1, resetAt |-> clock + Window])
      BY RateLimitAssumption DEF Expired, LimiterInv, TypeOK
    <3> QED BY <2>2, <3>1 DEF Pass
  <2>3. CASE k \in DOMAIN Pruned /\ ~Expired(Pruned[k])
             /\ (Pass(k, Counted(Pruned[k])) \/ Refuse(k, Counted(Pruned[k])))
    <3>1. Pruned[k] \in Bucket
      BY <2>3, PrunedFacts DEF LimiterInv, TypeOK
    <3>2. ~Expired(Counted(Pruned[k]))
      BY <2>3, <3>1, CountedFacts DEF Expired
    <3> QED BY <2>3, <3>2 DEF Pass, Refuse
  <2> QED BY <2>1, <2>2, <2>3
<1>2. IsFiniteSet(DOMAIN buckets) /\ clock' = time' /\ clock' = clock
  BY DEF LimiterInv, RateLimiter
<1>3. CASE Cardinality(DOMAIN buckets) < PruneAt
  <2>1. DOMAIN buckets' \subseteq DOMAIN buckets \cup {k}
    BY <1>1, <1>2, PrunedFacts DEF WithBucket
  <2>2. /\ IsFiniteSet(DOMAIN buckets \cup {k})
        /\ Cardinality(DOMAIN buckets \cup {k}) <= Cardinality(DOMAIN buckets) + 1
        /\ Cardinality(DOMAIN buckets) \in Nat
        /\ Cardinality(DOMAIN buckets \cup {k}) \in Nat
    <3> DEFINE S == DOMAIN buckets
    <3> HIDE DEF S
    <3>1. IsFiniteSet(S)
      BY <1>2 DEF S
    <3>2. /\ IsFiniteSet(S \cup {k}) /\ Cardinality(S) \in Nat
          /\ Cardinality(S \cup {k}) \in {Cardinality(S), Cardinality(S) + 1}
      BY <3>1, FS_AddElement, FS_CardinalityType
    <3> QED BY <3>2 DEF S
  <2>3. /\ Cardinality(DOMAIN buckets') <= Cardinality(DOMAIN buckets \cup {k})
        /\ Cardinality(DOMAIN buckets') \in Nat
    BY <2>1, <2>2, FS_Subset, FS_CardinalityType
  <2> QED BY <1>3, <2>2, <2>3, RateLimitAssumption
<1>4. CASE \A x \in DOMAIN Pruned : ~Expired(Pruned[x])
  <2> SUFFICES ASSUME NEW x \in DOMAIN buckets'
               PROVE  recent'[x][Window] > 0
    OBVIOUS
  <2>1. ~(buckets'[x].resetAt <= clock)
    BY <1>1, <1>4 DEF WithBucket, Expired
  <2> DEFINE start == buckets'[x].resetAt - Window
             i == clock - start + 1
  <2>2. start <= clock /\ recent'[x][i] > 0
    BY <1>2, <2>1 DEF LimiterInv, AllStarted, Started, Expired
  <2>3. buckets'[x].resetAt \in Int /\ clock \in Int
    BY DEF LimiterInv, TypeOK, Bucket
  <2>4. i \in 1..Window
    BY <2>1, <2>2, <2>3, RateLimitAssumption
  <2> HIDE DEF i
  <2>5. x \in Key /\ Window \in 1..Window /\ i <= Window
    BY <2>4, RateLimitAssumption DEF LimiterInv, TypeOK
  <2>6. recent'[x][i] <= recent'[x][Window]
    BY <2>4, <2>5 DEF Monotone
  <2>7. recent'[x][i] \in Nat /\ recent'[x][Window] \in Nat
    BY <2>4, <2>5 DEF LimiterInv, TypeOK
  <2> QED BY <2>2, <2>6, <2>7
<1> QED BY <1>2, <1>3, <1>4, PrunedFacts

(***************************************************************************)
(* MemoryBound: buckets of keys that have not been seen for a window do    *)
(* not pile up beyond PruneAt.                                             *)
(***************************************************************************)
THEOREM BucketsBounded == Spec => MemoryBound
<1>1. LimiterInv /\ LimiterInv' /\ Monotone' /\ [Next]_vars =>
        [buckets' # buckets /\ clock = time =>
           \/ Cardinality(DOMAIN buckets') <= PruneAt
           \/ \A k \in DOMAIN buckets' : recent'[k][Window] > 0]_vars
  <2> SUFFICES ASSUME LimiterInv, LimiterInv', Monotone', Next,
                      buckets' # buckets, clock = time
               PROVE  \/ Cardinality(DOMAIN buckets') <= PruneAt
                      \/ \A k \in DOMAIN buckets' : recent'[k][Window] > 0
    OBVIOUS
  <2>1. PICK c \in Client, ip \in Address : RateLimiter(c, ip)
    BY DEF Next, Tick, ClockSetBack
  <2> QED BY <2>1, RequestBound
<1>2. HistoryInv => Monotone
  BY DEF HistoryInv
<1> QED BY LimiterInvariant, HistoryInvariant, <1>1, <1>2, PTL DEF Spec, MemoryBound

=============================================================================
