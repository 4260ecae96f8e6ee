----------------------------- MODULE RateLimit -----------------------------
(***************************************************************************)
(* One fixed-window limiter of the API (rate-limit.ts) as app.ts mounts    *)
(* it: in front of a router that authenticates.  The middleware runs       *)
(* without a break, so a request is one step.  The clock of the process    *)
(* keeps pace with real time and may be set back.                          *)
(*                                                                         *)
(* The buckets are in the memory of one process: the behaviours are those  *)
(* of one life of it.                                                      *)
(***************************************************************************)
EXTENDS Integers, FiniteSets, Functions

CONSTANTS
  Address,         \* req.ip
  Client,          \* players with a valid token
  NoAuth,          \* req.auth before a router has authenticated
  NoPromise,       \* no Retry-After to keep
  Window,          \* windowMs
  Limit,           \* max
  PruneAt,         \* 1000
  TicksPerSecond,
  MaxTime,         \* bound: real time
  MaxBack          \* bound: how far the clock is set back

ASSUME RateLimitAssumption ==
  /\ Window \in Nat \ {0} /\ Limit \in Nat \ {0} /\ PruneAt \in Nat \ {0}
  /\ TicksPerSecond \in Nat \ {0}
  /\ MaxTime \in Nat /\ MaxBack \in Nat
  /\ NoAuth \notin Client /\ NoPromise \notin Int

VARIABLES
  buckets,    \* Map: key to bucket
  clock,      \* Date.now()
  time,       \* real time; time - clock is how far the clock was set back
  recent,     \* history: recent[k][i], requests of k let through in the last i ticks
  promise     \* history: the clock reading each refused key was told to wait for

vars == <<buckets, clock, time, recent, promise>>

Key == Address \cup Client
Bucket == [count : 1..(Limit + 1), resetAt : Int]
Request == [ip : Address, auth : Client \cup {NoAuth}]

TypeOK ==
  /\ DOMAIN buckets \subseteq Key
  /\ \A k \in DOMAIN buckets : buckets[k] \in Bucket
  /\ time \in 0..MaxTime /\ clock \in (time - MaxBack)..time
  /\ recent \in [Key -> [1..Window -> Nat]]
  /\ promise \in [Key -> Int \cup {NoPromise}]

Init ==
  /\ buckets = [k \in {} |-> 0]
  /\ clock = 0 /\ time = 0
  /\ recent = [k \in Key |-> [i \in 1..Window |-> 0]]
  /\ promise = [k \in Key |-> NoPromise]

-----------------------------------------------------------------------------
PlayerOrIpKey(req) == IF req.auth # NoAuth THEN req.auth ELSE req.ip

\* what the limiter sees of a request: no router has authenticated it yet
Arriving(c, ip) == [ip |-> ip, auth |-> NoAuth]

Expired(bucket) == bucket.resetAt <= clock

\* mutant: only when the map has just reached the size
PrunedAtSize ==
  IF Cardinality(DOMAIN buckets) # PruneAt THEN buckets
  ELSE Restrict(buckets, {k \in DOMAIN buckets : ~Expired(buckets[k])})

Pruned ==
  IF Cardinality(DOMAIN buckets) < PruneAt THEN buckets
  ELSE Restrict(buckets, {k \in DOMAIN buckets : ~Expired(buckets[k])})

WithBucket(kept, key, bucket) ==
  [k \in DOMAIN kept \cup {key} |-> IF k = key THEN bucket ELSE kept[k]]

\* mutant: counting starts again at the limit
WrappedCount(bucket) == [bucket EXCEPT !.count = (@ % Limit) + 1]

\* larger counts make no difference
Counted(bucket) == [bucket EXCEPT !.count = IF @ > Limit THEN @ ELSE @ + 1]

\* mutant: Math.floor
RetryAfterFloor(left) ==
  IF left \div TicksPerSecond > 1 THEN left \div TicksPerSecond ELSE 1

\* Math.max(1, Math.ceil(left / 1000)), in seconds
RetryAfter(left) ==
  LET seconds == (left + TicksPerSecond - 1) \div TicksPerSecond IN
  IF seconds > 1 THEN seconds ELSE 1

\* next()
Pass(k, bucket) ==
  /\ buckets' = WithBucket(Pruned, k, bucket)
  /\ recent' = [recent EXCEPT ![k] = [i \in 1..Window |-> @[i] + 1]]
  /\ promise' = [promise EXCEPT ![k] = NoPromise]

\* 429 with Retry-After
Refuse(k, bucket) ==
  /\ buckets' = WithBucket(Pruned, k, bucket)
  /\ promise' = [promise EXCEPT ![k] =
       clock + RetryAfter(bucket.resetAt - clock) * TicksPerSecond]
  /\ UNCHANGED recent

\* rateLimiter, for a request of client c from address ip
RateLimiter(c, ip) ==
  LET k == PlayerOrIpKey(Arriving(c, ip)) IN
  /\ IF k \notin DOMAIN Pruned \/ Expired(Pruned[k])
     THEN Pass(k, [count |-> 1, resetAt |-> clock + Window])
     ELSE LET bucket == Counted(Pruned[k]) IN
          IF bucket.count > Limit THEN Refuse(k, bucket) ELSE Pass(k, bucket)
  /\ UNCHANGED <<clock, time>>

Tick ==
  /\ time < MaxTime
  /\ time' = time + 1
  /\ clock' = clock + 1
  /\ recent' = [k \in Key |-> [i \in 1..Window |->
                  IF i = 1 THEN 0 ELSE recent[k][i - 1]]]
  /\ UNCHANGED <<buckets, promise>>

\* no promise survives it
ClockSetBack ==
  /\ time - clock < MaxBack
  /\ clock' = clock - 1
  /\ promise' = [k \in Key |-> NoPromise]
  /\ UNCHANGED <<buckets, time, recent>>

Next ==
  \/ \E c \in Client, ip \in Address : RateLimiter(c, ip)
  \/ Tick \/ ClockSetBack

Spec == Init /\ [][Next]_vars

-----------------------------------------------------------------------------
(***************************************************************************)
(* WindowLimit: whatever the clock does short of gaining, no more than     *)
(* twice the limit of one key's requests pass within the length of a       *)
(* window, wherever that begins.                                           *)
(***************************************************************************)
WindowLimit == \A k \in Key : recent[k][Window] <= 2 * Limit

(***************************************************************************)
(* MemoryBound: a request leaves at most PruneAt buckets, or only buckets  *)
(* of keys that were let through within the last window: memory is bounded *)
(* by the traffic of one window, not by all the keys ever seen.            *)
(***************************************************************************)
MemoryBound ==
  [][buckets' # buckets /\ clock = time =>
       \/ Cardinality(DOMAIN buckets') <= PruneAt
       \/ \A k \in DOMAIN buckets' : recent'[k][Window] > 0]_vars

(***************************************************************************)
(* RetryHonored: a key that is refused and then waits as long as its       *)
(* Retry-After says is let through, unless the clock is set back.          *)
(***************************************************************************)
RetryHonored ==
  [][\A k \in Key : promise[k] # NoPromise /\ promise[k] <= clock =>
       promise'[k] \in {promise[k], NoPromise}]_vars

=============================================================================
