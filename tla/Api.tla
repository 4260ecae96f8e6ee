-------------------------------- MODULE Api --------------------------------
(***************************************************************************)
(* The API process (server.ts, app.ts and the routers): HTTP connections,  *)
(* the handlers that serve their requests, the pool of PostgreSQL clients, *)
(* access tokens, and the shutdown.  A handler is cut at its awaits.       *)
(*                                                                         *)
(* What the transactions do to the tables is in module Economy, what a     *)
(* synchronisation does to Redis in Leaderboard, the queue in BonusQueue.  *)
(***************************************************************************)
EXTENDS Integers, FiniteSets

CONSTANTS
  Slot,       \* HTTP connections
  Player,     \* people, with one account each
  PoolSize    \* clients in the PostgreSQL pool

ASSUME ApiAssumption ==
  /\ PoolSize \in Nat \ {0}
  /\ IsFiniteSet(Slot)

VARIABLES
  stage,      \* of the process
  signals,    \* how many of SIGINT and SIGTERM have come
  conn,       \* each connection
  handler,    \* what runs for the request of each connection
  clients,    \* connections whose handler holds a client of the pool
  account,    \* PostgreSQL: the role of each player
  token,      \* the role in the access token each player holds
  wasAdmin,   \* history: requests whose player was admin at some time
  committed,  \* history: requests that took effect, with an acknowledged COMMIT
  misled      \* history: a client was told otherwise than was committed

vars == <<stage, signals, conn, handler, clients, account, token,
          wasAdmin, committed, misled>>
httpVars == <<conn, handler, wasAdmin, committed, misled>>
processVars == <<stage, signals>>
roleVars == <<account, token>>

\* "command" is a purchase or a collection, "admin" the bonus or the list of
\* failed jobs
Command == {"signup", "command"}
Public == {"signup", "login", "ready"}
Role == {"player", "admin"}

NoRequest == [kind |-> "none", player |-> "none", step |-> "none", role |-> "none"]
Request ==
  [kind : {"signup", "command", "login", "ready", "state", "board", "admin"},
   player : Player, role : Role \cup {"none"},
   step : {"query", "verify", "begin", "work", "sync", "write", "redis"}]

TypeOK ==
  /\ stage \in {"running", "draining", "closing", "stopped", "failed", "killed"}
  /\ signals \in 0..2
  /\ conn \in [Slot -> {"none", "idle", "waiting", "gone"}]
  /\ handler \in [Slot -> Request \cup {NoRequest}]
  /\ clients \subseteq Slot /\ Cardinality(clients) <= PoolSize
  /\ account \in [Player -> {"none", "deleted"} \cup Role]
  /\ token \in [Player -> Role \cup {"none"}]
  /\ wasAdmin \subseteq Slot /\ committed \subseteq Slot /\ misled \in BOOLEAN
  /\ \A s \in Slot :
       (handler[s] # NoRequest) <=> (conn[s] \in {"waiting", "gone"})

Init ==
  /\ stage = "running" /\ signals = 0
  /\ conn = [s \in Slot |-> "none"]
  /\ handler = [s \in Slot |-> NoRequest]
  /\ clients = {}
  /\ account = [p \in Player |-> "none"]
  /\ token = [p \in Player |-> "none"]
  /\ wasAdmin = {} /\ committed = {} /\ misled = FALSE

Exists(p) == account[p] \in Role
Admin(p) == account[p] = "admin"
Open == stage \in {"running", "draining"}
ClientFree == Open /\ Cardinality(clients) < PoolSize

-----------------------------------------------------------------------------
(***************************************************************************)
(* HTTP.                                                                   *)
(***************************************************************************)
Connect(s) ==
  /\ stage = "running"
  /\ conn[s] = "none"
  /\ conn' = [conn EXCEPT ![s] = "idle"]
  /\ UNCHANGED <<processVars, handler, clients, roleVars, wasAdmin, committed, misled>>

\* the client closes a connection it does not use, or keepAliveTimeout does
CloseIdle(s) ==
  /\ conn[s] = "idle"
  /\ conn' = [conn EXCEPT ![s] = "none"]
  /\ UNCHANGED <<processVars, handler, clients, roleVars, wasAdmin, committed, misled>>

\* the client gives up; its handler does not notice
Disconnect(s) ==
  /\ conn[s] = "waiting"
  /\ conn' = [conn EXCEPT ![s] = "gone"]
  /\ UNCHANGED <<processVars, handler, clients, roleVars, wasAdmin, committed, misled>>

\* the response (2xx is "ok") ends the request; Node keeps the connection or
\* closes it
Respond(s, status) ==
  /\ handler' = [handler EXCEPT ![s] = NoRequest]
  /\ \E next \in IF conn[s] = "waiting" THEN {"idle", "none"} ELSE {"none"} :
       conn' = [conn EXCEPT ![s] = next]
  /\ misled' = (misled \/ (/\ conn[s] = "waiting" /\ handler[s].kind \in Command
                           /\ ~(status = "ok" <=> s \in committed)))
  /\ wasAdmin' = wasAdmin \ {s} /\ committed' = committed \ {s}

\* mutant: a rejected promise that never reaches the error handler
RejectSilently(s) ==
  /\ handler' = [handler EXCEPT ![s] = NoRequest]
  /\ UNCHANGED <<conn, wasAdmin, committed, misled>>

\* handleError: 500
Reject(s) == Respond(s, "error")

Goto(s, step) == handler' = [handler EXCEPT ![s].step = step]
At(s, step) == handler[s] # NoRequest /\ handler[s].step = step

\* createAuthentication: the token is only verified, no table is read
Authenticated(p, kind) == kind \in Public \/ token[p] # "none"

Arrive(s, p, kind, step, role) ==
  /\ conn[s] = "idle"
  /\ Authenticated(p, kind)
  /\ conn' = [conn EXCEPT ![s] = "waiting"]
  /\ handler' = [handler EXCEPT ![s] =
       [kind |-> kind, player |-> p, step |-> step, role |-> role]]
  /\ wasAdmin' = IF Admin(p) THEN wasAdmin \cup {s} ELSE wasAdmin
  /\ UNCHANGED <<processVars, clients, roleVars, committed, misled>>

\* a request that is let in, up to its first await
SignupRoute(s, p) == Arrive(s, p, "signup", "begin", "none")
LoginRoute(s, p) == Arrive(s, p, "login", "query", "none")
ReadyRoute(s, p) == Arrive(s, p, "ready", "query", "none")
StateRoute(s, p) == Arrive(s, p, "state", "query", "none")
CommandRoute(s, p) == Arrive(s, p, "command", "begin", "none")
BoardRoute(s, p) == Arrive(s, p, "board", "redis", "none")
AdminRoute(s, p) == Arrive(s, p, "admin", "query", token[p])

\* 429, 401 or 400, before the first await
RefuseArrival(s) ==
  /\ conn[s] = "idle"
  /\ \E next \in {"idle", "none"} : conn' = [conn EXCEPT ![s] = next]
  /\ UNCHANGED <<processVars, handler, clients, roleVars, wasAdmin, committed, misled>>

-----------------------------------------------------------------------------
(***************************************************************************)
(* Handlers that ask PostgreSQL one question.                              *)
(***************************************************************************)
\* mutant: the role in the token decides
AdminByToken(s) == handler[s].role = "admin"

\* isAdmin
AllowsAdmin(s) == Admin(handler[s].player)

\* a client of the pool runs the query and is free again
Query(s, kind) ==
  /\ At(s, "query") /\ handler[s].kind = kind
  /\ ClientFree
  /\ UNCHANGED <<processVars, clients, roleVars>>

\* login: the row of the email, if there is one
FindByEmail(s) ==
  LET p == handler[s].player IN
  /\ Query(s, "login")
  /\ handler' = [handler EXCEPT ![s].step = "verify",
                               ![s].role = IF Exists(p) THEN account[p] ELSE "none"]
  /\ UNCHANGED <<conn, wasAdmin, committed, misled>>

\* GET /player/me
FindState(s) ==
  /\ Query(s, "state")
  /\ Respond(s, IF Exists(handler[s].player) THEN "ok" ELSE "refused")

\* GET /ready; Redis is asked at the same time
CheckReadiness(s) ==
  /\ Query(s, "ready")
  /\ \E status \in {"ok", "error"} : Respond(s, status)

CheckAdmin(s) ==
  /\ Query(s, "admin")
  /\ IF AllowsAdmin(s)
     THEN Goto(s, "redis") /\ UNCHANGED <<conn, wasAdmin, committed, misled>>
     ELSE Respond(s, "refused")

\* an error of PostgreSQL, or no client within connectionTimeoutMillis
\* (/ready answers 503, which is as good)
QueryFails(s) ==
  /\ At(s, "query")
  /\ Reject(s)
  /\ UNCHANGED <<processVars, clients, roleVars>>

IssueAccessToken(p, role) == token' = [token EXCEPT ![p] = role]

\* login: the password is verified against the row read before; the token
\* has the role of that row
Verify(s) ==
  LET p == handler[s].player IN
  /\ At(s, "verify")
  /\ \/ /\ handler[s].role # "none"
        /\ Respond(s, "ok")
        /\ IF conn[s] = "waiting" THEN IssueAccessToken(p, handler[s].role)
           ELSE UNCHANGED token
     \/ Respond(s, "refused") /\ UNCHANGED token
     \/ Reject(s) /\ UNCHANGED token
  /\ UNCHANGED <<processVars, clients, account>>

-----------------------------------------------------------------------------
(***************************************************************************)
(* Signup, purchase and collection: a transaction, then, when it took      *)
(* effect, a synchronisation of the leaderboard, then the answer.          *)
(***************************************************************************)
Begin(s) ==
  /\ At(s, "begin")
  /\ ClientFree
  /\ clients' = clients \cup {s}
  /\ Goto(s, "work")
  /\ UNCHANGED <<processVars, conn, roleVars, wasAdmin, committed, misled>>

BeginFails(s) ==
  /\ At(s, "begin")
  /\ Reject(s)
  /\ UNCHANGED <<processVars, clients, roleVars>>

\* signup inserts the account, a command needs one
Applicable(s) == Exists(handler[s].player) # (handler[s].kind = "signup")

\* who signs up again after a deletion is a new player
Applied(s) ==
  LET p == handler[s].player IN
  account' = IF handler[s].kind = "signup" /\ account[p] = "none"
             THEN [account EXCEPT ![p] = "player"] ELSE account

\* mutant: the synchronisation is awaited inside the transaction
CommitInside(s) ==
  /\ At(s, "work")
  /\ Applicable(s)
  /\ Applied(s)
  /\ committed' = committed \cup {s}
  /\ Goto(s, "sync")
  /\ UNCHANGED <<processVars, conn, clients, token, wasAdmin, misled>>

\* COMMIT is acknowledged and the client is released
Commit(s) ==
  /\ At(s, "work")
  /\ Applicable(s)
  /\ Applied(s)
  /\ committed' = committed \cup {s}
  /\ clients' = clients \ {s}
  /\ Goto(s, "sync")
  /\ UNCHANGED <<processVars, conn, token, wasAdmin, misled>>

\* email_taken, player_not_found, insufficient_funds, ...
Decline(s) ==
  /\ At(s, "work")
  /\ handler[s].kind = "signup" => ~Applicable(s)
  /\ clients' = clients \ {s}
  /\ Respond(s, "refused")
  /\ UNCHANGED <<processVars, roleVars>>

\* rolled back, or committed and never acknowledged
WorkFails(s) ==
  /\ At(s, "work")
  /\ (Applicable(s) /\ Applied(s)) \/ UNCHANGED account
  /\ clients' = clients \ {s}
  /\ Reject(s)
  /\ UNCHANGED <<processVars, token>>

\* syncPlayerLeaderboard: findLifetimeGold
Sync(s) ==
  /\ At(s, "sync")
  /\ ClientFree
  /\ Goto(s, "write")
  /\ UNCHANGED <<processVars, conn, clients, roleVars, wasAdmin, committed, misled>>

\* mutant: the error is not caught
SyncErrorThrown(s) ==
  /\ At(s, "sync") \/ At(s, "write")
  /\ Reject(s)
  /\ UNCHANGED <<processVars, clients, roleVars>>

\* an error of PostgreSQL, the pool or Redis is logged
SyncFails(s) ==
  /\ At(s, "sync") \/ At(s, "write")
  /\ Respond(s, "ok")
  /\ UNCHANGED <<processVars, clients, roleVars>>

Write(s) ==
  /\ At(s, "write")
  /\ Open
  /\ Respond(s, "ok")
  /\ UNCHANGED <<processVars, clients, roleVars>>

-----------------------------------------------------------------------------
\* readLeaderboard, enqueueManual, getFailedJobs
UseRedis(s) ==
  /\ At(s, "redis")
  /\ Open
  /\ Respond(s, "ok")
  /\ UNCHANGED <<processVars, clients, roleVars>>

\* 503
RedisFails(s) ==
  /\ At(s, "redis")
  /\ Respond(s, "error")
  /\ UNCHANGED <<processVars, clients, roleVars>>

\* admin routes validate their input after isAdmin
RefuseInput(s) ==
  /\ At(s, "redis") /\ handler[s].kind = "admin"
  /\ Respond(s, "refused")
  /\ UNCHANGED <<processVars, clients, roleVars>>

-----------------------------------------------------------------------------
(***************************************************************************)
(* Operators change roles and delete accounts; tokens expire.              *)
(***************************************************************************)
SetAccount(p, role) ==
  /\ account' = [account EXCEPT ![p] = role]
  /\ wasAdmin' = IF role = "admin"
                 THEN wasAdmin \cup {s \in Slot : handler[s].player = p}
                 ELSE wasAdmin
  /\ UNCHANGED <<processVars, conn, handler, clients, token, committed, misled>>

ChangeRole(p) == Exists(p) /\ \E role \in Role \ {account[p]} : SetAccount(p, role)

Remove(p) == Exists(p) /\ SetAccount(p, "deleted")

ExpireToken(p) ==
  /\ token[p] # "none"
  /\ token' = [token EXCEPT ![p] = "none"]
  /\ UNCHANGED <<processVars, httpVars, clients, account>>

-----------------------------------------------------------------------------
(***************************************************************************)
(* Shutdown.  Each signal has a handler that runs once; the same signal    *)
(* again ends the process.                                                 *)
(***************************************************************************)
Kill ==
  /\ stage' = "killed"
  /\ conn' = [s \in Slot |-> "none"]
  /\ handler' = [s \in Slot |-> NoRequest]
  /\ clients' = {}
  /\ wasAdmin' = {} /\ committed' = {}
  /\ UNCHANGED <<signals, roleVars, misled>>

\* mutant: nothing waits for server.close
CloseAtOnce ==
  /\ stage' = IF stage = "running" THEN "closing" ELSE stage
  /\ UNCHANGED <<httpVars, clients, roleVars>>

\* server.close: no new connections, idle ones are closed
Shutdown ==
  /\ IF stage = "running"
     THEN /\ stage' = "draining"
          /\ conn' = [s \in Slot |-> IF conn[s] = "idle" THEN "none" ELSE conn[s]]
     ELSE UNCHANGED <<stage, conn>>
  /\ UNCHANGED <<handler, clients, roleVars, wasAdmin, committed, misled>>

Alive == stage \notin {"stopped", "failed", "killed"}

FirstOfKind == Alive /\ signals < 2 /\ signals' = signals + 1 /\ Shutdown

SecondOfKind == Alive /\ signals > 0 /\ Kill

\* the callback of server.close: no connection is left.  Redis is
\* disconnected, the pool and the queue begin to close
Drained ==
  /\ stage = "draining"
  /\ \A s \in Slot : conn[s] \in {"none", "gone"}
  /\ stage' = "closing"
  /\ UNCHANGED <<signals, httpVars, clients, roleVars>>

\* pool.end waits for its clients; an error of either ends the wait
Stopped ==
  /\ stage = "closing"
  /\ \/ clients = {} /\ stage' = "stopped"
     \/ stage' = "failed"
  /\ UNCHANGED <<signals, httpVars, clients, roleVars>>

-----------------------------------------------------------------------------
HandlerStep(s) ==
  \/ FindByEmail(s) \/ Verify(s) \/ FindState(s) \/ CheckReadiness(s)
  \/ CheckAdmin(s) \/ QueryFails(s)
  \/ Begin(s) \/ BeginFails(s) \/ Commit(s) \/ Decline(s) \/ WorkFails(s)
  \/ Sync(s) \/ SyncFails(s) \/ Write(s)
  \/ UseRedis(s) \/ RedisFails(s) \/ RefuseInput(s)

Next ==
  \/ \E s \in Slot :
       \/ Connect(s) \/ CloseIdle(s) \/ Disconnect(s)
       \/ \E p \in Player :
            \/ SignupRoute(s, p) \/ LoginRoute(s, p) \/ ReadyRoute(s, p)
            \/ StateRoute(s, p) \/ CommandRoute(s, p) \/ BoardRoute(s, p)
            \/ AdminRoute(s, p)
       \/ RefuseArrival(s)
       \/ HandlerStep(s)
  \/ \E p \in Player : ChangeRole(p) \/ Remove(p) \/ ExpireToken(p)
  \/ FirstOfKind \/ SecondOfKind \/ Drained \/ Stopped

Spec == Init /\ [][Next]_vars

(***************************************************************************)
(* Every await ends, with a result or with an error: the pool, Redis and   *)
(* the queue have timeouts.  A connection that is idle again and again is  *)
(* closed at some time: no client uses one for ever.                       *)
(***************************************************************************)
Fairness ==
  /\ \A s \in Slot : WF_vars(HandlerStep(s)) /\ SF_vars(CloseIdle(s))
  /\ WF_vars(Drained) /\ WF_vars(Stopped)

FairSpec == Spec /\ Fairness

-----------------------------------------------------------------------------
(***************************************************************************)
(* EnqueueByAdmin: a request that gets as far as the bonus queue or the    *)
(* failed jobs was made by a player who was admin at some time while it    *)
(* ran, whatever the token says and whenever roles change.                 *)
(***************************************************************************)
EnqueueByAdmin ==
  \A s \in Slot :
    At(s, "redis") /\ handler[s].kind = "admin" => s \in wasAdmin

(***************************************************************************)
(* CommitReported: a client still connected learns of a signup or command  *)
(* whose COMMIT was acknowledged, whatever happens to the leaderboard, the *)
(* pool or the process afterwards; and of no other.                        *)
(***************************************************************************)
CommitReported == ~misled

(***************************************************************************)
(* ServedWhileOpen: the shutdown closes Redis, the pool and the queue only *)
(* when no client waits for an answer (docs/failures.md, Shutdown).        *)
(***************************************************************************)
ServedWhileOpen ==
  stage \in {"closing", "stopped", "failed"} =>
    \A s \in Slot : conn[s] # "waiting"

(***************************************************************************)
(* PoolNeverStuck: when all clients of the pool are taken, one of their    *)
(* holders can go on without another: handlers never wait for each other,  *)
(* or for themselves, until they run into the timeout.                     *)
(***************************************************************************)
NeedsClient(s) == \E step \in {"query", "begin", "sync"} : At(s, step)

PoolNeverStuck ==
  Cardinality(clients) = PoolSize => \E s \in clients : ~NeedsClient(s)

(***************************************************************************)
(* RequestsEnd: every client that waits is answered.                       *)
(***************************************************************************)
RequestsEnd == \A s \in Slot : conn[s] = "waiting" ~> conn[s] # "waiting"

(***************************************************************************)
(* ShutdownEnds: after the first signal the process stops.                 *)
(***************************************************************************)
ShutdownEnds ==
  signals > 0 ~> stage \in {"stopped", "failed", "killed"}

=============================================================================
