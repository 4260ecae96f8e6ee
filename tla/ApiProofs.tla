----------------------------- MODULE ApiProofs -----------------------------
(***************************************************************************)
(* Proofs about the API process, for any number of connections, players    *)
(* and pooled clients.                                                     *)
(***************************************************************************)
EXTENDS Api, FiniteSetTheorems, TLAPS

Running(s) == handler[s] # NoRequest

\* the part of a handler between its transaction and its answer
CommandStep == {"begin", "work", "sync", "write"}
AfterCommit == {"sync", "write"}

RouteSteps ==
  \A s \in Slot : Running(s) =>
    (handler[s].step \in CommandStep <=> handler[s].kind \in Command)

\* a client of the pool is held during a transaction, and only then
ClientsHeld == clients = {s \in Slot : At(s, "work")}

CommittedSteps == committed = {s \in Slot : Running(s) /\ handler[s].step \in AfterCommit}

AdminsSeen ==
  \A s \in Slot : Running(s) /\ Admin(handler[s].player) => s \in wasAdmin

NobodyWaits ==
  stage \in {"closing", "stopped", "failed"} =>
    \A s \in Slot : conn[s] \in {"none", "gone"}

ApiInv ==
  /\ TypeOK
  /\ RouteSteps /\ ClientsHeld /\ CommittedSteps
  /\ AdminsSeen /\ EnqueueByAdmin /\ CommitReported
  /\ NobodyWaits

\* an account changes, and nobody becomes admin
NoNewAdmin ==
  /\ account' \in [Player -> {"none", "deleted"} \cup Role]
  /\ \A p \in Player : Admin(p)' => Admin(p)

-----------------------------------------------------------------------------
LEMMA NoRequestNotRequest == NoRequest \notin Request
  BY DEF NoRequest, Request

LEMMA RunningRequest ==
  ASSUME TypeOK, NEW s \in Slot
  PROVE  Running(s) <=> handler[s] \in Request
  BY NoRequestNotRequest DEF TypeOK, Running

\* the clients of the pool are finitely many
LEMMA ClientsFinite ==
  ASSUME TypeOK
  PROVE  IsFiniteSet(clients) /\ Cardinality(clients) \in Nat
  BY ApiAssumption, FS_Subset, FS_CardinalityType DEF TypeOK

LEMMA FewerClients ==
  ASSUME TypeOK, NEW s, clients' = clients \ {s}
  PROVE  clients' \subseteq Slot /\ Cardinality(clients') <= PoolSize
<1>1. clients \ {s} \subseteq clients
  OBVIOUS
<1>2. Cardinality(clients \ {s}) <= Cardinality(clients)
      /\ Cardinality(clients \ {s}) \in Nat
  BY <1>1, ClientsFinite, FS_Subset, FS_CardinalityType
<1> QED BY <1>2, ClientsFinite, ApiAssumption DEF TypeOK

(***************************************************************************)
(* The end of a request: its handler answers and holds nothing any more.   *)
(***************************************************************************)
LEMMA AnswerStep ==
  ASSUME ApiInv, NEW s \in Slot, NEW status, Running(s), Respond(s, status),
         handler[s].kind \in Command =>
           (status = "ok" <=> handler[s].step \in AfterCommit),
         clients' = clients \ {s},
         UNCHANGED <<stage, signals>>, NoNewAdmin,
         token' \in [Player -> Role \cup {"none"}]
  PROVE  ApiInv'
<1>1. /\ handler' = [handler EXCEPT ![s] = NoRequest]
      /\ wasAdmin' = wasAdmin \ {s} /\ committed' = committed \ {s}
      /\ TypeOK
  BY DEF Respond, ApiInv
<1>2. PICK next \in {"idle", "none"} : /\ conn' = [conn EXCEPT ![s] = next]
                                       /\ conn[s] # "waiting" => next = "none"
  BY DEF Respond
<1>3. handler'[s] = NoRequest /\ \A x \in Slot \ {s} : handler'[x] = handler[x]
  BY <1>1 DEF TypeOK
<1>4. conn'[s] = next /\ \A x \in Slot \ {s} : conn'[x] = conn[x]
  BY <1>1, <1>2 DEF TypeOK
<1>5. misled' = FALSE /\ misled = FALSE
  <2>1. handler[s].kind \in Command => (status = "ok" <=> s \in committed)
    BY DEF ApiInv, CommittedSteps
  <2>2. misled = FALSE
    BY <1>1 DEF ApiInv, CommitReported, TypeOK
  <2> DEFINE told == /\ conn[s] = "waiting" /\ handler[s].kind \in Command
                     /\ ~(status = "ok" <=> s \in committed)
  <2>3. ~told
    BY <2>1, Zenon
  <2>4. misled' = (misled \/ told)
    BY DEF Respond
  <2>5. (misled \/ told) = FALSE
    BY <2>2, <2>3, Zenon
  <2> QED BY <2>2, <2>4, <2>5, Zenon
<1>6. TypeOK'
  <2>1. \A x \in Slot : (handler'[x] # NoRequest) <=> (conn'[x] \in {"waiting", "gone"})
    BY <1>1, <1>2, <1>3, <1>4 DEF TypeOK
  <2>2. /\ conn' \in [Slot -> {"none", "idle", "waiting", "gone"}]
        /\ handler' \in [Slot -> Request \cup {NoRequest}]
    BY <1>1, <1>2 DEF TypeOK
  <2>3. clients' \subseteq Slot /\ Cardinality(clients') <= PoolSize
    BY <1>1, FewerClients
  <2> QED BY <1>1, <1>5, <2>1, <2>2, <2>3 DEF TypeOK, NoNewAdmin
<1>7. RouteSteps'
  BY <1>3 DEF ApiInv, RouteSteps, Running
<1>8. ClientsHeld'
  BY <1>3 DEF ApiInv, ClientsHeld, At
<1>9. CommittedSteps'
  BY <1>1, <1>3 DEF ApiInv, CommittedSteps, Running
<1>10. AdminsSeen'
  <2> SUFFICES ASSUME NEW x \in Slot, Running(x)', Admin(handler[x].player)'
               PROVE  x \in wasAdmin'
    BY DEF AdminsSeen
  <2>1. x # s /\ handler'[x] = handler[x] /\ Running(x)
    BY <1>3 DEF Running
  <2>2. handler[x].player \in Player
    BY <1>1, <2>1, RunningRequest DEF Request
  <2>3. Admin(handler[x].player)
    BY <2>1, <2>2 DEF NoNewAdmin, Admin
  <2> QED BY <1>1, <2>1, <2>3 DEF ApiInv, AdminsSeen
<1>11. EnqueueByAdmin' /\ CommitReported'
  BY <1>1, <1>3, <1>5 DEF ApiInv, EnqueueByAdmin, CommitReported, At
<1>12. NobodyWaits'
  BY <1>2, <1>4 DEF ApiInv, NobodyWaits
<1> QED BY <1>6, <1>7, <1>8, <1>9, <1>10, <1>11, <1>12 DEF ApiInv

(***************************************************************************)
(* A step of a handler to its next await.                                  *)
(***************************************************************************)
LEMMA MoveStep ==
  ASSUME ApiInv, NEW s \in Slot, NEW r \in Request, Running(s),
         handler' = [handler EXCEPT ![s] = r],
         r.player = handler[s].player,
         r.step \in CommandStep <=> r.kind \in Command,
         clients' = IF r.step = "work" THEN clients \cup {s} ELSE clients \ {s},
         r.step = "work" => Cardinality(clients) < PoolSize,
         committed' = IF r.step \in AfterCommit THEN committed \cup {s}
                      ELSE committed \ {s},
         r.step = "redis" /\ r.kind = "admin" => s \in wasAdmin,
         NoNewAdmin,
         UNCHANGED <<stage, signals, conn, token, wasAdmin, misled>>
  PROVE  ApiInv'
<1>1. TypeOK /\ r # NoRequest
  BY NoRequestNotRequest DEF ApiInv
<1>2. handler'[s] = r /\ \A x \in Slot \ {s} : handler'[x] = handler[x]
  BY <1>1 DEF TypeOK
<1>3. clients' \subseteq Slot /\ Cardinality(clients') <= PoolSize
  <2>1. CASE r.step = "work"
    <3>1. Cardinality(clients \cup {s}) \in {Cardinality(clients), Cardinality(clients) + 1}
      BY <1>1, ClientsFinite, FS_AddElement
    <3>2. Cardinality(clients \cup {s}) <= PoolSize
      BY <1>1, <2>1, <3>1, ClientsFinite, ApiAssumption
    <3> QED BY <1>1, <2>1, <3>2 DEF TypeOK
  <2>2. CASE r.step # "work"
    BY <1>1, <2>2, FewerClients
  <2> QED BY <2>1, <2>2
<1>4. TypeOK'
  <2>1. \A x \in Slot : (handler'[x] # NoRequest) <=> (conn'[x] \in {"waiting", "gone"})
    BY <1>1, <1>2 DEF TypeOK, Running
  <2>2. handler' \in [Slot -> Request \cup {NoRequest}]
    BY <1>1 DEF TypeOK
  <2>3. committed' \subseteq Slot
    BY <1>1 DEF TypeOK
  <2> QED BY <1>1, <1>3, <2>1, <2>2, <2>3 DEF TypeOK, NoNewAdmin
<1>5. RouteSteps'
  BY <1>2 DEF ApiInv, RouteSteps, Running
<1>6. ClientsHeld'
  BY <1>1, <1>2 DEF ApiInv, ClientsHeld, At
<1>7. CommittedSteps'
  BY <1>1, <1>2 DEF ApiInv, CommittedSteps, Running
<1>8. AdminsSeen'
  <2> SUFFICES ASSUME NEW x \in Slot, Running(x)', Admin(handler[x].player)'
               PROVE  x \in wasAdmin'
    BY DEF AdminsSeen
  <2>1. Running(x) /\ handler'[x].player = handler[x].player
    BY <1>2 DEF Running
  <2>2. handler[x].player \in Player
    BY <1>1, <2>1, RunningRequest DEF Request
  <2>3. Admin(handler[x].player)
    BY <2>1, <2>2 DEF NoNewAdmin, Admin
  <2> QED BY <2>1, <2>3 DEF ApiInv, AdminsSeen
<1>9. EnqueueByAdmin' /\ CommitReported' /\ NobodyWaits'
  BY <1>2 DEF ApiInv, EnqueueByAdmin, CommitReported, NobodyWaits, At
<1> QED BY <1>4, <1>5, <1>6, <1>7, <1>8, <1>9 DEF ApiInv

LEMMA GotoStep ==
  ASSUME ApiInv, NEW s \in Slot, Running(s), NEW step \in
           {"query", "verify", "begin", "work", "sync", "write", "redis"},
         Goto(s, step),
         step \in CommandStep <=> handler[s].kind \in Command,
         clients' = IF step = "work" THEN clients \cup {s} ELSE clients \ {s},
         step = "work" => Cardinality(clients) < PoolSize,
         committed' = IF step \in AfterCommit THEN committed \cup {s}
                      ELSE committed \ {s},
         step = "redis" /\ handler[s].kind = "admin" => s \in wasAdmin,
         NoNewAdmin,
         UNCHANGED <<stage, signals, conn, token, wasAdmin, misled>>
  PROVE  ApiInv'
<1> DEFINE r == [handler[s] EXCEPT !.step = step]
<1>1. handler[s] \in Request
  BY RunningRequest DEF ApiInv
<1>2. r \in Request /\ r.step = step /\ r.kind = handler[s].kind
      /\ r.player = handler[s].player
  BY <1>1 DEF Request
<1>3. handler' = [handler EXCEPT ![s] = r]
  BY DEF Goto
<1> HIDE DEF r
<1> QED BY <1>2, <1>3, MoveStep

\* what a handler that is not in a transaction, or not past one, does not hold
LEMMA NothingHeld ==
  ASSUME ApiInv, NEW s \in Slot
  PROVE  /\ ~At(s, "work") => clients = clients \ {s}
         /\ handler[s].step \notin AfterCommit => committed = committed \ {s}
         /\ Running(s) /\ handler[s].step \in AfterCommit => committed = committed \cup {s}
  BY DEF ApiInv, ClientsHeld, CommittedSteps

LEMMA SameAccounts ==
  ASSUME TypeOK, UNCHANGED account
  PROVE  NoNewAdmin
  BY DEF TypeOK, NoNewAdmin, Admin

LEMMA AppliedAccounts ==
  ASSUME TypeOK, NEW s, Applied(s)
  PROVE  NoNewAdmin
  BY DEF TypeOK, NoNewAdmin, Admin, Applied, Role

-----------------------------------------------------------------------------
LEMMA FindByEmailKeeps ==
  ASSUME ApiInv, NEW s \in Slot, FindByEmail(s)
  PROVE  ApiInv'
<1> DEFINE p == handler[s].player
           role == IF Exists(p) THEN account[p] ELSE "none"
           r == [handler[s] EXCEPT !.step = "verify", !.role = role]
<1>1. Running(s) /\ handler[s].step = "query" /\ handler[s].kind = "login" /\ TypeOK
  BY DEF FindByEmail, Query, At, Running, ApiInv
<1>2. handler[s] \in Request
  BY <1>1, RunningRequest
<1>3. role \in Role \cup {"none"}
  BY DEF Exists
<1>4. r \in Request /\ r.step = "verify" /\ r.kind = "login" /\ r.player = p
  BY <1>1, <1>2, <1>3 DEF Request
<1>5. handler' = [handler EXCEPT ![s] = r]
  BY DEF FindByEmail
<1>6. NoNewAdmin
  BY <1>1, SameAccounts DEF FindByEmail, Query, roleVars
<1>7. clients' = clients \ {s} /\ committed' = committed \ {s}
  BY <1>1, NothingHeld DEF FindByEmail, Query, At, AfterCommit
<1>8. UNCHANGED <<stage, signals, conn, token, wasAdmin, misled>>
  BY DEF FindByEmail, Query, processVars, roleVars
<1> HIDE DEF r
<1> QED BY <1>1, <1>4, <1>5, <1>6, <1>7, <1>8, MoveStep DEF CommandStep, Command, AfterCommit

(***************************************************************************)
(* Requests that are answered without a transaction, and at its end.       *)
(***************************************************************************)
\* an answer by a handler that holds no client, and changes no account
LEMMA FreeAnswer ==
  ASSUME ApiInv, NEW s \in Slot, NEW status, Running(s), Respond(s, status),
         handler[s].kind \in Command =>
           (status = "ok" <=> handler[s].step \in AfterCommit),
         ~At(s, "work"),
         UNCHANGED <<stage, signals, clients, account>>,
         token' \in [Player -> Role \cup {"none"}]
  PROVE  ApiInv'
<1>1. clients' = clients \ {s}
  BY NothingHeld
<1>2. NoNewAdmin
  BY SameAccounts DEF ApiInv
<1> QED BY <1>1, <1>2, AnswerStep

LEMMA QueryAnswers ==
  ASSUME ApiInv, NEW s \in Slot,
         FindState(s) \/ CheckReadiness(s) \/ QueryFails(s)
         \/ (Query(s, "admin") /\ Respond(s, "refused"))
  PROVE  ApiInv'
<1>1. Running(s) /\ handler[s].step = "query" /\ ~At(s, "work")
  BY DEF FindState, CheckReadiness, QueryFails, Query, At, Running
<1>2. handler[s].kind \notin Command
  BY <1>1 DEF ApiInv, RouteSteps, CommandStep
<1>3. UNCHANGED <<stage, signals, clients, account>> /\ token' = token
  BY DEF FindState, CheckReadiness, QueryFails, Query, processVars, roleVars
<1>4. token' \in [Player -> Role \cup {"none"}]
  BY <1>3 DEF ApiInv, TypeOK
<1>5. PICK status : Respond(s, status)
  BY DEF FindState, CheckReadiness, QueryFails, Reject
<1> QED BY <1>1, <1>2, <1>3, <1>4, <1>5, FreeAnswer

LEMMA VerifyKeeps ==
  ASSUME ApiInv, NEW s \in Slot, Verify(s)
  PROVE  ApiInv'
<1>1. Running(s) /\ handler[s].step = "verify" /\ ~At(s, "work")
  BY DEF Verify, At, Running
<1>2. handler[s] \in Request /\ handler[s].kind \notin Command
  BY <1>1, RunningRequest DEF ApiInv, RouteSteps, CommandStep
<1>3. token' \in [Player -> Role \cup {"none"}]
  BY <1>2 DEF Verify, IssueAccessToken, ApiInv, TypeOK, Request
<1>4. PICK status : Respond(s, status)
  BY DEF Verify, Reject
<1>5. UNCHANGED <<stage, signals, clients, account>>
  BY DEF Verify, processVars
<1> QED BY <1>1, <1>2, <1>3, <1>4, <1>5, FreeAnswer

LEMMA RedisAnswers ==
  ASSUME ApiInv, NEW s \in Slot,
         UseRedis(s) \/ RedisFails(s) \/ RefuseInput(s)
  PROVE  ApiInv'
<1>1. Running(s) /\ handler[s].step = "redis" /\ ~At(s, "work")
  BY DEF UseRedis, RedisFails, RefuseInput, At, Running
<1>2. handler[s].kind \notin Command
  BY <1>1 DEF ApiInv, RouteSteps, CommandStep
<1>3. UNCHANGED <<stage, signals, clients, account>> /\ token' = token
  BY DEF UseRedis, RedisFails, RefuseInput, processVars, roleVars
<1>4. token' \in [Player -> Role \cup {"none"}]
  BY <1>3 DEF ApiInv, TypeOK
<1>5. PICK status : Respond(s, status)
  BY DEF UseRedis, RedisFails, RefuseInput
<1> QED BY <1>1, <1>2, <1>3, <1>4, <1>5, FreeAnswer

\* after the COMMIT every way to end is a success
LEMMA SyncAnswers ==
  ASSUME ApiInv, NEW s \in Slot, SyncFails(s) \/ Write(s)
  PROVE  ApiInv'
<1>1. Running(s) /\ handler[s].step \in AfterCommit /\ ~At(s, "work")
  BY DEF SyncFails, Write, At, Running, AfterCommit
<1>2. UNCHANGED <<stage, signals, clients, account>> /\ token' = token
  BY DEF SyncFails, Write, processVars, roleVars
<1>3. token' \in [Player -> Role \cup {"none"}]
  BY <1>2 DEF ApiInv, TypeOK
<1>4. Respond(s, "ok")
  BY DEF SyncFails, Write
<1> QED BY <1>1, <1>2, <1>3, <1>4, FreeAnswer

LEMMA TransactionAnswers ==
  ASSUME ApiInv, NEW s \in Slot, BeginFails(s) \/ Decline(s) \/ WorkFails(s)
  PROVE  ApiInv'
<1>1. Running(s) /\ handler[s].step \in {"begin", "work"}
  BY DEF BeginFails, Decline, WorkFails, At, Running
<1>2. clients' = clients \ {s}
  BY <1>1, NothingHeld DEF BeginFails, Decline, WorkFails, At
<1>3. UNCHANGED <<stage, signals>> /\ token' = token
  BY DEF BeginFails, Decline, WorkFails, processVars, roleVars
<1>4. token' \in [Player -> Role \cup {"none"}]
  BY <1>3 DEF ApiInv, TypeOK
<1>5. NoNewAdmin
  BY SameAccounts, AppliedAccounts DEF ApiInv, BeginFails, Decline, WorkFails, roleVars
<1>6. PICK status \in {"refused", "error"} : Respond(s, status)
  BY DEF BeginFails, Decline, WorkFails, Reject
<1> QED BY <1>1, <1>2, <1>3, <1>4, <1>5, <1>6, AnswerStep DEF AfterCommit

(***************************************************************************)
(* The other awaits.                                                       *)
(***************************************************************************)
LEMMA CheckAdminKeeps ==
  ASSUME ApiInv, NEW s \in Slot, CheckAdmin(s)
  PROVE  ApiInv'
<1>1. CASE AllowsAdmin(s)
  <2>1. Running(s) /\ handler[s].step = "query" /\ handler[s].kind = "admin"
    BY DEF CheckAdmin, Query, At, Running
  <2>2. s \in wasAdmin
    BY <1>1, <2>1 DEF AllowsAdmin, ApiInv, AdminsSeen
  <2>3. Goto(s, "redis")
        /\ UNCHANGED <<stage, signals, conn, token, account, wasAdmin, misled>>
    BY <1>1 DEF CheckAdmin, Query, processVars, roleVars
  <2>4. NoNewAdmin
    BY <2>3, SameAccounts DEF ApiInv
  <2>5. clients' = clients \ {s} /\ committed' = committed \ {s}
    BY <1>1, <2>1, NothingHeld DEF CheckAdmin, Query, At, AfterCommit
  <2> QED BY <2>1, <2>2, <2>3, <2>4, <2>5, GotoStep DEF CommandStep, Command, AfterCommit
<1>2. CASE ~AllowsAdmin(s)
  BY <1>2, QueryAnswers DEF CheckAdmin
<1> QED BY <1>1, <1>2

LEMMA BeginKeeps ==
  ASSUME ApiInv, NEW s \in Slot, Begin(s)
  PROVE  ApiInv'
<1>1. Running(s) /\ handler[s].step = "begin"
  BY DEF Begin, At, Running
<1>2. handler[s].kind \in Command /\ committed' = committed \ {s}
  BY <1>1, NothingHeld DEF Begin, ApiInv, RouteSteps, CommandStep, AfterCommit
<1>3. /\ Goto(s, "work") /\ clients' = clients \cup {s}
      /\ Cardinality(clients) < PoolSize
      /\ UNCHANGED <<stage, signals, conn, token, account, wasAdmin, misled>>
  BY DEF Begin, ClientFree, processVars, roleVars
<1>4. NoNewAdmin
  BY <1>3, SameAccounts DEF ApiInv
<1> QED BY <1>1, <1>2, <1>3, <1>4, GotoStep DEF CommandStep, AfterCommit

LEMMA CommitKeeps ==
  ASSUME ApiInv, NEW s \in Slot, Commit(s)
  PROVE  ApiInv'
<1>1. Running(s) /\ handler[s].step = "work"
  BY DEF Commit, At, Running
<1>2. handler[s].kind \in Command
  BY <1>1 DEF ApiInv, RouteSteps, CommandStep
<1>3. /\ Goto(s, "sync")
      /\ clients' = clients \ {s} /\ committed' = committed \cup {s}
      /\ UNCHANGED <<stage, signals, conn, token, wasAdmin, misled>>
  BY DEF Commit, processVars
<1>4. NoNewAdmin
  BY AppliedAccounts DEF ApiInv, Commit
<1> QED BY <1>1, <1>2, <1>3, <1>4, GotoStep DEF CommandStep, AfterCommit

LEMMA SyncKeeps ==
  ASSUME ApiInv, NEW s \in Slot, Sync(s)
  PROVE  ApiInv'
<1>1. Running(s) /\ handler[s].step = "sync"
  BY DEF Sync, At, Running
<1>2. handler[s].kind \in Command
  BY <1>1 DEF ApiInv, RouteSteps, CommandStep
<1>3. clients' = clients \ {s} /\ committed' = committed \cup {s}
  BY <1>1, NothingHeld DEF Sync, At, AfterCommit
<1>4. Goto(s, "write")
      /\ UNCHANGED <<stage, signals, conn, token, account, wasAdmin, misled>>
  BY DEF Sync, processVars, roleVars
<1>5. NoNewAdmin
  BY <1>4, SameAccounts DEF ApiInv
<1> QED BY <1>1, <1>2, <1>3, <1>4, <1>5, GotoStep DEF CommandStep, AfterCommit

LEMMA HandlerKeeps ==
  ASSUME ApiInv, NEW s \in Slot, HandlerStep(s)
  PROVE  ApiInv'
BY FindByEmailKeeps, QueryAnswers, VerifyKeeps, RedisAnswers, SyncAnswers,
   TransactionAnswers, CheckAdminKeeps, BeginKeeps, CommitKeeps, SyncKeeps
   DEF HandlerStep

-----------------------------------------------------------------------------
(***************************************************************************)
(* Connections and arrivals.                                               *)
(***************************************************************************)
LEMMA ConnectionKeeps ==
  ASSUME ApiInv, NEW s \in Slot,
         Connect(s) \/ CloseIdle(s) \/ Disconnect(s) \/ RefuseArrival(s)
  PROVE  ApiInv'
<1>1. /\ UNCHANGED <<stage, signals, handler, clients, account, token, wasAdmin,
                     committed, misled>>
      /\ TypeOK
  BY DEF ApiInv, Connect, CloseIdle, Disconnect, RefuseArrival, processVars, roleVars
<1>2. PICK next \in {"none", "idle", "gone"} :
        /\ conn' = [conn EXCEPT ![s] = next]
        /\ next = "gone" <=> conn[s] = "waiting"
        /\ conn[s] # "gone"
        /\ next = "idle" => stage = "running" \/ conn[s] = "idle"
  BY DEF Connect, CloseIdle, Disconnect, RefuseArrival
<1>3. conn'[s] = next /\ \A x \in Slot \ {s} : conn'[x] = conn[x]
  BY <1>1, <1>2 DEF TypeOK
<1>4. TypeOK'
  <2>1. \A x \in Slot : (handler'[x] # NoRequest) <=> (conn'[x] \in {"waiting", "gone"})
    BY <1>1, <1>2, <1>3 DEF TypeOK
  <2>2. conn' \in [Slot -> {"none", "idle", "waiting", "gone"}]
    BY <1>1, <1>2 DEF TypeOK
  <2> QED BY <1>1, <2>1, <2>2 DEF TypeOK
<1>5. NobodyWaits'
  BY <1>1, <1>2, <1>3 DEF ApiInv, NobodyWaits
<1> QED BY <1>1, <1>4, <1>5 DEF ApiInv, RouteSteps, ClientsHeld, CommittedSteps,
     AdminsSeen, EnqueueByAdmin, CommitReported, Running, At, Admin

LEMMA ArriveKeeps ==
  ASSUME ApiInv, NEW s \in Slot, NEW p \in Player,
         NEW kind \in {"signup", "command", "login", "ready", "state", "board", "admin"},
         NEW step \in {"query", "begin", "redis"}, NEW role \in Role \cup {"none"},
         step \in CommandStep <=> kind \in Command,
         ~(step = "redis" /\ kind = "admin"),
         Arrive(s, p, kind, step, role)
  PROVE  ApiInv'
<1> DEFINE r == [kind |-> kind, player |-> p, step |-> step, role |-> role]
<1>1. /\ handler' = [handler EXCEPT ![s] = r]
      /\ conn' = [conn EXCEPT ![s] = "waiting"]
      /\ wasAdmin' = IF Admin(p) THEN wasAdmin \cup {s} ELSE wasAdmin
      /\ UNCHANGED <<stage, signals, clients, account, token, committed, misled>>
      /\ conn[s] = "idle" /\ TypeOK
  BY DEF Arrive, ApiInv, processVars, roleVars
<1>2. r \in Request /\ r # NoRequest
  <2>1. r \in Request
    BY DEF Request
  <2> QED BY <2>1, NoRequestNotRequest
<1>3. handler'[s] = r /\ \A x \in Slot \ {s} : handler'[x] = handler[x]
  BY <1>1 DEF TypeOK
<1>4. conn'[s] = "waiting" /\ \A x \in Slot \ {s} : conn'[x] = conn[x]
  BY <1>1 DEF TypeOK
<1>5. ~Running(s)
  BY <1>1 DEF TypeOK, Running
<1>6. TypeOK'
  <2>1. \A x \in Slot : (handler'[x] # NoRequest) <=> (conn'[x] \in {"waiting", "gone"})
    BY <1>1, <1>2, <1>3, <1>4 DEF TypeOK
  <2>2. /\ conn' \in [Slot -> {"none", "idle", "waiting", "gone"}]
        /\ handler' \in [Slot -> Request \cup {NoRequest}]
        /\ wasAdmin' \subseteq Slot
    BY <1>1, <1>2 DEF TypeOK
  <2> QED BY <1>1, <2>1, <2>2 DEF TypeOK
<1>7. RouteSteps'
  BY <1>3 DEF ApiInv, RouteSteps, Running
<1>8. ClientsHeld' /\ CommittedSteps'
  <2>1. r.step \notin {"work", "sync", "write"}
    OBVIOUS
  <2> HIDE DEF r
  <2> QED BY <1>1, <1>3, <1>5, <2>1
       DEF ApiInv, ClientsHeld, CommittedSteps, At, Running, AfterCommit
<1>9. AdminsSeen'
  <2> SUFFICES ASSUME NEW x \in Slot, Running(x)', Admin(handler[x].player)'
               PROVE  x \in wasAdmin'
    BY DEF AdminsSeen
  <2>1. CASE x = s
    BY <1>1, <1>3, <2>1 DEF Admin
  <2>2. CASE x # s
    BY <1>1, <1>3, <2>2 DEF ApiInv, AdminsSeen, Running, Admin
  <2> QED BY <2>1, <2>2
<1>10. EnqueueByAdmin' /\ CommitReported' /\ NobodyWaits'
  BY <1>1, <1>3, <1>4 DEF ApiInv, EnqueueByAdmin, CommitReported, NobodyWaits, At
<1> QED BY <1>6, <1>7, <1>8, <1>9, <1>10 DEF ApiInv

LEMMA RoutesKeep ==
  ASSUME ApiInv, NEW s \in Slot, NEW p \in Player,
         \/ SignupRoute(s, p) \/ LoginRoute(s, p) \/ ReadyRoute(s, p)
         \/ StateRoute(s, p) \/ CommandRoute(s, p) \/ BoardRoute(s, p)
         \/ AdminRoute(s, p)
  PROVE  ApiInv'
<1> USE DEF CommandStep, Command
<1>1. token[p] \in Role \cup {"none"}
  BY DEF ApiInv, TypeOK
<1>2. CASE SignupRoute(s, p) \/ CommandRoute(s, p)
  BY <1>2, ArriveKeeps DEF SignupRoute, CommandRoute
<1>3. CASE LoginRoute(s, p) \/ ReadyRoute(s, p) \/ StateRoute(s, p)
  BY <1>3, ArriveKeeps DEF LoginRoute, ReadyRoute, StateRoute
<1>4. CASE BoardRoute(s, p)
  BY <1>4, ArriveKeeps DEF BoardRoute
<1>5. CASE AdminRoute(s, p)
  BY <1>1, <1>5, ArriveKeeps DEF AdminRoute
<1> QED BY <1>2, <1>3, <1>4, <1>5

-----------------------------------------------------------------------------
(***************************************************************************)
(* Operators, and the end of the process.                                  *)
(***************************************************************************)
LEMMA OperatorKeeps ==
  ASSUME ApiInv, NEW p \in Player, ChangeRole(p) \/ Remove(p) \/ ExpireToken(p)
  PROVE  ApiInv'
<1>1. CASE ChangeRole(p) \/ Remove(p)
  <2>1. PICK role \in Role \cup {"deleted"} : SetAccount(p, role)
    BY <1>1 DEF ChangeRole, Remove
  <2>2. /\ account' = [account EXCEPT ![p] = role]
        /\ wasAdmin' = IF role = "admin"
                       THEN wasAdmin \cup {s \in Slot : handler[s].player = p}
                       ELSE wasAdmin
        /\ UNCHANGED <<stage, signals, conn, handler, clients, token, committed, misled>>
        /\ TypeOK
    BY <2>1 DEF SetAccount, processVars, ApiInv
  <2>3. TypeOK'
    BY <2>2 DEF TypeOK
  <2>4. AdminsSeen'
    <3> SUFFICES ASSUME NEW x \in Slot, Running(x)', Admin(handler[x].player)'
                 PROVE  x \in wasAdmin'
      BY DEF AdminsSeen
    <3>1. Running(x) /\ handler'[x] = handler[x]
      BY <2>2 DEF Running
    <3>2. handler[x].player \in Player
      BY <2>2, <3>1, RunningRequest DEF Request
    <3>3. CASE handler[x].player = p
      BY <2>2, <3>1, <3>3 DEF Admin, TypeOK
    <3>4. CASE handler[x].player # p
      BY <2>2, <3>1, <3>2, <3>4 DEF Admin, TypeOK, ApiInv, AdminsSeen
    <3> QED BY <3>3, <3>4
  <2>5. wasAdmin \subseteq wasAdmin'
    BY <2>2
  <2> QED BY <2>2, <2>3, <2>4, <2>5 DEF ApiInv, RouteSteps, ClientsHeld, CommittedSteps,
       EnqueueByAdmin, CommitReported, NobodyWaits, Running, At
<1>2. CASE ExpireToken(p)
  <2>1. /\ UNCHANGED <<stage, signals, conn, handler, clients, account, wasAdmin,
                       committed, misled>>
        /\ token' = [token EXCEPT ![p] = "none"]
    BY <1>2 DEF ExpireToken, processVars, httpVars
  <2>2. TypeOK'
    BY <2>1 DEF ApiInv, TypeOK
  <2> QED BY <2>1, <2>2 DEF ApiInv, RouteSteps, ClientsHeld, CommittedSteps,
       AdminsSeen, EnqueueByAdmin, CommitReported, NobodyWaits, Running, At, Admin
<1> QED BY <1>1, <1>2

LEMMA ShutdownKeeps ==
  ASSUME ApiInv, FirstOfKind \/ Drained \/ Stopped
  PROVE  ApiInv'
<1>1. /\ UNCHANGED <<handler, clients, account, token, wasAdmin, committed, misled>>
      /\ TypeOK
  BY DEF ApiInv, FirstOfKind, Shutdown, Drained, Stopped, httpVars, roleVars
<1>2. /\ stage' \in {"running", "draining", "closing", "stopped", "failed", "killed"}
      /\ signals' \in 0..2
  BY <1>1 DEF FirstOfKind, Shutdown, Drained, Stopped, TypeOK
<1>3. \/ conn' = conn
      \/ conn' = [s \in Slot |-> IF conn[s] = "idle" THEN "none" ELSE conn[s]]
  BY DEF FirstOfKind, Shutdown, Drained, Stopped, httpVars
<1>4. TypeOK'
  BY <1>1, <1>2, <1>3 DEF TypeOK
<1>5. NobodyWaits'
  BY <1>1, <1>3 DEF ApiInv, NobodyWaits, FirstOfKind, Shutdown, Drained, Stopped, httpVars
<1> QED BY <1>1, <1>4, <1>5 DEF ApiInv, RouteSteps, ClientsHeld, CommittedSteps,
     AdminsSeen, EnqueueByAdmin, CommitReported, Running, At, Admin

LEMMA KillKeeps ==
  ASSUME ApiInv, SecondOfKind
  PROVE  ApiInv'
<1>1. /\ stage' = "killed" /\ UNCHANGED <<signals, account, token, misled>>
      /\ conn' = [s \in Slot |-> "none"]
      /\ handler' = [s \in Slot |-> NoRequest]
      /\ clients' = {} /\ wasAdmin' = {} /\ committed' = {} /\ TypeOK
  BY DEF SecondOfKind, Kill, ApiInv, roleVars
<1>2. Cardinality(clients') <= PoolSize
  BY <1>1, FS_EmptySet, ApiAssumption
<1>3. TypeOK'
  BY <1>1, <1>2 DEF TypeOK
<1> QED BY <1>1, <1>3 DEF ApiInv, RouteSteps, ClientsHeld, CommittedSteps,
     AdminsSeen, EnqueueByAdmin, CommitReported, NobodyWaits, Running, At

-----------------------------------------------------------------------------
LEMMA ApiInit ==
  ASSUME Init
  PROVE  ApiInv
<1>1. Cardinality({}) <= PoolSize
  BY FS_EmptySet, ApiAssumption
<1>2. TypeOK
  <2>1. /\ conn \in [Slot -> {"none", "idle", "waiting", "gone"}]
        /\ handler \in [Slot -> Request \cup {NoRequest}]
        /\ account \in [Player -> {"none", "deleted"} \cup Role]
        /\ token \in [Player -> Role \cup {"none"}]
        /\ \A s \in Slot : (handler[s] # NoRequest) <=> (conn[s] \in {"waiting", "gone"})
    BY DEF Init
  <2>2. /\ stage \in {"running", "draining", "closing", "stopped", "failed", "killed"}
        /\ signals \in 0..2
        /\ wasAdmin \subseteq Slot /\ committed \subseteq Slot
        /\ clients \subseteq Slot /\ clients = {}
    BY DEF Init
  <2>3. misled \in BOOLEAN
    BY Zenon DEF Init
  <2> QED BY <1>1, <2>1, <2>2, <2>3 DEF TypeOK
<1>3. \A s \in Slot : ~Running(s)
  BY DEF Init, Running
<1>4. ClientsHeld /\ CommittedSteps
  <2>1. clients = {} /\ committed = {}
    BY DEF Init
  <2>2. {s \in Slot : At(s, "work")} = {}
    BY <1>3 DEF Running, At
  <2>3. {s \in Slot : Running(s) /\ handler[s].step \in AfterCommit} = {}
    BY <1>3
  <2> QED BY <2>1, <2>2, <2>3 DEF ClientsHeld, CommittedSteps
<1>5. RouteSteps /\ AdminsSeen /\ EnqueueByAdmin
  BY <1>3 DEF RouteSteps, AdminsSeen, EnqueueByAdmin, Running, At
<1>6. CommitReported
  BY Zenon DEF Init, CommitReported
<1>7. NobodyWaits
  BY DEF Init, NobodyWaits
<1> QED BY <1>2, <1>4, <1>5, <1>6, <1>7 DEF ApiInv

LEMMA ApiStep ==
  ASSUME ApiInv, [Next]_vars
  PROVE  ApiInv'
<1>1. ASSUME NEW s \in Slot,
             \/ Connect(s) \/ CloseIdle(s) \/ Disconnect(s)
             \/ \E p \in Player :
                  \/ SignupRoute(s, p) \/ LoginRoute(s, p) \/ ReadyRoute(s, p)
                  \/ StateRoute(s, p) \/ CommandRoute(s, p) \/ BoardRoute(s, p)
                  \/ AdminRoute(s, p)
             \/ RefuseArrival(s)
             \/ HandlerStep(s)
      PROVE  ApiInv'
  BY <1>1, ConnectionKeeps, RoutesKeep, HandlerKeeps
<1>2. ASSUME NEW p \in Player, ChangeRole(p) \/ Remove(p) \/ ExpireToken(p)
      PROVE  ApiInv'
  BY <1>2, OperatorKeeps
<1>3. CASE FirstOfKind \/ SecondOfKind \/ Drained \/ Stopped
  BY <1>3, ShutdownKeeps, KillKeeps
<1>4. CASE UNCHANGED vars
  <2>1. TypeOK'
    BY <1>4 DEF ApiInv, TypeOK, vars
  <2> QED BY <1>4, <2>1 DEF vars, ApiInv, RouteSteps, ClientsHeld, CommittedSteps,
       AdminsSeen, EnqueueByAdmin, CommitReported, NobodyWaits, Running, At, Admin
<1> QED BY <1>1, <1>2, <1>3, <1>4 DEF Next

(***************************************************************************)
(* In every state of the API process: what a handler holds, and what it    *)
(* knows, is told by the await it is at.                                   *)
(***************************************************************************)
THEOREM ApiInvariant == Spec => []ApiInv
BY ApiInit, ApiStep, PTL DEF Spec

\* The variables of module Api keep their types.
THEOREM ApiTypeCorrect == Spec => []TypeOK
<1>1. ApiInv => TypeOK
  BY DEF ApiInv
<1> QED BY <1>1, ApiInvariant, PTL

(***************************************************************************)
(* isAdmin reads the table for each request: whoever reaches the bonus     *)
(* queue was an admin while the request ran.                               *)
(***************************************************************************)
THEOREM AdminsOnly == Spec => []EnqueueByAdmin
<1>1. ApiInv => EnqueueByAdmin
  BY DEF ApiInv
<1> QED BY <1>1, ApiInvariant, PTL

(***************************************************************************)
(* A client that still listens is told of its signup or command exactly    *)
(* what was committed, whatever fails after the COMMIT.                    *)
(***************************************************************************)
THEOREM CommitsReported == Spec => []CommitReported
<1>1. ApiInv => CommitReported
  BY DEF ApiInv
<1> QED BY <1>1, ApiInvariant, PTL

(***************************************************************************)
(* The process closes what its handlers use only when no client waits.     *)
(***************************************************************************)
THEOREM NobodyCutOff == Spec => []ServedWhileOpen
<1>1. ApiInv => ServedWhileOpen
  BY DEF ApiInv, NobodyWaits, ServedWhileOpen
<1> QED BY <1>1, ApiInvariant, PTL

(***************************************************************************)
(* The handlers cannot exhaust the pool and then wait for each other: who  *)
(* holds a client never asks for a second one.                             *)
(***************************************************************************)
THEOREM NoPoolDeadlock == Spec => []PoolNeverStuck
<1>1. ASSUME ApiInv
      PROVE  PoolNeverStuck
  <2> SUFFICES ASSUME Cardinality(clients) = PoolSize
               PROVE  \E s \in clients : ~NeedsClient(s)
    BY DEF PoolNeverStuck
  <2>1. clients # {}
    BY FS_EmptySet, ApiAssumption
  <2>2. PICK s \in clients : At(s, "work")
    BY <1>1, <2>1 DEF ApiInv, ClientsHeld
  <2>3. ~NeedsClient(s)
    BY <2>2 DEF NeedsClient, At
  <2> QED BY <2>3
<1> QED BY <1>1, ApiInvariant, PTL

=============================================================================
