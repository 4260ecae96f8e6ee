------------------------------ MODULE Economy ------------------------------
(***************************************************************************)
(* The transactions that change the economy, one action per SQL statement: *)
(* purchases run on the API's pool connections (players/purchase.ts),      *)
(* world events on the worker's (world-events/service.ts).  Collection and *)
(* signup commit in one step and wait for the locks they need.             *)
(*                                                                         *)
(* PostgreSQL runs at READ COMMITTED: a statement sees what was committed  *)
(* before it, a row lock or a unique-index entry held by another           *)
(* transaction makes it wait, and a waiter continues from the row the      *)
(* holder committed.  Uncommitted versions live in the transaction's own   *)
(* record until commit; a rollback forgets them.                           *)
(***************************************************************************)
EXTENDS Ledger

CONSTANTS
  Api,          \* connections of the API process
  Worker,       \* connections of the worker processes
  Nobody,       \* no transaction
  NoOrder,      \* an API connection that was never used
  NoOccurrence  \* a worker connection that was never used

Tx == Api \cup Worker

ASSUME EconomyAssumption ==
  /\ Api \cap Worker = {}
  /\ Nobody \notin Tx
  /\ NoOccurrence \notin Occurrence

VARIABLES
  pc,           \* the next statement of each transaction, or "idle"
  order,        \* the purchase an API connection executes, and its reply
  award,        \* the world event a worker connection executes
  rowLock,      \* the transaction holding a player_resources row
  keyLock,      \* the transaction with an uncommitted purchase_commands row
  eventLock     \* the transaction with an uncommitted world_events row

txVars == <<pc, order, award, rowLock, keyLock, eventLock>>
vars == <<ledgerVars, txVars>>

Order == [player : Player, key : Key, building : Building, level : Nat,
          row : Row, reply : Reason \cup {"none", "player_not_found",
                                          "idempotency_key_reused"}]

Award == [occurrence : Occurrence \cup {NoOccurrence},
          eligible : SUBSET Player, todo : SUBSET Player]

NewAward(o) == [occurrence |-> o, eligible |-> {}, todo |-> {}]

ApiPc == {"idle", "reserve", "replay", "lock", "price", "pay", "settle",
          "upgrade", "save"}
WorkerPc == {"idle", "select", "acquire"}

(***************************************************************************)
(* TypeOK: the shape of the tables, the lock table and the transactions.   *)
(***************************************************************************)
TxTypeOK ==
  /\ pc \in [Tx -> ApiPc \cup WorkerPc]
  /\ order \in [Api -> Order \cup {NoOrder}]
  /\ award \in [Worker -> Award]
  /\ rowLock \in [Player -> Tx \cup {Nobody}]
  /\ keyLock \in [Player -> [Key -> Api \cup {Nobody}]]
  /\ eventLock \in [Occurrence -> Worker \cup {Nobody}]

TypeOK == LedgerTypeOK /\ TxTypeOK

Init ==
  /\ LedgerInit
  /\ pc = [c \in Tx |-> "idle"]
  /\ order = [c \in Api |-> NoOrder]
  /\ award = [w \in Worker |-> NewAward(NoOccurrence)]
  /\ rowLock = [p \in Player |-> Nobody]
  /\ keyLock = [p \in Player |-> [k \in Key |-> Nobody]]
  /\ eventLock = [o \in Occurrence |-> Nobody]

-----------------------------------------------------------------------------
(***************************************************************************)
(* Statements that commit by themselves.  Each waits for the row lock, and *)
(* the database clock is sampled once the lock is held: t is any reading,  *)
(* also one behind the checkpoint.                                         *)
(***************************************************************************)
SignupCommit(p, t) == Signup(p, t) /\ UNCHANGED txVars

CollectCommit(p, t) ==
  /\ rowLock[p] = Nobody
  /\ Collect(p, t)
  /\ UNCHANGED txVars

\* mutant: the purchase takes no key-share lock on the players row
DeleteUnderPurchase(p) ==
  /\ rowLock[p] = Nobody
  /\ Delete(p)
  /\ UNCHANGED txVars

(***************************************************************************)
(* DELETE waits for the key-share lock that an open purchase holds on the  *)
(* players row and for the locks on the rows the cascade removes.          *)
(***************************************************************************)
DeleteCommit(p) ==
  /\ rowLock[p] = Nobody
  /\ \A c \in Api : pc[c] # "idle" => order[c].player # p
  /\ Delete(p)
  /\ UNCHANGED txVars

-----------------------------------------------------------------------------
(***************************************************************************)
(* The purchase transaction.                                               *)
(***************************************************************************)
Goto(c, next) == pc' = [pc EXCEPT ![c] = next]

NewOrder(p, k, b, reply) ==
  [player |-> p, key |-> k, building |-> b, level |-> 0, row |-> NewRow(0),
   reply |-> reply]

Answer(o, reply, n) == [o EXCEPT !.reply = reply, !.level = n]
WithRow(o, row) == [o EXCEPT !.row = row]

\* BEGIN; SELECT ... FROM players ... FOR KEY SHARE.  A token outlives its
\* account: the request of a deleted player is refused and saves nothing.
BeginPurchase(c, p, k, b) ==
  /\ pc[c] = "idle"
  /\ \/ /\ account[p] = "live"
        /\ order' = [order EXCEPT ![c] = NewOrder(p, k, b, "none")]
        /\ Goto(c, "reserve")
     \/ /\ account[p] = "deleted"
        /\ order' = [order EXCEPT ![c] = NewOrder(p, k, b, "player_not_found")]
        /\ UNCHANGED pc
  /\ UNCHANGED <<ledgerVars, award, rowLock, keyLock, eventLock>>

\* mutant: ON CONFLICT DO UPDATE, which executes a saved command again
ReserveOverwriting(c) ==
  LET p == order[c].player
      k == order[c].key
  IN
  /\ pc[c] = "reserve"
  /\ keyLock[p][k] = Nobody
  /\ keyLock' = [keyLock EXCEPT ![p][k] = c]
  /\ Goto(c, "lock")
  /\ UNCHANGED <<ledgerVars, order, award, rowLock, eventLock>>

\* mutant: no unique index, so requests with the same key do not wait
ReserveUnserialized(c) ==
  LET p == order[c].player
      k == order[c].key
  IN
  /\ pc[c] = "reserve"
  /\ IF command[p][k] = NoCommand
     THEN keyLock' = [keyLock EXCEPT ![p][k] = c] /\ Goto(c, "lock")
     ELSE UNCHANGED keyLock /\ Goto(c, "replay")
  /\ UNCHANGED <<ledgerVars, order, award, rowLock, eventLock>>

\* INSERT INTO purchase_commands ... ON CONFLICT DO NOTHING
ReserveCommand(c) ==
  LET p == order[c].player
      k == order[c].key
  IN
  /\ pc[c] = "reserve"
  /\ keyLock[p][k] = Nobody
  /\ IF command[p][k] = NoCommand
     THEN keyLock' = [keyLock EXCEPT ![p][k] = c] /\ Goto(c, "lock")
     ELSE UNCHANGED keyLock /\ Goto(c, "replay")
  /\ UNCHANGED <<ledgerVars, order, award, rowLock, eventLock>>

\* mutant: replays without comparing the building
ReplayAnyBuilding(c) ==
  LET saved == command[order[c].player][order[c].key] IN
  /\ pc[c] = "replay"
  /\ order' = [order EXCEPT ![c] = Answer(@, saved.reason, saved.level)]
  /\ Goto(c, "idle")
  /\ UNCHANGED <<ledgerVars, award, rowLock, keyLock, eventLock>>

\* SELECT ... FROM purchase_commands; COMMIT
ReplayPurchase(c) ==
  LET o == order[c]
      saved == command[o.player][o.key]
  IN
  /\ pc[c] = "replay"
  /\ IF saved.building # o.building
     THEN order' = [order EXCEPT ![c] = Answer(@, "idempotency_key_reused", 0)]
     ELSE order' = [order EXCEPT ![c] = Answer(@, saved.reason, saved.level)]
  /\ Goto(c, "idle")
  /\ UNCHANGED <<ledgerVars, award, rowLock, keyLock, eventLock>>

\* mutant: a plain SELECT
ReadResource(c) ==
  LET p == order[c].player IN
  /\ pc[c] = "lock"
  /\ rowLock' = [rowLock EXCEPT ![p] = c]
  /\ order' = [order EXCEPT ![c] = WithRow(@, resource[p])]
  /\ Goto(c, "price")
  /\ UNCHANGED <<ledgerVars, award, keyLock, eventLock>>

\* SELECT ... FROM player_resources ... FOR UPDATE
LockResource(c) ==
  LET p == order[c].player IN
  /\ pc[c] = "lock"
  /\ rowLock[p] = Nobody
  /\ rowLock' = [rowLock EXCEPT ![p] = c]
  /\ order' = [order EXCEPT ![c] = WithRow(@, resource[p])]
  /\ Goto(c, "price")
  /\ UNCHANGED <<ledgerVars, award, keyLock, eventLock>>

\* SELECT level FROM player_buildings; the next level and its price
ReadLevel(c) ==
  LET n == level[order[c].player][order[c].building] + 1 IN
  /\ pc[c] = "price"
  /\ IF n > MaxLevel
     THEN /\ order' = [order EXCEPT ![c] = Answer(@, "max_level_reached", 0)]
          /\ Goto(c, "save")
     ELSE /\ order' = [order EXCEPT ![c] = Answer(@, "none", n)]
          /\ Goto(c, "pay")
  /\ UNCHANGED <<ledgerVars, award, rowLock, keyLock, eventLock>>

\* mutant: no WHERE gold >= spent
PayUnchecked(c) ==
  /\ pc[c] = "pay"
  /\ order' = [order EXCEPT ![c] =
                 WithRow(@, Paid(@.row, PriceForLevel(@.building, @.level)))]
  /\ Goto(c, "settle")
  /\ UNCHANGED <<ledgerVars, award, rowLock, keyLock, eventLock>>

\* UPDATE player_resources SET gold = gold - spent WHERE gold >= spent
Pay(c) ==
  LET price == PriceForLevel(order[c].building, order[c].level) IN
  /\ pc[c] = "pay"
  /\ IF order[c].row.gold >= price
     THEN /\ order' = [order EXCEPT ![c] = WithRow(@, Paid(@.row, price))]
          /\ Goto(c, "settle")
     ELSE /\ order' = [order EXCEPT ![c] = Answer(@, "insufficient_funds", 0)]
          /\ Goto(c, "save")
  /\ UNCHANGED <<ledgerVars, award, rowLock, keyLock, eventLock>>

(***************************************************************************)
(* ROLLBACK: an error of a statement, a lost connection or a crash of the  *)
(* process.  Every lock is released, nothing of the transaction stays and  *)
(* its caller learns nothing.                                              *)
(***************************************************************************)
ReleaseLocks(c) ==
  /\ rowLock' = [p \in Player |-> IF rowLock[p] = c THEN Nobody ELSE rowLock[p]]
  /\ keyLock' = [p \in Player |-> [k \in Key |->
                   IF keyLock[p][k] = c THEN Nobody ELSE keyLock[p][k]]]
  /\ eventLock' = [o \in Occurrence |->
                     IF eventLock[o] = c THEN Nobody ELSE eventLock[o]]

Rollback(c) ==
  /\ pc[c] # "idle"
  /\ ReleaseLocks(c)
  /\ Goto(c, "idle")
  /\ order' = [a \in Api |-> IF a = c THEN NoOrder ELSE order[a]]
  /\ award' = [w \in Worker |->
                 IF w = c THEN NewAward(NoOccurrence) ELSE award[w]]
  /\ UNCHANGED ledgerVars

\* collect() inside the transaction: settles at the old rate
Settle(c, t) ==
  LET settled == Collected(order[c].row, t) IN
  /\ pc[c] = "settle"
  /\ IF Fits(settled)
     THEN /\ order' = [order EXCEPT ![c] = WithRow(@, settled)]
          /\ Goto(c, "upgrade")
          /\ UNCHANGED <<ledgerVars, award, rowLock, keyLock, eventLock>>
     ELSE Rollback(c)

\* INSERT INTO player_buildings ... ON CONFLICT DO UPDATE;
\* UPDATE player_resources SET gold_per_second = gold_per_second + increase
RaiseRate(c) ==
  /\ pc[c] = "upgrade"
  /\ order' = [order EXCEPT ![c] =
                 Answer(WithRow(@, Upgraded(@.row, @.building)), "ok", @.level)]
  /\ Goto(c, "save")
  /\ UNCHANGED <<ledgerVars, award, rowLock, keyLock, eventLock>>

\* UPDATE purchase_commands SET result; COMMIT
CommitPurchase(c) ==
  LET o == order[c]
      p == o.player
  IN
  /\ pc[c] = "save"
  /\ SaveCommand(p, o.key, o.building, o.reply, o.level)
  /\ resource' = [resource EXCEPT ![p] = o.row]
  /\ IF o.reply = "ok"
     THEN /\ level' = [level EXCEPT ![p][o.building] = o.level]
          /\ due' = [due EXCEPT ![p] = [amount |-> DueAt(p, o.row.last),
                                        since  |-> o.row.last]]
     ELSE UNCHANGED <<level, due>>
  /\ ReleaseLocks(c)
  /\ Goto(c, "idle")
  /\ UNCHANGED <<account, applied, rewarded, order, award>>

-----------------------------------------------------------------------------
(***************************************************************************)
(* The world-event transaction.                                            *)
(***************************************************************************)

NewEventTx(w, o) ==
  /\ eventLock' = [eventLock EXCEPT ![o] = w]
  /\ award' = [award EXCEPT ![w] = NewAward(o)]
  /\ Goto(w, "select")
  /\ UNCHANGED <<ledgerVars, order, rowLock, keyLock>>

\* mutant: applies an occurrence that another attempt applied
ReserveAgain(w, o) == pc[w] = "idle" /\ eventLock[o] = Nobody /\ NewEventTx(w, o)

\* BEGIN; INSERT INTO world_events ... ON CONFLICT DO NOTHING
ReserveEvent(w, o) ==
  /\ pc[w] = "idle"
  /\ eventLock[o] = Nobody
  /\ o \notin applied
  /\ NewEventTx(w, o)

\* the insert meets a committed row: the saved outcome is the result
ReplayEvent(w, o) ==
  /\ pc[w] = "idle"
  /\ eventLock[o] = Nobody
  /\ o \in applied
  /\ award' = [award EXCEPT ![w] = NewAward(o)]
  /\ UNCHANGED <<ledgerVars, pc, order, rowLock, keyLock, eventLock>>

\* WITH recipients AS (SELECT player_id FROM player_resources ...): the rows
\* visible when the statement starts
SelectRecipients(w) ==
  /\ pc[w] = "select"
  /\ award' = [award EXCEPT ![w].eligible = Live, ![w].todo = Live]
  /\ Goto(w, "acquire")
  /\ UNCHANGED <<ledgerVars, order, rowLock, keyLock, eventLock>>

\* mutant: no ORDER BY
IsAnyRecipient(p, todo) == p \in todo

\* ... ORDER BY player_id FOR UPDATE: one row after the other; a row deleted
\* in the meantime is skipped
IsNextRecipient(p, todo) == p \in todo /\ \A q \in todo : p <= q

TakeRow(w, p) ==
  /\ pc[w] = "acquire"
  /\ IF account[p] = "live"
     THEN rowLock' = [rowLock EXCEPT ![p] = w]
     ELSE UNCHANGED rowLock
  /\ award' = [award EXCEPT ![w].todo = @ \ {p}]
  /\ UNCHANGED <<ledgerVars, pc, order, keyLock, eventLock>>

\* mutant: FOR UPDATE SKIP LOCKED
AcquireOrSkip(w) ==
  \E p \in award[w].todo :
    /\ IsNextRecipient(p, award[w].todo)
    /\ \/ rowLock[p] = Nobody /\ TakeRow(w, p)
       \/ /\ rowLock[p] # Nobody
          /\ award' = [award EXCEPT ![w].todo = @ \ {p}]
          /\ UNCHANGED <<ledgerVars, pc, order, rowLock, keyLock, eventLock>>

AcquireRow(w) ==
  \E p \in award[w].todo :
    /\ IsNextRecipient(p, award[w].todo)
    /\ rowLock[p] = Nobody
    /\ TakeRow(w, p)

\* UPDATE player_resources ...; UPDATE world_events ...; COMMIT
Locked(w) == {p \in Player : rowLock[p] = w}

PayRecipients(w) ==
  /\ applied' = applied \cup {award[w].occurrence}
  /\ rewarded' = [rewarded EXCEPT ![award[w].occurrence] = Locked(w)]
  /\ resource' = [p \in Player |->
       IF rowLock[p] = w THEN Rewarded(resource[p]) ELSE resource[p]]
  /\ ReleaseLocks(w)
  /\ Goto(w, "idle")
  /\ UNCHANGED <<account, level, command, due, order, award>>

\* mutant: an amount column without a precision
CommitOverflowing(w) ==
  pc[w] = "acquire" /\ award[w].todo = {} /\ PayRecipients(w)

CommitBonus(w) ==
  /\ pc[w] = "acquire"
  /\ award[w].todo = {}
  /\ IF \A p \in Locked(w) : Fits(Rewarded(resource[p]))
     THEN PayRecipients(w)
     ELSE Rollback(w)

-----------------------------------------------------------------------------
PurchaseStep(c) ==
  \/ ReserveCommand(c)
  \/ ReplayPurchase(c)
  \/ LockResource(c)
  \/ ReadLevel(c)
  \/ Pay(c)
  \/ \E t \in Clock : Settle(c, t)
  \/ RaiseRate(c)
  \/ CommitPurchase(c)

AwardStep(w) ==
  \/ SelectRecipients(w)
  \/ AcquireRow(w)
  \/ CommitBonus(w)

Next ==
  \/ \E p \in Player :
       \/ DeleteCommit(p)
       \/ \E t \in Clock : SignupCommit(p, t) \/ CollectCommit(p, t)
       \/ \E c \in Api, k \in Key, b \in Building : BeginPurchase(c, p, k, b)
  \/ \E c \in Api : PurchaseStep(c)
  \/ \E w \in Worker, o \in Occurrence : ReserveEvent(w, o) \/ ReplayEvent(w, o)
  \/ \E w \in Worker : AwardStep(w)
  \/ \E c \in Tx : Rollback(c)

Spec == Init /\ [][Next]_vars

(***************************************************************************)
(* A connection keeps executing its statements, and PostgreSQL serves the  *)
(* waiters of a lock in the order they queued, so a statement that can     *)
(* take its lock again and again is eventually granted it.  Requests and   *)
(* crashes are not fair.                                                   *)
(***************************************************************************)
Fairness ==
  /\ \A c \in Api : SF_vars(PurchaseStep(c))
  /\ \A w \in Worker : SF_vars(AwardStep(w))

FairSpec == Spec /\ Fairness

-----------------------------------------------------------------------------
(***************************************************************************)
(* LocksProtect: an open purchase works on an account that cannot vanish   *)
(* under it, owns its key from the reservation on and the resource row     *)
(* from the lock on; a bonus owns its occurrence, and only rows of live    *)
(* accounts.  While a key is owned nothing is saved under it.              *)
(***************************************************************************)
KeyOwned == {"lock", "price", "pay", "settle", "upgrade", "save"}
RowOwned == KeyOwned \ {"lock"}

PurchaseLocks(c) ==
  LET p == order[c].player
      k == order[c].key
  IN /\ pc[c] \in ApiPc
     /\ pc[c] # "idle" => order[c] \in Order /\ account[p] = "live"
     /\ pc[c] = "replay" => command[p][k] # NoCommand
     /\ pc[c] \in KeyOwned => keyLock[p][k] = c /\ command[p][k] = NoCommand
     /\ pc[c] \in RowOwned => rowLock[p] = c

BonusLocks(w) ==
  LET o == award[w].occurrence IN
  /\ pc[w] \in WorkerPc
  /\ pc[w] # "idle" => o \in Occurrence \ applied /\ eventLock[o] = w
  /\ \A p \in Player : rowLock[p] = w => pc[w] = "acquire" /\ account[p] = "live"

LocksProtect ==
  /\ \A c \in Api : PurchaseLocks(c)
  /\ \A w \in Worker : BonusLocks(w)

(***************************************************************************)
(* NoCircularWait: no group of transactions waits in a circle.  A purchase *)
(* takes its key before the row, a bonus takes the rows in player-id       *)
(* order, so in every group there is one whose next statement needs no     *)
(* lock of another member.                                                 *)
(***************************************************************************)
\* the next statement of c needs a lock that d holds
WaitsFor(c, d) ==
  \/ /\ c \in Api /\ pc[c] = "reserve"
     /\ keyLock[order[c].player][order[c].key] = d
  \/ /\ c \in Api /\ pc[c] = "lock"
     /\ rowLock[order[c].player] = d
  \/ /\ c \in Worker /\ pc[c] = "acquire"
     /\ \E p \in award[c].todo :
          IsNextRecipient(p, award[c].todo) /\ rowLock[p] = d

NoCircularWait ==
  \A group \in SUBSET Tx : IsFiniteSet(group) /\ group # {} =>
    \E c \in group : \A d \in group : ~WaitsFor(c, d)

(***************************************************************************)
(* DraftsCurrent: the uncommitted row a purchase carries is always the     *)
(* committed row plus exactly the changes this purchase made, and what it  *)
(* decided (next level, price, refusal) still follows from the committed   *)
(* rows.  So committing it loses no update of anybody else.                *)
(***************************************************************************)
Affordable(p, b, n) ==
  /\ n = level[p][b] + 1
  /\ n <= MaxLevel
  /\ resource[p].gold >= PriceForLevel(b, n)

Settlements(p, b, n) ==
  {Collected(Paid(resource[p], PriceForLevel(b, n)), t) : t \in Clock}

Draft(c) ==
  LET o == order[c]
      p == o.player
      n == level[p][o.building] + 1
      committed == resource[p]
  IN /\ pc[c] \in {"reserve", "lock"} => o.level = 0 /\ o.reply = "none"
     /\ pc[c] = "price" =>
          o.row = committed /\ o.level = 0 /\ o.reply = "none"
     /\ pc[c] = "pay" =>
          o.row = committed /\ o.level = n /\ n <= MaxLevel /\ o.reply = "none"
     /\ pc[c] = "settle" =>
          /\ Affordable(p, o.building, o.level)
          /\ o.row = Paid(committed, PriceForLevel(o.building, o.level))
     /\ pc[c] = "upgrade" =>
          /\ Affordable(p, o.building, o.level)
          /\ Fits(o.row)
          /\ o.row \in Settlements(p, o.building, o.level)
     /\ pc[c] = "save" =>
          \/ /\ o.reply = "max_level_reached"
             /\ o.row = committed /\ o.level = 0 /\ n > MaxLevel
          \/ /\ o.reply = "insufficient_funds"
             /\ o.row = committed /\ o.level = 0 /\ n <= MaxLevel
             /\ committed.gold < PriceForLevel(o.building, n)
          \/ /\ o.reply = "ok"
             /\ Affordable(p, o.building, o.level)
             /\ \E settled \in Settlements(p, o.building, o.level) :
                  Fits(settled) /\ o.row = Upgraded(settled, o.building)

DraftsCurrent == \A c \in Api : Draft(c)

EconomyInv == LedgerInv /\ TxTypeOK /\ LocksProtect /\ DraftsCurrent

\* c holds an answer for a player who still exists; a rollback leaves none
Answered(c) ==
  /\ pc[c] = "idle"
  /\ order[c] # NoOrder
  /\ order[c].reply # "none"
  /\ account[order[c].player] = "live"

(***************************************************************************)
(* ReplyMatchesRecord: whatever a client was last told under a key agrees  *)
(* with the command saved under that key, whether this request executed    *)
(* it, replayed it, or raced another request with the same key.            *)
(***************************************************************************)
ReplyMatchesRecord ==
  \A c \in Api : Answered(c) =>
    LET o == order[c]
        saved == command[o.player][o.key]
    IN /\ saved # NoCommand
       /\ IF o.reply = "idempotency_key_reused"
          THEN saved.building # o.building
          ELSE saved = [building |-> o.building, reason |-> o.reply,
                        level |-> o.level]

(***************************************************************************)
(* EveryEligiblePaid: when an occurrence commits, it pays every player     *)
(* that had a row when the award started and still has one, even those     *)
(* whose row was locked or rewritten meanwhile, and nobody else.           *)
(***************************************************************************)
EveryEligiblePaid ==
  [][\A w \in Worker :
       award[w].occurrence \in applied' \ applied /\ eventLock[award[w].occurrence] = w
         => rewarded'[award[w].occurrence] = award[w].eligible \cap Live
    ]_vars

(***************************************************************************)
(* TransactionsEnd: a transaction that started ends, without help from a   *)
(* crash: purchases take the command key before the resource row, bonuses  *)
(* take the rows in player-id order, so nobody waits forever for a lock,   *)
(* in a cycle of waiters or behind others that take it again and again.    *)
(***************************************************************************)
TransactionsEnd == \A c \in Tx : pc[c] # "idle" ~> pc[c] = "idle"

=============================================================================
