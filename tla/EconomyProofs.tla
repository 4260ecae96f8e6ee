--------------------------- MODULE EconomyProofs ---------------------------
(***************************************************************************)
(* The statements of the interleaved transactions keep the locks and the   *)
(* drafts consistent, every commit is a step of the serial economy,        *)
(* clients are told what is saved, a bonus pays everybody it found, and    *)
(* nobody waits in a circle.                                               *)
(***************************************************************************)
EXTENDS Economy, LedgerProofs, WellFoundedInduction

-----------------------------------------------------------------------------
(***************************************************************************)
(* What a step of transaction d (or of none, d = Nobody) leaves alone:     *)
(* Only says that it touches no other transaction and no other's locks,    *)
(* Spares that it changes no row another transaction has locked.           *)
(***************************************************************************)
Only(d) ==
  /\ \A c \in Tx \ {d} : pc'[c] = pc[c]
  /\ \A c \in Api \ {d} : order'[c] = order[c]
  /\ \A w \in Worker \ {d} : award'[w] = award[w]
  /\ \A c \in Tx \ {d} :
       /\ \A p \in Player : rowLock'[p] = c <=> rowLock[p] = c
       /\ \A p \in Player, k \in Key : keyLock'[p][k] = c <=> keyLock[p][k] = c
       /\ \A o \in Occurrence : eventLock'[o] = c <=> eventLock[o] = c

NotInUse(p) ==
  /\ rowLock[p] \notin Tx
  /\ \A c \in Api : pc[c] # "idle" => order[c].player # p

SparesPlayer(d, p) ==
  \/ NotInUse(p)
  \/ /\ account'[p] = "live"
     /\ rowLock[p] \in Tx \ {d} =>
          resource'[p] = resource[p] /\ level'[p] = level[p]
     /\ \A k \in Key :
          /\ command[p][k] # NoCommand => command'[p][k] # NoCommand
          /\ keyLock[p][k] \in Tx \ {d} => command'[p][k] = command[p][k]

Spares(d) ==
  /\ \A p \in Live : SparesPlayer(d, p)
  /\ \A o \in Occurrence \ applied : eventLock[o] \in Tx \ {d} => o \notin applied'

LEMMA PurchaseKept ==
  ASSUME EconomyInv, NEW d, Only(d), Spares(d), NEW c \in Api, c # d
  PROVE  PurchaseLocks(c)' /\ Draft(c)'
<1> DEFINE p == order[c].player
           k == order[c].key
<1>1. /\ c \in Tx /\ pc'[c] = pc[c] /\ order'[c] = order[c]
      /\ PurchaseLocks(c) /\ Draft(c)
  BY DEF Only, Tx, EconomyInv, LocksProtect, DraftsCurrent
<1>2. CASE pc[c] = "idle"
  BY <1>1, <1>2 DEF PurchaseLocks, Draft, KeyOwned, RowOwned, ApiPc
<1>3. CASE pc[c] # "idle"
  <2>1. /\ order[c] \in Order /\ p \in Player /\ k \in Key /\ p \in Live
    BY <1>1, <1>3 DEF PurchaseLocks, Order, Live
  <2>2. ~NotInUse(p)
    BY <1>3 DEF NotInUse
  <2>3. /\ account'[p] = "live"
        /\ rowLock[p] = c => resource'[p] = resource[p] /\ level'[p] = level[p]
        /\ command[p][k] # NoCommand => command'[p][k] # NoCommand
        /\ keyLock[p][k] = c => command'[p][k] = command[p][k]
    BY <1>1, <2>1, <2>2 DEF Spares, SparesPlayer
  <2>4. /\ rowLock[p] = c => rowLock'[p] = c
        /\ keyLock[p][k] = c => keyLock'[p][k] = c
    BY <1>1, <2>1 DEF Only
  <2>5. PurchaseLocks(c)'
    BY <1>1, <2>3, <2>4 DEF PurchaseLocks
  <2>6. CASE pc[c] \in RowOwned
    <3>1. resource'[p] = resource[p] /\ level'[p] = level[p]
      BY <1>1, <2>3, <2>6 DEF PurchaseLocks
    <3> QED
      BY <1>1, <2>5, <3>1 DEF Draft, Affordable, Settlements
  <2>7. CASE pc[c] \notin RowOwned
    BY <1>1, <2>5, <2>7 DEF Draft, RowOwned, KeyOwned
  <2> QED BY <2>6, <2>7
<1> QED BY <1>2, <1>3

LEMMA BonusKept ==
  ASSUME EconomyInv, NEW d, Only(d), Spares(d), NEW w \in Worker, w # d
  PROVE  BonusLocks(w)'
<1>1. w \in Tx /\ pc'[w] = pc[w] /\ award'[w] = award[w] /\ BonusLocks(w)
  BY DEF Only, Tx, EconomyInv, LocksProtect
<1>2. ASSUME pc[w] # "idle"
      PROVE  LET o == award[w].occurrence IN
               o \in Occurrence \ applied' /\ eventLock'[o] = w
  BY <1>1, <1>2 DEF BonusLocks, Only, Spares
<1>3. ASSUME NEW p \in Player, rowLock'[p] = w
      PROVE  pc'[w] = "acquire" /\ account'[p] = "live"
  <2>1. rowLock[p] = w
    BY <1>1, <1>3 DEF Only
  <2>2. p \in Live /\ pc[w] = "acquire" /\ ~NotInUse(p)
    BY <1>1, <2>1 DEF BonusLocks, Live, NotInUse
  <2> QED
    BY <1>1, <2>2 DEF Spares, SparesPlayer
<1> QED
  BY <1>1, <1>2, <1>3 DEF BonusLocks

\* The invariant after a step of d: only d's own part is left to show.
LEMMA StepKeeps ==
  ASSUME EconomyInv, NEW d, Only(d), Spares(d), TxTypeOK',
         [LedgerNext]_ledgerVars,
         d \in Api => PurchaseLocks(d)' /\ Draft(d)',
         d \in Worker => BonusLocks(d)'
  PROVE  EconomyInv'
<1>1. LedgerInv'
  BY LedgerNextInv DEF EconomyInv
<1>2. \A c \in Api : PurchaseLocks(c)' /\ Draft(c)'
  BY PurchaseKept
<1>3. \A w \in Worker : BonusLocks(w)'
  BY BonusKept
<1> QED
  BY <1>1, <1>2, <1>3 DEF EconomyInv, LocksProtect, DraftsCurrent

-----------------------------------------------------------------------------
LEMMA InitInv == Init => EconomyInv
<1> SUFFICES ASSUME Init PROVE EconomyInv
  OBVIOUS
<1>1. LedgerInv
  BY LedgerInitInv DEF Init
<1>2. TxTypeOK
  BY EconomyAssumption DEF Init, TxTypeOK, ApiPc, WorkerPc, Tx, NewAward, Award
<1>3. \A c \in Api : PurchaseLocks(c) /\ Draft(c)
  BY DEF Init, PurchaseLocks, Draft, Tx, ApiPc, KeyOwned, RowOwned
<1>4. \A w \in Worker : BonusLocks(w)
  BY EconomyAssumption DEF Init, BonusLocks, Tx, WorkerPc
<1> QED
  BY <1>1, <1>2, <1>3, <1>4 DEF EconomyInv, LocksProtect, DraftsCurrent

-----------------------------------------------------------------------------
(***************************************************************************)
(* Statements that commit by themselves.                                   *)
(***************************************************************************)
LEMMA NobodyElse ==
  ASSUME EconomyInv, UNCHANGED txVars
  PROVE  Only(Nobody) /\ TxTypeOK' /\ Nobody \notin Tx
  BY EconomyAssumption DEF txVars, Only, EconomyInv, TxTypeOK

LEMMA SignupStep ==
  ASSUME EconomyInv, NEW p \in Player, NEW t \in Clock, SignupCommit(p, t)
  PROVE  LedgerNext /\ EconomyInv'
<1>1. LedgerNext /\ UNCHANGED txVars /\ Signup(p, t)
  BY DEF SignupCommit, LedgerNext
<1>2. Spares(Nobody)
  <2>1. ASSUME NEW q \in Live PROVE SparesPlayer(Nobody, q)
    <3>1. q # p /\ q \in Player
      BY <1>1 DEF Live, Signup
    <3>2. /\ account'[q] = "live" /\ resource'[q] = resource[q]
          /\ level'[q] = level[q] /\ command'[q] = command[q]
      BY <1>1, <3>1 DEF Live, Signup, EconomyInv, LedgerInv, LedgerTypeOK
    <3> QED
      BY <3>2 DEF SparesPlayer
  <2> QED
    BY <1>1, <2>1 DEF Spares, Signup
<1> QED
  BY <1>1, <1>2, NobodyElse, StepKeeps DEF Tx

LEMMA CollectStep ==
  ASSUME EconomyInv, NEW p \in Player, NEW t \in Clock, CollectCommit(p, t)
  PROVE  LedgerNext /\ EconomyInv'
<1>1. /\ LedgerNext /\ UNCHANGED txVars /\ Collect(p, t) /\ rowLock[p] = Nobody
  BY DEF CollectCommit, LedgerNext
<1>2. Spares(Nobody)
  <2>1. ASSUME NEW q \in Live PROVE SparesPlayer(Nobody, q)
    <3>1. /\ account'[q] = "live" /\ level'[q] = level[q] /\ command'[q] = command[q]
          /\ q # p => resource'[q] = resource[q]
      BY <1>1 DEF Live, Collect, EconomyInv, LedgerInv, LedgerTypeOK
    <3> QED
      BY <1>1, <3>1, EconomyAssumption DEF SparesPlayer
  <2> QED
    BY <1>1, <2>1 DEF Spares, Collect
<1> QED
  BY <1>1, <1>2, NobodyElse, StepKeeps DEF Tx

LEMMA DeleteStep ==
  ASSUME EconomyInv, NEW p \in Player, DeleteCommit(p)
  PROVE  LedgerNext /\ EconomyInv'
<1>1. /\ LedgerNext /\ UNCHANGED txVars /\ Delete(p) /\ NotInUse(p)
  BY EconomyAssumption DEF DeleteCommit, LedgerNext, NotInUse
<1>2. Spares(Nobody)
  <2>1. ASSUME NEW q \in Live, q # p PROVE SparesPlayer(Nobody, q)
    <3>1. /\ account'[q] = "live" /\ resource'[q] = resource[q]
          /\ level'[q] = level[q] /\ command'[q] = command[q]
      BY <1>1, <2>1 DEF Live, Delete, EconomyInv, LedgerInv, LedgerTypeOK
    <3> QED
      BY <3>1 DEF SparesPlayer
  <2>2. SparesPlayer(Nobody, p)
    BY <1>1 DEF SparesPlayer
  <2> QED
    BY <1>1, <2>1, <2>2 DEF Spares, Delete
<1> QED
  BY <1>1, <1>2, NobodyElse, StepKeeps DEF Tx

-----------------------------------------------------------------------------
(***************************************************************************)
(* The purchase transaction up to its commit: no row of the ledger changes *)
(* and only the connection's own record and locks do.                      *)
(***************************************************************************)
LEMMA UncommittedSpares ==
  ASSUME UNCHANGED ledgerVars, NEW d
  PROVE  Spares(d) /\ [LedgerNext]_ledgerVars
  BY DEF ledgerVars, Spares, SparesPlayer, Live

LEMMA GotoOnly ==
  ASSUME TxTypeOK, NEW c \in Tx, NEW next \in ApiPc \cup WorkerPc, Goto(c, next)
  PROVE  /\ pc'[c] = next
         /\ \A d \in Tx \ {c} : pc'[d] = pc[d]
         /\ pc' \in [Tx -> ApiPc \cup WorkerPc]
  BY DEF Goto, TxTypeOK

\* A purchase statement that takes no lock.
LEMMA OwnRecordOnly ==
  ASSUME EconomyInv, NEW c \in Api, NEW next \in ApiPc, Goto(c, next),
         NEW o \in Order, order' = [order EXCEPT ![c] = o],
         UNCHANGED <<ledgerVars, award, rowLock, keyLock, eventLock>>,
         PurchaseLocks(c)', Draft(c)'
  PROVE  [LedgerNext]_ledgerVars /\ EconomyInv'
<1>1. TxTypeOK /\ c \in Tx
  BY DEF EconomyInv, Tx
<1>2. /\ pc'[c] = next
      /\ \A d \in Tx \ {c} : pc'[d] = pc[d]
      /\ pc' \in [Tx -> ApiPc \cup WorkerPc]
  BY <1>1, GotoOnly
<1>3. Only(c)
  BY <1>1, <1>2 DEF Only, TxTypeOK
<1>4. TxTypeOK'
  BY <1>1, <1>2 DEF TxTypeOK
<1>5. Spares(c) /\ [LedgerNext]_ledgerVars
  BY UncommittedSpares
<1>6. c \notin Worker
  BY EconomyAssumption
<1> QED
  BY <1>3, <1>4, <1>5, <1>6, StepKeeps

LEMMA AnswerType ==
  ASSUME NEW o \in Order, NEW n \in Nat,
         NEW reply \in Reason \cup {"none", "player_not_found", "idempotency_key_reused"}
  PROVE  /\ Answer(o, reply, n) \in Order
         /\ Answer(o, reply, n).player = o.player
         /\ Answer(o, reply, n).key = o.key
         /\ Answer(o, reply, n).building = o.building
         /\ Answer(o, reply, n).row = o.row
         /\ Answer(o, reply, n).reply = reply
         /\ Answer(o, reply, n).level = n
  BY DEF Answer, Order

LEMMA WithRowType ==
  ASSUME NEW o \in Order, NEW row \in Row
  PROVE  /\ WithRow(o, row) \in Order
         /\ WithRow(o, row).player = o.player
         /\ WithRow(o, row).key = o.key
         /\ WithRow(o, row).building = o.building
         /\ WithRow(o, row).row = row
         /\ WithRow(o, row).reply = o.reply
         /\ WithRow(o, row).level = o.level
  BY DEF WithRow, Order

LEMMA BeginStep ==
  ASSUME EconomyInv, NEW c \in Api, NEW p \in Player, NEW k \in Key,
         NEW b \in Building, BeginPurchase(c, p, k, b)
  PROVE  [LedgerNext]_ledgerVars /\ EconomyInv'
<1>1. TxTypeOK /\ c \in Tx /\ NewRow(0) \in Row
  BY NewRowType DEF EconomyInv, Tx
<1>2. /\ UNCHANGED <<ledgerVars, award, rowLock, keyLock, eventLock>>
      /\ pc[c] = "idle"
  BY DEF BeginPurchase
<1>3. CASE account[p] = "live" /\ Goto(c, "reserve")
           /\ order' = [order EXCEPT ![c] = NewOrder(p, k, b, "none")]
  <2>1. NewOrder(p, k, b, "none") \in Order /\ NewOrder(p, k, b, "none").player = p
    BY <1>1 DEF NewOrder, Order
  <2>2. pc'[c] = "reserve" /\ order'[c] = NewOrder(p, k, b, "none")
        /\ account'[p] = "live"
    BY <1>1, <1>2, <1>3 DEF Goto, TxTypeOK, ledgerVars
  <2>3. PurchaseLocks(c)' /\ Draft(c)'
    BY <2>1, <2>2 DEF PurchaseLocks, Draft, ApiPc, KeyOwned, RowOwned, NewOrder
  <2>4. "reserve" \in ApiPc
    BY DEF ApiPc
  <2> QED
    BY <1>2, <1>3, <2>1, <2>3, <2>4, OwnRecordOnly
<1>4. CASE UNCHANGED pc
           /\ order' = [order EXCEPT ![c] = NewOrder(p, k, b, "player_not_found")]
  <2>1. NewOrder(p, k, b, "player_not_found") \in Order
    BY <1>1 DEF NewOrder, Order
  <2>2. pc'[c] = "idle" /\ Goto(c, "idle") /\ "idle" \in ApiPc
    BY <1>1, <1>2, <1>4 DEF Goto, TxTypeOK, ApiPc
  <2>3. PurchaseLocks(c)' /\ Draft(c)'
    BY <2>2 DEF PurchaseLocks, Draft, KeyOwned, RowOwned
  <2> QED
    BY <1>2, <1>4, <2>1, <2>2, <2>3, OwnRecordOnly
<1> QED
  BY <1>3, <1>4 DEF BeginPurchase

\* What the invariant says of an open purchase.
LEMMA OpenPurchase ==
  ASSUME EconomyInv, NEW c \in Api, pc[c] # "idle"
  PROVE  LET o == order[c] IN
           /\ o \in Order /\ o.player \in Player /\ o.key \in Key
           /\ o.building \in Building /\ o.row \in Row /\ o.level \in Nat
           /\ account[o.player] = "live" /\ resource[o.player] \in Row
           /\ level[o.player][o.building] \in Nat
           /\ command[o.player][o.key] \in Command \cup {NoCommand}
           /\ TxTypeOK /\ c \in Tx /\ PurchaseLocks(c) /\ Draft(c)
  BY CatalogueAssumption
  DEF EconomyInv, LedgerInv, LedgerTypeOK, LocksProtect, DraftsCurrent,
      PurchaseLocks, Order, Tx

LEMMA ReplayStep ==
  ASSUME EconomyInv, NEW c \in Api, ReplayPurchase(c)
  PROVE  [LedgerNext]_ledgerVars /\ EconomyInv'
<1> DEFINE o == order[c]
           saved == command[o.player][o.key]
<1>1. /\ pc[c] = "replay" /\ Goto(c, "idle")
      /\ UNCHANGED <<ledgerVars, award, rowLock, keyLock, eventLock>>
      /\ \/ order' = [order EXCEPT ![c] = Answer(o, "idempotency_key_reused", 0)]
         \/ order' = [order EXCEPT ![c] = Answer(o, saved.reason, saved.level)]
  BY DEF ReplayPurchase
<1>2. o \in Order /\ TxTypeOK /\ c \in Tx /\ saved \in Command
  BY <1>1, OpenPurchase DEF PurchaseLocks
<1>3. /\ Answer(o, "idempotency_key_reused", 0) \in Order
      /\ Answer(o, saved.reason, saved.level) \in Order
  BY <1>2, AnswerType DEF Command
<1>4. pc'[c] = "idle" /\ "idle" \in ApiPc
  BY <1>1, <1>2 DEF Goto, TxTypeOK, ApiPc
<1>5. PurchaseLocks(c)' /\ Draft(c)'
  BY <1>4 DEF PurchaseLocks, Draft, KeyOwned, RowOwned
<1> QED
  BY <1>1, <1>3, <1>4, <1>5, OwnRecordOnly

LEMMA ReadLevelStep ==
  ASSUME EconomyInv, NEW c \in Api, ReadLevel(c)
  PROVE  [LedgerNext]_ledgerVars /\ EconomyInv'
<1> DEFINE o == order[c]
           n == level[o.player][o.building] + 1
           refused == Answer(o, "max_level_reached", 0)
           priced == Answer(o, "none", n)
<1>1. /\ pc[c] = "price"
      /\ UNCHANGED <<ledgerVars, award, rowLock, keyLock, eventLock>>
      /\ \/ n > MaxLevel /\ Goto(c, "save") /\ order' = [order EXCEPT ![c] = refused]
         \/ n <= MaxLevel /\ Goto(c, "pay") /\ order' = [order EXCEPT ![c] = priced]
  BY CatalogueAssumption, OpenPurchase DEF ReadLevel
<1>2. /\ o \in Order /\ o.row = resource[o.player] /\ o.level = 0
      /\ account[o.player] = "live" /\ n \in Nat /\ TxTypeOK
      /\ keyLock[o.player][o.key] = c /\ command[o.player][o.key] = NoCommand
      /\ rowLock[o.player] = c
  BY <1>1, OpenPurchase DEF PurchaseLocks, Draft, KeyOwned, RowOwned
<1>3. /\ \A x \in {refused, priced} :
            /\ x \in Order /\ x.player = o.player /\ x.key = o.key
            /\ x.building = o.building /\ x.row = o.row
      /\ refused.reply = "max_level_reached" /\ refused.level = 0
      /\ priced.reply = "none" /\ priced.level = n
  <2>1. /\ "max_level_reached" \in Reason /\ 0 \in Nat
        /\ "none" \in Reason \cup {"none", "player_not_found", "idempotency_key_reused"}
    BY DEF Reason
  <2>2. /\ refused \in Order /\ refused.player = o.player /\ refused.key = o.key
        /\ refused.building = o.building /\ refused.row = o.row
        /\ refused.reply = "max_level_reached" /\ refused.level = 0
    BY <1>2, <2>1, AnswerType
  <2>3. /\ priced \in Order /\ priced.player = o.player /\ priced.key = o.key
        /\ priced.building = o.building /\ priced.row = o.row
        /\ priced.reply = "none" /\ priced.level = n
    <3> HIDE DEF n
    <3> QED BY <1>2, <2>1, AnswerType
  <2> QED
    BY <2>2, <2>3
<1> HIDE DEF refused, priced
<1>4. CASE n > MaxLevel /\ Goto(c, "save") /\ order' = [order EXCEPT ![c] = refused]
  <2>1. pc'[c] = "save" /\ order'[c] = refused /\ "save" \in ApiPc
    BY <1>2, <1>4 DEF Goto, TxTypeOK, ApiPc, Tx
  <2>2. PurchaseLocks(c)' /\ Draft(c)'
    BY <1>1, <1>2, <1>3, <1>4, <2>1
    DEF PurchaseLocks, Draft, KeyOwned, RowOwned, ledgerVars
  <2> QED
    BY <1>1, <1>3, <1>4, <2>1, <2>2, OwnRecordOnly
<1>5. CASE n <= MaxLevel /\ Goto(c, "pay") /\ order' = [order EXCEPT ![c] = priced]
  <2>1. pc'[c] = "pay" /\ order'[c] = priced /\ "pay" \in ApiPc
    BY <1>2, <1>5 DEF Goto, TxTypeOK, ApiPc, Tx
  <2>2. PurchaseLocks(c)' /\ Draft(c)'
    BY <1>1, <1>2, <1>3, <1>5, <2>1
    DEF PurchaseLocks, Draft, KeyOwned, RowOwned, ledgerVars
  <2> QED
    BY <1>1, <1>3, <1>5, <2>1, <2>2, OwnRecordOnly
<1> QED
  BY <1>1, <1>4, <1>5

LEMMA PayStep ==
  ASSUME EconomyInv, NEW c \in Api, Pay(c)
  PROVE  [LedgerNext]_ledgerVars /\ EconomyInv'
<1> DEFINE o == order[c]
           p == o.player
           price == PriceForLevel(o.building, o.level)
           refused == Answer(o, "insufficient_funds", 0)
           paid == WithRow(o, Paid(o.row, price))
<1>1. /\ pc[c] = "pay"
      /\ UNCHANGED <<ledgerVars, award, rowLock, keyLock, eventLock>>
      /\ \/ o.row.gold >= price /\ Goto(c, "settle") /\ order' = [order EXCEPT ![c] = paid]
         \/ /\ ~(o.row.gold >= price) /\ Goto(c, "save")
            /\ order' = [order EXCEPT ![c] = refused]
  BY DEF Pay
<1>2. /\ o \in Order /\ o.row = resource[p] /\ o.row \in Row
      /\ o.building \in Building
      /\ o.level = level[p][o.building] + 1 /\ o.level <= MaxLevel /\ o.level \in Nat
      /\ account[p] = "live" /\ TxTypeOK /\ c \in Tx
      /\ keyLock[p][o.key] = c /\ command[p][o.key] = NoCommand /\ rowLock[p] = c
  BY <1>1, OpenPurchase DEF PurchaseLocks, Draft, KeyOwned, RowOwned
<1>3. price \in Nat /\ o.row.gold \in Nat
  BY <1>2, PriceType DEF Row
<1>4. CASE o.row.gold >= price /\ Goto(c, "settle") /\ order' = [order EXCEPT ![c] = paid]
  <2>1. Paid(o.row, price) \in Row
    BY <1>2, <1>3, <1>4, PaidType
  <2>2. /\ paid \in Order /\ paid.player = p /\ paid.key = o.key
        /\ paid.building = o.building /\ paid.level = o.level
        /\ paid.row = Paid(o.row, price)
    BY <1>2, <2>1, WithRowType
  <2> HIDE DEF paid
  <2>3. pc'[c] = "settle" /\ order'[c] = paid /\ "settle" \in ApiPc
    BY <1>2, <1>4 DEF Goto, TxTypeOK, ApiPc
  <2>4. PurchaseLocks(c)' /\ Draft(c)'
    BY <1>1, <1>2, <1>4, <2>2, <2>3
    DEF PurchaseLocks, Draft, KeyOwned, RowOwned, Affordable, ledgerVars
  <2> QED
    BY <1>1, <1>4, <2>2, <2>3, <2>4, OwnRecordOnly
<1>5. CASE ~(o.row.gold >= price) /\ Goto(c, "save") /\ order' = [order EXCEPT ![c] = refused]
  <2>1. "insufficient_funds" \in Reason /\ 0 \in Nat /\ o.row.gold < price
    BY <1>3, <1>5 DEF Reason
  <2>2. /\ refused \in Order /\ refused.player = p /\ refused.key = o.key
        /\ refused.building = o.building /\ refused.level = 0
        /\ refused.row = o.row /\ refused.reply = "insufficient_funds"
    BY <1>2, <2>1, AnswerType
  <2> HIDE DEF refused
  <2>3. pc'[c] = "save" /\ order'[c] = refused /\ "save" \in ApiPc
    BY <1>2, <1>5 DEF Goto, TxTypeOK, ApiPc
  <2>4. PurchaseLocks(c)' /\ Draft(c)'
    BY <1>1, <1>2, <2>1, <2>2, <2>3
    DEF PurchaseLocks, Draft, KeyOwned, RowOwned, ledgerVars
  <2> QED
    BY <1>1, <1>5, <2>2, <2>3, <2>4, OwnRecordOnly
<1> QED
  BY <1>1, <1>4, <1>5

LEMMA SettleStep ==
  ASSUME EconomyInv, NEW c \in Api, NEW t \in Clock,
         Settle(c, t), Fits(Collected(order[c].row, t))
  PROVE  [LedgerNext]_ledgerVars /\ EconomyInv'
<1> DEFINE o == order[c]
           p == o.player
           settled == Collected(o.row, t)
           new == WithRow(o, settled)
<1>1. /\ pc[c] = "settle" /\ Fits(settled) /\ Goto(c, "upgrade")
      /\ order' = [order EXCEPT ![c] = new]
      /\ UNCHANGED <<ledgerVars, award, rowLock, keyLock, eventLock>>
  BY DEF Settle
<1>2. /\ o \in Order /\ o.row \in Row /\ Affordable(p, o.building, o.level)
      /\ o.row = Paid(resource[p], PriceForLevel(o.building, o.level))
      /\ account[p] = "live" /\ TxTypeOK /\ c \in Tx
      /\ keyLock[p][o.key] = c /\ command[p][o.key] = NoCommand /\ rowLock[p] = c
  BY <1>1, OpenPurchase DEF PurchaseLocks, Draft, KeyOwned, RowOwned
<1>3. settled \in Row /\ settled \in Settlements(p, o.building, o.level)
  BY <1>2, CollectedType, LedgerAssumption DEF Settlements, Clock
<1> HIDE DEF settled
<1>4. /\ new \in Order /\ new.player = p /\ new.key = o.key
      /\ new.building = o.building /\ new.level = o.level /\ new.row = settled
  BY <1>2, <1>3, WithRowType
<1> HIDE DEF new
<1>5. pc'[c] = "upgrade" /\ order'[c] = new /\ "upgrade" \in ApiPc
  BY <1>1, <1>2 DEF Goto, TxTypeOK, ApiPc
<1>6. PurchaseLocks(c)'
  BY <1>1, <1>2, <1>4, <1>5 DEF PurchaseLocks, KeyOwned, RowOwned, ledgerVars
<1>7. Draft(c)'
  BY <1>1, <1>2, <1>3, <1>4, <1>5 DEF Draft, Affordable, Settlements, ledgerVars
<1> QED
  BY <1>1, <1>4, <1>5, <1>6, <1>7, OwnRecordOnly

LEMMA RaiseRateStep ==
  ASSUME EconomyInv, NEW c \in Api, RaiseRate(c)
  PROVE  [LedgerNext]_ledgerVars /\ EconomyInv'
<1> DEFINE o == order[c]
           p == o.player
           row == Upgraded(o.row, o.building)
           new == Answer(WithRow(o, row), "ok", o.level)
<1>1. /\ pc[c] = "upgrade" /\ Goto(c, "save")
      /\ order' = [order EXCEPT ![c] = new]
      /\ UNCHANGED <<ledgerVars, award, rowLock, keyLock, eventLock>>
  BY DEF RaiseRate
<1>2. /\ o \in Order /\ o.row \in Row /\ Affordable(p, o.building, o.level)
      /\ o.building \in Building /\ o.level \in Nat
      /\ o.row \in Settlements(p, o.building, o.level) /\ Fits(o.row)
      /\ account[p] = "live" /\ TxTypeOK /\ c \in Tx
      /\ keyLock[p][o.key] = c /\ command[p][o.key] = NoCommand /\ rowLock[p] = c
  BY <1>1, OpenPurchase DEF PurchaseLocks, Draft, KeyOwned, RowOwned
<1>3. row \in Row /\ "ok" \in Reason
  BY <1>2, UpgradedType DEF Reason
<1>4. \E settled \in Settlements(p, o.building, o.level) :
        Fits(settled) /\ row = Upgraded(settled, o.building)
  BY <1>2
<1> HIDE DEF row
<1>5. /\ new \in Order /\ new.player = p /\ new.key = o.key
      /\ new.building = o.building /\ new.level = o.level /\ new.row = row
      /\ new.reply = "ok"
  <2> DEFINE x == WithRow(o, row)
  <2>1. /\ x \in Order /\ x.player = p /\ x.key = o.key
        /\ x.building = o.building /\ x.row = row
    BY <1>2, <1>3, WithRowType
  <2> HIDE DEF x
  <2>2. /\ Answer(x, "ok", o.level) \in Order
        /\ Answer(x, "ok", o.level).player = x.player
        /\ Answer(x, "ok", o.level).key = x.key
        /\ Answer(x, "ok", o.level).building = x.building
        /\ Answer(x, "ok", o.level).row = x.row
        /\ Answer(x, "ok", o.level).reply = "ok"
        /\ Answer(x, "ok", o.level).level = o.level
    BY <1>2, <1>3, <2>1, AnswerType
  <2> QED
    BY <2>1, <2>2 DEF x
<1> HIDE DEF new
<1>6. pc'[c] = "save" /\ order'[c] = new /\ "save" \in ApiPc
  BY <1>1, <1>2 DEF Goto, TxTypeOK, ApiPc
<1>7. PurchaseLocks(c)'
  BY <1>1, <1>2, <1>5, <1>6 DEF PurchaseLocks, KeyOwned, RowOwned, ledgerVars
<1>8. Draft(c)'
  BY <1>1, <1>2, <1>4, <1>5, <1>6 DEF Draft, Affordable, Settlements, ledgerVars
<1> QED
  BY <1>1, <1>5, <1>6, <1>7, <1>8, OwnRecordOnly

-----------------------------------------------------------------------------
(***************************************************************************)
(* Taking a lock, and giving all of them back.                             *)
(***************************************************************************)
LEMMA KeyTaken ==
  ASSUME TxTypeOK, NEW p \in Player, NEW k \in Key, NEW c \in Api,
         keyLock' = [keyLock EXCEPT ![p][k] = c]
  PROVE  /\ keyLock' \in [Player -> [Key -> Api \cup {Nobody}]]
         /\ keyLock'[p][k] = c
         /\ \A q \in Player, j \in Key :
              keyLock'[q][j] = keyLock[q][j] \/ (q = p /\ j = k)
<1>1. keyLock \in [Player -> [Key -> Api \cup {Nobody}]]
  BY DEF TxTypeOK
<1>2. /\ keyLock' \in [Player -> [Key -> Api \cup {Nobody}]]
      /\ keyLock'[p][k] = c
  BY <1>1
<1>3. ASSUME NEW q \in Player, NEW j \in Key, ~(q = p /\ j = k)
      PROVE  keyLock'[q][j] = keyLock[q][j]
  BY <1>1, <1>3
<1> QED
  BY <1>2, <1>3

LEMMA ReserveStep ==
  ASSUME EconomyInv, NEW c \in Api, ReserveCommand(c)
  PROVE  [LedgerNext]_ledgerVars /\ EconomyInv'
<1> DEFINE o == order[c]
           p == o.player
           k == o.key
<1>1. /\ pc[c] = "reserve" /\ keyLock[p][k] = Nobody
      /\ UNCHANGED <<ledgerVars, order, award, rowLock, eventLock>>
      /\ \/ /\ command[p][k] = NoCommand /\ Goto(c, "lock")
            /\ keyLock' = [keyLock EXCEPT ![p][k] = c]
         \/ command[p][k] # NoCommand /\ Goto(c, "replay") /\ UNCHANGED keyLock
  BY DEF ReserveCommand
<1>2. /\ o \in Order /\ p \in Player /\ k \in Key /\ account[p] = "live"
      /\ TxTypeOK /\ c \in Tx /\ o.level = 0 /\ o.reply = "none"
  BY <1>1, OpenPurchase DEF Draft
<1>3. Nobody \notin Tx /\ c \notin Worker
  BY EconomyAssumption
<1>4. Spares(c) /\ [LedgerNext]_ledgerVars
  BY <1>1, UncommittedSpares
<1>5. "lock" \in ApiPc /\ "replay" \in ApiPc
  BY DEF ApiPc
<1>6. CASE /\ command[p][k] = NoCommand /\ Goto(c, "lock")
           /\ keyLock' = [keyLock EXCEPT ![p][k] = c]
  <2>1. /\ pc'[c] = "lock" /\ pc' \in [Tx -> ApiPc \cup WorkerPc]
        /\ \A d \in Tx \ {c} : pc'[d] = pc[d]
    BY <1>2, <1>5, <1>6, GotoOnly
  <2>2. /\ keyLock'[p][k] = c
        /\ keyLock' \in [Player -> [Key -> Api \cup {Nobody}]]
        /\ \A q \in Player, j \in Key :
             keyLock'[q][j] = keyLock[q][j] \/ (q = p /\ j = k)
    <3>1. keyLock' = [keyLock EXCEPT ![p][k] = c]
      BY <1>6
    <3> HIDE DEF p, k
    <3> QED
      BY <1>2, <3>1, KeyTaken
  <2>3. Only(c)
    <3>1. \A d \in Tx \ {c}, q \in Player, j \in Key :
            keyLock'[q][j] = d <=> keyLock[q][j] = d
      BY <1>1, <1>2, <1>3, <2>2
    <3> QED
      BY <1>1, <2>1, <3>1 DEF Only, Tx
  <2>4. TxTypeOK'
    BY <1>1, <1>2, <2>1, <2>2 DEF TxTypeOK
  <2>5. PurchaseLocks(c)' /\ Draft(c)'
    BY <1>1, <1>2, <1>5, <1>6, <2>1, <2>2
    DEF PurchaseLocks, Draft, KeyOwned, RowOwned, ledgerVars
  <2> QED
    BY <1>3, <1>4, <2>3, <2>4, <2>5, StepKeeps
<1>7. CASE command[p][k] # NoCommand /\ Goto(c, "replay") /\ UNCHANGED keyLock
  <2>1. /\ pc'[c] = "replay" /\ pc' \in [Tx -> ApiPc \cup WorkerPc]
        /\ \A d \in Tx \ {c} : pc'[d] = pc[d]
    BY <1>2, <1>5, <1>7, GotoOnly
  <2>2. Only(c) /\ TxTypeOK'
    BY <1>1, <1>2, <1>7, <2>1 DEF Only, TxTypeOK
  <2>3. PurchaseLocks(c)' /\ Draft(c)'
    BY <1>1, <1>2, <1>5, <1>7, <2>1
    DEF PurchaseLocks, Draft, KeyOwned, RowOwned, ledgerVars
  <2> QED
    BY <1>3, <1>4, <2>2, <2>3, StepKeeps
<1> QED
  BY <1>1, <1>6, <1>7

LEMMA LockStep ==
  ASSUME EconomyInv, NEW c \in Api, LockResource(c)
  PROVE  [LedgerNext]_ledgerVars /\ EconomyInv'
<1> DEFINE o == order[c]
           p == o.player
           new == WithRow(o, resource[p])
<1>1. /\ pc[c] = "lock" /\ rowLock[p] = Nobody
      /\ rowLock' = [rowLock EXCEPT ![p] = c]
      /\ order' = [order EXCEPT ![c] = new]
      /\ Goto(c, "price")
      /\ UNCHANGED <<ledgerVars, award, keyLock, eventLock>>
  BY DEF LockResource
<1>2. /\ o \in Order /\ p \in Player /\ account[p] = "live"
      /\ resource[p] \in Row
      /\ TxTypeOK /\ c \in Tx
      /\ keyLock[p][o.key] = c /\ command[p][o.key] = NoCommand
  BY <1>1, OpenPurchase DEF PurchaseLocks, KeyOwned
<1>3. /\ new \in Order /\ new.player = p /\ new.key = o.key
      /\ new.building = o.building /\ new.row = resource[p]
      /\ new.level = o.level /\ new.reply = o.reply
  BY <1>2, WithRowType
<1> HIDE DEF new
<1>4. o.level = 0 /\ o.reply = "none"
  BY <1>1, <1>2, OpenPurchase DEF Draft
<1>5. Nobody \notin Tx /\ c \notin Worker /\ "price" \in ApiPc
  BY EconomyAssumption DEF ApiPc
<1>6. /\ pc'[c] = "price" /\ pc' \in [Tx -> ApiPc \cup WorkerPc]
      /\ \A d \in Tx \ {c} : pc'[d] = pc[d]
  BY <1>1, <1>2, <1>5, GotoOnly
<1>7. /\ rowLock'[p] = c
      /\ \A q \in Player \ {p} : rowLock'[q] = rowLock[q]
      /\ rowLock' \in [Player -> Tx \cup {Nobody}]
      /\ order'[c] = new
  BY <1>1, <1>2 DEF TxTypeOK
<1>8. Only(c)
  BY <1>1, <1>2, <1>5, <1>6, <1>7 DEF Only, TxTypeOK
<1>9. TxTypeOK'
  BY <1>1, <1>2, <1>3, <1>6, <1>7 DEF TxTypeOK
<1>10. PurchaseLocks(c)' /\ Draft(c)'
  BY <1>1, <1>2, <1>3, <1>4, <1>5, <1>6, <1>7
  DEF PurchaseLocks, Draft, KeyOwned, RowOwned, ledgerVars
<1>11. Spares(c) /\ [LedgerNext]_ledgerVars
  BY <1>1, UncommittedSpares
<1> QED
  BY <1>5, <1>8, <1>9, <1>10, <1>11, StepKeeps

LEMMA ReleaseOnly ==
  ASSUME TxTypeOK, NEW c \in Tx, ReleaseLocks(c)
  PROVE  /\ rowLock' \in [Player -> Tx \cup {Nobody}]
         /\ keyLock' \in [Player -> [Key -> Api \cup {Nobody}]]
         /\ eventLock' \in [Occurrence -> Worker \cup {Nobody}]
         /\ \A p \in Player : rowLock'[p] # c
         /\ \A d \in Tx \ {c} :
              /\ \A p \in Player : rowLock'[p] = d <=> rowLock[p] = d
              /\ \A p \in Player, k \in Key : keyLock'[p][k] = d <=> keyLock[p][k] = d
              /\ \A o \in Occurrence : eventLock'[o] = d <=> eventLock[o] = d
<1>1. Nobody \notin Tx
  BY EconomyAssumption
<1>2. /\ rowLock' \in [Player -> Tx \cup {Nobody}]
      /\ \A p \in Player : rowLock'[p] # c
      /\ \A d \in Tx \ {c}, p \in Player : rowLock'[p] = d <=> rowLock[p] = d
  BY <1>1 DEF ReleaseLocks, TxTypeOK
<1>3. /\ keyLock' \in [Player -> [Key -> Api \cup {Nobody}]]
      /\ \A d \in Tx \ {c}, p \in Player, k \in Key :
           keyLock'[p][k] = d <=> keyLock[p][k] = d
  BY <1>1 DEF ReleaseLocks, TxTypeOK
<1>4. /\ eventLock' \in [Occurrence -> Worker \cup {Nobody}]
      /\ \A d \in Tx \ {c}, o \in Occurrence : eventLock'[o] = d <=> eventLock[o] = d
  BY <1>1 DEF ReleaseLocks, TxTypeOK
<1> QED
  BY <1>2, <1>3, <1>4

\* A transaction that ends holds nothing.
LEMMA EndedLocks ==
  ASSUME NEW c \in Tx, pc'[c] = "idle", \A p \in Player : rowLock'[p] # c
  PROVE  /\ c \in Api => PurchaseLocks(c)' /\ Draft(c)'
         /\ c \in Worker => BonusLocks(c)'
  BY DEF PurchaseLocks, Draft, BonusLocks, KeyOwned, RowOwned, ApiPc, WorkerPc

LEMMA RollbackStep ==
  ASSUME EconomyInv, NEW c \in Tx, Rollback(c)
  PROVE  [LedgerNext]_ledgerVars /\ EconomyInv'
<1>1. /\ ReleaseLocks(c) /\ Goto(c, "idle") /\ UNCHANGED ledgerVars
      /\ order' = [a \in Api |-> IF a = c THEN NoOrder ELSE order[a]]
      /\ award' = [w \in Worker |->
                     IF w = c THEN NewAward(NoOccurrence) ELSE award[w]]
  BY DEF Rollback
<1>2. TxTypeOK /\ "idle" \in ApiPc
  BY DEF EconomyInv, ApiPc
<1>3. /\ pc'[c] = "idle" /\ pc' \in [Tx -> ApiPc \cup WorkerPc]
      /\ \A d \in Tx \ {c} : pc'[d] = pc[d]
  BY <1>1, <1>2, GotoOnly
<1>4. Only(c)
  BY <1>1, <1>2, <1>3, ReleaseOnly DEF Only, Tx
<1>5. TxTypeOK'
  <2>1. /\ order' \in [Api -> Order \cup {NoOrder}]
        /\ award' \in [Worker -> Award]
    BY <1>1, <1>2 DEF TxTypeOK, NewAward, Award
  <2> QED
    BY <1>1, <1>2, <1>3, <2>1, ReleaseOnly DEF TxTypeOK
<1>6. Spares(c) /\ [LedgerNext]_ledgerVars
  BY <1>1, UncommittedSpares
<1>7. /\ c \in Api => PurchaseLocks(c)' /\ Draft(c)'
      /\ c \in Worker => BonusLocks(c)'
  BY <1>1, <1>2, <1>3, ReleaseOnly, EndedLocks
<1> QED
  BY <1>4, <1>5, <1>6, <1>7, StepKeeps

-----------------------------------------------------------------------------
(***************************************************************************)
(* The commit of a purchase is the whole purchase, executed alone.         *)
(***************************************************************************)
LEMMA CommitIsBuy ==
  ASSUME EconomyInv, NEW c \in Api, CommitPurchase(c)
  PROVE  LedgerNext
<1> DEFINE o == order[c]
           p == o.player
           k == o.key
           b == o.building
<1>1. /\ pc[c] = "save"
      /\ SaveCommand(p, k, b, o.reply, o.level)
      /\ resource' = [resource EXCEPT ![p] = o.row]
      /\ o.reply = "ok" =>
           /\ level' = [level EXCEPT ![p][b] = o.level]
           /\ due' = [due EXCEPT ![p] = [amount |-> DueAt(p, o.row.last),
                                         since  |-> o.row.last]]
      /\ o.reply # "ok" => UNCHANGED <<level, due>>
      /\ UNCHANGED <<account, applied, rewarded>>
  BY DEF CommitPurchase
<1>2. /\ o \in Order /\ p \in Player /\ k \in Key /\ b \in Building
      /\ resource[p] \in Row /\ account[p] = "live"
      /\ command[p][k] = NoCommand
      /\ Draft(c)
      /\ resource \in [Player -> Row]
  BY <1>1, OpenPurchase
  DEF PurchaseLocks, KeyOwned, EconomyInv, LedgerInv, LedgerTypeOK
<1>3. SUFFICES \E t \in Clock : Buy(p, k, b, t)
  BY <1>2 DEF LedgerNext
<1>4. CASE /\ o.reply \in {"max_level_reached", "insufficient_funds"}
           /\ o.row = resource[p] /\ o.level = 0
           /\ o.reply = "max_level_reached" => level[p][b] + 1 > MaxLevel
           /\ o.reply = "insufficient_funds" =>
                /\ level[p][b] + 1 <= MaxLevel
                /\ resource[p].gold < PriceForLevel(b, level[p][b] + 1)
  <2>1. resource' = resource
    BY <1>1, <1>2, <1>4
  <2>2. Refuse(p, k, b, o.reply)
    BY <1>1, <1>4, <2>1 DEF Refuse
  <2>3. 0 \in Clock
    BY LedgerAssumption DEF Clock
  <2>4. Buy(p, k, b, 0)
    BY <1>2, <1>4, <2>2 DEF Buy
  <2> QED
    BY <2>3, <2>4
<1>5. CASE /\ o.reply = "ok"
           /\ Affordable(p, b, o.level)
           /\ \E settled \in Settlements(p, b, o.level) :
                Fits(settled) /\ o.row = Upgraded(settled, b)
  <2> DEFINE price == PriceForLevel(b, o.level)
  <2>1. PICK t \in Clock : LET settled == Collected(Paid(resource[p], price), t) IN
               Fits(settled) /\ o.row = Upgraded(settled, b)
    BY <1>5 DEF Settlements
  <2> DEFINE settled == Collected(Paid(resource[p], price), t)
  <2>2. price \in Nat /\ price <= resource[p].gold /\ t \in Nat
    BY <1>2, <1>5, PriceType, LedgerAssumption DEF Order, Affordable, Row, Clock
  <2>3. settled \in Row
    BY <1>2, <2>2, PaidType, CollectedType
  <2>4. /\ Fits(settled) /\ o.row = Upgraded(settled, b)
        /\ o.row.last = settled.last
    BY <1>2, <2>1, <2>3, UpgradedType
  <2>5. Upgrade(p, k, b, o.level, t)
    <3> HIDE DEF p, k, b, price
    <3> QED
      BY <1>1, <1>5, <2>4 DEF Upgrade, price
  <2>6. Buy(p, k, b, t)
    BY <1>2, <1>5, <2>5 DEF Buy, Affordable
  <2> QED
    BY <2>6
<1> QED
  BY <1>1, <1>2, <1>4, <1>5 DEF Draft

LEMMA CommitPurchaseStep ==
  ASSUME EconomyInv, NEW c \in Api, CommitPurchase(c)
  PROVE  LedgerNext /\ EconomyInv'
<1> DEFINE o == order[c]
           p == o.player
           k == o.key
<1>1. /\ pc[c] = "save" /\ ReleaseLocks(c) /\ Goto(c, "idle")
      /\ SaveCommand(p, k, o.building, o.reply, o.level)
      /\ resource' = [resource EXCEPT ![p] = o.row]
      /\ \/ level' = [level EXCEPT ![p][o.building] = o.level]
         \/ UNCHANGED level
      /\ UNCHANGED <<account, applied, rewarded, order, award>>
  BY DEF CommitPurchase
<1>2. /\ p \in Player /\ k \in Key /\ account[p] = "live"
      /\ keyLock[p][k] = c /\ rowLock[p] = c /\ command[p][k] = NoCommand
      /\ TxTypeOK /\ c \in Tx /\ c \notin Worker /\ "idle" \in ApiPc
      /\ LedgerTypeOK
  BY <1>1, OpenPurchase, EconomyAssumption
  DEF PurchaseLocks, KeyOwned, RowOwned, ApiPc, EconomyInv, LedgerInv
<1>3. LedgerNext
  BY CommitIsBuy
<1>4. /\ pc'[c] = "idle" /\ pc' \in [Tx -> ApiPc \cup WorkerPc]
      /\ \A d \in Tx \ {c} : pc'[d] = pc[d]
  BY <1>1, <1>2, GotoOnly
<1>5. Only(c) /\ TxTypeOK'
  BY <1>1, <1>2, <1>4, ReleaseOnly DEF Only, TxTypeOK
<1>6. Spares(c)
  <2>1. ASSUME NEW q \in Live PROVE SparesPlayer(c, q)
    <3>1. q \in Player /\ account'[q] = "live"
      BY <1>1 DEF Live
    <3>2. q # p => /\ resource'[q] = resource[q] /\ level'[q] = level[q]
                   /\ command'[q] = command[q]
      BY <1>1, <1>2, <3>1 DEF LedgerTypeOK, SaveCommand
    <3>3. \A j \in Key : j # k => command'[p][j] = command[p][j]
      <4> HIDE DEF p, k
      <4> QED
        BY <1>1, <1>2 DEF LedgerTypeOK, SaveCommand
    <3> QED
      BY <1>2, <3>1, <3>2, <3>3 DEF SparesPlayer
  <2> QED
    BY <1>1, <2>1 DEF Spares
<1>7. PurchaseLocks(c)' /\ Draft(c)'
  BY <1>1, <1>2, <1>4, ReleaseOnly, EndedLocks
<1> QED
  BY <1>2, <1>3, <1>5, <1>6, <1>7, StepKeeps

-----------------------------------------------------------------------------
(***************************************************************************)
(* The world-event transaction.                                            *)
(***************************************************************************)
LEMMA OpenAward ==
  ASSUME EconomyInv, NEW w \in Worker
  PROVE  /\ TxTypeOK /\ LedgerTypeOK /\ w \in Tx /\ w \notin Api /\ BonusLocks(w)
         /\ award[w] \in Award /\ Nobody \notin Tx
         /\ {"idle", "select", "acquire"} \subseteq WorkerPc
  BY EconomyAssumption
  DEF EconomyInv, LedgerInv, LocksProtect, TxTypeOK, Tx, WorkerPc

LEMMA ReserveEventStep ==
  ASSUME EconomyInv, NEW w \in Worker, NEW o \in Occurrence, ReserveEvent(w, o)
  PROVE  [LedgerNext]_ledgerVars /\ EconomyInv'
<1>1. /\ pc[w] = "idle" /\ eventLock[o] = Nobody /\ o \notin applied
      /\ eventLock' = [eventLock EXCEPT ![o] = w]
      /\ award' = [award EXCEPT ![w] = NewAward(o)]
      /\ Goto(w, "select")
      /\ UNCHANGED <<ledgerVars, order, rowLock, keyLock>>
  BY DEF ReserveEvent, NewEventTx
<1>2. /\ TxTypeOK /\ w \in Tx /\ w \notin Api /\ BonusLocks(w)
      /\ Nobody \notin Tx /\ "select" \in WorkerPc
  BY OpenAward
<1>3. /\ pc'[w] = "select" /\ pc' \in [Tx -> ApiPc \cup WorkerPc]
      /\ \A d \in Tx \ {w} : pc'[d] = pc[d]
  BY <1>1, <1>2, GotoOnly
<1>4. /\ NewAward(o) \in Award /\ NewAward(o).occurrence = o
  BY DEF NewAward, Award
<1>5. award'[w] = NewAward(o) /\ eventLock'[o] = w
  BY <1>1, <1>2 DEF TxTypeOK
<1>6. Only(w)
  BY <1>1, <1>2, <1>3 DEF Only, TxTypeOK, Tx
<1>7. TxTypeOK'
  BY <1>1, <1>2, <1>3, <1>4 DEF TxTypeOK
<1>8. BonusLocks(w)'
  BY <1>1, <1>2, <1>3, <1>4, <1>5 DEF BonusLocks, ledgerVars
<1>9. Spares(w) /\ [LedgerNext]_ledgerVars
  BY <1>1, UncommittedSpares
<1> QED
  BY <1>2, <1>6, <1>7, <1>8, <1>9, StepKeeps

LEMMA ReplayEventStep ==
  ASSUME EconomyInv, NEW w \in Worker, NEW o \in Occurrence, ReplayEvent(w, o)
  PROVE  [LedgerNext]_ledgerVars /\ EconomyInv'
<1>1. /\ pc[w] = "idle"
      /\ award' = [award EXCEPT ![w] = NewAward(o)]
      /\ UNCHANGED <<ledgerVars, pc, order, rowLock, keyLock, eventLock>>
  BY DEF ReplayEvent
<1>2. TxTypeOK /\ w \in Tx /\ w \notin Api /\ BonusLocks(w)
  BY OpenAward
<1>3. NewAward(o) \in Award
  BY DEF NewAward, Award
<1>4. Only(w) /\ TxTypeOK'
  BY <1>1, <1>2, <1>3 DEF Only, TxTypeOK
<1>5. BonusLocks(w)'
  BY <1>1, <1>2 DEF BonusLocks, ledgerVars
<1>6. Spares(w) /\ [LedgerNext]_ledgerVars
  BY <1>1, UncommittedSpares
<1> QED
  BY <1>2, <1>4, <1>5, <1>6, StepKeeps

LEMMA SelectStep ==
  ASSUME EconomyInv, NEW w \in Worker, SelectRecipients(w)
  PROVE  [LedgerNext]_ledgerVars /\ EconomyInv'
<1>1. /\ pc[w] = "select" /\ Goto(w, "acquire")
      /\ award' = [award EXCEPT ![w].eligible = Live, ![w].todo = Live]
      /\ UNCHANGED <<ledgerVars, order, rowLock, keyLock, eventLock>>
  BY DEF SelectRecipients
<1>2. /\ TxTypeOK /\ w \in Tx /\ w \notin Api /\ BonusLocks(w)
      /\ award[w] \in Award /\ "acquire" \in WorkerPc
  BY OpenAward
<1>3. /\ pc'[w] = "acquire" /\ pc' \in [Tx -> ApiPc \cup WorkerPc]
      /\ \A d \in Tx \ {w} : pc'[d] = pc[d]
  BY <1>1, <1>2, GotoOnly
<1>4. /\ award' \in [Worker -> Award]
      /\ award'[w].occurrence = award[w].occurrence
      /\ \A v \in Worker \ {w} : award'[v] = award[v]
  <2>1. Live \subseteq Player
    BY DEF Live
  <2> HIDE DEF Live
  <2>2. award \in [Worker -> Award]
    BY <1>2 DEF TxTypeOK
  <2> QED
    BY <1>1, <2>1, <2>2 DEF Award
<1>5. Only(w) /\ TxTypeOK'
  BY <1>1, <1>2, <1>3, <1>4 DEF Only, TxTypeOK
<1>6. BonusLocks(w)'
  BY <1>1, <1>2, <1>3, <1>4 DEF BonusLocks, ledgerVars
<1>7. Spares(w) /\ [LedgerNext]_ledgerVars
  BY <1>1, UncommittedSpares
<1> QED
  BY <1>2, <1>5, <1>6, <1>7, StepKeeps

LEMMA AcquireStep ==
  ASSUME EconomyInv, NEW w \in Worker, AcquireRow(w)
  PROVE  [LedgerNext]_ledgerVars /\ EconomyInv'
<1>1. PICK p \in award[w].todo : rowLock[p] = Nobody /\ TakeRow(w, p)
  BY DEF AcquireRow
<1>2. /\ pc[w] = "acquire"
      /\ award' = [award EXCEPT ![w].todo = @ \ {p}]
      /\ \/ account[p] = "live" /\ rowLock' = [rowLock EXCEPT ![p] = w]
         \/ UNCHANGED rowLock
      /\ UNCHANGED <<ledgerVars, pc, order, keyLock, eventLock>>
  BY <1>1 DEF TakeRow
<1>3. /\ TxTypeOK /\ w \in Tx /\ w \notin Api /\ BonusLocks(w)
      /\ award[w] \in Award /\ Nobody \notin Tx /\ p \in Player
  BY <1>1, OpenAward DEF Award
<1>4. /\ award' \in [Worker -> Award]
      /\ award'[w].occurrence = award[w].occurrence
      /\ \A v \in Worker \ {w} : award'[v] = award[v]
  <2>1. award \in [Worker -> Award]
    BY <1>3 DEF TxTypeOK
  <2> QED
    BY <1>2, <2>1 DEF Award
<1>5. /\ rowLock' \in [Player -> Tx \cup {Nobody}]
      /\ \A q \in Player :
           \/ rowLock'[q] = rowLock[q]
           \/ q = p /\ account[p] = "live" /\ rowLock'[p] = w
  BY <1>2, <1>3 DEF TxTypeOK
<1>6. Only(w)
  BY <1>1, <1>2, <1>3, <1>4, <1>5 DEF Only
<1>7. TxTypeOK'
  BY <1>2, <1>3, <1>4, <1>5 DEF TxTypeOK
<1>8. BonusLocks(w)'
  BY <1>2, <1>3, <1>4, <1>5 DEF BonusLocks, ledgerVars
<1>9. Spares(w) /\ [LedgerNext]_ledgerVars
  BY <1>2, UncommittedSpares
<1> QED
  BY <1>3, <1>6, <1>7, <1>8, <1>9, StepKeeps

\* The commit of a world event grants the bonus to the rows it locked.
LEMMA CommitBonusStep ==
  ASSUME EconomyInv, NEW w \in Worker, CommitBonus(w)
  PROVE  [LedgerNext]_ledgerVars /\ EconomyInv'
<1> DEFINE o == award[w].occurrence
<1>1. CASE Rollback(w)
  BY <1>1, RollbackStep DEF Tx
<1>2. CASE /\ pc[w] = "acquire" /\ PayRecipients(w)
           /\ \A p \in Locked(w) : Fits(Rewarded(resource[p]))
  <2>1. /\ applied' = applied \cup {o}
        /\ rewarded' = [rewarded EXCEPT ![o] = Locked(w)]
        /\ resource' = [p \in Player |->
             IF rowLock[p] = w THEN Rewarded(resource[p]) ELSE resource[p]]
        /\ ReleaseLocks(w) /\ Goto(w, "idle")
        /\ UNCHANGED <<account, level, command, due, order, award>>
    BY <1>2 DEF PayRecipients
  <2>2. /\ TxTypeOK /\ LedgerTypeOK /\ w \in Tx /\ w \notin Api
        /\ Nobody \notin Tx /\ "idle" \in WorkerPc
        /\ o \in Occurrence \ applied /\ eventLock[o] = w
        /\ \A p \in Player : rowLock[p] = w => account[p] = "live"
    BY <1>2, OpenAward DEF BonusLocks
  <2>3. LedgerNext
    <3>1. Locked(w) \subseteq Live /\ Locked(w) \in SUBSET Player
      BY <2>2 DEF Locked, Live
    <3>2. resource' = [p \in Player |->
             IF p \in Locked(w) THEN Rewarded(resource[p]) ELSE resource[p]]
      BY <2>1 DEF Locked
    <3>3. Grant(o, Locked(w))
      BY <1>2, <2>1, <2>2, <3>1, <3>2 DEF Grant
    <3> QED
      BY <2>2, <3>1, <3>3 DEF LedgerNext
  <2>4. /\ pc'[w] = "idle" /\ pc' \in [Tx -> ApiPc \cup WorkerPc]
        /\ \A d \in Tx \ {w} : pc'[d] = pc[d]
    BY <2>1, <2>2, GotoOnly
  <2>5. Only(w) /\ TxTypeOK'
    BY <2>1, <2>2, <2>4, ReleaseOnly DEF Only, TxTypeOK
  <2>6. Spares(w)
    BY <2>1, <2>2 DEF Spares, SparesPlayer, Live
  <2>7. BonusLocks(w)'
    BY <2>1, <2>2, <2>4, ReleaseOnly, EndedLocks
  <2> QED
    BY <2>2, <2>3, <2>5, <2>6, <2>7, StepKeeps
<1> QED
  BY <1>1, <1>2 DEF CommitBonus

-----------------------------------------------------------------------------
LEMMA StutterStep ==
  ASSUME EconomyInv, UNCHANGED vars
  PROVE  [LedgerNext]_ledgerVars /\ EconomyInv'
  BY DEF vars, txVars, ledgerVars, EconomyInv, LedgerInv, LedgerTypeOK,
     NothingLeftOver, PaidWhenApplied, Conservation, Conserved, TwiceSpentOn,
     WithinNumeric, OneCommandPerLevel, OneCommandEach, BoughtBy, NeverOverpaid,
     PaidFairly, BonusesOf, EventsFor, DueAt, Live, TxTypeOK, LocksProtect,
     PurchaseLocks, BonusLocks, DraftsCurrent, Draft, Affordable, Settlements

LEMMA PurchaseStepKeeps ==
  ASSUME EconomyInv, NEW c \in Api, PurchaseStep(c)
  PROVE  [LedgerNext]_ledgerVars /\ EconomyInv'
<1>1. CASE \E t \in Clock : Settle(c, t)
  <2>1. PICK t \in Clock : Settle(c, t)
    BY <1>1
  <2>2. CASE Fits(Collected(order[c].row, t))
    BY <2>1, <2>2, SettleStep
  <2>3. CASE ~Fits(Collected(order[c].row, t))
    BY <2>1, <2>3, RollbackStep DEF Settle, Tx
  <2> QED
    BY <2>2, <2>3
<1>2. CASE CommitPurchase(c)
  BY <1>2, CommitPurchaseStep
<1> QED
  BY <1>1, <1>2, ReserveStep, ReplayStep, LockStep, ReadLevelStep, PayStep,
     RaiseRateStep DEF PurchaseStep

LEMMA AwardStepKeeps ==
  ASSUME EconomyInv, NEW w \in Worker, AwardStep(w)
  PROVE  [LedgerNext]_ledgerVars /\ EconomyInv'
  BY SelectStep, AcquireStep, CommitBonusStep DEF AwardStep

LEMMA NextInv ==
  ASSUME EconomyInv, [Next]_vars
  PROVE  [LedgerNext]_ledgerVars /\ EconomyInv'
<1>1. ASSUME NEW p \in Player, DeleteCommit(p)
      PROVE  [LedgerNext]_ledgerVars /\ EconomyInv'
  BY <1>1, DeleteStep
<1>2. ASSUME NEW p \in Player, NEW t \in Clock,
             SignupCommit(p, t) \/ CollectCommit(p, t)
      PROVE  [LedgerNext]_ledgerVars /\ EconomyInv'
  BY <1>2, SignupStep, CollectStep
<1>3. ASSUME NEW w \in Worker, NEW o \in Occurrence,
             ReserveEvent(w, o) \/ ReplayEvent(w, o)
      PROVE  [LedgerNext]_ledgerVars /\ EconomyInv'
  BY <1>3, ReserveEventStep, ReplayEventStep
<1> QED
  BY <1>1, <1>2, <1>3, BeginStep, PurchaseStepKeeps, AwardStepKeeps, RollbackStep,
     StutterStep DEF Next

-----------------------------------------------------------------------------
(***************************************************************************)
(* EconomyInvariant: in every reachable state of the interleaved           *)
(* transactions the tables are well formed, the locks protect what their   *)
(* holders read, and every draft is current.                               *)
(***************************************************************************)
THEOREM EconomyInvariant == Spec => []EconomyInv
<1>1. EconomyInv /\ [Next]_vars => EconomyInv'
  BY NextInv
<1> QED
  BY InitInv, <1>1, PTL DEF Spec

(***************************************************************************)
(* TypeCorrect: Spec => []TypeOK, for every number of players, keys,       *)
(* connections and occurrences and every catalogue.                        *)
(***************************************************************************)
THEOREM TypeCorrect == Spec => []TypeOK
<1>1. EconomyInv => TypeOK
  BY DEF EconomyInv, LedgerInv, TypeOK
<1> QED
  BY EconomyInvariant, <1>1, PTL

(***************************************************************************)
(* LockSafety: an open purchase or bonus keeps the rows it read locked     *)
(* until it commits, so nothing it read becomes stale.                     *)
(***************************************************************************)
THEOREM LockSafety == Spec => []LocksProtect
<1>1. EconomyInv => LocksProtect
  BY DEF EconomyInv
<1> QED
  BY EconomyInvariant, <1>1, PTL

(***************************************************************************)
(* NoLostUpdate: a purchase always carries the committed row plus its own  *)
(* changes, so its commit overwrites nobody's collection, purchase or      *)
(* bonus.                                                                  *)
(***************************************************************************)
THEOREM NoLostUpdate == Spec => []DraftsCurrent
<1>1. EconomyInv => DraftsCurrent
  BY DEF EconomyInv
<1> QED
  BY EconomyInvariant, <1>1, PTL

(***************************************************************************)
(* Serializable: the transactions, interleaved statement by statement with *)
(* rollbacks and crashes anywhere, implement the serial ledger: each       *)
(* commit is one whole operation and every other step is invisible.        *)
(***************************************************************************)
THEOREM Serializable == Spec => LedgerSpec
<1>1. Init => LedgerInit
  BY DEF Init
<1>2. EconomyInv /\ [Next]_vars => [LedgerNext]_ledgerVars
  BY NextInv
<1> QED
  BY <1>1, <1>2, EconomyInvariant, PTL DEF Spec, LedgerSpec

(***************************************************************************)
(* GoldConserved: whatever interleaves, gold held is gold earned less the  *)
(* price of the levels owned, and the rate is the sum of those levels.     *)
(***************************************************************************)
THEOREM GoldConserved == Spec => []Conservation
<1>1. EconomyInv => Conservation
  BY DEF EconomyInv, LedgerInv
<1> QED
  BY EconomyInvariant, <1>1, PTL

(***************************************************************************)
(* ExactlyOnce: every level owned was bought by exactly one saved command. *)
(***************************************************************************)
THEOREM ExactlyOnce == Spec => []OneCommandPerLevel
<1>1. EconomyInv => OneCommandPerLevel
  BY DEF EconomyInv, LedgerInv
<1> QED
  BY EconomyInvariant, <1>1, PTL

(***************************************************************************)
(* FairPay: no interval is paid twice or at a later rate, and no recipient *)
(* on record missed a bonus, for every sequence of clock readings.         *)
(***************************************************************************)
THEOREM FairPay == Spec => []NeverOverpaid
<1>1. EconomyInv => NeverOverpaid
  BY DEF EconomyInv, LedgerInv
<1> QED
  BY EconomyInvariant, <1>1, PTL

(***************************************************************************)
(* NoOverflow: no committed amount exceeds the numeric column.             *)
(***************************************************************************)
THEOREM NoOverflow == Spec => []WithinNumeric
<1>1. EconomyInv => WithinNumeric
  BY DEF EconomyInv, LedgerInv
<1> QED
  BY EconomyInvariant, <1>1, PTL

(***************************************************************************)
(* EconomyMonotone and EconomyPermanent: the action properties of the      *)
(* ledger hold of the interleaved transactions too.                        *)
(***************************************************************************)
THEOREM EconomyMonotone == Spec => Monotone
  BY Serializable, LedgerMonotone, PTL

THEOREM EconomyPermanent == Spec => Permanent
  BY Serializable, LedgerPermanent, PTL

(***************************************************************************)
(* EconomyEarnings: what the leaderboard relies on holds of the economy as *)
(* the code runs it, statement by statement.                               *)
(***************************************************************************)
THEOREM EconomyEarnings == Spec => EarningsReported
  BY Serializable, LedgerEarnings, PTL


-----------------------------------------------------------------------------
(***************************************************************************)
(* What clients are told and whom a bonus pays.                            *)
(***************************************************************************)
\* saved is the command that answer o reports
Reports(o, saved) ==
  /\ saved # NoCommand
  /\ IF o.reply = "idempotency_key_reused"
     THEN saved.building # o.building
     ELSE saved = [building |-> o.building, reason |-> o.reply, level |-> o.level]

\* an answered request belongs to an account that was created
AnswerRecorded(c) ==
  pc[c] = "idle" /\ order[c] # NoOrder =>
    LET o == order[c] IN
    /\ account[o.player] # "none"
    /\ account[o.player] = "live" => Reports(o, command[o.player][o.key])

\* an award has locked whom it has passed, unless they were deleted before
AwardComplete(w) ==
  /\ pc[w] = "acquire" =>
       \A p \in award[w].eligible :
         account[p] = "live" => p \in award[w].todo \/ rowLock[p] = w
  /\ pc[w] = "acquire" => \A p \in award[w].eligible : account[p] # "none"
  /\ pc[w] = "acquire" => award[w].todo \subseteq award[w].eligible
  /\ \A p \in Player : rowLock[p] = w => p \in award[w].eligible

AnswerInv ==
  /\ \A c \in Api : AnswerRecorded(c)
  /\ \A w \in Worker : AwardComplete(w)

-----------------------------------------------------------------------------
(***************************************************************************)
(* A step of one transaction leaves the record of every other alone.       *)
(***************************************************************************)
OthersOrders(d) ==
  \A c \in Api \ {d} : pc'[c] = pc[c] /\ order'[c] = order[c]

OthersAwards(d) ==
  \A w \in Worker \ {d} :
    /\ pc'[w] = pc[w] /\ award'[w] = award[w]
    /\ \A p \in Player : rowLock'[p] = w <=> rowLock[p] = w

LEMMA GotoOthers ==
  ASSUME TxTypeOK, NEW d \in Tx, NEW next, Goto(d, next)
  PROVE  \A c \in Tx \ {d} : pc'[c] = pc[c]
  BY DEF Goto, TxTypeOK

LEMMA RollbackOthers ==
  ASSUME TxTypeOK, NEW d \in Tx, Rollback(d)
  PROVE  OthersOrders(d) /\ OthersAwards(d)
<1>1. \A c \in Tx \ {d} : pc'[c] = pc[c]
  BY GotoOthers DEF Rollback
<1>2. OthersOrders(d)
  BY <1>1 DEF Rollback, OthersOrders, Tx
<1>3. \A w \in Worker \ {d} : award'[w] = award[w]
  BY DEF Rollback
<1>4. \A w \in Worker \ {d}, p \in Player : rowLock'[p] = w <=> rowLock[p] = w
  BY ReleaseOnly DEF Rollback, Tx
<1> QED BY <1>1, <1>2, <1>3, <1>4 DEF OthersAwards, Tx

LEMMA BeginOthers ==
  ASSUME TxTypeOK, NEW c \in Api, NEW p, NEW k, NEW b, BeginPurchase(c, p, k, b)
  PROVE  OthersOrders(c) /\ OthersAwards(c)
<1>1. c \in Tx /\ c \notin Worker
  BY EconomyAssumption DEF Tx
<1>2. \A d \in Tx \ {c} : pc'[d] = pc[d]
  BY <1>1, GotoOthers DEF BeginPurchase
<1>3. \A d \in Api \ {c} : order'[d] = order[d]
  BY DEF BeginPurchase, TxTypeOK
<1> QED BY <1>1, <1>2, <1>3 DEF OthersOrders, OthersAwards, BeginPurchase, Tx

LEMMA PurchaseOthers ==
  ASSUME EconomyInv, NEW c \in Api, PurchaseStep(c)
  PROVE  OthersOrders(c) /\ OthersAwards(c)
<1>1. c \in Tx /\ c \notin Worker /\ TxTypeOK /\ Nobody \notin Tx
  BY EconomyAssumption DEF Tx, EconomyInv
<1>2. ASSUME NEW next, Goto(c, next), UNCHANGED <<award, rowLock>>,
             UNCHANGED order \/ \E o : order' = [order EXCEPT ![c] = o]
      PROVE  OthersOrders(c) /\ OthersAwards(c)
  <2>1. \A d \in Tx \ {c} : pc'[d] = pc[d]
    BY <1>1, <1>2, GotoOthers
  <2>2. \A d \in Api \ {c} : order'[d] = order[d]
    BY <1>1, <1>2 DEF TxTypeOK
  <2> QED BY <1>1, <1>2, <2>1, <2>2 DEF OthersOrders, OthersAwards, Tx
<1>3. CASE ReserveCommand(c)
  BY <1>2, <1>3 DEF ReserveCommand
<1>4. CASE ReplayPurchase(c)
  BY <1>2, <1>4 DEF ReplayPurchase
<1>5. CASE LockResource(c)
  <2>1. \A d \in Tx \ {c} : pc'[d] = pc[d]
    BY <1>1, <1>5, GotoOthers DEF LockResource
  <2>2. \A d \in Api \ {c} : order'[d] = order[d]
    BY <1>1, <1>5 DEF LockResource, TxTypeOK
  <2>3. \A w \in Worker, p \in Player : rowLock'[p] = w <=> rowLock[p] = w
    BY <1>1, <1>5 DEF LockResource, TxTypeOK, Tx
  <2> QED BY <1>1, <1>5, <2>1, <2>2, <2>3 DEF OthersOrders, OthersAwards, Tx, LockResource
<1>6. CASE ReadLevel(c)
  BY <1>2, <1>6 DEF ReadLevel
<1>7. CASE Pay(c)
  BY <1>2, <1>7 DEF Pay
<1>8. CASE \E t \in Clock : Settle(c, t)
  <2>1. PICK t \in Clock : Settle(c, t)
    BY <1>8
  <2>2. CASE Rollback(c)
    BY <1>1, <2>2, RollbackOthers
  <2>3. CASE ~Rollback(c)
    BY <1>2, <2>1, <2>3 DEF Settle
  <2> QED BY <2>2, <2>3
<1>9. CASE RaiseRate(c)
  BY <1>2, <1>9 DEF RaiseRate
<1>10. CASE CommitPurchase(c)
  <2>1. \A d \in Tx \ {c} : pc'[d] = pc[d]
    BY <1>1, <1>10, GotoOthers DEF CommitPurchase
  <2>2. \A w \in Worker, p \in Player : rowLock'[p] = w <=> rowLock[p] = w
    BY <1>1, <1>10, ReleaseOnly DEF CommitPurchase, Tx
  <2> QED BY <1>1, <1>10, <2>1, <2>2 DEF OthersOrders, OthersAwards, Tx, CommitPurchase
<1> QED
  BY <1>3, <1>4, <1>5, <1>6, <1>7, <1>8, <1>9, <1>10 DEF PurchaseStep

LEMMA EventOthers ==
  ASSUME EconomyInv, NEW w \in Worker,
         \/ \E o \in Occurrence : ReserveEvent(w, o) \/ ReplayEvent(w, o)
         \/ AwardStep(w)
  PROVE  OthersOrders(w) /\ OthersAwards(w)
<1>1. w \in Tx /\ w \notin Api /\ TxTypeOK /\ Nobody \notin Tx
  BY EconomyAssumption DEF Tx, EconomyInv
<1>2. CASE \E o \in Occurrence : ReserveEvent(w, o)
  <2>1. \A d \in Tx \ {w} : pc'[d] = pc[d]
    BY <1>1, <1>2, GotoOthers DEF ReserveEvent, NewEventTx
  <2> QED BY <1>1, <1>2, <2>1 DEF OthersOrders, OthersAwards, Tx, ReserveEvent, NewEventTx, TxTypeOK
<1>3. CASE \E o \in Occurrence : ReplayEvent(w, o)
  BY <1>1, <1>3 DEF OthersOrders, OthersAwards, ReplayEvent, TxTypeOK
<1>4. CASE SelectRecipients(w)
  <2>1. \A d \in Tx \ {w} : pc'[d] = pc[d]
    BY <1>1, <1>4, GotoOthers DEF SelectRecipients
  <2>2. \A v \in Worker \ {w} : award'[v] = award[v]
    BY <1>1, <1>4 DEF SelectRecipients, TxTypeOK
  <2> QED BY <1>1, <1>4, <2>1, <2>2 DEF OthersOrders, OthersAwards, Tx, SelectRecipients
<1>5. CASE AcquireRow(w)
  <2>1. PICK p \in award[w].todo : rowLock[p] = Nobody /\ TakeRow(w, p)
    BY <1>5 DEF AcquireRow
  <2>2. \A v \in Worker \ {w} : award'[v] = award[v]
    BY <1>1, <2>1 DEF TakeRow, TxTypeOK
  <2>3. rowLock' = [rowLock EXCEPT ![p] = w] \/ UNCHANGED rowLock
    BY <2>1 DEF TakeRow
  <2>4. \A v \in Worker \ {w}, q \in Player : rowLock'[q] = v <=> rowLock[q] = v
    BY <1>1, <2>1, <2>3 DEF TxTypeOK, Tx
  <2> QED BY <1>1, <2>1, <2>2, <2>4 DEF OthersOrders, OthersAwards, TakeRow
<1>6. CASE CommitBonus(w)
  <2>1. CASE Rollback(w)
    BY <1>1, <2>1, RollbackOthers
  <2>2. CASE PayRecipients(w)
    <3>1. \A d \in Tx \ {w} : pc'[d] = pc[d]
      BY <1>1, <2>2, GotoOthers DEF PayRecipients
    <3>2. \A v \in Worker \ {w}, q \in Player : rowLock'[q] = v <=> rowLock[q] = v
      BY <1>1, <2>2, ReleaseOnly DEF PayRecipients, Tx
    <3> QED BY <1>1, <2>2, <3>1, <3>2 DEF OthersOrders, OthersAwards, Tx, PayRecipients
  <2> QED BY <1>6, <2>1, <2>2 DEF CommitBonus
<1> QED BY <1>2, <1>3, <1>4, <1>5, <1>6 DEF AwardStep

-----------------------------------------------------------------------------
(***************************************************************************)
(* Accounts only end and saved commands stay, so records stay right.       *)
(***************************************************************************)
LEMMA AccountFacts ==
  ASSUME EconomyInv, [LedgerNext]_ledgerVars, NEW p \in Player, account[p] # "none"
  PROVE  /\ account'[p] # "none"
         /\ account'[p] = "live" => account[p] = "live"
<1>1. account[p] \in {"none", "live", "deleted"}
  BY DEF EconomyInv, LedgerInv, LedgerTypeOK
<1>2. LedgerInv
  BY DEF EconomyInv
<1> QED BY <1>1, <1>2, AccountNext

LEMMA AnswerKept ==
  ASSUME EconomyInv, [LedgerNext]_ledgerVars, NEW c \in Api, AnswerRecorded(c),
         pc'[c] = pc[c], order'[c] = order[c]
  PROVE  AnswerRecorded(c)'
<1> DEFINE o == order[c]
<1> SUFFICES ASSUME pc[c] = "idle", order[c] # NoOrder
             PROVE  /\ account'[o.player] # "none"
                    /\ account'[o.player] = "live" =>
                         Reports(o, command'[o.player][o.key])
  BY DEF AnswerRecorded, Reports
<1>1. o \in Order /\ o.player \in Player /\ o.key \in Key
  BY DEF EconomyInv, TxTypeOK, Order
<1>2. /\ account[o.player] # "none"
      /\ account[o.player] = "live" => Reports(o, command[o.player][o.key])
  BY DEF AnswerRecorded
<1>3. /\ account'[o.player] # "none"
      /\ account'[o.player] = "live" => account[o.player] = "live"
  BY <1>1, <1>2, AccountFacts
<1>4. ASSUME account'[o.player] = "live"
      PROVE  command'[o.player][o.key] = command[o.player][o.key]
  <2>1. command[o.player][o.key] # NoCommand
    BY <1>2, <1>3, <1>4 DEF Reports
  <2>2. PermanentStep
    BY PermanentNext DEF EconomyInv
  <2> QED BY <1>1, <1>4, <2>1, <2>2 DEF PermanentStep
<1> QED BY <1>2, <1>3, <1>4

LEMMA AwardKept ==
  ASSUME EconomyInv, [LedgerNext]_ledgerVars, NEW w \in Worker, AwardComplete(w),
         pc'[w] = pc[w], award'[w] = award[w],
         \A p \in Player : rowLock'[p] = w <=> rowLock[p] = w
  PROVE  AwardComplete(w)'
<1>1. award[w].eligible \subseteq Player
  BY DEF EconomyInv, TxTypeOK, Award
<1>2. ASSUME pc[w] = "acquire", NEW p \in award[w].eligible
      PROVE  /\ account'[p] # "none"
             /\ account'[p] = "live" => account[p] = "live"
  <2>1. account[p] # "none"
    BY <1>2 DEF AwardComplete
  <2> QED BY <1>1, <2>1, AccountFacts
<1>3. pc[w] = "acquire" =>
        \A p \in award[w].eligible :
          account'[p] = "live" => p \in award[w].todo \/ rowLock'[p] = w
  BY <1>1, <1>2 DEF AwardComplete
<1>4. \A p \in Player : rowLock'[p] = w => p \in award[w].eligible
  BY DEF AwardComplete
<1>5. pc[w] = "acquire" => award[w].todo \subseteq award[w].eligible
  BY DEF AwardComplete
<1> QED BY <1>2, <1>3, <1>4, <1>5 DEF AwardComplete

-----------------------------------------------------------------------------
(***************************************************************************)
(* A step of the connection itself.                                        *)
(***************************************************************************)
LEMMA BeginAnswer ==
  ASSUME EconomyInv, NEW c \in Api, NEW p \in Player, NEW k \in Key,
         NEW b \in Building, BeginPurchase(c, p, k, b)
  PROVE  AnswerRecorded(c)'
<1>1. TxTypeOK /\ c \in Tx
  BY DEF EconomyInv, Tx
<1>2. CASE Goto(c, "reserve")
  BY <1>1, <1>2 DEF Goto, TxTypeOK, AnswerRecorded
<1>3. CASE /\ account[p] = "deleted"
           /\ order' = [order EXCEPT ![c] = NewOrder(p, k, b, "player_not_found")]
  <2>1. order'[c].player = p /\ account'[p] = "deleted"
    BY <1>1, <1>3 DEF TxTypeOK, NewOrder, BeginPurchase, ledgerVars
  <2> QED BY <2>1 DEF AnswerRecorded
<1> QED BY <1>2, <1>3 DEF BeginPurchase

LEMMA RollbackAnswer ==
  ASSUME NEW c \in Api, Rollback(c)
  PROVE  AnswerRecorded(c)'
<1>1. order'[c] = NoOrder
  BY DEF Rollback
<1> QED BY <1>1 DEF AnswerRecorded

LEMMA ReplayAnswer ==
  ASSUME EconomyInv, NEW c \in Api, ReplayPurchase(c)
  PROVE  AnswerRecorded(c)'
<1> DEFINE o == order[c]
           saved == command[o.player][o.key]
<1>1. /\ pc[c] = "replay" /\ UNCHANGED ledgerVars
      /\ order' = [order EXCEPT ![c] =
           IF saved.building # o.building THEN Answer(o, "idempotency_key_reused", 0)
           ELSE Answer(o, saved.reason, saved.level)]
  BY DEF ReplayPurchase
<1>2. /\ o \in Order /\ TxTypeOK /\ saved \in Command /\ saved # NoCommand
      /\ account[o.player] = "live"
  BY <1>1, OpenPurchase DEF PurchaseLocks
<1>3. /\ saved.reason \in Reason /\ saved.level \in Nat
      /\ saved = [building |-> saved.building, reason |-> saved.reason, level |-> saved.level]
      /\ saved.reason # "idempotency_key_reused"
  BY <1>2 DEF Command, Reason
<1>4. CASE saved.building # o.building
  <2>1. order'[c] = Answer(o, "idempotency_key_reused", 0)
    BY <1>1, <1>2, <1>4 DEF TxTypeOK
  <2>2. /\ order'[c].player = o.player /\ order'[c].key = o.key
        /\ order'[c].building = o.building /\ order'[c].reply = "idempotency_key_reused"
    BY <1>2, <2>1, AnswerType
  <2>3. Reports(order'[c], saved)
    BY <1>2, <1>4, <2>2 DEF Reports
  <2> QED BY <1>1, <1>2, <2>2, <2>3 DEF AnswerRecorded, Reports, ledgerVars
<1>5. CASE saved.building = o.building
  <2>1. order'[c] = Answer(o, saved.reason, saved.level)
    BY <1>1, <1>2, <1>5 DEF TxTypeOK
  <2>2. /\ order'[c].player = o.player /\ order'[c].key = o.key
        /\ order'[c].building = o.building /\ order'[c].reply = saved.reason
        /\ order'[c].level = saved.level
    BY <1>2, <1>3, <2>1, AnswerType
  <2>3. Reports(order'[c], saved)
    BY <1>2, <1>3, <1>5, <2>2 DEF Reports
  <2> QED BY <1>1, <1>2, <2>2, <2>3 DEF AnswerRecorded, Reports, ledgerVars
<1> QED BY <1>4, <1>5

LEMMA CommitAnswer ==
  ASSUME EconomyInv, NEW c \in Api, CommitPurchase(c)
  PROVE  AnswerRecorded(c)'
<1> DEFINE o == order[c]
           new == [building |-> o.building, reason |-> o.reply, level |-> o.level]
<1>1. /\ pc[c] = "save" /\ SaveCommand(o.player, o.key, o.building, o.reply, o.level)
      /\ UNCHANGED <<account, order>>
  BY DEF CommitPurchase
<1>2. /\ o.player \in Player /\ o.key \in Key /\ o.building \in Building /\ o.level \in Nat
      /\ account[o.player] = "live" /\ Draft(c) /\ LedgerTypeOK
  BY <1>1, OpenPurchase DEF EconomyInv, LedgerInv
<1>3. o.reply \in Reason
  BY <1>1, <1>2 DEF Draft, Reason
<1>4. command'[o.player][o.key] = new
  BY <1>1, <1>2 DEF SaveCommand, LedgerTypeOK
<1>5. new \in Command
  BY <1>2, <1>3 DEF Command
<1>6. new # NoCommand /\ o.reply # "idempotency_key_reused"
  BY <1>3, <1>5, NoCommandAssumption DEF Reason
<1>7. Reports(o, new)
  BY <1>6 DEF Reports
<1> QED BY <1>1, <1>2, <1>4, <1>7 DEF AnswerRecorded, Reports

LEMMA PurchaseAnswer ==
  ASSUME EconomyInv, NEW c \in Api, PurchaseStep(c)
  PROVE  AnswerRecorded(c)'
<1>1. TxTypeOK /\ c \in Tx
  BY DEF EconomyInv, Tx
<1>2. ASSUME NEW next \in ApiPc \ {"idle"}, Goto(c, next)
      PROVE  AnswerRecorded(c)'
  BY <1>1, <1>2 DEF Goto, TxTypeOK, AnswerRecorded
<1>3. CASE ReserveCommand(c)
  BY <1>2, <1>3 DEF ReserveCommand, ApiPc
<1>4. CASE LockResource(c)
  BY <1>2, <1>4 DEF LockResource, ApiPc
<1>5. CASE ReadLevel(c)
  BY <1>2, <1>5 DEF ReadLevel, ApiPc
<1>6. CASE Pay(c)
  BY <1>2, <1>6 DEF Pay, ApiPc
<1>7. CASE \E t \in Clock : Settle(c, t)
  BY <1>2, <1>7, RollbackAnswer DEF Settle, ApiPc
<1>8. CASE RaiseRate(c)
  BY <1>2, <1>8 DEF RaiseRate, ApiPc
<1> QED
  BY <1>3, <1>4, <1>5, <1>6, <1>7, <1>8, ReplayAnswer, CommitAnswer DEF PurchaseStep

-----------------------------------------------------------------------------
(***************************************************************************)
(* A step of the worker itself.                                            *)
(***************************************************************************)
\* a worker that is not acquiring rows has none
LEMMA NoRowsHeld ==
  ASSUME NEW w \in Worker, BonusLocks(w)', pc'[w] # "acquire"
  PROVE  AwardComplete(w)'
  BY DEF BonusLocks, AwardComplete

LEMMA EventAward ==
  ASSUME EconomyInv, EconomyInv', NEW w \in Worker, AwardComplete(w),
         \/ \E o \in Occurrence : ReserveEvent(w, o) \/ ReplayEvent(w, o)
         \/ AwardStep(w) \/ Rollback(w)
  PROVE  AwardComplete(w)'
<1>1. /\ TxTypeOK /\ w \in Tx /\ BonusLocks(w) /\ award[w] \in Award
      /\ Nobody \notin Tx /\ LedgerTypeOK
  BY OpenAward
<1>2. BonusLocks(w)'
  BY DEF EconomyInv, LocksProtect
<1>3. CASE \/ \E o \in Occurrence : ReserveEvent(w, o) \/ ReplayEvent(w, o)
           \/ CommitBonus(w) \/ Rollback(w)
  <2>1. pc'[w] # "acquire"
    BY <1>1, <1>3 DEF ReserveEvent, NewEventTx, ReplayEvent, CommitBonus, PayRecipients,
       Rollback, Goto, TxTypeOK
  <2> QED BY <1>2, <2>1, NoRowsHeld
<1>4. CASE SelectRecipients(w)
  <2>1. /\ award'[w].eligible = Live /\ award'[w].todo = Live
        /\ UNCHANGED <<account, rowLock>>
    BY <1>1, <1>4 DEF SelectRecipients, TxTypeOK, Award, ledgerVars
  <2>2. \A p \in Player : rowLock[p] # w
    BY <1>1, <1>4 DEF SelectRecipients, BonusLocks
  <2> QED BY <2>1, <2>2 DEF AwardComplete, Live
<1>5. CASE AcquireRow(w)
  <2>1. PICK p \in award[w].todo : rowLock[p] = Nobody /\ TakeRow(w, p)
    BY <1>5 DEF AcquireRow
  <2>2. /\ pc[w] = "acquire" /\ UNCHANGED <<account, pc>>
        /\ award' = [award EXCEPT ![w].todo = @ \ {p}]
    BY <2>1 DEF TakeRow, ledgerVars
  <2>3. award'[w].eligible = award[w].eligible /\ award'[w].todo = award[w].todo \ {p}
    BY <1>1, <2>2 DEF TxTypeOK, Award
  <2>4. p \in Player /\ p \in award[w].eligible /\ award[w].eligible \subseteq Player
    BY <1>1, <2>1, <2>2 DEF AwardComplete, Award
  <2>5. /\ \A q \in Player \ {p} : rowLock'[q] = rowLock[q]
        /\ account[p] = "live" => rowLock'[p] = w
    BY <1>1, <2>1, <2>4 DEF TakeRow, TxTypeOK
  <2>6. \A q \in award[w].eligible :
          account'[q] = "live" => q \in award'[w].todo \/ rowLock'[q] = w
    BY <2>2, <2>3, <2>4, <2>5 DEF AwardComplete
  <2>7. \A q \in Player : rowLock'[q] = w => q \in award'[w].eligible
    BY <2>3, <2>4, <2>5 DEF AwardComplete
  <2>8. award'[w].todo \subseteq award'[w].eligible
    BY <2>2, <2>3 DEF AwardComplete
  <2>9. \A q \in award'[w].eligible : account'[q] # "none"
    BY <2>2, <2>3 DEF AwardComplete
  <2> QED BY <2>3, <2>6, <2>7, <2>8, <2>9 DEF AwardComplete
<1> QED BY <1>3, <1>4, <1>5 DEF AwardStep

-----------------------------------------------------------------------------
LEMMA AnswerInit == Init => AnswerInv
<1> SUFFICES ASSUME Init
             PROVE  AnswerInv
  OBVIOUS
<1>1. \A c \in Api : AnswerRecorded(c)
  BY DEF Init, AnswerRecorded
<1>2. ASSUME NEW w \in Worker
      PROVE  AwardComplete(w)
  <2>1. pc[w] = "idle" /\ \A p \in Player : rowLock[p] # w
    BY EconomyAssumption DEF Init, Tx
  <2> QED BY <2>1 DEF AwardComplete
<1> QED BY <1>1, <1>2 DEF AnswerInv

\* only the transaction that makes the step has anything to show
LEMMA OthersKept ==
  ASSUME EconomyInv, AnswerInv, [LedgerNext]_ledgerVars, NEW d,
         OthersOrders(d), OthersAwards(d),
         d \in Api => AnswerRecorded(d)',
         d \in Worker => AwardComplete(d)'
  PROVE  AnswerInv'
<1>1. ASSUME NEW c \in Api
      PROVE  AnswerRecorded(c)'
  <2>1. CASE c = d
    BY <2>1
  <2>2. CASE c # d
    BY <2>2, AnswerKept DEF AnswerInv, OthersOrders
  <2> QED BY <2>1, <2>2
<1>2. ASSUME NEW w \in Worker
      PROVE  AwardComplete(w)'
  <2>1. CASE w = d
    BY <2>1
  <2>2. CASE w # d
    BY <2>2, AwardKept DEF AnswerInv, OthersAwards
  <2> QED BY <2>1, <2>2
<1> QED BY <1>1, <1>2 DEF AnswerInv

LEMMA AnswerStep ==
  ASSUME EconomyInv, AnswerInv, [Next]_vars
  PROVE  AnswerInv'
<1>1. [LedgerNext]_ledgerVars /\ EconomyInv' /\ TxTypeOK /\ Api \cap Worker = {}
  BY NextInv, EconomyAssumption DEF EconomyInv
<1>2. CASE UNCHANGED txVars
  <2>1. OthersOrders(Nobody) /\ OthersAwards(Nobody)
    BY <1>2 DEF txVars, OthersOrders, OthersAwards
  <2> QED BY <1>1, <2>1, OthersKept, EconomyAssumption DEF Tx
<1>3. ASSUME NEW c \in Api, NEW p \in Player, NEW k \in Key, NEW b \in Building,
             BeginPurchase(c, p, k, b)
      PROVE  AnswerInv'
  BY <1>1, <1>3, BeginOthers, BeginAnswer, OthersKept
<1>4. ASSUME NEW c \in Api, PurchaseStep(c)
      PROVE  AnswerInv'
  BY <1>1, <1>4, PurchaseOthers, PurchaseAnswer, OthersKept
<1>5. ASSUME NEW w \in Worker,
             \/ \E o \in Occurrence : ReserveEvent(w, o) \/ ReplayEvent(w, o)
             \/ AwardStep(w)
      PROVE  AnswerInv'
  BY <1>1, <1>5, EventOthers, EventAward, OthersKept DEF AnswerInv
<1>6. ASSUME NEW d \in Tx, Rollback(d)
      PROVE  AnswerInv'
  BY <1>1, <1>6, RollbackOthers, RollbackAnswer, EventAward, OthersKept DEF AnswerInv
<1>7. CASE \E p \in Player :
             DeleteCommit(p) \/ \E t \in Clock : SignupCommit(p, t) \/ CollectCommit(p, t)
  BY <1>2, <1>7 DEF DeleteCommit, SignupCommit, CollectCommit
<1>8. CASE UNCHANGED vars
  BY <1>2, <1>8 DEF vars
<1> QED BY <1>3, <1>4, <1>5, <1>6, <1>7, <1>8 DEF Next

\* the only statement that applies an occurrence is its owner's commit
LEMMA AppliedByCommit ==
  ASSUME EconomyInv, Next, NEW o \in applied' \ applied
  PROVE  \E w \in Worker :
           /\ pc[w] = "acquire" /\ award[w].todo = {} /\ award[w].occurrence = o
           /\ PayRecipients(w)
<1>1. ASSUME NEW p \in Player,
             DeleteCommit(p) \/ \E t \in Clock : SignupCommit(p, t) \/ CollectCommit(p, t)
      PROVE  applied' = applied
  BY <1>1 DEF DeleteCommit, Delete, SignupCommit, Signup, CollectCommit, Collect
<1>2. ASSUME NEW c \in Api, NEW p \in Player, NEW k \in Key, NEW b \in Building,
             BeginPurchase(c, p, k, b)
      PROVE  applied' = applied
  BY <1>2 DEF BeginPurchase, ledgerVars
<1>3. ASSUME NEW d \in Tx, Rollback(d)
      PROVE  applied' = applied
  BY <1>3 DEF Rollback, ledgerVars
<1>4. ASSUME NEW c \in Api, PurchaseStep(c)
      PROVE  applied' = applied
  BY <1>4 DEF PurchaseStep, ReserveCommand, ReplayPurchase, LockResource, ReadLevel,
     Pay, Settle, RaiseRate, CommitPurchase, Rollback, ledgerVars
<1>5. ASSUME NEW w \in Worker,
             \/ \E e \in Occurrence : ReserveEvent(w, e) \/ ReplayEvent(w, e)
             \/ SelectRecipients(w) \/ AcquireRow(w)
      PROVE  applied' = applied
  BY <1>5 DEF ReserveEvent, NewEventTx, ReplayEvent, SelectRecipients, AcquireRow,
     TakeRow, ledgerVars
<1>6. ASSUME NEW w \in Worker, CommitBonus(w)
      PROVE  /\ PayRecipients(w) /\ pc[w] = "acquire" /\ award[w].todo = {}
             /\ award[w].occurrence = o
  <2>1. ~Rollback(w)
    BY <1>3 DEF Tx
  <2>2. PayRecipients(w) /\ pc[w] = "acquire" /\ award[w].todo = {}
    BY <1>6, <2>1 DEF CommitBonus
  <2>3. applied' = applied \cup {award[w].occurrence}
    BY <2>2 DEF PayRecipients
  <2> QED BY <2>2, <2>3
<1>7. PICK w \in Worker : CommitBonus(w)
  BY <1>1, <1>2, <1>3, <1>4, <1>5 DEF Next, AwardStep
<1> QED BY <1>6, <1>7

\* a commit pays whom the award found and who is still there
LEMMA LockedAreEligible ==
  ASSUME EconomyInv, AnswerInv, NEW w \in Worker, pc[w] = "acquire", award[w].todo = {}
  PROVE  Locked(w) = award[w].eligible \cap Live
<1>1. award[w].eligible \subseteq Player /\ BonusLocks(w) /\ AwardComplete(w)
  BY OpenAward DEF AnswerInv, Award
<1>2. \A p \in award[w].eligible : account[p] = "live" => rowLock[p] = w
  BY <1>1 DEF AwardComplete
<1>3. \A p \in Player : rowLock[p] = w => p \in award[w].eligible /\ account[p] = "live"
  BY <1>1 DEF AwardComplete, BonusLocks
<1> QED BY <1>1, <1>2, <1>3 DEF Locked, Live

LEMMA EligiblePaidStep ==
  ASSUME EconomyInv, AnswerInv, Next, NEW w \in Worker,
         award[w].occurrence \in applied' \ applied,
         eventLock[award[w].occurrence] = w
  PROVE  rewarded'[award[w].occurrence] = award[w].eligible \cap Live
<1> DEFINE o == award[w].occurrence
<1>1. PICK v \in Worker :
        /\ pc[v] = "acquire" /\ award[v].todo = {} /\ award[v].occurrence = o
        /\ PayRecipients(v)
  BY AppliedByCommit
<1>2. o \in Occurrence /\ eventLock[o] = v
  BY <1>1, OpenAward DEF BonusLocks
<1>3. v = w
  BY <1>2
<1>4. rewarded' = [rewarded EXCEPT ![o] = Locked(w)]
  BY <1>1, <1>3 DEF PayRecipients
<1>5. rewarded'[o] = Locked(w)
  BY <1>2, <1>4 DEF EconomyInv, LedgerInv, LedgerTypeOK
<1> QED BY <1>1, <1>3, <1>5, LockedAreEligible

-----------------------------------------------------------------------------
(***************************************************************************)
(* AnswerInvariant: the answers given agree with the saved commands, and   *)
(* an award has locked everybody it has passed who still exists.           *)
(***************************************************************************)
THEOREM AnswerInvariant == Spec => []AnswerInv
<1>1. EconomyInv /\ AnswerInv /\ [Next]_vars => AnswerInv'
  BY AnswerStep
<1> QED BY <1>1, AnswerInit, EconomyInvariant, PTL DEF Spec

(***************************************************************************)
(* RepliesHonest: a client that bought, was refused or retried was told    *)
(* what is saved under its key, for as long as its account exists.         *)
(***************************************************************************)
THEOREM RepliesHonest == Spec => []ReplyMatchesRecord
<1>1. AnswerInv => ReplyMatchesRecord
  BY DEF AnswerInv, AnswerRecorded, Reports, ReplyMatchesRecord, Answered
<1> QED BY <1>1, AnswerInvariant, PTL

(***************************************************************************)
(* NobodyForgotten: a bonus pays every player the award found who was not  *)
(* deleted before its commit, however many locks it had to wait for.       *)
(***************************************************************************)
THEOREM NobodyForgotten == Spec => EveryEligiblePaid
<1> DEFINE A == \A w \in Worker :
                  award[w].occurrence \in applied' \ applied
                  /\ eventLock[award[w].occurrence] = w
                  => rewarded'[award[w].occurrence] = award[w].eligible \cap Live
<1>1. EconomyInv /\ AnswerInv /\ [Next]_vars => [A]_vars
  BY EligiblePaidStep
<1> QED
  BY <1>1, EconomyInvariant, AnswerInvariant, PTL DEF Spec, EveryEligiblePaid

-----------------------------------------------------------------------------
(***************************************************************************)
(* The order of the locks: a purchase that holds a row waits for nothing,  *)
(* one that holds a key waits for a row at most, and a bonus holds only    *)
(* rows below the one it waits for.                                        *)
(***************************************************************************)
LocksInUse(c) ==
  /\ \A p \in Player : rowLock[p] = c => pc[c] \in RowOwned
  /\ \A p \in Player, k \in Key : keyLock[p][k] = c => pc[c] \in KeyOwned

Ascending(w) ==
  pc[w] = "acquire" =>
    \A p \in Player : rowLock[p] = w => \A q \in award[w].todo : p < q

OrderInv ==
  /\ \A c \in Api : LocksInUse(c)
  /\ \A w \in Worker : Ascending(w)

\* a step of d gives no other purchase a lock
OthersLocks(d) ==
  \A c \in Api \ {d} :
    /\ \A p \in Player : rowLock'[p] = c => rowLock[p] = c
    /\ \A p \in Player, k \in Key : keyLock'[p][k] = c => keyLock[p][k] = c

LEMMA OrderKept ==
  ASSUME OrderInv, NEW d, OthersOrders(d), OthersAwards(d), OthersLocks(d),
         d \in Api => LocksInUse(d)', d \in Worker => Ascending(d)'
  PROVE  OrderInv'
<1>1. ASSUME NEW c \in Api, c # d
      PROVE  LocksInUse(c)'
  BY <1>1 DEF OrderInv, OthersOrders, OthersLocks, LocksInUse
<1>2. ASSUME NEW w \in Worker, w # d
      PROVE  Ascending(w)'
  BY <1>2 DEF OrderInv, OthersAwards, Ascending
<1> QED BY <1>1, <1>2 DEF OrderInv

\* what ends holds no lock
LEMMA ReleasedOrder ==
  ASSUME TxTypeOK, NEW d \in Tx, ReleaseLocks(d), Goto(d, "idle")
  PROVE  /\ OthersLocks(d)
         /\ d \in Api => LocksInUse(d)'
         /\ d \in Worker => Ascending(d)'
<1>1. d # Nobody /\ pc'[d] = "idle"
  BY EconomyAssumption DEF Goto, TxTypeOK
<1>2. /\ \A p \in Player : rowLock'[p] # d
      /\ \A p \in Player, k \in Key : keyLock'[p][k] # d
  BY <1>1 DEF ReleaseLocks
<1>3. OthersLocks(d)
  BY ReleaseOnly DEF OthersLocks, Tx
<1> QED BY <1>1, <1>2, <1>3 DEF LocksInUse, Ascending

LEMMA PurchaseOrder ==
  ASSUME EconomyInv, NEW c \in Api, LocksInUse(c), PurchaseStep(c)
  PROVE  OthersLocks(c) /\ LocksInUse(c)'
<1>1. c \in Tx /\ TxTypeOK
  BY DEF Tx, EconomyInv
<1>2. ASSUME UNCHANGED <<rowLock, keyLock>>, NEW next, Goto(c, next),
             pc[c] \in RowOwned => next \in RowOwned,
             pc[c] \in KeyOwned => next \in KeyOwned
      PROVE  OthersLocks(c) /\ LocksInUse(c)'
  <2>1. pc'[c] = next
    BY <1>1, <1>2 DEF Goto, TxTypeOK
  <2> QED BY <1>2, <2>1 DEF OthersLocks, LocksInUse
<1> USE DEF KeyOwned, RowOwned
<1>3. CASE ReserveCommand(c)
  <2> DEFINE p == order[c].player
             k == order[c].key
  <2>1. CASE Goto(c, "replay") /\ UNCHANGED <<rowLock, keyLock>>
    BY <1>2, <1>3, <2>1 DEF ReserveCommand
  <2>2. CASE Goto(c, "lock") /\ keyLock' = [keyLock EXCEPT ![p][k] = c]
    <3>1. pc[c] = "reserve" /\ pc'[c] = "lock" /\ rowLock' = rowLock
      BY <1>1, <1>3, <2>2 DEF ReserveCommand, Goto, TxTypeOK
    <3>2. \A q \in Player, j \in Key : keyLock'[q][j] \in {keyLock[q][j], c}
      BY <1>1, <2>2 DEF TxTypeOK
    <3> QED BY <3>1, <3>2 DEF OthersLocks, LocksInUse
  <2> QED BY <1>3, <2>1, <2>2 DEF ReserveCommand
<1>4. CASE ReplayPurchase(c)
  BY <1>2, <1>4 DEF ReplayPurchase
<1>5. CASE LockResource(c)
  <2>1. pc[c] = "lock" /\ pc'[c] = "price" /\ keyLock' = keyLock
    BY <1>1, <1>5 DEF LockResource, Goto, TxTypeOK
  <2>2. \A q \in Player : rowLock'[q] \in {rowLock[q], c}
    BY <1>1, <1>5 DEF LockResource, TxTypeOK
  <2> QED BY <2>1, <2>2 DEF OthersLocks, LocksInUse
<1>6. CASE ReadLevel(c)
  BY <1>2, <1>6 DEF ReadLevel
<1>7. CASE Pay(c)
  BY <1>2, <1>7 DEF Pay
<1>8. CASE \E t \in Clock : Settle(c, t)
  <2>1. PICK t \in Clock : Settle(c, t)
    BY <1>8
  <2>2. CASE Rollback(c)
    BY <1>1, <2>2, ReleasedOrder DEF Rollback
  <2>3. CASE ~Rollback(c)
    BY <1>2, <2>1, <2>3 DEF Settle
  <2> QED BY <2>2, <2>3
<1>9. CASE RaiseRate(c)
  BY <1>2, <1>9 DEF RaiseRate
<1>10. CASE CommitPurchase(c)
  BY <1>1, <1>10, ReleasedOrder DEF CommitPurchase
<1> QED
  BY <1>3, <1>4, <1>5, <1>6, <1>7, <1>8, <1>9, <1>10 DEF PurchaseStep

LEMMA EventOrder ==
  ASSUME EconomyInv, NEW w \in Worker, Ascending(w),
         \/ \E o \in Occurrence : ReserveEvent(w, o) \/ ReplayEvent(w, o)
         \/ AwardStep(w)
  PROVE  OthersLocks(w) /\ Ascending(w)'
<1>1. /\ TxTypeOK /\ w \in Tx /\ w \notin Api /\ BonusLocks(w) /\ award[w] \in Award
  BY OpenAward
<1>2. CASE \E o \in Occurrence : ReserveEvent(w, o) \/ ReplayEvent(w, o)
  <2>1. pc'[w] \in {"idle", "select"} /\ UNCHANGED <<rowLock, keyLock>>
    BY <1>1, <1>2 DEF ReserveEvent, NewEventTx, ReplayEvent, Goto, TxTypeOK
  <2> QED BY <2>1 DEF OthersLocks, Ascending
<1>3. CASE SelectRecipients(w)
  <2>1. UNCHANGED <<rowLock, keyLock>> /\ \A p \in Player : rowLock[p] # w
    BY <1>1, <1>3 DEF SelectRecipients, BonusLocks
  <2> QED BY <2>1 DEF OthersLocks, Ascending
<1>4. CASE AcquireRow(w)
  <2>1. PICK p \in award[w].todo :
          IsNextRecipient(p, award[w].todo) /\ TakeRow(w, p)
    BY <1>4 DEF AcquireRow
  <2>2. award'[w].todo = award[w].todo \ {p} /\ pc[w] = "acquire" /\ keyLock' = keyLock
    BY <1>1, <2>1 DEF TakeRow, TxTypeOK, Award
  <2>3. /\ \A q \in Player : rowLock'[q] \in {rowLock[q], w}
        /\ \A q \in Player \ {p} : rowLock'[q] = rowLock[q]
    BY <1>1, <2>1 DEF TakeRow, TxTypeOK
  <2>4. award[w].todo \subseteq Player
    BY <1>1 DEF Award
  <2>5. ASSUME NEW q \in Player, rowLock'[q] = w, NEW n \in award[w].todo \ {p}
        PROVE  q < n
    <3>1. CASE q = p
      <4>1. p \in Nat /\ n \in Nat /\ p <= n /\ p # n
        BY <2>1, <2>4, <2>5, LedgerAssumption DEF IsNextRecipient
      <4> QED BY <3>1, <4>1
    <3>2. CASE q # p
      BY <2>2, <2>3, <2>5, <3>2 DEF Ascending
    <3> QED BY <3>1, <3>2
  <2> QED BY <1>1, <2>2, <2>3, <2>5 DEF OthersLocks, Ascending
<1>5. CASE CommitBonus(w)
  BY <1>1, <1>5, ReleasedOrder DEF CommitBonus, PayRecipients, Rollback
<1> QED BY <1>2, <1>3, <1>4, <1>5 DEF AwardStep

LEMMA OrderInit == Init => OrderInv
  BY EconomyAssumption DEF Init, OrderInv, LocksInUse, Ascending, Tx

LEMMA OrderStep ==
  ASSUME EconomyInv, OrderInv, [Next]_vars
  PROVE  OrderInv'
<1>1. TxTypeOK /\ Api \cap Worker = {} /\ Nobody \notin Tx
  BY EconomyAssumption DEF EconomyInv
<1>2. CASE UNCHANGED txVars
  BY <1>2 DEF txVars, OrderInv, LocksInUse, Ascending
<1>3. ASSUME NEW c \in Api, NEW p \in Player, NEW k \in Key, NEW b \in Building,
             BeginPurchase(c, p, k, b)
      PROVE  OrderInv'
  <2>1. pc[c] = "idle" /\ UNCHANGED <<rowLock, keyLock>>
    BY <1>3 DEF BeginPurchase
  <2>2. OthersLocks(c) /\ LocksInUse(c)'
    BY <2>1 DEF OrderInv, OthersLocks, LocksInUse, KeyOwned, RowOwned
  <2> QED BY <1>1, <1>3, <2>2, BeginOthers, OrderKept
<1>4. ASSUME NEW c \in Api, PurchaseStep(c)
      PROVE  OrderInv'
  BY <1>1, <1>4, PurchaseOthers, PurchaseOrder, OrderKept DEF OrderInv
<1>5. ASSUME NEW w \in Worker,
             \/ \E o \in Occurrence : ReserveEvent(w, o) \/ ReplayEvent(w, o)
             \/ AwardStep(w)
      PROVE  OrderInv'
  BY <1>1, <1>5, EventOthers, EventOrder, OrderKept DEF OrderInv
<1>6. ASSUME NEW d \in Tx, Rollback(d)
      PROVE  OrderInv'
  BY <1>1, <1>6, RollbackOthers, ReleasedOrder, OrderKept DEF Rollback
<1>7. CASE \E p \in Player :
             DeleteCommit(p) \/ \E t \in Clock : SignupCommit(p, t) \/ CollectCommit(p, t)
  BY <1>2, <1>7 DEF DeleteCommit, SignupCommit, CollectCommit
<1>8. CASE UNCHANGED vars
  BY <1>2, <1>8 DEF vars
<1> QED BY <1>3, <1>4, <1>5, <1>6, <1>7, <1>8 DEF Next

(***************************************************************************)
(* OrderInvariant: every lock that is held belongs to a statement that     *)
(* needs it, and bonuses take rows from below.                             *)
(***************************************************************************)
THEOREM OrderInvariant == Spec => []OrderInv
<1>1. EconomyInv /\ OrderInv /\ [Next]_vars => OrderInv'
  BY OrderStep
<1> QED BY <1>1, OrderInit, EconomyInvariant, PTL DEF Spec

-----------------------------------------------------------------------------
(***************************************************************************)
(* From the order of the locks to the absence of a circle.                 *)
(***************************************************************************)
\* among finite sets there is one that has no other within it
LEMMA SmallestMember ==
  ASSUME NEW S, NEW F, F \subseteq FiniteSubsetsOf(S), F # {}
  PROVE  \E U \in F : \A V \in F : V \subseteq U => V = U
<1>1. PICK U \in F : \A V \in F : ~(<<V, U>> \in StrictSubsetOrdering(S))
  BY FS_StrictSubsetOrderingWellFounded, WFMin
<1>2. \A V \in F : V \subseteq U => V = U
  BY <1>1 DEF StrictSubsetOrdering, FiniteSubsetsOf
<1> QED BY <1>2

\* the row a waiting transaction waits for
RowWanted(c) ==
  IF c \in Api THEN order[c].player
  ELSE CHOOSE p \in award[c].todo : IsNextRecipient(p, award[c].todo)

\* d waits for a lock that comes later than the one c waits for
Later(c, d) ==
  /\ pc[d] # "reserve"
  /\ pc[c] = "reserve" \/ RowWanted(c) < RowWanted(d)

LEMMA WaiterFacts ==
  ASSUME EconomyInv, NEW c \in Tx, NEW d, WaitsFor(c, d)
  PROVE  /\ pc[c] # "idle"
         /\ c \in Api /\ pc[c] = "reserve" =>
              \E p \in Player, k \in Key : keyLock[p][k] = d
         /\ pc[c] # "reserve" => RowWanted(c) \in Player /\ rowLock[RowWanted(c)] = d
         /\ c \in Api => pc[c] \in {"reserve", "lock"}
         /\ c \notin Api => c \in Worker /\ pc[c] = "acquire" /\ RowWanted(c) \in award[c].todo
<1>1. CASE c \in Api
  <2>1. pc[c] \in {"reserve", "lock"} /\ c \notin Worker
    BY <1>1, EconomyAssumption DEF WaitsFor
  <2>2. order[c].player \in Player /\ order[c].key \in Key
    BY <1>1, <2>1, OpenPurchase
  <2> QED BY <1>1, <2>1, <2>2 DEF WaitsFor, RowWanted
<1>2. CASE c \notin Api
  <2>1. /\ c \in Worker /\ pc[c] = "acquire"
        /\ \E p \in award[c].todo : IsNextRecipient(p, award[c].todo) /\ rowLock[p] = d
    BY <1>2 DEF WaitsFor
  <2>2. PICK p \in award[c].todo : IsNextRecipient(p, award[c].todo) /\ rowLock[p] = d
    BY <2>1
  <2>3. award[c].todo \subseteq Player
    BY <2>1, OpenAward DEF Award
  <2>4. \A q \in award[c].todo : IsNextRecipient(q, award[c].todo) => q = p
    <3> SUFFICES ASSUME NEW q \in award[c].todo, IsNextRecipient(q, award[c].todo)
                 PROVE  q = p
      OBVIOUS
    <3>1. p \in Nat /\ q \in Nat /\ p <= q /\ q <= p
      BY <2>2, <2>3, LedgerAssumption DEF IsNextRecipient
    <3> QED BY <3>1
  <2>5. RowWanted(c) = p
    BY <1>2, <2>2, <2>4 DEF RowWanted
  <2> QED BY <1>2, <2>1, <2>2, <2>3, <2>5
<1> QED BY <1>1, <1>2

LEMMA HolderIsLater ==
  ASSUME EconomyInv, OrderInv, NEW c \in Tx, NEW d \in Tx, NEW e,
         WaitsFor(c, d), WaitsFor(d, e)
  PROVE  Later(c, d)
<1>1. Api \cap Worker = {}
  BY EconomyAssumption
<1>2. CASE pc[c] = "reserve"
  <2>1. c \in Api
    BY <1>2, WaiterFacts
  <2>2. PICK p \in Player, k \in Key : keyLock[p][k] = d
    BY <1>2, <2>1, WaiterFacts
  <2>3. d \in Api
    BY <2>2, EconomyAssumption DEF EconomyInv, TxTypeOK
  <2>4. pc[d] \in KeyOwned
    BY <2>2, <2>3 DEF OrderInv, LocksInUse
  <2> QED BY <1>2, <2>4 DEF Later, KeyOwned
<1>3. CASE pc[c] # "reserve"
  <2> DEFINE p == RowWanted(c)
             q == RowWanted(d)
  <2>1. p \in Player /\ rowLock[p] = d
    BY <1>3, WaiterFacts
  <2>2. d \notin Api
    <3>1. d \in Api => pc[d] \in RowOwned /\ pc[d] \in {"reserve", "lock"}
      BY <2>1, WaiterFacts DEF OrderInv, LocksInUse
    <3> QED BY <3>1 DEF RowOwned, KeyOwned
  <2>3. d \in Worker /\ pc[d] = "acquire" /\ q \in award[d].todo
    BY <2>2, WaiterFacts
  <2>4. p < q
    BY <2>1, <2>3 DEF OrderInv, Ascending
  <2> QED BY <2>3, <2>4 DEF Later
<1> QED BY <1>2, <1>3

LEMMA NoCircle ==
  ASSUME EconomyInv, OrderInv, NEW group \in SUBSET Tx,
         IsFiniteSet(group), group # {},
         \A c \in group : \E d \in group : WaitsFor(c, d)
  PROVE  FALSE
<1> DEFINE Closed(U) == \A c \in U : \E d \in U : WaitsFor(c, d)
           F == {U \in FiniteSubsetsOf(Tx) : U # {} /\ Closed(U)}
<1>1. F \subseteq FiniteSubsetsOf(Tx) /\ F # {}
  <2>1. group \in F
    BY DEF FiniteSubsetsOf
  <2> QED BY <2>1
<1>2. PICK U \in F : \A W \in F : W \subseteq U => W = U
  <2> HIDE DEF F
  <2> QED BY <1>1, SmallestMember
<1>3. U \subseteq Tx /\ IsFiniteSet(U) /\ U # {} /\ Closed(U)
  BY DEF FiniteSubsetsOf
<1>4. PICK c \in U : TRUE
  BY <1>3
<1> DEFINE V == {d \in U : Later(c, d)}
<1>5. V # {}
  <2>1. PICK d \in U : WaitsFor(c, d)
    BY <1>3
  <2>2. PICK e \in U : WaitsFor(d, e)
    BY <1>3
  <2>3. Later(c, d)
    BY <1>3, <2>1, <2>2, HolderIsLater
  <2> QED BY <2>3
<1>6. Closed(V)
  <2> SUFFICES ASSUME NEW d \in V
               PROVE  \E e \in V : WaitsFor(d, e)
    OBVIOUS
  <2>1. PICK e \in U : WaitsFor(d, e)
    BY <1>3
  <2>2. PICK f \in U : WaitsFor(e, f)
    BY <1>3
  <2>3. Later(c, d) /\ Later(d, e)
    BY <1>3, <2>1, <2>2, HolderIsLater
  <2>4. pc[c] # "reserve" => RowWanted(c) \in Nat
    <3>1. PICK x \in U : WaitsFor(c, x)
      BY <1>3
    <3> QED BY <1>3, <3>1, WaiterFacts, LedgerAssumption
  <2>5. RowWanted(d) \in Nat /\ RowWanted(e) \in Nat
    BY <1>3, <2>1, <2>2, <2>3, WaiterFacts, LedgerAssumption DEF Later
  <2>6. Later(c, e)
    BY <2>3, <2>4, <2>5 DEF Later
  <2> QED BY <2>1, <2>6
<1>7. c \notin V
  <2>1. PICK x \in U : WaitsFor(c, x)
    BY <1>3
  <2>2. pc[c] # "reserve" => RowWanted(c) \in Nat
    BY <1>3, <2>1, WaiterFacts, LedgerAssumption
  <2> QED BY <2>2 DEF Later
<1>8. IsFiniteSet(V) /\ V \subseteq U
  BY <1>3, FS_Subset
<1>9. V \in F
  BY <1>3, <1>5, <1>6, <1>8 DEF FiniteSubsetsOf
<1> QED BY <1>2, <1>7, <1>8, <1>9

(***************************************************************************)
(* NoDeadlock: however many purchases and bonuses are open, none of them   *)
(* wait in a circle, so PostgreSQL never has to break one up.              *)
(***************************************************************************)
THEOREM NoDeadlock == Spec => []NoCircularWait
<1>1. EconomyInv /\ OrderInv => NoCircularWait
  BY NoCircle DEF NoCircularWait
<1> QED BY <1>1, EconomyInvariant, OrderInvariant, PTL

=============================================================================
