------------------------ MODULE OrderPipelineProofs ------------------------
(***************************************************************************)
(* Proofs about OrderPipeline, for every number of users, orders, threads, *)
(* retries and faults.                                                     *)
(*                                                                         *)
(* The argument has two halves.  First, whatever a thread or the broker    *)
(* does, it works on orders the admission script once accepted, and its    *)
(* effect on the two stores is one of five: nothing, a status update, a    *)
(* compensation, the insertion of an order that is not a duplicate, or one *)
(* half of such an insertion by a synchronous request (StepShape).  Second,*)
(* those effects and the admission preserve the ledger in Redis; without   *)
(* synchronous requests they also preserve the one in MySQL, and each is a *)
(* step of VoucherSale or a stutter.                                       *)
(***************************************************************************)
EXTENDS OrderPipeline, FiniteSetTheorems, TLAPS

-----------------------------------------------------------------------------
(* The Redis ledger: the admission script takes exactly one slot, the      *)
(* restore script frees at most its own, and no status update touches one. *)

\* The sets of users are finite, so their cardinalities add up.
LEMMA HoldersFinite ==
  ASSUME RedisTypeOK
  PROVE  /\ IsFiniteSet(Holders)
         /\ Cardinality(Holders) \in Nat
<1>1. Holders \subseteq Users
  BY DEF RedisTypeOK, Holders, Reserved
<1>2. IsFiniteSet(Holders)
  BY <1>1, FS_Subset, SeckillRedisAssumption
<1>. QED
  BY <1>2, FS_CardinalityType

\* The initial stock leaves out exactly the slots of the legacy users, since
\* no two legacy orders have the same owner.
LEMMA InitConservation ==
  ASSUME RedisInit
  PROVE  RedisTypeOK /\ RedisConservation
<1>. USE SeckillRedisAssumption
<1>1. IsFiniteSet(LegacyOrders)
  BY FS_Subset
<1>2. Cardinality(LegacyOrders) \in Nat
  BY <1>1, FS_CardinalityType
<1>3. RedisTypeOK
  BY <1>2 DEF RedisInit, RedisTypeOK, NoData, Status
<1>4. Reserved = {} /\ Holders = {Owner[o] : o \in LegacyOrders}
  BY DEF RedisInit, Reserved, Holders
<1>5. Cardinality(Holders) = Cardinality(LegacyOrders)
  <2>. DEFINE own == [o \in LegacyOrders |-> Owner[o]]
  <2>1. own \in Surjection(LegacyOrders, Holders)
    BY <1>4 DEF Surjection
  <2>2. own \in Injection(LegacyOrders, Holders)
    BY <2>1 DEF Surjection, Injection, IsInjective
  <2>. QED
    BY <1>1, <2>1, <2>2, FS_Surjection
<1>. QED
  BY <1>2, <1>3, <1>4, <1>5 DEF RedisInit, RedisConservation

\* seckill.lua replies "0" only to a user without a slot while one is left.
LEMMA AdmissionGuard ==
  ASSUME NEW u \in Users, NEW window, SeckillReply(u, window) = "0", RedisTypeOK
  PROVE  u \notin Holders /\ stock > 0
<1>1. u \notin Reserved
  BY DEF SeckillReply, Reserved, Holders
<1>2. u \notin legacy
  BY <1>1 DEF SeckillReply, Reserved, Holders
<1>. QED
  BY <1>1, <1>2 DEF SeckillReply, Reserved, Holders, RedisTypeOK

\* An admission takes one slot, for a user who had none.
LEMMA ReserveTakesOne ==
  ASSUME NEW o \in Orders, RedisTypeOK, RedisConservation,
         Owner[o] \notin Holders, stock > 0, Reserve(o)
  PROVE  /\ RedisTypeOK'
         /\ RedisConservation'
         /\ Holders' = Holders \cup {Owner[o]}
<1>. USE SeckillRedisAssumption
<1>u. Owner[o] \in Users /\ o # None
  OBVIOUS
<1>1. RedisTypeOK'
  <2>1. stock' \in Nat
    BY DEF RedisTypeOK, Reserve
  <2>2. reservation' \in [Users -> Orders \cup {None}]
    BY <1>u DEF RedisTypeOK, Reserve
  <2>3. data' \in [Orders -> [status : Status, retryCount : Nat, owned : BOOLEAN]]
    BY DEF RedisTypeOK, Reserve, Status
  <2>. QED
    BY <2>1, <2>2, <2>3 DEF RedisTypeOK, Reserve
<1>2. Reserved' = Reserved \cup {Owner[o]}
  BY <1>u DEF Reserved, Reserve, RedisTypeOK
<1>3. legacy' = legacy
  BY DEF Reserve
<1>4. Holders' = Holders \cup {Owner[o]}
  BY <1>2, <1>3 DEF Holders
<1>5. Cardinality(Holders') = Cardinality(Holders) + 1
  BY <1>4, HoldersFinite, FS_AddElement
<1>6. (Reserved \cap legacy)' = {}
  BY <1>2, <1>3 DEF RedisConservation, Holders
<1>7. stock' + Cardinality(Holders') = Total
  BY <1>5, HoldersFinite DEF RedisConservation, RedisTypeOK, Reserve
<1>. QED
  BY <1>1, <1>4, <1>6, <1>7 DEF RedisConservation

\* A compensation, of whatever order and however often it runs, gives back
\* at most one slot and keeps the ledger balanced.
LEMMA RestoreFreesAtMostOne ==
  ASSUME NEW o \in Orders, RedisTypeOK, RedisConservation, Restore(o)
  PROVE  /\ RedisTypeOK'
         /\ RedisConservation'
         /\ Holders' \in {Holders, Holders \ {Owner[o]}}
<1>. USE SeckillRedisAssumption
<1>u. Owner[o] \in Users /\ o # None
  OBVIOUS
<1>1. RedisTypeOK'
  <2>1. stock' \in Nat /\ legacy' \subseteq Users /\ pending' \subseteq Orders
    BY DEF RedisTypeOK, Restore
  <2>2. reservation' \in [Users -> Orders \cup {None}]
    BY <1>u DEF RedisTypeOK, Restore
  <2>3. UNCHANGED <<failed, data>>
    BY DEF Restore
  <2>. QED
    BY <2>1, <2>2, <2>3 DEF RedisTypeOK
<1>2. CASE UNCHANGED <<stock, reservation, legacy>>
  BY <1>1, <1>2 DEF RedisConservation, Holders, Reserved
<1>3. CASE /\ stock' = stock + 1
           /\ Owner[o] \in Holders
           /\ Holders' = Holders \ {Owner[o]}
           /\ (Reserved \cap legacy)' = {}
  <2>1. Cardinality(Holders') = Cardinality(Holders) - 1
    BY <1>3, HoldersFinite, FS_RemoveElement
  <2>2. Cardinality(Holders) \in Nat /\ stock \in Nat /\ Total \in Nat
    BY HoldersFinite DEF RedisTypeOK
  <2>3. stock' = stock + 1 /\ stock + Cardinality(Holders) = Total
    BY <1>3 DEF RedisConservation
  <2>4. stock' + Cardinality(Holders') = Total
    BY <2>1, <2>2, <2>3
  <2>. QED
    BY <1>1, <1>3, <2>4 DEF RedisConservation
<1>4. CASE /\ reservation[Owner[o]] = o
           /\ stock' = stock + 1
           /\ reservation' = [reservation EXCEPT ![Owner[o]] = None]
           /\ UNCHANGED legacy
  <2>1. Owner[o] \in Reserved
    BY <1>4, <1>u DEF Reserved
  <2>2. Reserved' = Reserved \ {Owner[o]}
    BY <1>4, <1>u DEF Reserved, RedisTypeOK
  <2>. QED
    BY <1>3, <1>4, <2>1, <2>2 DEF Holders, RedisConservation
<1>5. CASE /\ Owner[o] \in legacy
           /\ stock' = stock + 1
           /\ legacy' = legacy \ {Owner[o]}
           /\ UNCHANGED reservation
  <2>1. Reserved' = Reserved
    BY <1>5 DEF Reserved
  <2>. QED
    BY <1>3, <1>5, <2>1 DEF Holders, RedisConservation
<1>. QED
  BY <1>2, <1>4, <1>5 DEF Restore

\* The operations of PendingOrderService on the pending entry and the hash.
StatusUpdate(o) ==
  \/ MarkSendSuccess(o)
  \/ MarkSendFailed(o)
  \/ MarkRouteFailed(o)
  \/ BeforeRepublish(o)
  \/ MarkFailed(o)
  \/ MarkConsuming(o)
  \/ RemovePending(o)
  \/ ExpireData(o)

DataType == [Orders -> [status : Status, retryCount : Nat, owned : BOOLEAN]]

\* No status update touches the slots, and none brings an order back to the
\* pending set but its own.
LEMMA StatusUpdateKeepsSlots ==
  ASSUME NEW o \in Orders, RedisTypeOK, StatusUpdate(o)
  PROVE  /\ RedisTypeOK'
         /\ UNCHANGED <<stock, reservation, legacy>>
         /\ RedisConservation => RedisConservation'
         /\ Holders' = Holders
         /\ pending' \subseteq pending \cup {o}
<1>1. UNCHANGED <<stock, reservation, legacy>> /\ pending' \subseteq pending \cup {o}
  BY DEF StatusUpdate, MarkSendSuccess, MarkSendFailed, MarkRouteFailed, BeforeRepublish,
         MarkFailed, MarkConsuming, RemovePending, ExpireData
<1>2. pending' \subseteq Orders /\ failed' \subseteq Orders
  BY DEF RedisTypeOK, StatusUpdate, MarkSendSuccess, MarkSendFailed, MarkRouteFailed,
         BeforeRepublish, MarkFailed, MarkConsuming, RemovePending, ExpireData
<1>3. ASSUME NEW s \in Status, WriteStatus(o, s)
      PROVE  data' \in DataType
  BY <1>3 DEF RedisTypeOK, WriteStatus, DataType
<1>4. data' \in DataType
  <2>1. CASE MarkSendSuccess(o)
    BY <1>3, <2>1 DEF MarkSendSuccess, Status
  <2>2. CASE MarkSendFailed(o)
    BY <1>3, <2>2 DEF MarkSendFailed, Status
  <2>3. CASE MarkRouteFailed(o)
    BY <2>3 DEF MarkRouteFailed, RedisTypeOK, DataType, Status
  <2>4. CASE BeforeRepublish(o)
    BY <2>4 DEF BeforeRepublish, RedisTypeOK, DataType, Status
  <2>5. CASE MarkFailed(o)
    BY <1>3, <2>5 DEF MarkFailed, Status
  <2>6. CASE MarkConsuming(o)
    BY <1>3, <2>6 DEF MarkConsuming, Status
  <2>7. CASE RemovePending(o)
    BY <1>3, <2>7 DEF RemovePending, Status
  <2>8. CASE ExpireData(o)
    BY <2>8 DEF ExpireData, RedisTypeOK, DataType, NoData, Status
  <2>. QED
    BY <2>1, <2>2, <2>3, <2>4, <2>5, <2>6, <2>7, <2>8 DEF StatusUpdate
<1>5. RedisTypeOK'
  BY <1>1, <1>2, <1>4 DEF RedisTypeOK, DataType
<1>. QED
  BY <1>1, <1>5 DEF RedisConservation, Holders, Reserved

-----------------------------------------------------------------------------
(* The inductive invariant                                                 *)

\* The counters of q, one for each order and kind, are positive only for
\* orders of S.
Carries(q, Kind, S) ==
  /\ q \in [Orders -> [Kind -> Nat]]
  /\ \A o \in Orders, k \in Kind : q[o][k] > 0 => o \in S

BrokerOK ==
  /\ Carries(orderQueue, Deaths, issued)
  /\ Carries(retryQueue, Deaths, issued)
  /\ Carries(unacked, Deaths, issued)
  /\ Carries(confirms, ConfirmKind, issued)
  /\ failedQueue \in [Orders -> Nat]
  /\ \A o \in Orders : failedQueue[o] > 0 => o \in issued
  /\ parkingQueue \in [Orders -> Nat]

RequestOK ==
  /\ request \in [Orders -> RequestPc]
  /\ \A o \in Orders : request[o] # "idle" => o \in issued
  /\ \A o \in Orders : request[o] \in {"create", "deduct"} => "sync" \in Modes

ConsumerOK ==
  /\ consumer \in [Consumers ->
       [pc : ConsumerPc, order : Orders \cup {None}, deaths : Deaths]]
  /\ \A c \in Consumers : consumer[c].pc # "idle" => consumer[c].order \in issued

RecoveryOK ==
  /\ recovery \in
       [pc : RecoveryPc, order : Orders \cup {None}, attempt : 0..MaxAttempts]
  /\ recovery.pc # "idle" => recovery.order \in issued

TaskOK ==
  /\ task \in [Tasks ->
       [pc : TaskPc, order : Orders \cup {None}, batch : SUBSET Orders]]
  /\ \A t \in Tasks :
       /\ task[t].pc # "idle" => task[t].order \in issued
       /\ task[t].batch \subseteq issued

ConfirmingOK ==
  /\ confirming \in [Orders -> Nat]
  /\ \A o \in Orders : confirming[o] > 0 => o \in issued

ThreadsOK ==
  /\ ConfirmingOK
  /\ RequestOK
  /\ ConsumerOK
  /\ RecoveryOK
  /\ TaskOK

\* The pending entries and the order rows belong to admitted orders too.
StoresOK ==
  /\ RedisTypeOK
  /\ issued \subseteq Orders
  /\ pending \subseteq issued
  /\ dbOrders \subseteq issued
  /\ dbStock \in Nat

Shape ==
  /\ StoresOK
  /\ BrokerOK
  /\ ThreadsOK
  /\ faults \in 0..MaxFaults

BooksOK == "sync" \notin Modes => DbConservation

IndInv ==
  /\ Shape
  /\ RedisConservation
  /\ BooksOK
  /\ OneOrderPerUser

-----------------------------------------------------------------------------
(* Counters                                                                *)

\* One message more of an admitted order.
LEMMA AddToCarries ==
  ASSUME NEW q, NEW Kind, NEW S, Carries(q, Kind, S),
         NEW o \in S, o \in Orders, NEW k \in Kind
  PROVE  Carries(AddTo(q, o, k), Kind, S)
<1>. DEFINE r == AddTo(q, o, k)
<1>1. r \in [Orders -> [Kind -> Nat]]
  BY DEF Carries, AddTo
<1>2. \A p \in Orders, j \in Kind : r[p][j] > 0 => p = o \/ q[p][j] > 0
  BY DEF Carries, AddTo
<1>. QED
  BY <1>1, <1>2 DEF Carries

\* One message less; the counter does not run below zero.
LEMMA TakeFromCarries ==
  ASSUME NEW q, NEW Kind, NEW S, Carries(q, Kind, S),
         NEW o \in Orders, NEW k \in Kind, q[o][k] > 0
  PROVE  Carries(TakeFrom(q, o, k), Kind, S)
<1>. DEFINE r == TakeFrom(q, o, k)
<1>1. q[o] \in [Kind -> Nat] /\ q[o][k] \in Nat
  BY DEF Carries
<1>2. q[o][k] - 1 \in Nat
  BY <1>1
<1>3. r \in [Orders -> [Kind -> Nat]]
  BY <1>2 DEF Carries, TakeFrom
<1>4. \A p \in Orders, j \in Kind : r[p][j] > 0 => q[p][j] > 0
  BY <1>1 DEF Carries, TakeFrom
<1>. QED
  BY <1>3, <1>4 DEF Carries

\* An admission only adds to the admitted orders.
LEMMA CarriesMore ==
  ASSUME NEW q, NEW Kind, NEW S, NEW T, Carries(q, Kind, S), S \subseteq T
  PROVE  Carries(q, Kind, T)
BY DEF Carries

-----------------------------------------------------------------------------
(* What a step does to the two stores                                      *)

\* The script accepts a fresh order.
Admission ==
  /\ UNCHANGED mysql
  /\ \E o \in Orders :
       /\ o \notin issued
       /\ SeckillReply(Owner[o], "open") = "0"
       /\ Reserve(o)
       /\ issued' = issued \cup {o}

\* An admitted order gets a row.
Insertion ==
  /\ UNCHANGED <<issued, redis>>
  /\ \E o \in issued : ~Duplicate(o) /\ InsertOrder(o)

\* A synchronous request does it in two steps, or only the first.
HalfInsertion ==
  /\ "sync" \in Modes
  /\ UNCHANGED <<issued, redis>>
  /\ \/ /\ \E o \in issued : ~Duplicate(o) /\ dbOrders' = dbOrders \cup {o}
        /\ UNCHANGED dbStock
     \/ /\ ~OutOfStock
        /\ dbStock' = dbStock - 1
        /\ UNCHANGED dbOrders

\* An admitted order changes its status or is compensated, a detail hash
\* expires, or nothing changes in the stores.
Internal ==
  /\ UNCHANGED <<issued, mysql>>
  /\ \/ UNCHANGED redis
     \/ \E o \in issued : StatusUpdate(o) \/ Restore(o)
     \/ \E o \in Orders : ExpireData(o)

StepOK ==
  /\ BrokerOK'
  /\ ThreadsOK'
  /\ faults' \in 0..MaxFaults
  /\ Admission \/ Insertion \/ HalfInsertion \/ Internal

\* The fault budget is never exceeded.
LEMMA FaultBounded ==
  ASSUME faults \in 0..MaxFaults, Fault \/ UNCHANGED faults
  PROVE  faults' \in 0..MaxFaults
BY PipelineAssumption DEF Fault

\* A publication brings a message of its own order only, whatever the broker
\* answers or the client sees.
LEMMA PublishKeeps ==
  ASSUME Shape, NEW o \in issued, PublishOrder(o) \/ PublishThrows(o),
         UNCHANGED issued
  PROVE  BrokerOK' /\ faults' \in 0..MaxFaults
<1>. USE DEF Shape, BrokerOK
<1>1. o \in Orders /\ 0 \in Deaths
  BY PipelineAssumption DEF StoresOK, Deaths
<1>2. faults' \in 0..MaxFaults
  BY FaultBounded DEF PublishOrder, PublishThrows
<1>3. orderQueue' \in {orderQueue, AddTo(orderQueue, o, 0)}
  BY DEF PublishOrder, PublishThrows
<1>4. Carries(orderQueue', Deaths, issued')
  BY <1>1, <1>3, AddToCarries
<1>5. confirms' = confirms \/ \E kind \in ConfirmKind : confirms' = AddTo(confirms, o, kind)
  BY DEF PublishOrder, PublishThrows, ConfirmKind
<1>6. Carries(confirms', ConfirmKind, issued')
  BY <1>1, <1>5, AddToCarries
<1>. QED
  BY <1>2, <1>4, <1>6 DEF PublishOrder, PublishThrows

-----------------------------------------------------------------------------
(* The steps of each process                                               *)

\* A request thread of an admitted order moves on.
LEMMA RequestAtKeeps ==
  ASSUME Shape, NEW o \in issued, NEW from, NEW to \in RequestPc,
         RequestAt(o, from, to), to # "create",
         to = "deduct" => from = "create"
  PROVE  ThreadsOK' /\ UNCHANGED issued
<1>. USE DEF Shape, StoresOK, ThreadsOK, RequestAt
<1>1. RequestOK'
  BY DEF RequestOK
<1>2. ConfirmingOK' /\ ConsumerOK' /\ RecoveryOK' /\ TaskOK' /\ UNCHANGED issued
  BY DEF ConfirmingOK, ConsumerOK, RecoveryOK, TaskOK
<1>. QED
  BY <1>1, <1>2

\* Steps of seckillVoucher and createOrderSynchronously.
LEMMA RequestStep ==
  ASSUME Shape, NEW o \in Orders, RequestNext(o)
  PROVE  StepOK
<1>. USE DEF Shape, StepOK
<1>1. CASE Seckill(o)
  <2>. USE <1>1 DEF Seckill
  <2>1. BrokerOK'
    <3>1. issued \subseteq issued'
      OBVIOUS
    <3>. QED
      BY <3>1, CarriesMore DEF BrokerOK, broker
  <2>2. RequestOK'
    <3>1. request' \in [Orders -> RequestPc]
      BY DEF ThreadsOK, RequestOK, RequestPc
    <3>2. \A p \in Orders : request'[p] # "idle" => p = o \/ request[p] # "idle"
      BY DEF ThreadsOK, RequestOK
    <3>3. \A p \in Orders : request'[p] \in {"create", "deduct"} =>
            "sync" \in Modes \/ request[p] \in {"create", "deduct"}
      BY PipelineAssumption DEF ThreadsOK, RequestOK
    <3>. QED
      BY <3>1, <3>2, <3>3 DEF ThreadsOK, RequestOK
  <2>3. ConfirmingOK' /\ ConsumerOK' /\ RecoveryOK' /\ TaskOK'
    BY DEF ThreadsOK, ConfirmingOK, ConsumerOK, RecoveryOK, TaskOK
  <2>. QED
    BY <2>1, <2>2, <2>3 DEF ThreadsOK, Admission
<1>2. ASSUME request[o] # "idle"
      PROVE  o \in issued
  BY <1>2 DEF ThreadsOK, RequestOK
<1>3. ASSUME UNCHANGED broker, UNCHANGED issued
      PROVE  BrokerOK'
  BY <1>3 DEF BrokerOK, broker
<1>. USE DEF RequestPc
<1>4. CASE RequestSend(o)
  <2>1. o \in issued
    BY <1>2, <1>4 DEF RequestSend, RequestAt
  <2>2. ThreadsOK' /\ UNCHANGED issued
    BY <1>4, <2>1, RequestAtKeeps DEF RequestSend
  <2>. QED
    BY <1>4, <2>1, <2>2, PublishKeeps DEF RequestSend, Internal
<1>5. CASE RequestSendThrows(o)
  <2>1. o \in issued
    BY <1>2, <1>5 DEF RequestSendThrows, RequestAt
  <2>2. ThreadsOK' /\ UNCHANGED issued
    BY <1>5, <2>1, RequestAtKeeps DEF RequestSendThrows
  <2>. QED
    BY <1>5, <2>1, <2>2, PublishKeeps DEF RequestSendThrows, Internal
<1>6. CASE RequestSendFailed(o)
  <2>1. o \in issued
    BY <1>2, <1>6 DEF RequestSendFailed, RequestAt
  <2>2. ThreadsOK' /\ UNCHANGED issued
    BY <1>6, <2>1, RequestAtKeeps DEF RequestSendFailed
  <2>. QED
    BY <1>3, <1>6, <2>1, <2>2 DEF RequestSendFailed, Internal, StatusUpdate
<1>7. CASE SyncInsert(o)
  <2>1. o \in issued /\ "sync" \in Modes
    BY <1>2, <1>7 DEF SyncInsert, RequestAt, ThreadsOK, RequestOK
  <2>2. ThreadsOK' /\ UNCHANGED issued
    BY <1>7, <2>1, RequestAtKeeps DEF SyncInsert
  <2>. QED
    BY <1>3, <1>7, <2>1, <2>2 DEF SyncInsert, Internal, HalfInsertion, mysql
<1>13. CASE SyncDeduct(o)
  <2>1. o \in issued /\ "sync" \in Modes
    BY <1>2, <1>13 DEF SyncDeduct, RequestAt, ThreadsOK, RequestOK
  <2>2. ThreadsOK' /\ UNCHANGED issued
    BY <1>13, <2>1, RequestAtKeeps DEF SyncDeduct
  <2>. QED
    BY <1>3, <1>13, <2>1, <2>2 DEF SyncDeduct, Internal, HalfInsertion, mysql
<1>8. CASE SyncThrows(o)
  <2>1. o \in issued
    BY <1>2, <1>8 DEF SyncThrows, RequestAt
  <2>2. ThreadsOK' /\ UNCHANGED issued
    BY <1>8, <2>1, RequestAtKeeps DEF SyncThrows
  <2>. QED
    BY <1>3, <1>8, <2>2, FaultBounded DEF SyncThrows, Internal
<1>9. CASE SyncComplete(o)
  <2>1. o \in issued
    BY <1>2, <1>9 DEF SyncComplete, RequestAt
  <2>2. ThreadsOK' /\ UNCHANGED issued
    BY <1>9, <2>1, RequestAtKeeps DEF SyncComplete
  <2>. QED
    BY <1>3, <1>9, <2>1, <2>2 DEF SyncComplete, Internal, StatusUpdate
<1>10. CASE SyncRestore(o)
  <2>1. o \in issued
    BY <1>2, <1>10 DEF SyncRestore, RequestAt
  <2>2. ThreadsOK' /\ UNCHANGED issued
    BY <1>10, <2>1, RequestAtKeeps DEF SyncRestore
  <2>. QED
    BY <1>3, <1>10, <2>1, <2>2 DEF SyncRestore, Internal
<1>11. CASE SyncFail(o)
  <2>1. o \in issued
    BY <1>2, <1>11 DEF SyncFail, RequestAt
  <2>2. ThreadsOK' /\ UNCHANGED issued
    BY <1>11, <2>1, RequestAtKeeps DEF SyncFail
  <2>. QED
    BY <1>3, <1>11, <2>1, <2>2 DEF SyncFail, Internal, StatusUpdate
<1>12. CASE RequestLost(o)
  <2>1. o \in issued
    BY <1>2, <1>12 DEF RequestLost
  <2>2. ThreadsOK' /\ UNCHANGED issued
    BY <1>12, <2>1, RequestAtKeeps DEF RequestLost
  <2>. QED
    BY <1>3, <1>12, <2>2, FaultBounded DEF RequestLost, Internal
<1>. QED
  BY <1>1, <1>4, <1>5, <1>6, <1>7, <1>8, <1>9, <1>10, <1>11, <1>12,
     <1>13 DEF RequestNext

\* Threads that do not move keep their invariant.
LEMMA OthersKeep ==
  ASSUME ThreadsOK, UNCHANGED issued
  PROVE  /\ UNCHANGED confirming => ConfirmingOK'
         /\ UNCHANGED request => RequestOK'
         /\ UNCHANGED consumer => ConsumerOK'
         /\ UNCHANGED recovery => RecoveryOK'
         /\ UNCHANGED task => TaskOK'
BY DEF ThreadsOK, ConfirmingOK, RequestOK, ConsumerOK, RecoveryOK, TaskOK

\* A confirm callback starts or ends its two-step status update.
LEMMA ConfirmingKeeps ==
  ASSUME ConfirmingOK, UNCHANGED issued, NEW o \in Orders,
         \/ confirming' = confirming
         \/ o \in issued /\ confirming' = [confirming EXCEPT ![o] = @ + 1]
         \/ confirming[o] > 0 /\ confirming' = [confirming EXCEPT ![o] = @ - 1]
  PROVE  ConfirmingOK'
<1>1. confirming' \in [Orders -> Nat]
  <2>1. confirming[o] > 0 => confirming[o] - 1 \in Nat
    BY DEF ConfirmingOK
  <2>. QED
    BY <2>1 DEF ConfirmingOK
<1>2. \A p \in Orders : confirming'[p] > 0 => confirming[p] > 0 \/ p \in issued
  BY DEF ConfirmingOK
<1>. QED
  BY <1>1, <1>2 DEF ConfirmingOK

\* A publisher callback is for an order that was published, hence admitted.
LEMMA CallbackDoneKeeps ==
  ASSUME Shape, NEW o \in Orders, NEW kind \in ConfirmKind, CallbackDone(o, kind)
  PROVE  /\ o \in issued
         /\ BrokerOK'
         /\ RequestOK' /\ ConsumerOK' /\ RecoveryOK' /\ TaskOK'
         /\ UNCHANGED <<issued, mysql>>
<1>. USE DEF Shape, CallbackDone
<1>1. o \in issued
  BY DEF BrokerOK, Carries
<1>2. Carries(confirms', ConfirmKind, issued')
  BY TakeFromCarries DEF BrokerOK
<1>3. BrokerOK'
  BY <1>2 DEF BrokerOK
<1>. QED
  BY <1>1, <1>3, OthersKeep

\* Steps of confirm and returnedMessage.
LEMMA CallbackStep ==
  ASSUME Shape, NEW o \in Orders, CallbackNext(o)
  PROVE  StepOK
<1>. USE DEF Shape, StepOK, ThreadsOK
<1>k. "ack" \in ConfirmKind /\ "nack" \in ConfirmKind /\ "returned" \in ConfirmKind
  BY DEF ConfirmKind
<1>1. CASE ConfirmAck(o)
  <2>1. o \in issued /\ BrokerOK' /\ RequestOK' /\ ConsumerOK' /\ RecoveryOK' /\ TaskOK'
        /\ UNCHANGED <<issued, mysql>>
    BY <1>1, <1>k, CallbackDoneKeeps DEF ConfirmAck
  <2>2. confirming' = confirming \/ confirming' = [confirming EXCEPT ![o] = @ + 1]
    BY <1>1 DEF ConfirmAck, ConfirmingOK
  <2>3. ConfirmingOK'
    BY <2>1, <2>2, ConfirmingKeeps
  <2>. QED
    BY <1>1, <2>1, <2>3 DEF ConfirmAck, Internal
<1>2. CASE ConfirmWrite(o)
  <2>. USE <1>2 DEF ConfirmWrite
  <2>1. ConfirmingOK' /\ o \in issued
    BY ConfirmingKeeps DEF ConfirmingOK
  <2>2. RequestOK' /\ ConsumerOK' /\ RecoveryOK' /\ TaskOK'
    BY OthersKeep
  <2>3. BrokerOK'
    BY DEF BrokerOK, broker
  <2>. QED
    BY <2>1, <2>2, <2>3 DEF Internal, StatusUpdate
<1>3. CASE ConfirmNack(o)
  <2>1. o \in issued /\ BrokerOK' /\ RequestOK' /\ ConsumerOK' /\ RecoveryOK' /\ TaskOK'
        /\ UNCHANGED <<issued, mysql>>
    BY <1>3, <1>k, CallbackDoneKeeps DEF ConfirmNack
  <2>2. ConfirmingOK'
    BY <1>3, <2>1, ConfirmingKeeps DEF ConfirmNack
  <2>. QED
    BY <1>3, <2>1, <2>2 DEF ConfirmNack, Internal, StatusUpdate
<1>4. CASE ReturnedMessage(o) \/ ReturnedThrows(o)
  <2>. USE <1>4 DEF ReturnedMessage, ReturnedThrows
  <2>1. o \in issued
    BY <1>k DEF BrokerOK, Carries
  <2>2. Carries(TakeFrom(confirms, o, "returned"), ConfirmKind, issued)
    BY <1>k, TakeFromCarries DEF BrokerOK
  <2>3. Carries(confirms', ConfirmKind, issued')
    BY <1>k, <2>1, <2>2, AddToCarries
  <2>4. BrokerOK'
    BY <2>3 DEF BrokerOK
  <2>5. ThreadsOK'
    BY OthersKeep DEF threads
  <2>. QED
    BY <2>1, <2>4, <2>5, FaultBounded DEF Internal, StatusUpdate
<1>5. CASE CallbackLost(o)
  <2>1. faults' \in 0..MaxFaults
    BY <1>5, FaultBounded DEF CallbackLost
  <2>2. CASE UNCHANGED confirming /\ \E kind \in ConfirmKind : CallbackDone(o, kind)
    <3>1. BrokerOK' /\ RequestOK' /\ ConsumerOK' /\ RecoveryOK' /\ TaskOK'
          /\ UNCHANGED <<issued, mysql>>
      BY <2>2, CallbackDoneKeeps
    <3>2. ConfirmingOK'
      BY <2>2, <3>1, ConfirmingKeeps
    <3>. QED
      BY <1>5, <2>1, <3>1, <3>2 DEF CallbackLost, Internal
  <2>3. CASE /\ confirming[o] > 0
             /\ confirming' = [confirming EXCEPT ![o] = @ - 1]
             /\ UNCHANGED <<issued, mysql, broker, request, consumer, recovery, task>>
    <3>1. ConfirmingOK'
      BY <2>3, ConfirmingKeeps
    <3>2. RequestOK' /\ ConsumerOK' /\ RecoveryOK' /\ TaskOK'
      BY <2>3, OthersKeep
    <3>3. BrokerOK'
      BY <2>3 DEF BrokerOK, broker
    <3>. QED
      BY <1>5, <2>1, <2>3, <3>1, <3>2, <3>3 DEF CallbackLost, Internal
  <2>. QED
    BY <1>5, <2>2, <2>3 DEF CallbackLost
<1>. QED
  BY <1>1, <1>2, <1>3, <1>4, <1>5 DEF CallbackNext

\* A step inside a handler, or its end, leaves the threads in order, and the
\* order at hand is an admitted one.
LEMMA ConsumerMoveKeeps ==
  ASSUME Shape, NEW c \in Consumers,
         \/ \E from \in ConsumerPc \ {"idle"}, to \in ConsumerPc : ConsumerAt(c, from, to)
         \/ ConsumerDone(c)
  PROVE  /\ ThreadsOK'
         /\ UNCHANGED issued
         /\ consumer[c].order \in issued
         /\ consumer[c].deaths \in Deaths
<1>. USE DEF Shape
<1>1. consumer[c].pc # "idle" /\ UNCHANGED issued
  BY DEF ConsumerAt, ConsumerDone
<1>2. consumer[c].order \in issued /\ consumer[c].deaths \in Deaths
  BY <1>1 DEF ThreadsOK, ConsumerOK
<1>3. ConsumerOK'
  <2>1. CASE ConsumerDone(c)
    <3>1. IdleConsumer \in [pc : ConsumerPc, order : Orders \cup {None}, deaths : Deaths]
      BY PipelineAssumption DEF IdleConsumer, ConsumerPc, Deaths
    <3>2. IdleConsumer.pc = "idle"
      BY DEF IdleConsumer
    <3>. QED
      BY <2>1, <3>1, <3>2 DEF ConsumerDone, ThreadsOK, ConsumerOK
  <2>2. ASSUME NEW to \in ConsumerPc, consumer' = [consumer EXCEPT ![c].pc = to]
        PROVE  ConsumerOK'
    BY <1>1, <1>2, <2>2 DEF ThreadsOK, ConsumerOK
  <2>. QED
    BY <2>1, <2>2 DEF ConsumerAt
<1>4. ConfirmingOK' /\ RequestOK' /\ RecoveryOK' /\ TaskOK'
  BY OthersKeep DEF ConsumerAt, ConsumerDone
<1>. QED
  BY <1>1, <1>2, <1>3, <1>4 DEF ThreadsOK

\* The broker counts one message more of an admitted order in one queue.
LEMMA QueuesGrow ==
  ASSUME BrokerOK, StoresOK, UNCHANGED issued, UNCHANGED <<parkingQueue, confirms>>,
         NEW o \in issued, NEW k \in Deaths,
         orderQueue' \in {orderQueue, AddTo(orderQueue, o, k)},
         retryQueue' \in {retryQueue, AddTo(retryQueue, o, k)},
         unacked' \in {unacked, AddTo(unacked, o, k)},
         failedQueue' \in {failedQueue, [failedQueue EXCEPT ![o] = @ + 1]}
  PROVE  BrokerOK'
<1>. USE DEF BrokerOK, StoresOK
<1>1. /\ Carries(orderQueue', Deaths, issued')
      /\ Carries(retryQueue', Deaths, issued')
      /\ Carries(unacked', Deaths, issued')
  BY AddToCarries
<1>2. /\ failedQueue' \in [Orders -> Nat]
      /\ \A p \in Orders : failedQueue'[p] > 0 => p \in issued'
  OBVIOUS
<1>. QED
  BY <1>1, <1>2

\* Steps of the order listener.
LEMMA ConsumerStep ==
  ASSUME Shape, NEW c \in Consumers, ConsumerNext(c)
  PROVE  StepOK
<1>. USE DEF Shape, StepOK
<1>. DEFINE o == consumer[c].order
            k == consumer[c].deaths
<1>k. ASSUME UNCHANGED broker, UNCHANGED issued
      PROVE  BrokerOK'
  BY <1>k DEF BrokerOK, broker
<1>m. ASSUME \/ \E from \in ConsumerPc \ {"idle"}, to \in ConsumerPc : ConsumerAt(c, from, to)
             \/ ConsumerDone(c)
      PROVE  /\ ThreadsOK' /\ UNCHANGED issued
             /\ o \in issued /\ o \in Orders /\ k \in Deaths
  BY <1>m, ConsumerMoveKeeps DEF StoresOK
<1>. HIDE DEF o, k
<1>1. CASE \E p \in Orders, j \in Deaths : Deliver(c, p, j)
  <2>. PICK p \in Orders, j \in Deaths : Deliver(c, p, j)
    BY <1>1
  <2>. USE DEF Deliver
  <2>1. p \in issued
    BY DEF BrokerOK, Carries
  <2>2. Carries(orderQueue', Deaths, issued')
    BY TakeFromCarries DEF BrokerOK
  <2>3. BrokerOK'
    BY <2>2 DEF BrokerOK
  <2>4. ConsumerOK'
    BY <2>1 DEF ThreadsOK, ConsumerOK, ConsumerPc
  <2>5. ThreadsOK'
    BY <2>4, OthersKeep DEF ThreadsOK
  <2>. QED
    BY <2>3, <2>5 DEF Internal
<1>2. CASE ConsumeCheck(c)
  BY <1>2, <1>k, <1>m DEF ConsumeCheck, ConsumerPc, Internal
<1>3. CASE ConsumeMark(c)
  BY <1>3, <1>k, <1>m DEF ConsumeMark, ConsumerPc, Internal, StatusUpdate, o
<1>4. CASE CreateOrder(c)
  <2>1. ThreadsOK' /\ UNCHANGED issued /\ o \in issued
    BY <1>4, <1>m DEF CreateOrder, ConsumerPc
  <2>. QED
    BY <1>4, <1>k, <2>1 DEF CreateOrder, Internal, Insertion, o
<1>5. CASE ConsumeComplete(c)
  <2>1. ThreadsOK' /\ UNCHANGED issued /\ o \in issued /\ k \in Deaths
    BY <1>5, <1>m DEF ConsumeComplete
  <2>2. BrokerOK'
    BY <1>5, <2>1, QueuesGrow DEF ConsumeComplete, o, k
  <2>. QED
    BY <1>5, <2>1, <2>2, FaultBounded DEF ConsumeComplete, Internal, StatusUpdate, o
<1>6. CASE ConsumeThrows(c)
  <2>1. ThreadsOK' /\ UNCHANGED issued
    BY <1>6, <1>m DEF ConsumeThrows, ConsumerPc
  <2>. QED
    BY <1>6, <1>k, <2>1, FaultBounded DEF ConsumeThrows, Internal
<1>7. CASE ConsumeEscapes(c)
  <2>1. ThreadsOK' /\ UNCHANGED issued /\ o \in issued /\ k \in Deaths
    BY <1>7, <1>m DEF ConsumeEscapes
  <2>2. BrokerOK'
    BY <1>7, <2>1, QueuesGrow DEF ConsumeEscapes, o, k
  <2>. QED
    BY <1>7, <2>1, <2>2, FaultBounded DEF ConsumeEscapes, Internal
<1>8. CASE Reject(c)
  <2>1. ThreadsOK' /\ UNCHANGED issued /\ o \in issued /\ k \in Deaths
    BY <1>8, <1>m DEF Reject
  <2>2. k + 1 \in Deaths
    BY <1>8, <2>1, PipelineAssumption DEF Reject, Deaths, k
  <2>3. BrokerOK'
    BY <1>8, <2>1, <2>2, QueuesGrow DEF Reject, o, k
  <2>. QED
    BY <1>8, <2>1, <2>3 DEF Reject, Internal
<1>9. CASE Forward(c)
  <2>1. ThreadsOK' /\ UNCHANGED issued /\ o \in issued /\ k \in Deaths
    BY <1>9, <1>m DEF Forward
  <2>2. BrokerOK'
    BY <1>9, <2>1, QueuesGrow DEF Forward, o
  <2>. QED
    BY <1>9, <2>1, <2>2 DEF Forward, Internal
<1>10. CASE ForwardThrows(c)
  <2>1. ThreadsOK' /\ UNCHANGED issued /\ o \in issued /\ k \in Deaths
    BY <1>10, <1>m DEF ForwardThrows
  <2>2. BrokerOK'
    BY <1>10, <2>1, QueuesGrow DEF ForwardThrows, o, k
  <2>. QED
    BY <1>10, <2>1, <2>2, FaultBounded DEF ForwardThrows, Internal
<1>11. CASE ConsumerCrash(c)
  <2>1. ThreadsOK' /\ UNCHANGED issued /\ o \in issued /\ k \in Deaths
    BY <1>11, <1>m DEF ConsumerCrash
  <2>2. BrokerOK'
    BY <1>11, <2>1, QueuesGrow DEF ConsumerCrash, o, k
  <2>. QED
    BY <1>11, <2>1, <2>2, FaultBounded DEF ConsumerCrash, Internal
<1>. QED
  BY <1>1, <1>2, <1>3, <1>4, <1>5, <1>6, <1>7, <1>8, <1>9, <1>10, <1>11 DEF ConsumerNext

\* The failed listener moves to another step or ends.
LEMMA RecoveryMoveKeeps ==
  ASSUME Shape, recovery.pc # "idle",
         \/ recovery' \in {IdleRecovery, NextAttempt}
         \/ \E to \in RecoveryPc : recovery' = [recovery EXCEPT !.pc = to],
         UNCHANGED <<issued, request, confirming, consumer, task>>
  PROVE  ThreadsOK' /\ recovery.order \in issued
<1>. USE DEF Shape
<1>1. recovery.order \in issued
  BY DEF ThreadsOK, RecoveryOK
<1>2. RecoveryOK'
  <2>1. CASE recovery' = IdleRecovery
    <3>1. 0 \in 0..MaxAttempts
      BY PipelineAssumption
    <3>. QED
      BY <2>1, <3>1 DEF RecoveryOK, IdleRecovery, RecoveryPc
  <2>2. ASSUME NEW to \in RecoveryPc, recovery' = [recovery EXCEPT !.pc = to]
        PROVE  RecoveryOK'
    BY <1>1, <2>2 DEF ThreadsOK, RecoveryOK
  <2>3. CASE recovery' = NextAttempt
    <3>1. recovery.attempt < MaxAttempts => recovery.attempt + 1 \in 0..MaxAttempts
      BY PipelineAssumption DEF ThreadsOK, RecoveryOK
    <3>. QED
      BY <1>1, <2>3, <3>1 DEF NextAttempt, ThreadsOK, RecoveryOK, RecoveryPc
  <2>. QED
    BY <2>1, <2>2, <2>3
<1>. QED
  BY <1>1, <1>2, OthersKeep DEF ThreadsOK

\* Steps of the failed-order listener.
LEMMA RecoveryStep ==
  ASSUME Shape, RecoveryNext
  PROVE  StepOK
<1>. USE DEF Shape, StepOK
<1>. DEFINE o == recovery.order
<1>p. "idle" \in RecoveryPc /\ "clean" \in RecoveryPc /\ "restore" \in RecoveryPc
      /\ "fail" \in RecoveryPc /\ "park" \in RecoveryPc /\ "unacked" \in RecoveryPc
      /\ "check" \in RecoveryPc
  BY DEF RecoveryPc
<1>k. ASSUME UNCHANGED broker, UNCHANGED issued
      PROVE  BrokerOK'
  BY <1>k DEF BrokerOK, broker
<1>m. ASSUME recovery.pc # "idle",
             \/ recovery' \in {IdleRecovery, NextAttempt}
             \/ \E to \in RecoveryPc : recovery' = [recovery EXCEPT !.pc = to],
             UNCHANGED <<issued, request, confirming, consumer, task>>
      PROVE  ThreadsOK' /\ o \in issued /\ o \in Orders
  BY <1>m, RecoveryMoveKeeps DEF StoresOK
<1>b. ASSUME UNCHANGED <<issued, orderQueue, retryQueue, unacked, confirms>>, o \in issued,
             o \in Orders,
             failedQueue' \in {failedQueue, [failedQueue EXCEPT ![o] = @ + 1]},
             parkingQueue' \in {parkingQueue, [parkingQueue EXCEPT ![o] = @ + 1]}
      PROVE  BrokerOK'
  BY <1>b DEF BrokerOK
<1>. HIDE DEF o
<1>1. CASE \E p \in Orders : DeliverFailed(p)
  <2>. PICK p \in Orders : DeliverFailed(p)
    BY <1>1
  <2>. USE DEF DeliverFailed
  <2>1. p \in issued
    BY DEF BrokerOK
  <2>2. BrokerOK'
    <3>1. failedQueue[p] - 1 \in Nat
      BY DEF BrokerOK
    <3>2. failedQueue' \in [Orders -> Nat]
      BY <3>1 DEF BrokerOK
    <3>3. \A q \in Orders : failedQueue'[q] > 0 => failedQueue[q] > 0
      BY <3>1 DEF BrokerOK
    <3>. QED
      BY <3>2, <3>3 DEF BrokerOK
  <2>3. RecoveryOK'
    <3>1. 1 \in 0..MaxAttempts
      BY PipelineAssumption
    <3>. QED
      BY <1>p, <2>1, <3>1 DEF RecoveryOK
  <2>4. ThreadsOK'
    BY <2>3, OthersKeep DEF ThreadsOK
  <2>. QED
    BY <2>2, <2>4 DEF Internal
<1>2. CASE RecoverCheck
  BY <1>2, <1>p, <1>k, <1>m DEF RecoverCheck, RecoveryAt, Internal
<1>3. CASE RecoverClean
  <2>1. ThreadsOK' /\ o \in issued /\ o \in Orders
    BY <1>3, <1>m DEF RecoverClean, RecoveryDone
  <2>2. BrokerOK'
    BY <1>3, <1>b, <2>1 DEF RecoverClean, RecoveryDone, o
  <2>. QED
    BY <1>3, <2>1, <2>2, FaultBounded
       DEF RecoverClean, RecoveryDone, Internal, StatusUpdate, o
<1>4. CASE RecoverRestore
  <2>1. ThreadsOK' /\ o \in issued
    BY <1>4, <1>m, <1>p DEF RecoverRestore, RecoveryAt
  <2>. QED
    BY <1>4, <1>k, <2>1 DEF RecoverRestore, RecoveryAt, Internal, o
<1>5. CASE RecoverFail
  <2>1. ThreadsOK' /\ o \in issued /\ o \in Orders
    BY <1>5, <1>m DEF RecoverFail, RecoveryDone
  <2>2. BrokerOK'
    BY <1>5, <1>b, <2>1 DEF RecoverFail, RecoveryDone, o
  <2>. QED
    BY <1>5, <2>1, <2>2, FaultBounded
       DEF RecoverFail, RecoveryDone, Internal, StatusUpdate, o
<1>6. CASE RecoverThrows
  <2>1. ThreadsOK'
    BY <1>6, <1>m DEF RecoverThrows
  <2>. QED
    BY <1>6, <1>k, <2>1, FaultBounded DEF RecoverThrows, Internal
<1>7. CASE Park
  <2>1. ThreadsOK' /\ o \in issued /\ o \in Orders
    BY <1>7, <1>m, <1>p DEF Park
  <2>. QED
    BY <1>7, <1>b, <2>1 DEF Park, Internal, o
<1>8. CASE ParkThrows
  <2>1. ThreadsOK' /\ o \in issued /\ o \in Orders
    BY <1>8, <1>m, <1>p DEF ParkThrows, RecoveryAt
  <2>. QED
    BY <1>8, <1>b, <2>1, FaultBounded DEF ParkThrows, RecoveryAt, Internal, o
<1>9. CASE RecoveryClosed
  <2>1. ThreadsOK' /\ o \in issued /\ o \in Orders
    BY <1>9, <1>m DEF RecoveryClosed
  <2>. QED
    BY <1>9, <1>b, <2>1, FaultBounded DEF RecoveryClosed, Internal, o
<1>. QED
  BY <1>1, <1>2, <1>3, <1>4, <1>5, <1>6, <1>7, <1>8, <1>9 DEF RecoveryNext

\* The task moves to another step of republishOne or finishes the order.
LEMMA TaskMoveKeeps ==
  ASSUME Shape, NEW t \in Tasks,
         \/ \E from \in TaskPc \ {"idle"}, to \in TaskPc : TaskAt(t, from, to)
         \/ \E from \in TaskPc \ {"idle"} : TaskDone(t, from)
  PROVE  ThreadsOK' /\ UNCHANGED issued /\ task[t].order \in issued
<1>. USE DEF Shape
<1>1. task[t].pc # "idle" /\ UNCHANGED issued
  BY DEF TaskAt, TaskDone
<1>2. task[t].order \in issued
  BY <1>1 DEF ThreadsOK, TaskOK
<1>3. TaskOK'
  <2>1. ASSUME NEW to \in TaskPc, task' = [task EXCEPT ![t].pc = to]
        PROVE  TaskOK'
    BY <1>1, <1>2, <2>1 DEF ThreadsOK, TaskOK
  <2>2. ASSUME task' = [task EXCEPT ![t].pc = "idle", ![t].order = None]
        PROVE  TaskOK'
    BY <1>1, <2>2 DEF ThreadsOK, TaskOK, TaskPc
  <2>. QED
    BY <2>1, <2>2 DEF TaskAt, TaskDone
<1>. QED
  BY <1>1, <1>2, <1>3, OthersKeep DEF ThreadsOK, TaskAt, TaskDone

\* Steps of the republishing task: it only picks pending, hence admitted, orders.
LEMMA TaskStep ==
  ASSUME Shape, NEW t \in Tasks, TaskNext(t)
  PROVE  StepOK
<1>. USE DEF Shape, StepOK
<1>. DEFINE o == task[t].order
<1>k. ASSUME UNCHANGED broker, UNCHANGED issued
      PROVE  BrokerOK'
  BY <1>k DEF BrokerOK, broker
<1>p. /\ "idle" \in TaskPc
      /\ {"clean", "load", "restore", "fail", "republish", "send", "error"}
           \subseteq TaskPc \ {"idle"}
  BY DEF TaskPc
<1>m. ASSUME \/ \E from \in TaskPc \ {"idle"}, to \in TaskPc : TaskAt(t, from, to)
             \/ \E from \in TaskPc \ {"idle"} : TaskDone(t, from)
      PROVE  ThreadsOK' /\ UNCHANGED issued /\ o \in issued
  BY <1>m, TaskMoveKeeps
<1>. HIDE DEF o
<1>1. CASE TaskScan(t)
  <2>. USE <1>1 DEF TaskScan
  <2>1. TaskOK'
    <3>. PICK due \in SUBSET pending : task' = [task EXCEPT ![t].batch = due]
      OBVIOUS
    <3>1. due \subseteq issued /\ due \subseteq Orders
      BY DEF StoresOK
    <3>. QED
      BY <3>1 DEF ThreadsOK, TaskOK
  <2>2. ThreadsOK'
    BY <2>1, OthersKeep DEF ThreadsOK
  <2>. QED
    BY <1>k, <2>2 DEF Internal
<1>2. CASE \E p \in Orders : TaskCheck(t, p)
  <2>. PICK p \in Orders : TaskCheck(t, p)
    BY <1>2
  <2>. USE DEF TaskCheck
  <2>1. p \in issued /\ task[t].batch \ {p} \subseteq issued
    BY DEF ThreadsOK, TaskOK
  <2>2. task[t].batch \ {p} \in SUBSET Orders
    BY <2>1 DEF StoresOK
  <2>3. TaskOK'
    BY <1>p, <2>1, <2>2 DEF ThreadsOK, TaskOK
  <2>4. ThreadsOK'
    BY <2>3, OthersKeep DEF ThreadsOK
  <2>. QED
    BY <1>k, <2>4 DEF Internal
<1>3. CASE TaskClean(t)
  <2>1. ThreadsOK' /\ UNCHANGED issued /\ o \in issued
    BY <1>3, <1>m, <1>p DEF TaskClean
  <2>. QED
    BY <1>3, <1>k, <2>1 DEF TaskClean, Internal, StatusUpdate, o
<1>4. CASE TaskLoad(t)
  <2>1. NextStep(data[task[t].order]) \in TaskPc
    BY DEF NextStep, TaskPc
  <2>2. ThreadsOK' /\ UNCHANGED issued
    BY <1>4, <1>m, <1>p, <2>1 DEF TaskLoad
  <2>. QED
    BY <1>4, <1>k, <2>2 DEF TaskLoad, Internal
<1>5. CASE TaskRestore(t)
  <2>1. ThreadsOK' /\ UNCHANGED issued /\ o \in issued
    BY <1>5, <1>m, <1>p DEF TaskRestore
  <2>. QED
    BY <1>5, <1>k, <2>1 DEF TaskRestore, Internal, o
<1>6. CASE TaskFail(t)
  <2>1. ThreadsOK' /\ UNCHANGED issued /\ o \in issued
    BY <1>6, <1>m, <1>p DEF TaskFail
  <2>. QED
    BY <1>6, <1>k, <2>1 DEF TaskFail, Internal, StatusUpdate, o
<1>7. CASE TaskRepublish(t)
  <2>1. ThreadsOK' /\ UNCHANGED issued /\ o \in issued
    BY <1>7, <1>m, <1>p DEF TaskRepublish
  <2>. QED
    BY <1>7, <1>k, <2>1 DEF TaskRepublish, Internal, StatusUpdate, o
<1>8. CASE TaskSend(t)
  <2>1. ThreadsOK' /\ UNCHANGED issued /\ o \in issued
    BY <1>8, <1>m, <1>p DEF TaskSend
  <2>. QED
    BY <1>8, <2>1, PublishKeeps DEF TaskSend, Internal, o
<1>9. CASE TaskSendThrows(t)
  <2>1. ThreadsOK' /\ UNCHANGED issued /\ o \in issued
    BY <1>9, <1>m, <1>p DEF TaskSendThrows
  <2>. QED
    BY <1>9, <2>1, PublishKeeps DEF TaskSendThrows, Internal, o
<1>10. CASE TaskThrows(t)
  <2>1. ThreadsOK' /\ UNCHANGED issued
    BY <1>10, <1>m, <1>p DEF TaskThrows
  <2>. QED
    BY <1>10, <1>k, <2>1, FaultBounded DEF TaskThrows, Internal
<1>11. CASE TaskError(t)
  <2>1. ThreadsOK' /\ UNCHANGED issued /\ o \in issued
    BY <1>11, <1>m, <1>p DEF TaskError
  <2>. QED
    BY <1>11, <1>k, <2>1 DEF TaskError, Internal, StatusUpdate, o
<1>12. CASE TaskLost(t)
  <2>. USE <1>12 DEF TaskLost
  <2>1. TaskOK'
    BY <1>p DEF ThreadsOK, TaskOK, IdleTask
  <2>2. ThreadsOK'
    BY <2>1, OthersKeep DEF ThreadsOK
  <2>. QED
    BY <1>k, <2>2, FaultBounded DEF Internal
<1>. QED
  BY <1>1, <1>2, <1>3, <1>4, <1>5, <1>6, <1>7, <1>8, <1>9, <1>10, <1>11, <1>12 DEF TaskNext

\* Queues move messages and hashes expire without a thread.
LEMMA AmbientStep ==
  ASSUME Shape, NEW o \in Orders,
         \/ DataExpires(o)
         \/ \E k \in Deaths : RetryElapsed(o, k) \/ ChannelClosed(o, k)
  PROVE  StepOK
<1>. USE DEF Shape, StepOK
<1>1. CASE DataExpires(o)
  <2>. USE <1>1 DEF DataExpires
  <2>1. BrokerOK'
    BY DEF BrokerOK, broker
  <2>2. ThreadsOK'
    BY OthersKeep DEF ThreadsOK, threads
  <2>. QED
    BY <2>1, <2>2, FaultBounded DEF Internal
<1>2. ASSUME NEW k \in Deaths, RetryElapsed(o, k)
      PROVE  StepOK
  <2>. USE <1>2 DEF RetryElapsed
  <2>1. o \in issued
    BY DEF BrokerOK, Carries
  <2>2. Carries(retryQueue', Deaths, issued') /\ Carries(orderQueue', Deaths, issued')
    BY <2>1, AddToCarries, TakeFromCarries DEF BrokerOK
  <2>3. BrokerOK'
    BY <2>2 DEF BrokerOK
  <2>4. ThreadsOK'
    BY OthersKeep DEF ThreadsOK, threads
  <2>. QED
    BY <2>3, <2>4 DEF Internal
<1>3. ASSUME NEW k \in Deaths, ChannelClosed(o, k)
      PROVE  StepOK
  <2>. USE <1>3 DEF ChannelClosed
  <2>1. o \in issued
    BY DEF BrokerOK, Carries
  <2>2. Carries(unacked', Deaths, issued') /\ Carries(orderQueue', Deaths, issued')
    BY <2>1, AddToCarries, TakeFromCarries DEF BrokerOK
  <2>3. BrokerOK'
    BY <2>2 DEF BrokerOK
  <2>4. ThreadsOK'
    BY OthersKeep DEF ThreadsOK, threads
  <2>. QED
    BY <2>3, <2>4 DEF Internal
<1>. QED
  BY <1>1, <1>2, <1>3

\* Whatever happens, the stores see an admission, an insertion or an internal
\* step of an admitted order.
LEMMA StepShape ==
  ASSUME Shape, [Next]_vars
  PROVE  StepOK
<1>1. CASE Next
  BY <1>1, RequestStep, CallbackStep, ConsumerStep, RecoveryStep, TaskStep, AmbientStep
     DEF Next
<1>2. CASE UNCHANGED vars
  <2>1. BrokerOK'
    BY <1>2 DEF Shape, BrokerOK, vars, broker
  <2>2. ThreadsOK'
    BY <1>2, OthersKeep DEF Shape, ThreadsOK, vars, threads
  <2>. QED
    BY <1>2, <2>1, <2>2 DEF Shape, StepOK, vars, Internal
<1>. QED
  BY <1>1, <1>2

-----------------------------------------------------------------------------
(* The ledgers                                                             *)

\* There are finitely many order rows.
LEMMA DbOrdersFinite ==
  ASSUME StoresOK
  PROVE  /\ IsFiniteSet(dbOrders)
         /\ Cardinality(dbOrders) \in Nat
<1>1. dbOrders \subseteq Orders
  BY DEF StoresOK
<1>2. IsFiniteSet(dbOrders)
  BY <1>1, FS_Subset, SeckillRedisAssumption
<1>. QED
  BY <1>2, FS_CardinalityType

\* The state after publication or upgrade satisfies the invariant.
LEMMA InitIndInv ==
  ASSUME Init
  PROVE  IndInv
<1>. USE DEF Init
<1>. USE SeckillRedisAssumption, PipelineAssumption
<1>1. RedisTypeOK /\ RedisConservation
  BY InitConservation
<1>2. IsFiniteSet(LegacyOrders)
  BY FS_Subset
<1>3. /\ Cardinality(dbOrders) \in Nat
      /\ Cardinality(LegacyOrders) \in Nat
      /\ Cardinality(dbOrders) <= Cardinality(LegacyOrders)
  BY <1>2, FS_Subset, FS_CardinalityType
<1>4. dbStock \in Nat /\ DbConservation
  BY <1>3 DEF DbConservation
<1>5. OneOrderPerUser
  BY DEF OneOrderPerUser
<1>6. StoresOK
  BY <1>1, <1>4 DEF StoresOK, RedisInit
<1>7. BrokerOK
  <2>1. Carries(orderQueue, Deaths, issued)
    <3>1. orderQueue \in [Orders -> [Deaths -> Nat]]
      OBVIOUS
    <3>2. \A o \in Orders, k \in Deaths : orderQueue[o][k] > 0 => o \in LegacyOrders
      OBVIOUS
    <3>. QED
      BY <3>1, <3>2 DEF Carries
  <2>2. /\ Carries(retryQueue, Deaths, issued)
        /\ Carries(unacked, Deaths, issued)
        /\ Carries(confirms, ConfirmKind, issued)
    BY DEF Carries
  <2>. QED
    BY <2>1, <2>2 DEF BrokerOK
<1>8. ThreadsOK
  <2>1. 0 \in Deaths /\ 0 \in 0..MaxAttempts
    BY DEF Deaths
  <2>2. ConfirmingOK /\ RequestOK
    BY DEF ConfirmingOK, RequestOK, RequestPc
  <2>3. ConsumerOK
    BY <2>1 DEF ConsumerOK, IdleConsumer, ConsumerPc
  <2>4. RecoveryOK
    BY <2>1 DEF RecoveryOK, IdleRecovery, RecoveryPc
  <2>5. TaskOK
    BY DEF TaskOK, IdleTask, TaskPc
  <2>. QED
    BY <2>2, <2>3, <2>4, <2>5 DEF ThreadsOK
<1>9. faults \in 0..MaxFaults
  OBVIOUS
<1>. QED
  BY <1>1, <1>4, <1>5, <1>6, <1>7, <1>8, <1>9 DEF IndInv, BooksOK, Shape

\* A row is inserted only for a user without one, and takes one from the
\* stock column in the same transaction.
LEMMA InsertionKeepsBooks ==
  ASSUME IndInv, Insertion
  PROVE  /\ StoresOK' /\ RedisConservation' /\ BooksOK' /\ OneOrderPerUser'
<1>. USE DEF IndInv, Shape
<1>1. PICK o \in issued : ~Duplicate(o) /\ InsertOrder(o)
  BY DEF Insertion
<1>2. RedisTypeOK' /\ RedisConservation'
  BY DEF Insertion, redis, StoresOK, RedisTypeOK, RedisConservation, Holders, Reserved
<1>3. StoresOK'
  BY <1>1, <1>2 DEF Insertion, redis, StoresOK, InsertOrder, OutOfStock
<1>4. BooksOK'
  <2>. SUFFICES ASSUME "sync" \notin Modes
                PROVE  DbConservation'
    BY DEF BooksOK
  <2>1. Cardinality(dbOrders') = Cardinality(dbOrders) + 1
    BY <1>1, DbOrdersFinite, FS_AddElement DEF Duplicate, InsertOrder
  <2>2. dbStock \in Nat /\ Cardinality(dbOrders) \in Nat
    BY DbOrdersFinite DEF StoresOK
  <2>3. dbStock' = dbStock - 1 /\ dbStock + Cardinality(dbOrders) = Total
    BY <1>1 DEF InsertOrder, BooksOK, DbConservation
  <2>. QED
    BY <2>1, <2>2, <2>3, SeckillRedisAssumption DEF DbConservation
<1>5. OneOrderPerUser'
  BY <1>1 DEF OneOrderPerUser, Duplicate, Buyers, InsertOrder
<1>. QED
  BY <1>2, <1>3, <1>4, <1>5

\* Half an insertion is one for a user without a row, too.
LEMMA HalfInsertionKeepsBooks ==
  ASSUME IndInv, HalfInsertion
  PROVE  /\ StoresOK' /\ RedisConservation' /\ BooksOK' /\ OneOrderPerUser'
<1>. USE DEF IndInv, Shape
<1>1. RedisTypeOK' /\ RedisConservation'
  BY DEF HalfInsertion, redis, StoresOK, RedisTypeOK, RedisConservation, Holders, Reserved
<1>2. StoresOK'
  BY <1>1 DEF HalfInsertion, redis, StoresOK, OutOfStock
<1>3. OneOrderPerUser'
  BY DEF HalfInsertion, OneOrderPerUser, Duplicate, Buyers
<1>. QED
  BY <1>1, <1>2, <1>3 DEF HalfInsertion, BooksOK

\* Status updates leave the slots alone, and a compensation frees at most one.
LEMMA InternalKeepsBooks ==
  ASSUME IndInv, Internal
  PROVE  /\ StoresOK' /\ RedisConservation' /\ BooksOK' /\ OneOrderPerUser'
         /\ \/ Holders' = Holders
            \/ \E u \in Holders : Holders' = Holders \ {u}
<1>. USE DEF IndInv, Shape
<1>1. BooksOK' /\ OneOrderPerUser'
  BY DEF Internal, mysql, BooksOK, DbConservation, OneOrderPerUser
<1>2. /\ RedisTypeOK' /\ RedisConservation' /\ pending' \subseteq issued
      /\ \/ Holders' = Holders
         \/ \E u \in Holders : Holders' = Holders \ {u}
  <2>1. CASE UNCHANGED redis
    BY <2>1 DEF redis, StoresOK, RedisTypeOK, RedisConservation, Holders, Reserved
  <2>2. ASSUME NEW o \in issued, StatusUpdate(o)
        PROVE  /\ RedisTypeOK' /\ RedisConservation' /\ pending' \subseteq issued
               /\ Holders' = Holders
    BY <2>2, StatusUpdateKeepsSlots DEF StoresOK
  <2>3. ASSUME NEW o \in Orders, ExpireData(o)
        PROVE  /\ RedisTypeOK' /\ RedisConservation' /\ pending' \subseteq issued
               /\ Holders' = Holders
    <3>1. StatusUpdate(o) /\ pending' = pending
      BY <2>3 DEF StatusUpdate, ExpireData
    <3>. QED
      BY <3>1, StatusUpdateKeepsSlots DEF StoresOK
  <2>4. ASSUME NEW o \in issued, Restore(o)
        PROVE  /\ RedisTypeOK' /\ RedisConservation' /\ pending' \subseteq issued
               /\ \/ Holders' = Holders
                  \/ \E u \in Holders : Holders' = Holders \ {u}
    <3>1. RedisTypeOK' /\ RedisConservation' /\ Holders' \in {Holders, Holders \ {Owner[o]}}
      BY <2>4, RestoreFreesAtMostOne DEF StoresOK
    <3>2. pending' \subseteq issued
      BY <2>4 DEF Restore, StoresOK
    <3>. QED
      BY <3>1, <3>2
  <2>. QED
    BY <2>1, <2>2, <2>3, <2>4 DEF Internal
<1>3. StoresOK'
  BY <1>2 DEF Internal, mysql, StoresOK
<1>. QED
  BY <1>1, <1>2, <1>3

\* The script admits a user without a slot while one is left, so the Redis
\* ledger still balances.
LEMMA AdmissionKeepsBooks ==
  ASSUME IndInv, Admission
  PROVE  /\ StoresOK' /\ RedisConservation' /\ BooksOK' /\ OneOrderPerUser'
<1>. USE DEF IndInv, Shape
<1>1. PICK o \in Orders : /\ SeckillReply(Owner[o], "open") = "0"
                          /\ Reserve(o)
                          /\ issued' = issued \cup {o}
  BY DEF Admission
<1>2. Owner[o] \in Users
  BY SeckillRedisAssumption
<1>3. RedisTypeOK' /\ RedisConservation'
  BY <1>1, <1>2, AdmissionGuard, ReserveTakesOne DEF StoresOK
<1>4. StoresOK'
  BY <1>1, <1>3 DEF Admission, mysql, StoresOK, Reserve
<1>5. BooksOK' /\ OneOrderPerUser'
  BY DEF Admission, mysql, BooksOK, DbConservation, OneOrderPerUser
<1>. QED
  BY <1>3, <1>4, <1>5

\* Whoever takes it, a step of one of the four kinds keeps the invariant.
LEMMA StepOKKeeps ==
  ASSUME IndInv, StepOK
  PROVE  IndInv'
<1>1. /\ StoresOK' /\ RedisConservation' /\ BooksOK' /\ OneOrderPerUser'
  BY AdmissionKeepsBooks, InsertionKeepsBooks, HalfInsertionKeepsBooks,
     InternalKeepsBooks DEF StepOK
<1>. QED
  BY <1>1 DEF IndInv, Shape, StepOK

\* The invariant is inductive.
LEMMA StepIndInv ==
  ASSUME IndInv, [Next]_vars
  PROVE  IndInv'
BY StepShape, StepOKKeeps DEF IndInv

-----------------------------------------------------------------------------
(* Theorems                                                                *)

\* The inductive invariant holds throughout: the two ledgers balance, and
\* whatever is in flight belongs to an order the script once accepted.
THEOREM Invariance == Spec => []IndInv
<1>1. Init => IndInv
  BY InitIndInv
<1>2. IndInv /\ [Next]_vars => IndInv'
  BY StepIndInv
<1>. QED
  BY <1>1, <1>2, PTL DEF Spec

\* No counter of slots, stock or messages runs below zero, no message
\* outlives the retry limit, and every thread is at one of its steps.
THEOREM TypeCorrect == Spec => []TypeOK
<1>1. IndInv => TypeOK
  BY DEF IndInv, Shape, StoresOK, BrokerOK, ThreadsOK, ConfirmingOK, RequestOK, ConsumerOK,
         RecoveryOK, TaskOK, Carries, TypeOK, BrokerTypeOK, ThreadTypeOK, Messages
<1>. QED
  BY <1>1, Invariance, PTL

\* The Redis ledger: slots held and slots left always make up the stock, in
\* the face of repeated, late and misdirected compensations.
THEOREM RedisLedger == Spec => []RedisConservation
<1>1. IndInv => RedisConservation
  BY DEF IndInv
<1>. QED
  BY <1>1, Invariance, PTL

\* The MySQL ledger: orders and the stock column always make up the stock,
\* in the face of repeated and late messages, when no instance creates orders
\* synchronously.
THEOREM NoOversell ==
  ASSUME "sync" \notin Modes
  PROVE  Spec => []DbConservation
<1>1. IndInv => DbConservation
  BY DEF IndInv, BooksOK
<1>. QED
  BY <1>1, Invariance, PTL

\* One order row per user, however many of the user's orders are in flight.
THEOREM OneOrderEach == Spec => []OneOrderPerUser
<1>1. IndInv => OneOrderPerUser
  BY DEF IndInv
<1>. QED
  BY <1>1, Invariance, PTL

\* A slot that is taken away in a step is taken away by a compensation of its
\* order, and goes back to the stock.
FreedByItsOrder(u) ==
  reservation[u] # None /\ reservation'[u] # reservation[u] =>
    /\ reservation'[u] = None
    /\ stock' = stock + 1
    /\ reservation[u] \notin pending'

LEMMA StepFrees ==
  ASSUME IndInv, StepOK, NEW u \in Users
  PROVE  FreedByItsOrder(u)
<1>. USE DEF FreedByItsOrder
<1>1. StoresOK /\ RedisTypeOK
  BY DEF IndInv, Shape, StoresOK
<1>2. ASSUME UNCHANGED reservation
      PROVE  FreedByItsOrder(u)
  BY <1>2
<1>3. CASE Admission
  <2>1. PICK o \in Orders : SeckillReply(Owner[o], "open") = "0" /\ Reserve(o)
    BY <1>3 DEF Admission
  <2>2. reservation[Owner[o]] = None
    BY <2>1 DEF SeckillReply
  <2>3. reservation'[u] # reservation[u] => u = Owner[o]
    BY <1>1, <2>1 DEF Reserve, RedisTypeOK
  <2>. QED
    BY <2>2, <2>3
<1>4. CASE Insertion \/ HalfInsertion
  BY <1>2, <1>4 DEF Insertion, HalfInsertion, redis
<1>5. CASE Internal
  <2>1. ASSUME NEW o \in issued, Restore(o)
        PROVE  FreedByItsOrder(u)
    BY <1>1, <2>1 DEF Restore, RedisTypeOK
  <2>2. ASSUME NEW o \in Orders, StatusUpdate(o)
        PROVE  FreedByItsOrder(u)
    BY <1>1, <1>2, <2>2, StatusUpdateKeepsSlots
  <2>. QED
    BY <1>1, <1>2, <1>5, <2>1, <2>2 DEF Internal, redis, StatusUpdate, StoresOK
<1>. QED
  BY <1>1, <1>3, <1>4, <1>5 DEF StepOK

\* A compensation frees the slot of its own order only, exactly once, and
\* nothing else takes a reservation away or hands it to another order.
THEOREM FreedOnlyByItsOrder == Spec => SlotFreedByItsOrder
<1>1. IndInv /\ [Next]_vars => [\A u \in Users : FreedByItsOrder(u)]_vars
  BY StepShape, StepFrees DEF IndInv
<1>. QED
  BY <1>1, Invariance, PTL DEF Spec, SlotFreedByItsOrder, FreedByItsOrder

-----------------------------------------------------------------------------
(* The pipeline implements the sale                                        *)

\* INSTANCE gives VoucherSale a Cardinality of its own, with the same definition.
LEMMA SameCardinality ==
  ASSUME NEW S
  PROVE  Sale!Cardinality(S) = Cardinality(S)
BY DEF Sale!Cardinality, Cardinality

\* The initial stores are an initial state of the sale.
LEMMA InitSale ==
  ASSUME "sync" \notin Modes, IndInv
  PROVE  Sale!Init
<1>. USE DEF IndInv, BooksOK, Shape, StoresOK
<1>1. Holders \subseteq Users
  BY DEF Holders, Reserved, RedisTypeOK
<1>2. Cardinality(Holders) <= Total
  BY HoldersFinite, SeckillRedisAssumption DEF RedisConservation, RedisTypeOK
<1>3. Cardinality(dbOrders) <= Total
  BY DbOrdersFinite, SeckillRedisAssumption DEF DbConservation
<1>. QED
  BY <1>1, <1>2, <1>3, SameCardinality DEF Sale!Init, OneOrderPerUser

\* Every step of the pipeline is a step of the sale or changes nothing there.
LEMMA StepSale ==
  ASSUME "sync" \notin Modes, IndInv, StepOK
  PROVE  [Sale!Next]_(Sale!sale)
<1>. USE DEF IndInv, BooksOK, Shape, StoresOK
<1>. USE DEF Sale!Next, Sale!sale
<1>1. CASE Admission
  <2>1. PICK o \in Orders : /\ o \notin issued
                            /\ SeckillReply(Owner[o], "open") = "0"
                            /\ Reserve(o)
                            /\ issued' = issued \cup {o}
    BY <1>1 DEF Admission
  <2>2. Owner[o] \in Users
    BY SeckillRedisAssumption
  <2>3. Owner[o] \notin Holders /\ stock > 0
    BY <2>1, <2>2, AdmissionGuard
  <2>4. Holders' = Holders \cup {Owner[o]}
    BY <2>1, <2>3, ReserveTakesOne
  <2>5. Cardinality(Holders) < Total
    <3>1. Cardinality(Holders) \in Nat /\ stock \in Nat /\ Total \in Nat
      BY HoldersFinite, SeckillRedisAssumption DEF RedisTypeOK
    <3>. QED
      BY <2>3, <3>1 DEF RedisConservation
  <2>6. Sale!Accept(o)
    BY <1>1, <2>1, <2>3, <2>4, <2>5, SameCardinality DEF Sale!Accept, Admission, mysql
  <2>. QED
    BY <2>6
<1>2. CASE Insertion
  <2>1. PICK o \in issued : ~Duplicate(o) /\ InsertOrder(o)
    BY <1>2 DEF Insertion
  <2>2. Cardinality(dbOrders) < Total
    <3>1. Cardinality(dbOrders) \in Nat /\ Total \in Nat /\ dbStock \in Nat /\ dbStock # 0
      BY <2>1, DbOrdersFinite, SeckillRedisAssumption DEF InsertOrder, OutOfStock
    <3>. QED
      BY <3>1 DEF DbConservation
  <2>3. Holders' = Holders /\ issued' = issued
    BY <1>2 DEF Insertion, redis, Holders, Reserved
  <2>4. Sale!Sell(o)
    BY <2>1, <2>2, <2>3, SameCardinality DEF Sale!Sell, Sale!Buyers, Duplicate, Buyers, InsertOrder
  <2>. QED
    BY <2>1, <2>4
<1>3. CASE Internal
  <2>1. UNCHANGED <<issued, dbOrders>>
    BY <1>3 DEF Internal, mysql
  <2>2. CASE Holders' = Holders
    BY <2>1, <2>2
  <2>3. ASSUME NEW u \in Holders, Holders' = Holders \ {u}
        PROVE  Sale!Next
    <3>1. u \in Users
      BY DEF Holders, Reserved, RedisTypeOK
    <3>2. Sale!Release(u)
      BY <2>1, <2>3 DEF Sale!Release
    <3>. QED
      BY <3>1, <3>2
  <2>. QED
    BY <1>3, <2>2, <2>3, InternalKeepsBooks
<1>. QED
  BY <1>1, <1>2, <1>3 DEF StepOK, HalfInsertion

\* The pipeline keeps the promise of the sale: never more slots or orders
\* than stock, one of each per user, orders for admitted requests only.  A
\* synchronous request may break it: its insert outlives the stock update.
THEOREM Implementation ==
  ASSUME "sync" \notin Modes
  PROVE  Spec => ImplementsSale
<1>1. Init => Sale!Init
  BY InitIndInv, InitSale
<1>2. IndInv /\ [Next]_vars => [Sale!Next]_(Sale!sale)
  BY StepShape, StepSale DEF IndInv
<1>. QED
  BY <1>1, <1>2, Invariance, PTL DEF Spec, Sale!Spec, ImplementsSale
=============================================================================
