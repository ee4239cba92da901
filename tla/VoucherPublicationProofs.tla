----------------------- MODULE VoucherPublicationProofs -----------------------
(***************************************************************************)
(* A listed voucher is on sale, whatever the pipeline does with the keys   *)
(* of a voucher not committed yet; and the pipeline keeps every promise it *)
(* makes for a voucher that exists when it sells one that does not.        *)
(***************************************************************************)
EXTENDS VoucherPublication, OrderVerdictProofs

\* Where the publisher is tells what it has written; once done, either
\* everything is there or MySQL has nothing.
PublicationOK ==
  /\ PublicationTypeOK
  /\ row = "committed" => publisher = "done" /\ keys = "both"
  /\ publisher = "commit" => keys = "both"

LEMMA PublisherKeeps ==
  ASSUME PublicationOK, PublisherNext
  PROVE  PublicationOK'
<1>. USE DEF PublicationOK, PublicationTypeOK, PublisherAt
<1>1. CASE InsertRows
  BY <1>1 DEF InsertRows
<1>2. CASE SetStock
  BY <1>2 DEF SetStock
<1>3. CASE CacheActivityTime
  BY <1>3 DEF CacheActivityTime
<1>4. CASE Commit
  BY <1>4 DEF Commit
<1>5. CASE Rollback
  BY <1>5 DEF Rollback
<1>. QED
  BY <1>1, <1>2, <1>3, <1>4, <1>5 DEF PublisherNext

\* A voucher that the list of its shop shows has its stock and its window
\* in Redis: the keys are written before the commit and no rollback follows
\* one.
THEOREM ListedOnSale == PubSpec => []ListedIsOnSale
<1>1. PubInit => PublicationOK
  BY DEF PubInit, PublicationOK, PublicationTypeOK
<1>2. PublicationOK /\ [PubNext]_pubVars => PublicationOK'
  <2>. SUFFICES ASSUME PublicationOK, [PubNext]_pubVars
                PROVE  PublicationOK'
    OBVIOUS
  <2>1. UNCHANGED publication => PublicationOK'
    BY DEF publication, PublicationOK, PublicationTypeOK
  <2>. QED
    BY <2>1, PublisherKeeps DEF PubNext, Gate, NoSuchVoucher, SyncNoSuchVoucher, pubVars
<1>3. PublicationOK => ListedIsOnSale
  BY DEF PublicationOK, ListedIsOnSale, OnSale
<1>. QED
  BY <1>1, <1>2, <1>3, PTL DEF PubSpec

-----------------------------------------------------------------------------
(* The pipeline of a voucher that may not exist                            *)

\* The publisher's steps and those that meet a missing voucher are of the
\* kinds the pipeline's own steps are: the stock update that matches nothing
\* moves one thread and writes nothing.
LEMMA PubStepOK ==
  ASSUME Shape, [PubNext]_pubVars
  PROVE  StepOK /\ Honest
<1>1. CASE [Next]_vars
  BY <1>1, StepShape, StepHonest
<1>2. CASE PublisherNext \/ UNCHANGED pubVars
  BY <1>1, <1>2 DEF PublisherNext, PublisherAt, InsertRows, SetStock, CacheActivityTime, Commit,
     Rollback, pubVars
<1>k. ASSUME UNCHANGED <<redis, mysql, broker, faults, issued>>, ThreadsOK', ThreadsHonest
      PROVE  StepOK /\ Honest
  <2>1. BrokerOK'
    BY <1>k DEF Shape, BrokerOK, broker
  <2>2. StatusHonest
    BY <1>k DEF redis, StatusHonest
  <2>. QED
    BY <1>k, <2>1, <2>2 DEF StepOK, Shape, Internal, Honest
<1>3. ASSUME NEW c \in Consumers, NoSuchVoucher(c)
      PROVE  StepOK /\ Honest
  <2>. USE <1>3 DEF NoSuchVoucher
  <2>1. "create" \in ConsumerPc \ {"idle"} /\ "failed" \in ConsumerPc
    BY DEF ConsumerPc
  <2>2. ThreadsOK' /\ UNCHANGED issued /\ consumer[c].order \in issued
    BY <2>1, ConsumerMoveKeeps
  <2>3. consumer[c].order \in Orders
    BY <2>2 DEF Shape, StoresOK
  <2>4. ThreadsHonest
    BY <2>1, <2>3, ConsumerMoveHonest
  <2>. QED
    BY <1>k, <2>2, <2>4
<1>4. ASSUME NEW o \in Orders, SyncNoSuchVoucher(o)
      PROVE  StepOK /\ Honest
  <2>. USE <1>4 DEF SyncNoSuchVoucher
  <2>1. o \in issued
    BY DEF RequestAt, Shape, ThreadsOK, RequestOK
  <2>2. "restore" \in RequestPc
    BY DEF RequestPc
  <2>3. ThreadsOK' /\ UNCHANGED issued
    BY <2>1, <2>2, RequestAtKeeps
  <2>4. ThreadsHonest
    BY RequestAtHonest
  <2>. QED
    BY <1>k, <2>3, <2>4
<1>. QED
  BY <1>1, <1>2, <1>3, <1>4 DEF PubNext

\* Neither the publisher nor a missing voucher makes anybody let go of a
\* message, a confirm or a pending entry.
LEMMA PubStepTraced ==
  ASSUME Shape, IdleOK, NoReturns, ~CanReturn, [PubNext]_pubVars
  PROVE  Traced /\ IdleOK'
<1>1. CASE [Next]_vars
  BY <1>1, StepTraced, StaysIdle
<1>2. CASE PublisherNext \/ UNCHANGED pubVars
  BY <1>1, <1>2 DEF PublisherNext, PublisherAt, InsertRows, SetStock, CacheActivityTime, Commit,
     Rollback, pubVars
<1>p. UNCHANGED redis => PendingKept
  BY DEF redis, PendingKept
<1>3. ASSUME NEW c \in Consumers, NoSuchVoucher(c)
      PROVE  Traced /\ IdleOK'
  <2>1. consumer \in [Consumers ->
          [pc : ConsumerPc, order : Orders \cup {None}, deaths : Deaths]]
    BY DEF Shape, ThreadsOK, ConsumerOK
  <2>2. /\ UNCHANGED <<redis, broker, confirming, recovery>>
        /\ consumer' = [consumer EXCEPT ![c].pc = "failed"]
    BY <1>3 DEF NoSuchVoucher, ConsumerAt
  <2>3. \A b \in Consumers : /\ consumer'[b].order = consumer[b].order
                            /\ consumer'[b].pc = "idle" => consumer[b].pc = "idle"
    BY <2>1, <2>2
  <2>4. CopiesKept /\ ConfirmsKept
    BY <2>2, <2>3, QuietTraced
  <2>. QED
    BY <1>p, <2>2, <2>3, <2>4 DEF Traced, IdleOK
<1>4. ASSUME NEW o \in Orders, SyncNoSuchVoucher(o)
      PROVE  Traced /\ IdleOK'
  <2>1. UNCHANGED <<redis, broker, confirming, consumer, recovery>>
    BY <1>4 DEF SyncNoSuchVoucher, RequestAt
  <2>. QED
    BY <1>p, <2>1, QuietTraced DEF Traced, IdleOK
<1>. QED
  BY <1>1, <1>2, <1>3, <1>4 DEF PubNext

-----------------------------------------------------------------------------
(* What the pipeline promises all the same                                 *)

\* The inductive invariant of the pipeline, kept while the voucher is being
\* published, after it is, and after its publication was rolled back.
LEMMA PubInvariance == PubSpec => []IndInv
<1>1. PubInit => IndInv
  BY InitIndInv DEF PubInit
<1>2. IndInv /\ [PubNext]_pubVars => IndInv'
  BY PubStepOK, StepOKKeeps DEF IndInv
<1>. QED
  BY <1>1, <1>2, PTL DEF PubSpec

\* Slots held and slots left make up the stock, and a user has one order row,
\* also while orders of a voucher that MySQL does not have fail one by one.
THEOREM PublicationLedgers == PubSpec => [](RedisConservation /\ OneOrderPerUser)
<1>1. IndInv => RedisConservation /\ OneOrderPerUser
  BY DEF IndInv
<1>. QED
  BY <1>1, PubInvariance, PTL

\* A slot of a voucher that does not exist is given back like any other: by a
\* compensation of its own order, once.
THEOREM PublicationFrees == PubSpec => SlotFreedByItsOrder
<1>1. IndInv /\ [PubNext]_pubVars => [\A u \in Users : FreedByItsOrder(u)]_vars
  BY PubStepOK, StepFrees DEF IndInv
<1>. QED
  BY <1>1, PubInvariance, PTL DEF PubSpec, SlotFreedByItsOrder, FreedByItsOrder

\* An order is not reported COMPLETED for a voucher that does not exist
\* unless its user has a row, and one reported FAILED holds no slot.
THEOREM PublicationReports ==
  /\ PubSpec => []CompletedHasOrder
  /\ ~CanExpire => (PubSpec => []FailedHoldsNothing)
<1>1. PubInit => IndInv /\ CompletedOK /\ FailedOK
  BY InitIndInv, InitReports DEF PubInit
<1>2. IndInv /\ CompletedOK /\ [PubNext]_pubVars => (IndInv /\ CompletedOK)'
  BY PubStepOK, StepOKKeeps, StepCompletedOK DEF IndInv
<1>3. IndInv /\ CompletedOK => CompletedHasOrder
  BY DEF CompletedOK, CompletedHasOrder, Bought
<1>4. PubSpec => []CompletedHasOrder
  BY <1>1, <1>2, <1>3, PTL DEF PubSpec
<1>5. ASSUME ~CanExpire
      PROVE  PubSpec => []FailedHoldsNothing
  <2>1. IndInv /\ FailedOK /\ [PubNext]_pubVars => (IndInv /\ FailedOK)'
    BY <1>5, PubStepOK, StepOKKeeps, StepFailedOK DEF IndInv
  <2>2. IndInv /\ FailedOK => FailedHoldsNothing
    BY DEF FailedOK, FailedHoldsNothing, Freed
  <2>. QED
    BY <1>1, <2>1, <2>2, PTL DEF PubSpec
<1>. QED
  BY <1>4, <1>5

\* The request of o has not begun, or has nothing more to send.
Ended(o) == request[o] \in {"idle", "sendFailed"}

\* A request stops with a message in the queue, a decided order, or a fault.
LEMMA RequestEnds ==
  ASSUME Shape, CompletedOK, FailedOK, NEW o \in Orders, ~Ended(o), Ended(o)',
         StepOK, [PubNext]_pubVars
  PROVE  Held(o)' \/ faults' = faults + 1
<1>r. request \in [Orders -> RequestPc]
  BY DEF Shape, ThreadsOK, RequestOK
<1>i. o \in issued
  BY DEF Ended, Shape, ThreadsOK, RequestOK
<1>1. ASSUME NEW p \in Orders, p # o, RequestNext(p) \/ SyncNoSuchVoucher(p)
      PROVE  request'[o] = request[o]
  BY <1>r, <1>1 DEF RequestNext, Seckill, RequestSend, RequestSendThrows, RequestSendFailed,
     SyncInsert, SyncDeduct, SyncThrows, SyncComplete, SyncRestore, SyncFail, RequestLost,
     RequestAt, SyncNoSuchVoucher
<1>2. \/ RequestNext(o)
      \/ SyncNoSuchVoucher(o)
      \/ UNCHANGED request
      \/ \E p \in Orders : p # o /\ (RequestNext(p) \/ SyncNoSuchVoucher(p))
  BY DEF PubNext, PublisherNext, PublisherAt, InsertRows, SetStock, CacheActivityTime, Commit,
     Rollback, NoSuchVoucher, Next, RetryElapsed, ChannelClosed, DataExpires,
     CallbackNext, ConfirmAck, ConfirmWrite, ConfirmNack, ReturnedMessage, ReturnedThrows,
     CallbackLost, CallbackDone, ConsumerNext, Deliver, ConsumeCheck, ConsumeMark, CreateOrder,
     ConsumeComplete, ConsumeThrows, ConsumeEscapes, Reject, Forward, ForwardThrows,
     ConsumerCrash, ConsumerAt, ConsumerDone, RecoveryNext, DeliverFailed, RecoverCheck,
     RecoverClean, RecoverRestore, RecoverFail, RecoverThrows, Park, ParkThrows,
     RecoveryClosed, RecoveryAt, RecoveryDone, TaskNext, TaskScan, TaskCheck, TaskClean,
     TaskLoad, TaskRestore, TaskFail, TaskRepublish, TaskSend, TaskSendThrows, TaskThrows,
     TaskError, TaskLost, TaskAt, TaskDone, pubVars, vars, threads
<1>3. RequestNext(o) \/ SyncNoSuchVoucher(o)
  BY <1>1, <1>2 DEF Ended
<1>4. CASE RequestSend(o)
  <2>1. CASE orderQueue' = AddTo(orderQueue, o, 0)
    <3>1. InQueue(orderQueue', o)
      BY <2>1, ShapeTypes, AddToQueue DEF QueueTypes
    <3>. QED
      BY <3>1 DEF Held, Copies, InQueue
  <2>. QED
    BY <1>4, <2>1 DEF RequestSend, PublishOrder, Fault
<1>5. CASE RequestSendThrows(o) \/ SyncThrows(o) \/ RequestLost(o)
  BY <1>5 DEF RequestSendThrows, PublishThrows, SyncThrows, RequestLost, Fault
<1>6. CASE SyncComplete(o)
  <2>1. Bought(o)
    BY <1>6 DEF SyncComplete, RequestAt, CompletedOK, Completing
  <2>. QED
    BY <2>1, BoughtStays DEF Held
<1>7. CASE SyncFail(o)
  <2>1. Freed(o)
    BY <1>7 DEF SyncFail, RequestAt, FailedOK, Failing
  <2>. QED
    BY <1>i, <2>1, FreedStays DEF Held
<1>8. CASE \/ Seckill(o) \/ RequestSendFailed(o) \/ SyncInsert(o) \/ SyncDeduct(o)
           \/ SyncRestore(o) \/ SyncNoSuchVoucher(o)
  BY <1>i, <1>r, <1>8 DEF Seckill, RequestSendFailed, SyncInsert, SyncDeduct, SyncRestore,
     SyncNoSuchVoucher, RequestAt, Ended
<1>. QED
  BY <1>3, <1>4, <1>5, <1>6, <1>7, <1>8 DEF RequestNext

\* An order that is admitted starts with its request.
LEMMA AdmittedRuns ==
  ASSUME Shape, StepOK, [PubNext]_pubVars, NEW o \in Orders \ issued, Freed(o), Ended(o)'
  PROVE  Freed(o)'
<1>. SUFFICES ASSUME ~Freed(o)'
              PROVE  FALSE
  OBVIOUS
<1>1. o \in issued'
  BY FreshStays
<1>2. PICK p \in Orders : Seckill(p)
  BY <1>1 DEF PubNext, PublisherNext, PublisherAt, InsertRows, SetStock, CacheActivityTime,
     Commit, Rollback, NoSuchVoucher, SyncNoSuchVoucher, Next, RetryElapsed, ChannelClosed,
     DataExpires, RequestNext, RequestSend, RequestSendThrows, RequestSendFailed,
     SyncInsert, SyncDeduct, SyncThrows, SyncComplete, SyncRestore, SyncFail, RequestLost,
     RequestAt, CallbackNext, ConfirmAck, ConfirmWrite, ConfirmNack, ReturnedMessage,
     ReturnedThrows, CallbackLost, CallbackDone, ConsumerNext, Deliver, ConsumeCheck,
     ConsumeMark, CreateOrder, ConsumeComplete, ConsumeThrows, ConsumeEscapes, Reject,
     Forward, ForwardThrows, ConsumerCrash, ConsumerAt, ConsumerDone, RecoveryNext,
     DeliverFailed, RecoverCheck, RecoverClean, RecoverRestore, RecoverFail, RecoverThrows,
     Park, ParkThrows, RecoveryClosed, RecoveryAt, RecoveryDone, TaskNext, TaskScan,
     TaskCheck, TaskClean, TaskLoad, TaskRestore, TaskFail, TaskRepublish, TaskSend,
     TaskSendThrows, TaskThrows, TaskError, TaskLost, TaskAt, TaskDone, pubVars, vars
<1>3. o = p
  BY <1>1, <1>2 DEF Seckill
<1>. QED
  BY <1>2, <1>3 DEF Seckill, Ended, Shape, ThreadsOK, RequestOK

\* CopiesCount, of the state after a step.
LEMMA CopiesCountNext ==
  ASSUME BrokerOK', NEW o \in Orders
  PROVE  HasCopy(o)' <=> Copies(o)'
<1>1. \A k \in Deaths :
        orderQueue'[o][k] \in Nat /\ retryQueue'[o][k] \in Nat /\ unacked'[o][k] \in Nat
  BY DEF BrokerOK, Carries
<1>2. failedQueue'[o] \in Nat /\ parkingQueue'[o] \in Nat
  BY DEF BrokerOK
<1>3. \A k \in Deaths :
        orderQueue'[o][k] + retryQueue'[o][k] + unacked'[o][k] > 0 <=>
          orderQueue'[o][k] > 0 \/ retryQueue'[o][k] > 0 \/ unacked'[o][k] > 0
  BY <1>1
<1>4. failedQueue'[o] + parkingQueue'[o] > 0 <=> failedQueue'[o] > 0 \/ parkingQueue'[o] > 0
  BY <1>2
<1>. QED
  BY <1>3, <1>4 DEF HasCopy, Copies, InQueue

\* As long as the broker routes what it takes and no detail hash expires, only
\* a fault leaves an order, of a voucher that exists or of one that does not,
\* with its slot and without a message that would decide it.
THEOREM PublicationKeepsMessages ==
  ~CanExpire /\ ~CanReturn => (PubSpec => OnlyFaultsLoseMessages)
<1>. SUFFICES ASSUME ~CanExpire, ~CanReturn
              PROVE  PubSpec => OnlyFaultsLoseMessages
  OBVIOUS
<1>. DEFINE Inv == IndInv /\ CompletedOK /\ FailedOK /\ KeptOK
            Lost == \A o \in WithoutMessage' : o \in WithoutMessage \/ faults' = faults + 1
<1>1. PubInit => Inv
  BY InitIndInv, InitReports, InitKept DEF PubInit
<1>2. Inv /\ [PubNext]_pubVars => Inv'
  BY PubStepOK, PubStepTraced, StepOKKeeps, StepCompletedOK, StepFailedOK, TracedKept
     DEF IndInv, KeptOK
<1>3. Inv /\ Inv' /\ [PubNext]_pubVars => [Lost]_pubVars
  <2>. SUFFICES ASSUME Inv, Inv', [PubNext]_pubVars
                PROVE  Lost
    OBVIOUS
  <2>1. Shape /\ BrokerOK /\ BrokerOK' /\ StepOK /\ Traced
    BY PubStepOK, PubStepTraced DEF IndInv, Shape, KeptOK
  <2>. SUFFICES ASSUME NEW o \in Orders, o \in WithoutMessage', o \notin WithoutMessage
                PROVE  faults' = faults + 1
    BY DEF WithoutMessage
  <2>2. Ended(o)' /\ ~Held(o)'
    <3>1. ~Copies(o)'
      BY <2>1, CopiesCountNext DEF WithoutMessage
    <3>. QED
      BY <3>1 DEF WithoutMessage, Ended, Held, Bought, Freed
  <2>3. Ended(o) => Held(o)
    BY <2>1, CopiesCount DEF WithoutMessage, Ended, Held, Bought, Freed
  <2>4. o \in issued
    <3>1. CASE o \notin issued
      BY <2>1, <2>2, <3>1, AdmittedRuns DEF FailedOK, Held
    <3>. QED
      BY <3>1
  <2>5. ~Held(o)
    BY <2>1, <2>2, <2>4, HeldStays
  <2>. QED
    BY <2>1, <2>2, <2>3, <2>5, RequestEnds
<1>. QED
  BY <1>1, <1>2, <1>3, PTL DEF PubSpec, OnlyFaultsLoseMessages

\* Without synchronous instances, a sale is kept whether or not its voucher
\* exists.
THEOREM PublicationImplementsSale ==
  ASSUME "sync" \notin Modes
  PROVE  PubSpec => ImplementsSale
<1>1. PubInit => Sale!Init
  BY InitIndInv, InitSale DEF PubInit
<1>2. IndInv /\ [PubNext]_pubVars => [Sale!Next]_(Sale!sale)
  BY PubStepOK, StepSale DEF IndInv
<1>. QED
  BY <1>1, <1>2, PubInvariance, PTL DEF PubSpec, Sale!Spec, ImplementsSale
=============================================================================
