---------------------------- MODULE OrderPipeline ----------------------------
(***************************************************************************)
(* The order pipeline of one seckill voucher: the request that reserves a  *)
(* slot and publishes the order, RabbitMQ's order, retry, failed and       *)
(* parking queues, publisher confirms and returns, the consumers that      *)
(* write the order to MySQL, the consumer of finally failed orders, and    *)
(* the scheduled task that republishes pending orders.                     *)
(*                                                                         *)
(* Each thread is a program counter over the steps between which another   *)
(* thread, a crash or an exception can come.  A thread crashes by itself:  *)
(* the application may run as several instances.                           *)
(***************************************************************************)
EXTENDS SeckillRedis

CONSTANTS
  Consumers,      \* listener threads on the order queue
  Tasks,          \* scheduler threads, one per application instance
  Modes,          \* hmdp.seckill.async-enabled of the instances: "async", "sync"
  MaxRetry,       \* MAX_RETRY_COUNT, rejections before the failed queue
  MaxRepublish,   \* MAX_REPUBLISH_COUNT
  MaxAttempts,    \* attempts of the failed-order listener
  MaxFaults,      \* bound on crashes, exceptions and lost or negative confirms
  CanReturn,      \* whether the broker may find no route for an order message
  CanExpire       \* whether a detail hash may outlive its 24 hours

ASSUME PipelineAssumption ==
  /\ Modes \subseteq {"async", "sync"}
  /\ MaxRetry \in Nat
  /\ MaxRepublish \in Nat
  /\ MaxAttempts \in Nat \ {0}
  /\ MaxFaults \in Nat
  /\ CanReturn \in BOOLEAN
  /\ CanExpire \in BOOLEAN

VARIABLES
  issued,        \* orders that got past the admission script
  request,       \* request[o]: where the HTTP thread of o is
  dbOrders,      \* rows of tb_voucher_order
  dbStock,       \* tb_seckill_voucher.stock
  orderQueue,    \* orderQueue[o][k]: messages of o rejected k times so far
  retryQueue,    \* the same, waiting out the 5 s TTL
  unacked,       \* deliveries whose listener threw: held until the channel closes
  failedQueue,
  parkingQueue,
  confirms,      \* confirms[o][kind]: publisher callbacks still to come
  confirming,    \* confirm callbacks of o between status check and writes
  consumer,
  recovery,      \* the listener of the failed queue
  task,
  faults

mysql   == <<dbOrders, dbStock>>
broker  == <<orderQueue, retryQueue, unacked, failedQueue, parkingQueue, confirms>>
threads == <<request, confirming, consumer, recovery, task>>
vars    == <<redis, mysql, broker, threads, issued, faults>>

Deaths      == 0..MaxRetry
ConfirmKind == {"ack", "nack", "returned"}
Messages    == [Orders -> [Deaths -> Nat]]

RequestPc  ==
  {"idle", "send", "sendFailed", "create", "deduct", "created", "restore", "fail"}
ConsumerPc == {"idle", "mark", "consuming", "create", "created", "duplicate", "failed"}
RecoveryPc == {"idle", "check", "clean", "restore", "fail", "park", "unacked"}
TaskPc     == {"idle", "clean", "load", "restore", "fail", "republish", "send", "error"}

IdleConsumer == [pc |-> "idle", order |-> None, deaths |-> 0]
IdleRecovery == [pc |-> "idle", order |-> None, attempt |-> 0]
IdleTask     == [pc |-> "idle", order |-> None, batch |-> {}]

BrokerTypeOK ==
  /\ orderQueue \in Messages
  /\ retryQueue \in Messages
  /\ unacked \in Messages
  /\ failedQueue \in [Orders -> Nat]
  /\ parkingQueue \in [Orders -> Nat]
  /\ confirms \in [Orders -> [ConfirmKind -> Nat]]

ThreadTypeOK ==
  /\ request \in [Orders -> RequestPc]
  /\ confirming \in [Orders -> Nat]
  /\ consumer \in [Consumers ->
       [pc : ConsumerPc, order : Orders \cup {None}, deaths : Deaths]]
  /\ recovery \in
       [pc : RecoveryPc, order : Orders \cup {None}, attempt : 0..MaxAttempts]
  /\ task \in [Tasks ->
       [pc : TaskPc, order : Orders \cup {None}, batch : SUBSET Orders]]

\* The counters of slots, stock and messages never run below zero, a death
\* count never exceeds the retry limit, and every thread is at one of its
\* steps.
TypeOK ==
  /\ RedisTypeOK
  /\ issued \subseteq Orders
  /\ dbOrders \subseteq Orders
  /\ dbStock \in Nat
  /\ BrokerTypeOK
  /\ ThreadTypeOK
  /\ faults \in 0..MaxFaults

\* Some legacy orders are in MySQL already, the message of each other one
\* is still in the order queue.
Init ==
  /\ RedisInit
  /\ issued = LegacyOrders
  /\ request = [o \in Orders |-> "idle"]
  /\ dbOrders \in SUBSET LegacyOrders
  /\ dbStock = Total - Cardinality(dbOrders)
  /\ orderQueue = [o \in Orders |-> [k \in Deaths |->
       IF o \in LegacyOrders \ dbOrders /\ k = 0 THEN 1 ELSE 0]]
  /\ retryQueue = [o \in Orders |-> [k \in Deaths |-> 0]]
  /\ unacked = [o \in Orders |-> [k \in Deaths |-> 0]]
  /\ failedQueue = [o \in Orders |-> 0]
  /\ parkingQueue = [o \in Orders |-> 0]
  /\ confirms = [o \in Orders |-> [kind \in ConfirmKind |-> 0]]
  /\ confirming = [o \in Orders |-> 0]
  /\ consumer = [c \in Consumers |-> IdleConsumer]
  /\ recovery = IdleRecovery
  /\ task = [t \in Tasks |-> IdleTask]
  /\ faults = 0

-----------------------------------------------------------------------------
(* MySQL: createVouchOrder                                                 *)

Buyers == {Owner[o] : o \in dbOrders}

\* Bug: the table has no unique index on (user_id, voucher_id).
DuplicateByIdOnly(o) == o \in dbOrders

\* The insert meets the primary key or uk_user_voucher.
Duplicate(o) == o \in dbOrders \/ Owner[o] \in Buyers

\* The stock update matches no row, and a transaction rolls back.
OutOfStock == dbStock = 0

\* Bug: the stock update lacks its "stock > 0" condition.
InsertOrderUnguarded(o) ==
  /\ dbOrders' = dbOrders \cup {o}
  /\ dbStock' = dbStock - 1

\* Bug: the row stays when the stock update matches nothing.
InsertOrderUnchecked(o) ==
  /\ dbOrders' = dbOrders \cup {o}
  /\ dbStock' = IF OutOfStock THEN 0 ELSE dbStock - 1

\* Insert and stock update commit together: the listener calls through the
\* proxy that opens the transaction.
InsertOrder(o) ==
  /\ ~OutOfStock
  /\ dbOrders' = dbOrders \cup {o}
  /\ dbStock' = dbStock - 1

-----------------------------------------------------------------------------
(* Broker                                                                  *)

AddTo(queue, o, k)    == [queue EXCEPT ![o][k] = @ + 1]
TakeFrom(queue, o, k) == [queue EXCEPT ![o][k] = @ - 1]

Fault == faults < MaxFaults /\ faults' = faults + 1

\* sendOrderMessage without an exception: the broker stores the message, or
\* refuses it, or accepts it without a route; a stored message may still be
\* reported as refused when the channel closes before the confirm.
PublishOrder(o) ==
  /\ \/ /\ orderQueue' = AddTo(orderQueue, o, 0)
        /\ confirms' = AddTo(confirms, o, "ack")
        /\ UNCHANGED faults
     \/ /\ Fault
        /\ orderQueue' \in {orderQueue, AddTo(orderQueue, o, 0)}
        /\ confirms' = AddTo(confirms, o, "nack")
     \/ /\ CanReturn
        /\ Fault
        /\ confirms' = AddTo(confirms, o, "returned")
        /\ UNCHANGED orderQueue
  /\ UNCHANGED <<retryQueue, unacked, failedQueue, parkingQueue>>

\* convertAndSend throws: the message may have reached the queue.
PublishThrows(o) ==
  /\ Fault
  /\ orderQueue' \in {orderQueue, AddTo(orderQueue, o, 0)}
  /\ UNCHANGED <<retryQueue, unacked, failedQueue, parkingQueue, confirms>>

-----------------------------------------------------------------------------
(* The request: seckillVoucher                                             *)

\* The admission script accepts a fresh order (the sale is open; a refused
\* request changes nothing).
Seckill(o) ==
  /\ o \notin issued
  /\ SeckillReply(Owner[o], "open") = "0"
  /\ Reserve(o)
  /\ issued' = issued \cup {o}
  /\ \E mode \in Modes :
       request' = [request EXCEPT ![o] = IF mode = "async" THEN "send" ELSE "create"]
  /\ UNCHANGED <<mysql, broker, confirming, consumer, recovery, task, faults>>

RequestAt(o, from, to) ==
  /\ request[o] = from
  /\ request' = [request EXCEPT ![o] = to]
  /\ UNCHANGED <<issued, confirming, consumer, recovery, task>>

RequestSend(o) ==
  /\ RequestAt(o, "send", "idle")
  /\ PublishOrder(o)
  /\ UNCHANGED <<redis, mysql>>

RequestSendThrows(o) ==
  /\ RequestAt(o, "send", "sendFailed")
  /\ PublishThrows(o)
  /\ UNCHANGED <<redis, mysql>>

\* The AmqpException handler; the client gets its order id all the same.
RequestSendFailed(o) ==
  /\ RequestAt(o, "sendFailed", "idle")
  /\ MarkSendFailed(o)
  /\ UNCHANGED <<mysql, broker, faults>>

\* createOrderSynchronously calls createVouchOrder on this, past the proxy
\* that would open its transaction: each statement commits by itself, and no
\* exception takes the row back.
SyncInsert(o) ==
  /\ \/ /\ ~Duplicate(o)
        /\ dbOrders' = dbOrders \cup {o}
        /\ RequestAt(o, "create", "deduct")
     \/ /\ Duplicate(o)
        /\ UNCHANGED dbOrders
        /\ RequestAt(o, "create", "restore")
  /\ UNCHANGED <<redis, dbStock, broker, faults>>

SyncDeduct(o) ==
  /\ \/ /\ ~OutOfStock
        /\ dbStock' = dbStock - 1
        /\ RequestAt(o, "deduct", "created")
     \/ /\ OutOfStock
        /\ UNCHANGED dbStock
        /\ RequestAt(o, "deduct", "restore")
  /\ UNCHANGED <<redis, dbOrders, broker, faults>>

\* Any exception leads to the compensation, the one of removePending after
\* the order was created included.
SyncThrows(o) ==
  /\ \E step \in {"create", "deduct", "created"} : RequestAt(o, step, "restore")
  /\ Fault
  /\ UNCHANGED <<redis, mysql, broker>>

SyncComplete(o) ==
  /\ RequestAt(o, "created", "idle")
  /\ RemovePending(o)
  /\ UNCHANGED <<mysql, broker, faults>>

SyncRestore(o) ==
  /\ RequestAt(o, "restore", "fail")
  /\ Restore(o)
  /\ UNCHANGED <<mysql, broker, faults>>

SyncFail(o) ==
  /\ RequestAt(o, "fail", "idle")
  /\ MarkFailed(o)
  /\ UNCHANGED <<mysql, broker, faults>>

\* The instance crashes, or an exception leaves the handler.
RequestLost(o) ==
  /\ request[o] # "idle"
  /\ RequestAt(o, request[o], "idle")
  /\ Fault
  /\ UNCHANGED <<redis, mysql, broker>>

RequestNext(o) ==
  \/ Seckill(o)
  \/ RequestSend(o)
  \/ RequestSendThrows(o)
  \/ RequestSendFailed(o)
  \/ SyncInsert(o)
  \/ SyncDeduct(o)
  \/ SyncThrows(o)
  \/ SyncComplete(o)
  \/ SyncRestore(o)
  \/ SyncFail(o)
  \/ RequestLost(o)

-----------------------------------------------------------------------------
(* Publisher callbacks: VoucherOrderProducer                               *)

CallbackDone(o, kind) ==
  /\ confirms[o][kind] > 0
  /\ confirms' = TakeFrom(confirms, o, kind)
  /\ UNCHANGED <<orderQueue, retryQueue, unacked, failedQueue, parkingQueue>>
  /\ UNCHANGED <<issued, mysql, request, consumer, recovery, task>>

\* confirm with ack: markSendSuccess reads the status ...
ConfirmAck(o) ==
  /\ CallbackDone(o, "ack")
  /\ confirming' = [confirming EXCEPT ![o] = IF MaySendSuccess(o) THEN @ + 1 ELSE @]
  /\ UNCHANGED <<redis, faults>>

\* ... and writes later, whatever the status has become.
ConfirmWrite(o) ==
  /\ confirming[o] > 0
  /\ confirming' = [confirming EXCEPT ![o] = @ - 1]
  /\ MarkSendSuccess(o)
  /\ UNCHANGED <<issued, mysql, broker, request, consumer, recovery, task, faults>>

ConfirmNack(o) ==
  /\ CallbackDone(o, "nack")
  /\ MarkSendFailed(o)
  /\ UNCHANGED <<confirming, faults>>

\* returnedMessage runs before the ack of the same message.
ReturnedMessage(o) ==
  /\ confirms[o]["returned"] > 0
  /\ confirms' = AddTo(TakeFrom(confirms, o, "returned"), o, "ack")
  /\ MarkRouteFailed(o)
  /\ UNCHANGED <<orderQueue, retryQueue, unacked, failedQueue, parkingQueue>>
  /\ UNCHANGED <<issued, mysql, threads, faults>>

\* returnedMessage throws: it marks nothing, and the ack comes all the same.
ReturnedThrows(o) ==
  /\ confirms[o]["returned"] > 0
  /\ confirms' = AddTo(TakeFrom(confirms, o, "returned"), o, "ack")
  /\ Fault
  /\ UNCHANGED <<orderQueue, retryQueue, unacked, failedQueue, parkingQueue>>
  /\ UNCHANGED <<redis, issued, mysql, threads>>

\* The publishing instance is gone, or a confirm callback throws.
CallbackLost(o) ==
  /\ \/ /\ \E kind \in ConfirmKind : CallbackDone(o, kind)
        /\ UNCHANGED confirming
     \/ /\ confirming[o] > 0
        /\ confirming' = [confirming EXCEPT ![o] = @ - 1]
        /\ UNCHANGED <<issued, mysql, broker, request, consumer, recovery, task>>
  /\ Fault
  /\ UNCHANGED redis

CallbackNext(o) ==
  \/ ConfirmAck(o)
  \/ ConfirmWrite(o)
  \/ ConfirmNack(o)
  \/ ReturnedMessage(o)
  \/ ReturnedThrows(o)
  \/ CallbackLost(o)

-----------------------------------------------------------------------------
(* The order listener: VoucherOrderConsumer                                *)

ConsumerAt(c, from, to) ==
  /\ consumer[c].pc = from
  /\ consumer' = [consumer EXCEPT ![c].pc = to]
  /\ UNCHANGED <<issued, request, confirming, recovery, task>>

\* The handler ends and its delivery is settled or handed back.
ConsumerDone(c) ==
  /\ consumer[c].pc # "idle"
  /\ consumer' = [consumer EXCEPT ![c] = IdleConsumer]
  /\ UNCHANGED <<issued, request, confirming, recovery, task>>

Deliver(c, o, k) ==
  /\ consumer[c].pc = "idle"
  /\ orderQueue[o][k] > 0
  /\ orderQueue' = TakeFrom(orderQueue, o, k)
  /\ consumer' = [consumer EXCEPT ![c] = [pc |-> "mark", order |-> o, deaths |-> k]]
  /\ UNCHANGED <<retryQueue, unacked, failedQueue, parkingQueue, confirms>>
  /\ UNCHANGED <<redis, mysql, issued, request, confirming, recovery, task, faults>>

\* markConsuming reads the status; a final one skips the write but not the
\* order creation.
ConsumeCheck(c) ==
  /\ ConsumerAt(c, "mark",
       IF MayConsume(consumer[c].order) THEN "consuming" ELSE "create")
  /\ UNCHANGED <<redis, mysql, broker, faults>>

ConsumeMark(c) ==
  /\ ConsumerAt(c, "consuming", "create")
  /\ MarkConsuming(consumer[c].order)
  /\ UNCHANGED <<mysql, broker, faults>>

CreateOrder(c) ==
  LET o == consumer[c].order IN
  /\ consumer[c].pc = "create"
  /\ \/ /\ ~Duplicate(o)
        /\ InsertOrder(o)
        /\ ConsumerAt(c, "create", "created")
     \/ /\ Duplicate(o)
        /\ ConsumerAt(c, "create", "duplicate")
        /\ UNCHANGED mysql
     \/ /\ ~Duplicate(o) /\ OutOfStock
        /\ ConsumerAt(c, "create", "failed")
        /\ UNCHANGED mysql
  /\ UNCHANGED <<redis, broker, faults>>

\* removePending after the commit, or in the handler of the duplicate key;
\* then basicAck.  If the channel closed first the broker requeues, and after
\* a commit the exception of basicAck may forward the message as well.
ConsumeComplete(c) ==
  LET m == consumer[c] IN
  /\ m.pc \in {"created", "duplicate"}
  /\ RemovePending(m.order)
  /\ ConsumerDone(c)
  /\ \/ UNCHANGED <<orderQueue, failedQueue, faults>>
     \/ /\ Fault
        /\ orderQueue' = AddTo(orderQueue, m.order, m.deaths)
        /\ \/ UNCHANGED failedQueue
           \/ /\ m.pc = "created" /\ m.deaths >= MaxRetry
              /\ failedQueue' = [failedQueue EXCEPT ![m.order] = @ + 1]
  /\ UNCHANGED <<retryQueue, unacked, parkingQueue, confirms>>
  /\ UNCHANGED mysql

\* Bug: any exception is taken for a duplicate key.
ConsumeThrowsAsDuplicate(c) ==
  /\ \/ ConsumerAt(c, "mark", "duplicate")
     \/ ConsumerAt(c, "consuming", "duplicate")
     \/ ConsumerAt(c, "create", "duplicate")
     \/ ConsumerAt(c, "created", "duplicate")
  /\ Fault
  /\ UNCHANGED <<redis, mysql, broker>>

\* A Redis or MySQL call fails: the generic handler takes over.  After a
\* failed commit acknowledgement the order may exist, which is the case of
\* an exception at "created".
ConsumeThrows(c) ==
  /\ \/ ConsumerAt(c, "mark", "failed")
     \/ ConsumerAt(c, "consuming", "failed")
     \/ ConsumerAt(c, "create", "failed")
     \/ ConsumerAt(c, "created", "failed")
  /\ Fault
  /\ UNCHANGED <<redis, mysql, broker>>

\* removePending fails in the handler of the duplicate key: nothing catches
\* it, and with manual acknowledgement the delivery stays unsettled.
ConsumeEscapes(c) ==
  LET m == consumer[c] IN
  /\ m.pc = "duplicate"
  /\ ConsumerDone(c)
  /\ Fault
  /\ unacked' = AddTo(unacked, m.order, m.deaths)
  /\ UNCHANGED <<orderQueue, retryQueue, failedQueue, parkingQueue, confirms>>
  /\ UNCHANGED <<redis, mysql>>

\* basicReject without requeue: the dead-letter exchange moves the message
\* to the retry queue and counts the rejection.
Reject(c) ==
  LET m == consumer[c] IN
  /\ m.pc = "failed"
  /\ m.deaths < MaxRetry
  /\ retryQueue' = AddTo(retryQueue, m.order, m.deaths + 1)
  /\ ConsumerDone(c)
  /\ UNCHANGED <<orderQueue, unacked, failedQueue, parkingQueue, confirms>>
  /\ UNCHANGED <<redis, mysql, faults>>

\* Bug: a message past its limit goes round the retry queue once more.
ForwardToRetry(c) ==
  LET m == consumer[c] IN
  /\ m.pc = "failed"
  /\ m.deaths >= MaxRetry
  /\ ConsumerDone(c)
  /\ retryQueue' = AddTo(retryQueue, m.order, m.deaths)
  /\ UNCHANGED <<orderQueue, unacked, failedQueue, parkingQueue, confirms>>
  /\ UNCHANGED <<redis, mysql, faults>>

\* sendToFailedQueueAndWaitForConfirm succeeds and the original is acked.
Forward(c) ==
  LET m == consumer[c] IN
  /\ m.pc = "failed"
  /\ m.deaths >= MaxRetry
  /\ ConsumerDone(c)
  /\ failedQueue' = [failedQueue EXCEPT ![m.order] = @ + 1]
  /\ UNCHANGED <<orderQueue, retryQueue, unacked, parkingQueue, confirms>>
  /\ UNCHANGED <<redis, mysql, faults>>

\* No confirm in time, a nack, a return, or a crash before the ack: the
\* original is requeued, and the failed queue may have its copy all the same.
ForwardThrows(c) ==
  LET m == consumer[c] IN
  /\ m.pc = "failed"
  /\ m.deaths >= MaxRetry
  /\ ConsumerDone(c)
  /\ Fault
  /\ failedQueue' \in {failedQueue, [failedQueue EXCEPT ![m.order] = @ + 1]}
  /\ orderQueue' = AddTo(orderQueue, m.order, m.deaths)
  /\ UNCHANGED <<retryQueue, unacked, parkingQueue, confirms>>
  /\ UNCHANGED <<redis, mysql>>

\* The channel closes under the handler and the broker requeues.
ConsumerCrash(c) ==
  LET m == consumer[c] IN
  /\ ConsumerDone(c)
  /\ Fault
  /\ orderQueue' = AddTo(orderQueue, m.order, m.deaths)
  /\ UNCHANGED <<retryQueue, unacked, failedQueue, parkingQueue, confirms>>
  /\ UNCHANGED <<redis, mysql>>

ConsumerNext(c) ==
  \/ \E o \in Orders, k \in Deaths : Deliver(c, o, k)
  \/ ConsumeCheck(c)
  \/ ConsumeMark(c)
  \/ CreateOrder(c)
  \/ ConsumeComplete(c)
  \/ ConsumeThrows(c)
  \/ ConsumeEscapes(c)
  \/ Reject(c)
  \/ Forward(c)
  \/ ForwardThrows(c)
  \/ ConsumerCrash(c)

\* The retry queue's TTL runs out and the message goes back to the order
\* queue with its death count.
RetryElapsed(o, k) ==
  /\ retryQueue[o][k] > 0
  /\ retryQueue' = TakeFrom(retryQueue, o, k)
  /\ orderQueue' = AddTo(orderQueue, o, k)
  /\ UNCHANGED <<unacked, failedQueue, parkingQueue, confirms>>
  /\ UNCHANGED <<redis, mysql, threads, issued, faults>>

\* A channel that holds an unsettled delivery closes.
ChannelClosed(o, k) ==
  /\ unacked[o][k] > 0
  /\ unacked' = TakeFrom(unacked, o, k)
  /\ orderQueue' = AddTo(orderQueue, o, k)
  /\ UNCHANGED <<retryQueue, failedQueue, parkingQueue, confirms>>
  /\ UNCHANGED <<redis, mysql, threads, issued, faults>>

-----------------------------------------------------------------------------
(* The failed-order listener: VoucherOrderFailedConsumer                   *)

RecoveryAt(from, to) ==
  /\ recovery.pc = from
  /\ recovery' = [recovery EXCEPT !.pc = to]
  /\ UNCHANGED <<issued, request, confirming, consumer, task>>

DeliverFailed(o) ==
  /\ recovery.pc = "idle"
  /\ failedQueue[o] > 0
  /\ failedQueue' = [failedQueue EXCEPT ![o] = @ - 1]
  /\ recovery' = [pc |-> "check", order |-> o, attempt |-> 1]
  /\ UNCHANGED <<orderQueue, retryQueue, unacked, parkingQueue, confirms>>
  /\ UNCHANGED <<redis, mysql, issued, request, confirming, consumer, task, faults>>

RecoverCheck ==
  /\ RecoveryAt("check", IF recovery.order \in dbOrders THEN "clean" ELSE "restore")
  /\ UNCHANGED <<redis, mysql, broker, faults>>

\* What the retry interceptor does about an exception: it calls the listener
\* again, and hands the message to the recoverer after the last attempt.
NextAttempt ==
  IF recovery.attempt < MaxAttempts
  THEN [recovery EXCEPT !.pc = "check", !.attempt = @ + 1]
  ELSE [recovery EXCEPT !.pc = "park"]

\* The listener's last step.  The delivery is acked; or it is requeued, for
\* the channel closes first, and the ack throws unless the instance is gone.
RecoveryDone ==
  /\ \/ recovery' = IdleRecovery /\ UNCHANGED <<failedQueue, faults>>
     \/ /\ Fault
        /\ failedQueue' = [failedQueue EXCEPT ![recovery.order] = @ + 1]
        /\ recovery' \in {IdleRecovery, NextAttempt}
  /\ UNCHANGED <<orderQueue, retryQueue, unacked, parkingQueue, confirms>>
  /\ UNCHANGED <<mysql, issued, request, confirming, consumer, task>>

RecoverClean ==
  /\ recovery.pc = "clean"
  /\ RemovePending(recovery.order)
  /\ RecoveryDone

RecoverRestore ==
  /\ RecoveryAt("restore", "fail")
  /\ Restore(recovery.order)
  /\ UNCHANGED <<mysql, broker, faults>>

RecoverFail ==
  /\ recovery.pc = "fail"
  /\ MarkFailed(recovery.order)
  /\ RecoveryDone

\* A Redis or MySQL call of the listener throws.
RecoverThrows ==
  /\ recovery.pc \in {"check", "clean", "restore", "fail"}
  /\ Fault
  /\ recovery' = NextAttempt
  /\ UNCHANGED <<redis, mysql, broker, issued, request, confirming, consumer, task>>

\* The recoverer's message is confirmed in the parking queue; its exception
\* then either discards the delivery or leaves it unsettled.
Park ==
  /\ recovery.pc = "park"
  /\ parkingQueue' = [parkingQueue EXCEPT ![recovery.order] = @ + 1]
  /\ recovery' \in {IdleRecovery, [recovery EXCEPT !.pc = "unacked"]}
  /\ UNCHANGED <<orderQueue, retryQueue, unacked, failedQueue, confirms>>
  /\ UNCHANGED <<redis, mysql, issued, request, confirming, consumer, task, faults>>

\* The parking exchange does not confirm in time.
ParkThrows ==
  /\ RecoveryAt("park", "unacked")
  /\ Fault
  /\ parkingQueue' \in {parkingQueue,
                        [parkingQueue EXCEPT ![recovery.order] = @ + 1]}
  /\ UNCHANGED <<orderQueue, retryQueue, unacked, failedQueue, confirms>>
  /\ UNCHANGED <<redis, mysql>>

\* The failed listener's channel closes.  With a prefetch of one, an
\* unsettled delivery holds the listener until then.
RecoveryClosed ==
  /\ \/ recovery.pc = "unacked" /\ UNCHANGED faults
     \/ recovery.pc \notin {"idle", "unacked"} /\ Fault
  /\ failedQueue' = [failedQueue EXCEPT ![recovery.order] = @ + 1]
  /\ recovery' = IdleRecovery
  /\ UNCHANGED <<orderQueue, retryQueue, unacked, parkingQueue, confirms>>
  /\ UNCHANGED <<redis, mysql, issued, request, confirming, consumer, task>>

RecoveryNext ==
  \/ \E o \in Orders : DeliverFailed(o)
  \/ RecoverCheck
  \/ RecoverClean
  \/ RecoverRestore
  \/ RecoverFail
  \/ RecoverThrows
  \/ Park
  \/ ParkThrows
  \/ RecoveryClosed

-----------------------------------------------------------------------------
(* The scheduled task: PendingOrderRepublishTask                           *)

TaskAt(t, from, to) ==
  /\ task[t].pc = from
  /\ task' = [task EXCEPT ![t].pc = to]
  /\ UNCHANGED <<issued, request, confirming, consumer, recovery>>

\* The order is dealt with; the rest of the batch follows.
TaskDone(t, from) ==
  /\ task[t].pc = from
  /\ task' = [task EXCEPT ![t].pc = "idle", ![t].order = None]
  /\ UNCHANGED <<issued, request, confirming, consumer, recovery>>

\* listDueOrderIds: the batch is a snapshot, any pending order may be due.
TaskScan(t) ==
  /\ task[t] = IdleTask
  /\ \E due \in SUBSET pending \ {{}} : task' = [task EXCEPT ![t].batch = due]
  /\ UNCHANGED <<redis, mysql, broker, issued, request, confirming, consumer, recovery, faults>>

\* republishOne looks the order up in MySQL first.
TaskCheck(t, o) ==
  /\ task[t].pc = "idle"
  /\ o \in task[t].batch
  /\ task' = [task EXCEPT ![t] =
       [pc |-> IF o \in dbOrders THEN "clean" ELSE "load",
        order |-> o,
        batch |-> task[t].batch \ {o}]]
  /\ UNCHANGED <<redis, mysql, broker, issued, request, confirming, consumer, recovery, faults>>

TaskClean(t) ==
  /\ TaskDone(t, "clean")
  /\ RemovePending(task[t].order)
  /\ UNCHANGED <<mysql, broker, faults>>

\* Bug: an order past its last attempt is marked failed and keeps its slot.
NextStepNoRestore(hash) ==
  CASE hash = NoData -> "fail"
    [] hash # NoData /\ ~hash.owned -> "error"
    [] hash.owned /\ hash.retryCount >= MaxRepublish -> "fail"
    [] OTHER -> "republish"

\* What republishOne does with the detail hash: give up if it is gone, throw
\* if it has no user id, compensate after the last attempt, or republish.
NextStep(hash) ==
  CASE hash = NoData -> "fail"
    [] hash # NoData /\ ~hash.owned -> "error"
    [] hash.owned /\ hash.retryCount >= MaxRepublish -> "restore"
    [] OTHER -> "republish"

TaskLoad(t) ==
  /\ TaskAt(t, "load", NextStep(data[task[t].order]))
  /\ UNCHANGED <<redis, mysql, broker, faults>>

TaskRestore(t) ==
  /\ TaskAt(t, "restore", "fail")
  /\ Restore(task[t].order)
  /\ UNCHANGED <<mysql, broker, faults>>

TaskFail(t) ==
  /\ TaskDone(t, "fail")
  /\ MarkFailed(task[t].order)
  /\ UNCHANGED <<mysql, broker, faults>>

TaskRepublish(t) ==
  /\ TaskAt(t, "republish", "send")
  /\ BeforeRepublish(task[t].order)
  /\ UNCHANGED <<mysql, broker, faults>>

TaskSend(t) ==
  /\ TaskDone(t, "send")
  /\ PublishOrder(task[t].order)
  /\ UNCHANGED <<redis, mysql>>

TaskSendThrows(t) ==
  /\ TaskAt(t, "send", "error")
  /\ PublishThrows(task[t].order)
  /\ UNCHANGED <<redis, mysql>>

\* A Redis or MySQL call of republishOne throws.
TaskThrows(t) ==
  /\ \E step \in {"clean", "load", "restore", "fail", "republish"} :
       TaskAt(t, step, "error")
  /\ Fault
  /\ UNCHANGED <<redis, mysql, broker>>

TaskError(t) ==
  /\ TaskDone(t, "error")
  /\ MarkSendFailed(task[t].order)
  /\ UNCHANGED <<mysql, broker, faults>>

\* The instance crashes, or markSendFailed throws out of the loop: the rest
\* of the batch is dropped.
TaskLost(t) ==
  /\ task[t] # IdleTask
  /\ task' = [task EXCEPT ![t] = IdleTask]
  /\ Fault
  /\ UNCHANGED <<redis, mysql, broker, issued, request, confirming, consumer, recovery>>

TaskNext(t) ==
  \/ TaskScan(t)
  \/ \E o \in Orders : TaskCheck(t, o)
  \/ TaskClean(t)
  \/ TaskLoad(t)
  \/ TaskRestore(t)
  \/ TaskFail(t)
  \/ TaskRepublish(t)
  \/ TaskSend(t)
  \/ TaskSendThrows(t)
  \/ TaskThrows(t)
  \/ TaskError(t)
  \/ TaskLost(t)

-----------------------------------------------------------------------------

\* The detail hash of o has seen no write for 24 hours.
DataExpires(o) ==
  /\ CanExpire
  /\ Fault
  /\ ExpireData(o)
  /\ UNCHANGED <<mysql, broker, threads, issued>>

Next ==
  \/ \E o \in Orders : RequestNext(o) \/ CallbackNext(o) \/ DataExpires(o)
  \/ \E o \in Orders, k \in Deaths : RetryElapsed(o, k) \/ ChannelClosed(o, k)
  \/ \E c \in Consumers : ConsumerNext(c)
  \/ RecoveryNext
  \/ \E t \in Tasks : TaskNext(t)

Spec == Init /\ [][Next]_vars

-----------------------------------------------------------------------------
(* Safety                                                                  *)

\* MySQL ledger: the stock column and the orders always make up the stock,
\* so redelivered, duplicated or late messages cannot oversell.  This takes
\* the transaction of createVouchOrder, which the synchronous path lacks.
DbConservation == dbStock + Cardinality(dbOrders) = Total

\* "stock > 0 keeps the database from overselling", and the insert is rolled
\* back when the stock is used up (createVouchOrder, comments): there are
\* never more orders than there was stock.
NeverOversold == Cardinality(dbOrders) <= Total

\* A user never has two order rows, although two orders of the same user may
\* be in flight once a compensation has let the user reserve again.
OneOrderPerUser == \A o, p \in dbOrders : Owner[o] = Owner[p] => o = p

\* A message of o, or a delivery of one, that will still be handled or that
\* an operator finds in the parking queue.
HasCopy(o) ==
  \/ \E k \in Deaths : orderQueue[o][k] + retryQueue[o][k] + unacked[o][k] > 0
  \/ failedQueue[o] + parkingQueue[o] > 0
  \/ \E c \in Consumers : consumer[c].order = o
  \/ recovery.order = o

\* An accepted order that still holds its slot is never forgotten: its user
\* has an order, or the task will find it pending, or a message exists.
AcceptedNeverLost ==
  \A u \in Reserved :
    \/ u \in Buyers
    \/ reservation[u] \in pending
    \/ HasCopy(reservation[u])

\* An order reported FAILED does not occupy a slot: markFailed only follows
\* the compensation, whichever of the three compensating paths ran.
FailedHoldsNothing ==
  \A o \in Orders : data[o].status = "FAILED" => reservation[Owner[o]] # o

\* An order reported COMPLETED left its user an order in MySQL.
CompletedHasOrder ==
  \A o \in Orders : data[o].status = "ORDER_CREATED" => Owner[o] \in Buyers

\* Every order in MySQL is backed by the slot its user was given.
OrderBackedByReservation == \A o \in dbOrders : Owner[o] \in Holders

\* Release and re-admission of a user are separate steps: a reservation is
\* never handed from one order to another, and each step frees at most one.
SlotFreedByItsOrder ==
  [][\A u \in Users :
       reservation[u] # None /\ reservation'[u] # reservation[u] =>
         /\ reservation'[u] = None
         /\ stock' = stock + 1
         /\ reservation[u] \notin pending']_vars

\* The promise of the sale, with everything but the slots and the order rows
\* hidden.
Sale == INSTANCE VoucherSale WITH
  holders <- Holders, accepted <- issued, sold <- dbOrders
ImplementsSale == Sale!Spec

-----------------------------------------------------------------------------
(* Liveness: threads keep running and queues keep delivering; faults are   *)
(* finitely many.                                                          *)

RequestSteps(o) ==
  \/ RequestSend(o)
  \/ RequestSendFailed(o)
  \/ SyncInsert(o)
  \/ SyncDeduct(o)
  \/ SyncComplete(o)
  \/ SyncRestore(o)
  \/ SyncFail(o)

ConsumerSteps(c) ==
  \/ ConsumeCheck(c)
  \/ ConsumeMark(c)
  \/ CreateOrder(c)
  \/ ConsumeComplete(c)
  \/ Reject(c)
  \/ Forward(c)

RecoverySteps ==
  RecoverCheck \/ RecoverClean \/ RecoverRestore \/ RecoverFail \/ Park

TaskSteps(t) ==
  \/ \E o \in Orders : TaskCheck(t, o)
  \/ TaskClean(t)
  \/ TaskLoad(t)
  \/ TaskRestore(t)
  \/ TaskFail(t)
  \/ TaskRepublish(t)
  \/ TaskSend(t)
  \/ TaskError(t)

\* The scheduler fires every 10 s and a pending order is due at the latest
\* 300 s after its last attempt, so it is picked again and again while it is
\* pending; a message is not passed over for ever.  Nothing obliges a user
\* to buy, a channel to close or a fault to happen.
Fairness ==
  /\ \A o \in Orders : WF_vars(RequestSteps(o))
  /\ \A o \in Orders : WF_vars(ConfirmAck(o)) /\ WF_vars(ConfirmWrite(o))
  /\ \A o \in Orders : WF_vars(ConfirmNack(o)) /\ WF_vars(ReturnedMessage(o))
  /\ \A c \in Consumers : WF_vars(ConsumerSteps(c))
  /\ \A o \in Orders, k \in Deaths :
       /\ SF_vars(\E c \in Consumers : Deliver(c, o, k))
       /\ WF_vars(RetryElapsed(o, k))
  /\ WF_vars(RecoverySteps)
  /\ \A o \in Orders : SF_vars(DeliverFailed(o))
  /\ \A t \in Tasks : WF_vars(TaskSteps(t))
  /\ \A o \in Orders, t \in Tasks : SF_vars(TaskScan(t) /\ o \in task'[t].batch)

FairSpec == Spec /\ Fairness

\* An accepted order is decided in the end, whatever finitely many faults
\* did to its message: its user gets an order, the slot is given back, or
\* the message waits for an operator, in the parking queue or, when parking
\* it was not confirmed, with the failed listener, which is then blocked.
EventuallyResolved ==
  \A o \in Orders :
    reservation[Owner[o]] = o ~>
      \/ Owner[o] \in Buyers
      \/ reservation[Owner[o]] # o
      \/ parkingQueue[o] > 0
      \/ recovery.pc = "unacked"
=============================================================================
