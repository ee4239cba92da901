-------------------------- MODULE OrderVerdictProofs --------------------------
(***************************************************************************)
(* What the pipeline reports is true, and what it accepts is not lost: for *)
(* every number of users, orders, threads, retries and faults.             *)
(*                                                                         *)
(* A status is written at the end of a chain of steps, long after the      *)
(* state that justifies it was seen.  So the invariants speak of the       *)
(* threads on their way to a write as well (Completing, Failing), and rest *)
(* on two facts that no step undoes: a user who has an order keeps it, and *)
(* a slot an order gave back is never that order's again.                  *)
(***************************************************************************)
EXTENDS OrderPipelineProofs

Bought(o) == Owner[o] \in Buyers
Freed(o)  == reservation[Owner[o]] # o

\* Some thread is about to write ORDER_CREATED for o.
Completing(o) ==
  \/ request[o] \in {"deduct", "created"}
  \/ \E c \in Consumers : consumer[c].pc \in {"created", "duplicate"} /\ consumer[c].order = o
  \/ recovery.pc = "clean" /\ recovery.order = o
  \/ \E t \in Tasks : task[t].pc = "clean" /\ task[t].order = o

\* Some thread is about to write FAILED for o.
Failing(o) ==
  \/ request[o] = "fail"
  \/ recovery.pc = "fail" /\ recovery.order = o
  \/ \E t \in Tasks : task[t].pc = "fail" /\ task[t].order = o

CompletedOK ==
  \A o \in Orders : data[o].status = "ORDER_CREATED" \/ Completing(o) => Bought(o)

\* The task gives up on an order whose hash is gone without compensating it:
\* the hash of an order that holds a slot must be there.  No slot belongs to
\* an order that was not admitted.
FailedOK ==
  \A o \in Orders :
    /\ data[o].status = "FAILED" \/ Failing(o) => Freed(o)
    /\ data[o].status = "none" => Freed(o)
    /\ o \notin issued => Freed(o)

-----------------------------------------------------------------------------
(* What no step undoes                                                     *)

\* An order row stays.
LEMMA BoughtStays ==
  ASSUME StepOK, NEW o \in Orders, Bought(o)
  PROVE  Bought(o)'
<1>1. dbOrders \subseteq dbOrders'
  BY DEF StepOK, Admission, Insertion, HalfInsertion, Internal, mysql, InsertOrder
<1>. QED
  BY <1>1 DEF Bought, Buyers

\* Only the admission script gives a slot, and only to a fresh order.
LEMMA FreedStays ==
  ASSUME Shape, StepOK, NEW o \in issued, Freed(o)
  PROVE  Freed(o)'
<1>. USE SeckillRedisAssumption DEF Freed, Shape, StoresOK, RedisTypeOK
<1>1. CASE Admission
  BY <1>1 DEF Admission, Reserve
<1>2. CASE Insertion \/ HalfInsertion
  BY <1>2 DEF Insertion, HalfInsertion, redis
<1>3. CASE Internal
  <2>1. ASSUME NEW p \in issued, Restore(p)
        PROVE  Freed(o)'
    BY <2>1 DEF Restore
  <2>2. UNCHANGED reservation => Freed(o)'
    OBVIOUS
  <2>. QED
    BY <1>3, <2>1, <2>2, StatusUpdateKeepsSlots DEF Internal, redis, ExpireData
<1>. QED
  BY <1>1, <1>2, <1>3 DEF StepOK

\* A fresh order gets its slot with a hash that is PENDING.
LEMMA FreshStays ==
  ASSUME Shape, StepOK, NEW o \in Orders \ issued, Freed(o)
  PROVE  Freed(o)' \/ (o \in issued' /\ data'[o].status = "PENDING")
<1>. USE SeckillRedisAssumption DEF Freed, Shape, StoresOK, RedisTypeOK
<1>1. CASE Admission
  BY <1>1 DEF Admission, Reserve
<1>2. CASE Insertion \/ HalfInsertion
  BY <1>2 DEF Insertion, HalfInsertion, redis
<1>3. CASE Internal
  <2>1. ASSUME NEW p \in issued, Restore(p)
        PROVE  Freed(o)'
    BY <2>1 DEF Restore
  <2>2. UNCHANGED reservation => Freed(o)'
    OBVIOUS
  <2>. QED
    BY <1>3, <2>1, <2>2, StatusUpdateKeepsSlots DEF Internal, redis, ExpireData
<1>. QED
  BY <1>1, <1>2, <1>3 DEF StepOK

\* After a compensation the order holds nothing, whoever held the slot.
LEMMA RestoreFrees ==
  ASSUME RedisTypeOK, NEW o \in Orders, Restore(o)
  PROVE  Freed(o)'
BY SeckillRedisAssumption DEF Restore, RedisTypeOK, Freed

-----------------------------------------------------------------------------
(* Reports have a reason                                                   *)

\* A final status is written by a thread that was on its way to it.
StatusHonest ==
  \A o \in Orders :
    /\ data'[o].status = "ORDER_CREATED" => data[o].status = "ORDER_CREATED" \/ Completing(o)
    /\ data'[o].status = "FAILED" => data[o].status = "FAILED" \/ Failing(o)
    /\ data'[o].status = "none" => data[o].status = "none" \/ CanExpire

\* A thread sets out for one only after an order row or a compensation, or
\* because there is no hash.
ThreadsHonest ==
  \A o \in Orders :
    /\ Completing(o)' => Completing(o) \/ Bought(o)'
    /\ Failing(o)' => Failing(o) \/ Freed(o)' \/ (o \in issued /\ data[o].status = "none")

Honest == StatusHonest /\ ThreadsHonest

\* A status update changes the status of its order to the one given.
LEMMA WrittenStatus ==
  ASSUME RedisTypeOK, NEW p \in Orders, NEW s, WriteStatus(p, s), NEW o \in Orders
  PROVE  data'[o].status = IF o = p THEN s ELSE data[o].status
BY DEF RedisTypeOK, WriteStatus

\* Everything but the two final reports is harmless.
LEMMA HarmlessUpdate ==
  ASSUME RedisTypeOK, NEW p \in Orders,
         \/ UNCHANGED redis
         \/ Restore(p)
         \/ MarkSendSuccess(p)
         \/ MarkSendFailed(p)
         \/ MarkRouteFailed(p)
         \/ BeforeRepublish(p)
         \/ MarkConsuming(p)
         \/ Reserve(p)
  PROVE  StatusHonest
<1>1. ASSUME NEW s \in {"SENT", "BROKER_NACK", "CONSUMING"}, WriteStatus(p, s)
      PROVE  StatusHonest
  BY <1>1, WrittenStatus DEF StatusHonest
<1>2. CASE UNCHANGED redis
  BY <1>2 DEF redis, StatusHonest
<1>3. CASE Restore(p)
  BY <1>3 DEF Restore, StatusHonest
<1>4. CASE MarkRouteFailed(p)
  BY <1>4 DEF MarkRouteFailed, RedisTypeOK, StatusHonest
<1>5. CASE BeforeRepublish(p)
  BY <1>5 DEF BeforeRepublish, RedisTypeOK, StatusHonest
<1>6. CASE Reserve(p)
  BY <1>6 DEF Reserve, RedisTypeOK, StatusHonest
<1>. QED
  BY <1>1, <1>2, <1>3, <1>4, <1>5, <1>6 DEF MarkSendSuccess, MarkSendFailed, MarkConsuming

\* A completion or a failure is reported by the thread that is about to.
LEMMA FinalUpdate ==
  ASSUME RedisTypeOK, NEW p \in Orders,
         (RemovePending(p) /\ Completing(p)) \/ (MarkFailed(p) /\ Failing(p))
  PROVE  StatusHonest
BY WrittenStatus DEF RemovePending, MarkFailed, StatusHonest

\* A thread that does not move is on its way where it was.
LEMMA ThreadsStay ==
  ASSUME UNCHANGED threads
  PROVE  ThreadsHonest
BY DEF threads, ThreadsHonest, Completing, Failing

-----------------------------------------------------------------------------
(* The steps of each process                                               *)

\* A request moves on to another step.
LEMMA RequestAtHonest ==
  ASSUME Shape, NEW p \in Orders, NEW from, NEW to, RequestAt(p, from, to),
         to \in {"deduct", "created"} => Bought(p)',
         to = "fail" => Freed(p)'
  PROVE  ThreadsHonest
<1>1. \A o \in Orders : request'[o] = request[o] \/ (o = p /\ request'[o] = to)
  BY DEF RequestAt, Shape, ThreadsOK, RequestOK
<1>. QED
  BY <1>1 DEF RequestAt, ThreadsHonest, Completing, Failing

LEMMA RequestHonest ==
  ASSUME Shape, NEW p \in Orders, RequestNext(p)
  PROVE  Honest
<1>. USE DEF Honest
<1>t. RedisTypeOK
  BY DEF Shape, StoresOK
<1>1. CASE Seckill(p)
  <2>1. \A o \in Orders : request'[o] = request[o] \/ request'[o] \in {"send", "create"}
    BY <1>1 DEF Seckill, Shape, ThreadsOK, RequestOK
  <2>2. ThreadsHonest
    BY <1>1, <2>1 DEF Seckill, ThreadsHonest, Completing, Failing
  <2>. QED
    BY <1>1, <1>t, <2>2, HarmlessUpdate DEF Seckill
<1>2. CASE RequestSend(p)
  BY <1>2, <1>t, RequestAtHonest, HarmlessUpdate DEF RequestSend
<1>3. CASE RequestSendThrows(p)
  BY <1>3, <1>t, RequestAtHonest, HarmlessUpdate DEF RequestSendThrows
<1>4. CASE RequestSendFailed(p)
  BY <1>4, <1>t, RequestAtHonest, HarmlessUpdate DEF RequestSendFailed
<1>5. CASE SyncInsert(p)
  <2>1. dbOrders' = dbOrders \cup {p} => Bought(p)'
    BY DEF Bought, Buyers
  <2>2. ThreadsHonest
    BY <1>5, <2>1, RequestAtHonest DEF SyncInsert
  <2>. QED
    BY <1>5, <1>t, <2>2, HarmlessUpdate DEF SyncInsert
<1>11. CASE SyncDeduct(p)
  <2>1. ThreadsHonest
    BY <1>11 DEF SyncDeduct, RequestAt, Shape, ThreadsOK, RequestOK, ThreadsHonest,
       Completing, Failing
  <2>. QED
    BY <1>11, <1>t, <2>1, HarmlessUpdate DEF SyncDeduct
<1>6. CASE SyncThrows(p)
  BY <1>6, <1>t, RequestAtHonest, HarmlessUpdate DEF SyncThrows
<1>7. CASE SyncComplete(p)
  BY <1>7, <1>t, RequestAtHonest, FinalUpdate DEF SyncComplete, RequestAt, Completing
<1>8. CASE SyncRestore(p)
  BY <1>8, <1>t, RequestAtHonest, RestoreFrees, HarmlessUpdate DEF SyncRestore
<1>9. CASE SyncFail(p)
  BY <1>9, <1>t, RequestAtHonest, FinalUpdate DEF SyncFail, RequestAt, Failing
<1>10. CASE RequestLost(p)
  BY <1>10, <1>t, RequestAtHonest, HarmlessUpdate DEF RequestLost
<1>. QED
  BY <1>1, <1>2, <1>3, <1>4, <1>5, <1>6, <1>7, <1>8, <1>9, <1>10, <1>11 DEF RequestNext

LEMMA CallbackHonest ==
  ASSUME Shape, NEW p \in Orders, CallbackNext(p)
  PROVE  Honest
<1>. USE DEF Honest
<1>t. RedisTypeOK
  BY DEF Shape, StoresOK
<1>m. UNCHANGED <<request, consumer, recovery, task>>
  BY DEF CallbackNext, ConfirmAck, ConfirmWrite, ConfirmNack, ReturnedMessage, ReturnedThrows,
     CallbackLost, CallbackDone, threads
<1>1. ThreadsHonest
  BY <1>m DEF ThreadsHonest, Completing, Failing
<1>2. \/ UNCHANGED redis
      \/ MarkSendSuccess(p)
      \/ MarkSendFailed(p)
      \/ MarkRouteFailed(p)
  BY DEF CallbackNext, ConfirmAck, ConfirmWrite, ConfirmNack, ReturnedMessage, ReturnedThrows,
     CallbackLost
<1>. QED
  BY <1>t, <1>1, <1>2, HarmlessUpdate

\* A listener moves on to another step of its handler, or ends it.
LEMMA ConsumerMoveHonest ==
  ASSUME Shape, NEW c \in Consumers, NEW o \in Orders, o = consumer[c].order,
         \/ ConsumerDone(c)
         \/ \E from \in ConsumerPc, to \in ConsumerPc :
              /\ ConsumerAt(c, from, to)
              /\ to \in {"created", "duplicate"} => Bought(o)'
  PROVE  ThreadsHonest
<1>. DEFINE Done(s) == s.pc \in {"created", "duplicate"}
<1>1. \A b \in Consumers : b # c => consumer'[b] = consumer[b]
  BY DEF Shape, ThreadsOK, ConsumerOK, ConsumerDone, ConsumerAt
<1>2. Done(consumer'[c]) => consumer'[c].order = o /\ Bought(o)'
  BY DEF Shape, ThreadsOK, ConsumerOK, ConsumerDone, ConsumerAt, IdleConsumer
<1>3. UNCHANGED <<request, recovery, task>>
  BY DEF ConsumerDone, ConsumerAt
<1>. QED
  BY <1>1, <1>2, <1>3 DEF ThreadsHonest, Completing, Failing

LEMMA ConsumerHonest ==
  ASSUME Shape, NEW c \in Consumers, ConsumerNext(c)
  PROVE  Honest
<1>. USE DEF Honest
<1>. DEFINE o == consumer[c].order
<1>t. RedisTypeOK
  BY DEF Shape, StoresOK
<1>o. consumer[c].pc # "idle" => o \in Orders
  BY DEF Shape, StoresOK, ThreadsOK, ConsumerOK
<1>m. ASSUME consumer[c].pc # "idle",
             \/ ConsumerDone(c)
             \/ \E from \in ConsumerPc, to \in ConsumerPc \ {"created", "duplicate"} :
                  ConsumerAt(c, from, to)
      PROVE  ThreadsHonest
  BY <1>m, <1>o, ConsumerMoveHonest
<1>q. UNCHANGED redis => StatusHonest
  BY DEF redis, StatusHonest
<1>1. CASE \E p \in Orders, k \in Deaths : Deliver(c, p, k)
  <2>1. \A b \in Consumers : consumer'[b] = consumer[b] \/ consumer'[b].pc = "mark"
    BY <1>1 DEF Deliver, Shape, ThreadsOK, ConsumerOK
  <2>. QED
    BY <1>1, <1>q, <2>1 DEF Deliver, ThreadsHonest, Completing, Failing
<1>2. CASE ConsumeCheck(c)
  BY <1>2, <1>m, <1>q DEF ConsumeCheck, ConsumerAt, ConsumerPc
<1>3. CASE ConsumeMark(c)
  <2>1. consumer[c].pc = "consuming" /\ ThreadsHonest
    BY <1>3, <1>m DEF ConsumeMark, ConsumerAt, ConsumerPc
  <2>. QED
    BY <1>3, <1>t, <1>o, <2>1, HarmlessUpdate DEF ConsumeMark
<1>4. CASE CreateOrder(c)
  <2>. PICK p \in Orders : p = consumer[c].order
    BY <1>4, <1>o DEF CreateOrder
  <2>1. UNCHANGED redis
    BY <1>4 DEF CreateOrder
  <2>2. CASE ConsumerAt(c, "create", "created") /\ InsertOrder(p)
    <3>1. Bought(p)'
      BY <2>2 DEF InsertOrder, Bought, Buyers
    <3>. QED
      BY <1>q, <2>1, <2>2, <3>1, ConsumerMoveHonest DEF ConsumerPc
  <2>3. CASE ConsumerAt(c, "create", "duplicate") /\ Duplicate(p) /\ UNCHANGED mysql
    <3>1. Bought(p)'
      BY <2>3 DEF Duplicate, Bought, Buyers, mysql
    <3>. QED
      BY <1>q, <2>1, <2>3, <3>1, ConsumerMoveHonest DEF ConsumerPc
  <2>4. CASE ConsumerAt(c, "create", "failed")
    BY <1>4, <1>m, <1>q, <2>1, <2>4 DEF ConsumerAt, ConsumerPc
  <2>. QED
    BY <1>4, <2>2, <2>3, <2>4 DEF CreateOrder
<1>5. CASE ConsumeComplete(c)
  <2>1. o \in Orders /\ ThreadsHonest /\ Completing(o)
    BY <1>5, <1>m, <1>o DEF ConsumeComplete, Completing
  <2>. QED
    BY <1>5, <1>t, <2>1, FinalUpdate DEF ConsumeComplete
<1>6. CASE ConsumeThrows(c)
  BY <1>6, <1>m, <1>q DEF ConsumeThrows, ConsumerAt, ConsumerPc
<1>7. CASE ConsumeEscapes(c) \/ Reject(c) \/ Forward(c) \/ ForwardThrows(c) \/ ConsumerCrash(c)
  <2>1. ConsumerDone(c) /\ UNCHANGED redis
    BY <1>7 DEF ConsumeEscapes, Reject, Forward, ForwardThrows, ConsumerCrash
  <2>. QED
    BY <1>m, <1>q, <2>1 DEF ConsumerDone
<1>. QED
  BY <1>1, <1>2, <1>3, <1>4, <1>5, <1>6, <1>7 DEF ConsumerNext

LEMMA RecoveryHonest ==
  ASSUME Shape, RecoveryNext
  PROVE  Honest
<1>. USE DEF Honest
<1>. DEFINE o == recovery.order
<1>t. RedisTypeOK
  BY DEF Shape, StoresOK
<1>o. recovery.pc # "idle" => o \in Orders
  BY DEF Shape, StoresOK, ThreadsOK, RecoveryOK
<1>r. recovery \in [pc : RecoveryPc, order : Orders \cup {None}, attempt : 0..MaxAttempts]
  BY DEF Shape, ThreadsOK, RecoveryOK
<1>m. ASSUME UNCHANGED <<request, consumer, task>>,
             \A p \in Orders : recovery'.order = p =>
               /\ recovery'.pc = "clean" => Bought(p)'
               /\ recovery'.pc = "fail" => Freed(p)'
      PROVE  ThreadsHonest
  BY <1>m DEF ThreadsHonest, Completing, Failing
<1>n. NextAttempt.pc \in {"check", "park"}
  BY <1>r DEF NextAttempt
<1>q. UNCHANGED redis => StatusHonest
  BY DEF redis, StatusHonest
<1>1. CASE \E p \in Orders : DeliverFailed(p)
  BY <1>1, <1>m, <1>q DEF DeliverFailed
<1>2. CASE RecoverCheck
  <2>. PICK p \in Orders : p = recovery.order
    BY <1>2, <1>o DEF RecoverCheck, RecoveryAt
  <2>1. recovery'.order = p /\ recovery'.pc # "fail"
    BY <1>2, <1>r DEF RecoverCheck, RecoveryAt
  <2>2. recovery'.pc = "clean" => Bought(p)'
    BY <1>2, <1>r DEF RecoverCheck, RecoveryAt, Bought, Buyers, mysql
  <2>. QED
    BY <1>2, <1>m, <1>q, <2>1, <2>2 DEF RecoverCheck, RecoveryAt
<1>3. CASE RecoverClean
  <2>1. ThreadsHonest
    BY <1>3, <1>m, <1>n DEF RecoverClean, RecoveryDone, IdleRecovery
  <2>2. o \in Orders /\ Completing(o)
    BY <1>3, <1>o DEF RecoverClean, Completing
  <2>. QED
    BY <1>3, <1>t, <2>1, <2>2, FinalUpdate DEF RecoverClean
<1>4. CASE RecoverRestore
  <2>. PICK p \in Orders : p = recovery.order
    BY <1>4, <1>o DEF RecoverRestore, RecoveryAt
  <2>1. recovery'.order = p /\ recovery'.pc = "fail"
    BY <1>4, <1>r DEF RecoverRestore, RecoveryAt
  <2>2. Freed(p)'
    BY <1>4, <1>t, <2>1, RestoreFrees DEF RecoverRestore
  <2>. QED
    BY <1>4, <1>m, <1>t, <2>1, <2>2, HarmlessUpdate DEF RecoverRestore, RecoveryAt
<1>5. CASE RecoverFail
  <2>1. ThreadsHonest
    BY <1>5, <1>m, <1>n DEF RecoverFail, RecoveryDone, IdleRecovery
  <2>2. o \in Orders /\ Failing(o)
    BY <1>5, <1>o DEF RecoverFail, Failing
  <2>. QED
    BY <1>5, <1>t, <2>1, <2>2, FinalUpdate DEF RecoverFail
<1>6. CASE RecoverThrows
  BY <1>6, <1>m, <1>n, <1>q DEF RecoverThrows
<1>7. CASE Park \/ ParkThrows \/ RecoveryClosed
  <2>1. recovery'.pc \in {"idle", "unacked"}
    BY <1>7, <1>r DEF Park, ParkThrows, RecoveryClosed, RecoveryAt, IdleRecovery
  <2>. QED
    BY <1>7, <1>m, <1>q, <2>1 DEF Park, ParkThrows, RecoveryClosed, RecoveryAt
<1>. QED
  BY <1>1, <1>2, <1>3, <1>4, <1>5, <1>6, <1>7 DEF RecoveryNext

\* The task moves on to another step for its order, or turns to the next.
LEMMA TaskMoveHonest ==
  ASSUME Shape, NEW t \in Tasks, UNCHANGED <<request, consumer, recovery>>,
         \A s \in Tasks : s # t => task'[s] = task[s],
         \A p \in Orders : task'[t].order = p =>
           /\ task'[t].pc = "clean" => Bought(p)'
           /\ task'[t].pc = "fail" =>
                Freed(p)' \/ (p \in issued /\ data[p].status = "none")
  PROVE  ThreadsHonest
BY DEF ThreadsHonest, Completing, Failing

LEMMA TaskHonest ==
  ASSUME Shape, NEW t \in Tasks, TaskNext(t)
  PROVE  Honest
<1>. USE DEF Honest
<1>t. RedisTypeOK
  BY DEF Shape, StoresOK
<1>o. task[t].pc # "idle" => task[t].order \in Orders
  BY DEF Shape, StoresOK, ThreadsOK, TaskOK
<1>r. task \in [Tasks -> [pc : TaskPc, order : Orders \cup {None}, batch : SUBSET Orders]]
  BY DEF Shape, ThreadsOK, TaskOK
<1>a. ASSUME NEW from, NEW to, TaskAt(t, from, to)
      PROVE  /\ task'[t].pc = to /\ task'[t].order = task[t].order
             /\ \A s \in Tasks : s # t => task'[s] = task[s]
             /\ UNCHANGED <<request, consumer, recovery>>
             /\ to \notin {"clean", "fail"} => ThreadsHonest
  <2>1. task'[t].pc = to /\ task'[t].order = task[t].order
    BY <1>a, <1>r DEF TaskAt
  <2>2. \A s \in Tasks : s # t => task'[s] = task[s]
    BY <1>a, <1>r DEF TaskAt
  <2>. QED
    BY <1>a, <2>1, <2>2, TaskMoveHonest DEF TaskAt
<1>d. ASSUME NEW from, TaskDone(t, from)
      PROVE  ThreadsHonest
  <2>1. task'[t].pc = "idle" /\ \A s \in Tasks : s # t => task'[s] = task[s]
    BY <1>d, <1>r DEF TaskDone
  <2>. QED
    BY <1>d, <2>1, TaskMoveHonest DEF TaskDone
<1>q. UNCHANGED redis => StatusHonest
  BY DEF redis, StatusHonest
<1>1. CASE TaskScan(t)
  <2>1. \A s \in Tasks : task'[s].pc = task[s].pc /\ task'[s].order = task[s].order
    BY <1>1, <1>r DEF TaskScan
  <2>. QED
    BY <1>1, <1>q, <2>1 DEF TaskScan, ThreadsHonest, Completing, Failing
<1>2. CASE \E p \in Orders : TaskCheck(t, p)
  <2>. PICK p \in Orders : TaskCheck(t, p)
    BY <1>2
  <2>1. /\ task'[t].order = p /\ task'[t].pc # "fail"
        /\ task'[t].pc = "clean" => p \in dbOrders
        /\ \A s \in Tasks : s # t => task'[s] = task[s]
    BY <1>r DEF TaskCheck
  <2>2. task'[t].pc = "clean" => Bought(p)'
    BY <2>1 DEF TaskCheck, mysql, Bought, Buyers
  <2>. QED
    BY <1>q, <2>1, <2>2, TaskMoveHonest DEF TaskCheck
<1>3. CASE TaskClean(t)
  <2>1. task[t].order \in Orders /\ Completing(task[t].order)
    BY <1>3, <1>o DEF TaskClean, TaskDone, Completing
  <2>. QED
    BY <1>3, <1>d, <1>t, <2>1, FinalUpdate DEF TaskClean
<1>4. CASE TaskLoad(t)
  <2>. PICK p \in Orders : p = task[t].order
    BY <1>4, <1>o DEF TaskLoad, TaskAt
  <2>1. NextStep(data[p]) = "fail" => p \in issued /\ data[p].status = "none"
    BY <1>4 DEF TaskLoad, TaskAt, NextStep, NoData, Shape, ThreadsOK, TaskOK
  <2>2. NextStep(data[p]) # "clean"
    BY DEF NextStep
  <2>3. TaskAt(t, "load", NextStep(data[p]))
    BY <1>4 DEF TaskLoad
  <2>. QED
    BY <1>4, <1>a, <1>q, <2>1, <2>2, <2>3, TaskMoveHonest DEF TaskLoad
<1>5. CASE TaskRestore(t)
  <2>. PICK p \in Orders : p = task[t].order
    BY <1>5, <1>o DEF TaskRestore, TaskAt
  <2>1. Freed(p)'
    BY <1>5, <1>t, RestoreFrees DEF TaskRestore
  <2>2. TaskAt(t, "restore", "fail")
    BY <1>5 DEF TaskRestore
  <2>3. ThreadsHonest
    BY <1>a, <2>1, <2>2, TaskMoveHonest
  <2>. QED
    BY <1>5, <1>t, <2>3, HarmlessUpdate DEF TaskRestore
<1>6. CASE TaskFail(t)
  <2>1. task[t].order \in Orders /\ Failing(task[t].order)
    BY <1>6, <1>o DEF TaskFail, TaskDone, Failing
  <2>. QED
    BY <1>6, <1>d, <1>t, <2>1, FinalUpdate DEF TaskFail
<1>7. CASE TaskRepublish(t)
  BY <1>7, <1>a, <1>o, <1>t, HarmlessUpdate DEF TaskRepublish, TaskAt
<1>8. CASE TaskSend(t)
  BY <1>8, <1>d, <1>q DEF TaskSend
<1>9. CASE TaskSendThrows(t)
  BY <1>9, <1>a, <1>q DEF TaskSendThrows
<1>10. CASE TaskThrows(t)
  BY <1>10, <1>a, <1>q DEF TaskThrows
<1>11. CASE TaskError(t)
  BY <1>11, <1>d, <1>o, <1>t, HarmlessUpdate DEF TaskError, TaskDone
<1>12. CASE TaskLost(t)
  <2>1. task'[t].pc = "idle" /\ \A s \in Tasks : s # t => task'[s] = task[s]
    BY <1>12, <1>r DEF TaskLost, IdleTask
  <2>. QED
    BY <1>12, <1>q, <2>1, TaskMoveHonest DEF TaskLost
<1>. QED
  BY <1>1, <1>2, <1>3, <1>4, <1>5, <1>6, <1>7, <1>8, <1>9, <1>10, <1>11, <1>12 DEF TaskNext

\* Messages that move by themselves, and a detail hash that expires.
LEMMA AmbientHonest ==
  ASSUME Shape, NEW o \in Orders,
         DataExpires(o) \/ \E k \in Deaths : RetryElapsed(o, k) \/ ChannelClosed(o, k)
  PROVE  Honest
<1>1. UNCHANGED threads
  BY DEF DataExpires, RetryElapsed, ChannelClosed
<1>2. UNCHANGED redis => StatusHonest
  BY DEF redis, StatusHonest
<1>3. DataExpires(o) => StatusHonest
  BY DEF DataExpires, ExpireData, NoData, StatusHonest, Shape, StoresOK, RedisTypeOK
<1>. QED
  BY <1>1, <1>2, <1>3, ThreadsStay DEF Honest, RetryElapsed, ChannelClosed

LEMMA StepHonest ==
  ASSUME Shape, [Next]_vars
  PROVE  Honest
<1>1. CASE Next
  BY <1>1, RequestHonest, CallbackHonest, ConsumerHonest, RecoveryHonest, TaskHonest,
     AmbientHonest DEF Next
<1>2. CASE UNCHANGED vars
  BY <1>2, ThreadsStay DEF vars, redis, Honest, StatusHonest
<1>. QED
  BY <1>1, <1>2

-----------------------------------------------------------------------------
(* Reports are true                                                        *)

LEMMA StepCompletedOK ==
  ASSUME Shape, CompletedOK, StepOK, Honest
  PROVE  CompletedOK'
BY BoughtStays DEF CompletedOK, Honest, StatusHonest, ThreadsHonest

LEMMA StepFailedOK ==
  ASSUME Shape, FailedOK, StepOK, Honest, ~CanExpire
  PROVE  FailedOK'
<1>1. ASSUME NEW o \in Orders, o \in issued
      PROVE  /\ (data[o].status = "FAILED" \/ Failing(o) => Freed(o))'
             /\ (data[o].status = "none" => Freed(o))'
             /\ (o \notin issued => Freed(o))'
  <2>1. o \in issued'
    BY <1>1 DEF StepOK, Admission, Insertion, HalfInsertion, Internal
  <2>. QED
    BY <1>1, <2>1, FreedStays DEF FailedOK, Honest, StatusHonest, ThreadsHonest
<1>2. ASSUME NEW o \in Orders, o \notin issued
      PROVE  /\ (data[o].status = "FAILED" \/ Failing(o) => Freed(o))'
             /\ (data[o].status = "none" => Freed(o))'
             /\ (o \notin issued => Freed(o))'
  <2>1. ~Failing(o)
    BY <1>2 DEF Failing, Shape, ThreadsOK, RequestOK, RecoveryOK, TaskOK
  <2>2. Freed(o)' \/ (o \in issued' /\ data'[o].status = "PENDING")
    BY <1>2, FreshStays DEF FailedOK
  <2>. QED
    BY <1>2, <2>1, <2>2 DEF Honest, ThreadsHonest
<1>. QED
  BY <1>1, <1>2 DEF FailedOK

\* Nothing is reported at first, and no slot is taken.
LEMMA InitReports == Init => CompletedOK /\ FailedOK
<1>. SUFFICES ASSUME Init
              PROVE  CompletedOK /\ FailedOK
  OBVIOUS
<1>1. \A o \in Orders : data[o].status = "none" /\ ~Completing(o) /\ ~Failing(o)
  BY DEF Init, RedisInit, NoData, Completing, Failing, IdleConsumer, IdleRecovery, IdleTask
<1>2. \A o \in Orders : Freed(o)
  BY SeckillRedisAssumption DEF Init, RedisInit, Freed
<1>. QED
  BY <1>1, <1>2 DEF CompletedOK, FailedOK

-----------------------------------------------------------------------------
(* Messages are not lost                                                   *)

InQueue(q, o) == \E k \in Deaths : q[o][k] > 0

\* HasCopy, place by place.
Copies(o) ==
  \/ InQueue(orderQueue, o)
  \/ InQueue(retryQueue, o)
  \/ InQueue(unacked, o)
  \/ failedQueue[o] > 0
  \/ parkingQueue[o] > 0
  \/ \E c \in Consumers : consumer[c].order = o
  \/ recovery.order = o

LEMMA CopiesCount ==
  ASSUME BrokerOK, NEW o \in Orders
  PROVE  HasCopy(o) <=> Copies(o)
<1>1. \A k \in Deaths :
        orderQueue[o][k] \in Nat /\ retryQueue[o][k] \in Nat /\ unacked[o][k] \in Nat
  BY DEF BrokerOK, Carries
<1>2. failedQueue[o] \in Nat /\ parkingQueue[o] \in Nat
  BY DEF BrokerOK
<1>3. \A k \in Deaths :
        orderQueue[o][k] + retryQueue[o][k] + unacked[o][k] > 0 <=>
          orderQueue[o][k] > 0 \/ retryQueue[o][k] > 0 \/ unacked[o][k] > 0
  BY <1>1
<1>4. failedQueue[o] + parkingQueue[o] > 0 <=> failedQueue[o] > 0 \/ parkingQueue[o] > 0
  BY <1>2
<1>. QED
  BY <1>3, <1>4 DEF HasCopy, Copies, InQueue

Held(o) == Copies(o) \/ Bought(o) \/ Freed(o)

\* A copy is given up only for an order that is bought or compensated.
CopiesKept ==
  \A o \in Orders : Copies(o) => Copies(o)' \/ Completing(o) \/ Failing(o)

\* With no returns, an ack means that the queue took the message.
ConfirmsKept ==
  \A o \in Orders :
    /\ confirms[o]["returned"] = 0 => confirms'[o]["returned"] = 0
    /\ confirms'[o]["ack"] > 0 \/ confirming'[o] > 0 =>
         confirms[o]["ack"] > 0 \/ confirming[o] > 0 \/ Copies(o)'

\* A pending entry goes with a report, a compensation or a confirm.
PendingKept ==
  \A o \in Orders :
    o \in pending =>
      o \in pending' \/ Completing(o) \/ Failing(o) \/ Freed(o)' \/ confirming[o] > 0

Traced == CopiesKept /\ ConfirmsKept /\ PendingKept

\* One message more.
LEMMA AddToQueue ==
  ASSUME NEW q \in Messages, NEW p \in Orders, NEW k \in Deaths
  PROVE  /\ AddTo(q, p, k) \in Messages
         /\ InQueue(AddTo(q, p, k), p)
         /\ \A o \in Orders : InQueue(q, o) => InQueue(AddTo(q, p, k), o)
BY DEF AddTo, InQueue, Messages

\* One message less leaves those of other orders.
LEMMA TakeFromQueue ==
  ASSUME NEW q \in Messages, NEW p \in Orders, NEW k \in Deaths,
         NEW o \in Orders, o # p
  PROVE  InQueue(TakeFrom(q, p, k), o) <=> InQueue(q, o)
BY DEF TakeFrom, InQueue, Messages

QueueTypes ==
  /\ orderQueue \in Messages /\ retryQueue \in Messages /\ unacked \in Messages
  /\ failedQueue \in [Orders -> Nat] /\ parkingQueue \in [Orders -> Nat]
  /\ confirms \in [Orders -> [ConfirmKind -> Nat]]
  /\ confirming \in [Orders -> Nat]
  /\ 0 \in Deaths

LEMMA ShapeTypes ==
  ASSUME Shape
  PROVE  QueueTypes
<1>1. 0 \in Deaths
  BY PipelineAssumption DEF Deaths
<1>2. /\ orderQueue \in Messages /\ retryQueue \in Messages /\ unacked \in Messages
      /\ confirms \in [Orders -> [ConfirmKind -> Nat]]
  BY DEF Shape, BrokerOK, Carries, Messages
<1>. QED
  BY <1>1, <1>2 DEF Shape, BrokerOK, ThreadsOK, ConfirmingOK, QueueTypes

\* A store update is harmless to the pending set but for those named.
LEMMA PendingUpdate ==
  ASSUME RedisTypeOK, NEW p \in Orders,
         \/ UNCHANGED redis
         \/ Restore(p)
         \/ MarkSendSuccess(p) /\ confirming[p] > 0
         \/ MarkSendFailed(p)
         \/ MarkRouteFailed(p)
         \/ BeforeRepublish(p)
         \/ MarkConsuming(p)
         \/ Reserve(p)
         \/ ExpireData(p)
         \/ (RemovePending(p) /\ Completing(p)) \/ (MarkFailed(p) /\ Failing(p))
  PROVE  PendingKept
<1>1. Restore(p) => Freed(p)'
  BY RestoreFrees
<1>. QED
  BY <1>1 DEF PendingKept, redis, Restore, MarkSendSuccess, MarkSendFailed, MarkRouteFailed,
     BeforeRepublish, MarkConsuming, Reserve, ExpireData, RemovePending, MarkFailed

\* An acked message is in the queue.
LEMMA PublishTraced ==
  ASSUME Shape, ~CanReturn, NEW p \in Orders, PublishOrder(p) \/ PublishThrows(p),
         UNCHANGED <<confirming, consumer, recovery>>
  PROVE  CopiesKept /\ ConfirmsKept
<1>. QueueTypes
  BY ShapeTypes
<1>. USE DEF QueueTypes
<1>1. orderQueue' = orderQueue \/ orderQueue' = AddTo(orderQueue, p, 0)
  BY DEF PublishOrder, PublishThrows
<1>2. \A o \in Orders : InQueue(orderQueue, o) => InQueue(orderQueue', o)
  BY <1>1, AddToQueue
<1>3. UNCHANGED <<retryQueue, unacked, failedQueue, parkingQueue>>
  BY DEF PublishOrder, PublishThrows
<1>4. \A o \in Orders : Copies(o) => Copies(o)'
  BY <1>2, <1>3 DEF Copies, InQueue
<1>5. CASE orderQueue' = AddTo(orderQueue, p, 0) /\ confirms' = AddTo(confirms, p, "ack")
  <2>1. InQueue(orderQueue', p)
    BY <1>5, AddToQueue
  <2>2. Copies(p)'
    BY <2>1 DEF Copies, InQueue
  <2>. QED
    BY <1>4, <1>5, <2>2 DEF CopiesKept, ConfirmsKept, AddTo, ConfirmKind
<1>6. CASE confirms' = AddTo(confirms, p, "nack") \/ UNCHANGED confirms
  BY <1>4, <1>6 DEF CopiesKept, ConfirmsKept, AddTo, ConfirmKind
<1>. QED
  BY <1>5, <1>6 DEF PublishOrder, PublishThrows

\* Nobody touches a message or a confirm.
LEMMA QuietTraced ==
  ASSUME UNCHANGED <<broker, confirming>>,
         \A c \in Consumers : consumer'[c].order = consumer[c].order,
         recovery'.order = recovery.order
  PROVE  CopiesKept /\ ConfirmsKept
BY DEF broker, CopiesKept, ConfirmsKept, Copies, InQueue

LEMMA RequestTraced ==
  ASSUME Shape, ~CanReturn, NEW p \in Orders, RequestNext(p)
  PROVE  Traced
<1>. USE DEF Traced
<1>t. RedisTypeOK
  BY DEF Shape, StoresOK
<1>1. CASE RequestSend(p) \/ RequestSendThrows(p)
  BY <1>1, <1>t, PublishTraced, PendingUpdate DEF RequestSend, RequestSendThrows, RequestAt
<1>2. CASE ~(RequestSend(p) \/ RequestSendThrows(p))
  <2>1. UNCHANGED <<broker, confirming, consumer, recovery>>
    BY <1>2 DEF RequestNext, Seckill, RequestSendFailed, SyncInsert, SyncDeduct, SyncThrows,
       SyncComplete, SyncRestore, SyncFail, RequestLost, RequestAt
  <2>2. \/ UNCHANGED redis
        \/ Reserve(p)
        \/ MarkSendFailed(p)
        \/ Restore(p)
        \/ RemovePending(p) /\ Completing(p)
        \/ MarkFailed(p) /\ Failing(p)
    BY <1>2 DEF RequestNext, Seckill, RequestSendFailed, SyncInsert, SyncDeduct, SyncThrows,
       SyncComplete, SyncRestore, SyncFail, RequestLost, RequestAt, Completing, Failing
  <2>. QED
    BY <1>t, <2>1, <2>2, QuietTraced, PendingUpdate
<1>. QED
  BY <1>1, <1>2

\* No callback of a returned message is to come.
NoReturns == \A o \in Orders : confirms[o]["returned"] = 0

LEMMA CallbackTraced ==
  ASSUME Shape, NoReturns, NEW p \in Orders, CallbackNext(p)
  PROVE  Traced
<1>. USE DEF Traced
<1>. QueueTypes /\ RedisTypeOK
  BY ShapeTypes DEF Shape, StoresOK
<1>1. /\ UNCHANGED <<orderQueue, retryQueue, unacked, failedQueue, parkingQueue>>
      /\ UNCHANGED <<consumer, recovery>>
  BY DEF CallbackNext, ConfirmAck, ConfirmWrite, ConfirmNack, ReturnedMessage, ReturnedThrows,
     CallbackLost, CallbackDone, broker, threads
<1>2. CopiesKept
  BY <1>1 DEF CopiesKept, Copies, InQueue
<1>3. ConfirmsKept
  <2>1. ASSUME NEW kind \in ConfirmKind, CallbackDone(p, kind)
        PROVE  \A o \in Orders :
                 /\ confirms'[o]["returned"] = 0
                 /\ confirms'[o]["ack"] > 0 => confirms[o]["ack"] > 0
    BY <2>1 DEF CallbackDone, TakeFrom, NoReturns, QueueTypes, ConfirmKind
  <2>2. CASE ConfirmAck(p)
    BY <2>1, <2>2 DEF ConfirmAck, ConfirmsKept, ConfirmKind, CallbackDone, QueueTypes
  <2>3. CASE ConfirmWrite(p)
    BY <2>3 DEF ConfirmWrite, ConfirmsKept, broker, QueueTypes
  <2>4. CASE ConfirmNack(p)
    BY <2>1, <2>4 DEF ConfirmNack, ConfirmsKept, ConfirmKind
  <2>5. CASE CallbackLost(p)
    BY <2>1, <2>5 DEF CallbackLost, ConfirmsKept, broker, QueueTypes
  <2>6. ~ReturnedMessage(p) /\ ~ReturnedThrows(p)
    BY DEF ReturnedMessage, ReturnedThrows, NoReturns
  <2>. QED
    BY <2>2, <2>3, <2>4, <2>5, <2>6 DEF CallbackNext
<1>4. PendingKept
  <2>1. \/ UNCHANGED redis
        \/ MarkSendSuccess(p) /\ confirming[p] > 0
        \/ MarkSendFailed(p)
        \/ MarkRouteFailed(p)
    BY DEF CallbackNext, ConfirmAck, ConfirmWrite, ConfirmNack, ReturnedMessage, ReturnedThrows,
       CallbackLost
  <2>. QED
    BY <2>1, PendingUpdate
<1>. QED
  BY <1>2, <1>3, <1>4

\* A listener without a delivery holds no message.
IdleOK ==
  /\ \A c \in Consumers : consumer[c].pc = "idle" => consumer[c].order = None
  /\ recovery.pc = "idle" => recovery.order = None

LEMMA ConsumerStaysIdle ==
  ASSUME Shape, IdleOK, NEW c \in Consumers, ConsumerNext(c)
  PROVE  IdleOK'
<1>1. UNCHANGED recovery /\ \A b \in Consumers : b # c => consumer'[b] = consumer[b]
  BY DEF ConsumerNext, Deliver, ConsumeCheck, ConsumeMark, CreateOrder, ConsumeComplete,
     ConsumeThrows, ConsumeEscapes, Reject, Forward, ForwardThrows, ConsumerCrash,
     ConsumerAt, ConsumerDone, Shape, ThreadsOK, ConsumerOK
<1>2. ASSUME NEW from, NEW to, to # "idle", ConsumerAt(c, from, to)
      PROVE  consumer'[c].pc # "idle"
  BY <1>2 DEF ConsumerAt, Shape, ThreadsOK, ConsumerOK
<1>3. ASSUME ConsumerDone(c)
      PROVE  consumer'[c].order = None
  BY <1>3 DEF ConsumerDone, IdleConsumer, Shape, ThreadsOK, ConsumerOK
<1>4. ASSUME NEW p \in Orders, NEW k \in Deaths, Deliver(c, p, k)
      PROVE  consumer'[c].pc # "idle"
  BY <1>4 DEF Deliver, Shape, ThreadsOK, ConsumerOK
<1>5. consumer'[c].pc = "idle" => consumer'[c].order = None
  BY <1>2, <1>3, <1>4 DEF ConsumerNext, ConsumeCheck, ConsumeMark, CreateOrder,
     ConsumeComplete, ConsumeThrows, ConsumeEscapes, Reject, Forward, ForwardThrows,
     ConsumerCrash
<1>. QED
  BY <1>1, <1>5 DEF IdleOK

LEMMA StaysIdle ==
  ASSUME Shape, IdleOK, [Next]_vars
  PROVE  IdleOK'
<1>1. CASE \E c \in Consumers : ConsumerNext(c)
  BY <1>1, ConsumerStaysIdle
<1>2. CASE RecoveryNext
  <2>1. UNCHANGED consumer
    BY <1>2 DEF RecoveryNext, DeliverFailed, RecoverCheck, RecoverClean, RecoverRestore,
       RecoverFail, RecoverThrows, Park, ParkThrows, RecoveryClosed, RecoveryAt, RecoveryDone
  <2>. SUFFICES recovery'.pc = "idle" => recovery'.order = None
    BY <2>1 DEF IdleOK
  <2>r. recovery \in
          [pc : RecoveryPc, order : Orders \cup {None}, attempt : 0..MaxAttempts]
    BY DEF Shape, ThreadsOK, RecoveryOK
  <2>2. CASE recovery' = IdleRecovery
    BY <2>2 DEF IdleRecovery
  <2>3. CASE \E o \in Orders : DeliverFailed(o)
    BY <2>3 DEF DeliverFailed
  <2>4. CASE RecoverCheck \/ RecoverRestore \/ ParkThrows
    <3>1. ASSUME NEW from, NEW to, to # "idle", RecoveryAt(from, to)
          PROVE  recovery'.pc # "idle"
      BY <2>r, <3>1 DEF RecoveryAt
    <3>. QED
      BY <2>4, <3>1 DEF RecoverCheck, RecoverRestore, ParkThrows
  <2>5. CASE recovery' = NextAttempt
    BY <2>5, <2>r DEF NextAttempt
  <2>6. CASE Park
    BY <2>6, <2>2, <2>r DEF Park
  <2>. QED
    BY <1>2, <2>2, <2>3, <2>4, <2>5, <2>6
       DEF RecoveryNext, RecoverClean, RecoverFail, RecoverThrows, RecoveryClosed, RecoveryDone
<1>3. UNCHANGED <<consumer, recovery>> => IdleOK'
  BY DEF IdleOK
<1>4. ASSUME NEW o \in Orders, RequestNext(o) \/ CallbackNext(o) \/ DataExpires(o)
      PROVE  UNCHANGED <<consumer, recovery>>
  BY <1>4 DEF RequestNext, Seckill, RequestSend, RequestSendThrows, RequestSendFailed,
     SyncInsert, SyncDeduct, SyncThrows, SyncComplete, SyncRestore, SyncFail, RequestLost, RequestAt,
     CallbackNext, ConfirmAck, ConfirmWrite, ConfirmNack, ReturnedMessage, ReturnedThrows,
     CallbackLost, CallbackDone, DataExpires, threads
<1>5. ASSUME NEW o \in Orders, NEW k \in Deaths, RetryElapsed(o, k) \/ ChannelClosed(o, k)
      PROVE  UNCHANGED <<consumer, recovery>>
  BY <1>5 DEF RetryElapsed, ChannelClosed, threads
<1>6. ASSUME NEW t \in Tasks, TaskNext(t)
      PROVE  UNCHANGED <<consumer, recovery>>
  BY <1>6 DEF TaskNext, TaskScan, TaskCheck, TaskClean, TaskLoad, TaskRestore, TaskFail,
     TaskRepublish, TaskSend, TaskSendThrows, TaskThrows, TaskError, TaskLost, TaskAt, TaskDone
<1>7. CASE UNCHANGED vars
  BY <1>3, <1>7 DEF vars, threads
<1>. QED
  BY <1>1, <1>2, <1>3, <1>4, <1>5, <1>6, <1>7 DEF Next

\* A handler that ends leaves its message in a queue or its order bought.
LEMMA ConsumerEndTraced ==
  ASSUME Shape, NEW c \in Consumers, ConsumerDone(c), NEW p \in Orders, p = consumer[c].order,
         UNCHANGED confirms, UNCHANGED parkingQueue,
         NEW k \in Deaths,
         orderQueue' \in {orderQueue, AddTo(orderQueue, p, k)},
         retryQueue' \in {retryQueue, AddTo(retryQueue, p, k)},
         unacked' \in {unacked, AddTo(unacked, p, k)},
         failedQueue' \in {failedQueue, [failedQueue EXCEPT ![p] = @ + 1]},
         \/ Completing(p)
         \/ orderQueue' = AddTo(orderQueue, p, k)
         \/ retryQueue' = AddTo(retryQueue, p, k)
         \/ unacked' = AddTo(unacked, p, k)
         \/ failedQueue' = [failedQueue EXCEPT ![p] = @ + 1]
  PROVE  CopiesKept /\ ConfirmsKept
<1>. QueueTypes
  BY ShapeTypes
<1>. USE DEF QueueTypes
<1>1. \A o \in Orders :
        /\ InQueue(orderQueue, o) => InQueue(orderQueue', o)
        /\ InQueue(retryQueue, o) => InQueue(retryQueue', o)
        /\ InQueue(unacked, o) => InQueue(unacked', o)
        /\ failedQueue[o] > 0 => failedQueue'[o] > 0
  <2>1. ASSUME NEW q \in Messages, NEW r \in {q, AddTo(q, p, k)}, NEW o \in Orders
        PROVE  InQueue(q, o) => InQueue(r, o)
    BY AddToQueue
  <2>2. \A o \in Orders : failedQueue[o] > 0 => failedQueue'[o] > 0
    OBVIOUS
  <2>. QED
    BY <2>1, <2>2
<1>2. /\ orderQueue' = AddTo(orderQueue, p, k) => InQueue(orderQueue', p)
      /\ retryQueue' = AddTo(retryQueue, p, k) => InQueue(retryQueue', p)
      /\ unacked' = AddTo(unacked, p, k) => InQueue(unacked', p)
      /\ failedQueue' = [failedQueue EXCEPT ![p] = @ + 1] => failedQueue'[p] > 0
  <2>1. ASSUME NEW q \in Messages, NEW r, r = AddTo(q, p, k)
        PROVE  InQueue(r, p)
    BY <2>1, AddToQueue
  <2>2. failedQueue' = [failedQueue EXCEPT ![p] = @ + 1] => failedQueue'[p] > 0
    OBVIOUS
  <2>. QED
    BY <2>1, <2>2
<1>3. \A b \in Consumers : b # c => consumer'[b] = consumer[b]
  BY DEF Shape, ThreadsOK, ConsumerOK, ConsumerDone
<1>4. ASSUME NEW o \in Orders, o # p, Copies(o)
      PROVE  Copies(o)'
  BY <1>1, <1>3, <1>4 DEF Copies, InQueue, ConsumerDone
<1>5. Copies(p)' \/ Completing(p)
  BY <1>2 DEF Copies, InQueue
<1>. QED
  BY <1>4, <1>5 DEF CopiesKept, ConfirmsKept, ConsumerDone

LEMMA ConsumerTraced ==
  ASSUME Shape, IdleOK, NEW c \in Consumers, ConsumerNext(c)
  PROVE  Traced
<1>. USE DEF Traced
<1>. QueueTypes /\ RedisTypeOK
  BY ShapeTypes DEF Shape, StoresOK
<1>o. consumer[c].pc # "idle" => consumer[c].order \in Orders /\ consumer[c].deaths \in Deaths
  BY DEF Shape, StoresOK, ThreadsOK, ConsumerOK
<1>r. consumer \in [Consumers ->
        [pc : ConsumerPc, order : Orders \cup {None}, deaths : Deaths]]
  BY DEF Shape, ThreadsOK, ConsumerOK
<1>m. ASSUME NEW from, NEW to, ConsumerAt(c, from, to), UNCHANGED broker
      PROVE  CopiesKept /\ ConfirmsKept
  BY <1>m, <1>r, QuietTraced DEF ConsumerAt
<1>q. UNCHANGED redis => PendingKept
  BY DEF redis, PendingKept
<1>1. CASE \E p \in Orders, k \in Deaths : Deliver(c, p, k)
  <2>. PICK p \in Orders, k \in Deaths : Deliver(c, p, k)
    BY <1>1
  <2>. USE DEF Deliver
  <2>1. consumer[c].pc = "idle" /\ consumer'[c].order = p
    BY <1>r
  <2>2. Copies(p)'
    BY <2>1 DEF Copies
  <2>3. ASSUME NEW o \in Orders, o # p, Copies(o)
        PROVE  Copies(o)' \/ consumer[c].order = o
    <3>1. InQueue(orderQueue, o) => InQueue(orderQueue', o)
      BY <2>3, TakeFromQueue DEF QueueTypes
    <3>2. \A b \in Consumers : b # c => consumer'[b] = consumer[b]
      BY <1>r
    <3>. QED
      BY <2>3, <3>1, <3>2 DEF Copies, InQueue
  <2>4. consumer[c].order = None
    BY DEF IdleOK
  <2>5. CopiesKept /\ ConfirmsKept
    BY <2>2, <2>3, <2>4, SeckillRedisAssumption DEF CopiesKept, ConfirmsKept
  <2>. QED
    BY <1>q, <2>5
<1>2. CASE ConsumeCheck(c) \/ CreateOrder(c) \/ ConsumeThrows(c)
  <2>1. UNCHANGED <<redis, broker>> /\ \E from, to \in ConsumerPc : ConsumerAt(c, from, to)
    BY <1>2 DEF ConsumeCheck, CreateOrder, ConsumeThrows, ConsumerPc
  <2>. QED
    BY <1>m, <1>q, <2>1
<1>3. CASE ConsumeMark(c)
  <2>1. consumer[c].order \in Orders
    BY <1>3, <1>o DEF ConsumeMark, ConsumerAt
  <2>. QED
    BY <1>3, <1>m, <2>1, PendingUpdate DEF ConsumeMark
<1>4. CASE ConsumeComplete(c)
  <2>1. PICK p \in Orders, k \in Deaths : p = consumer[c].order /\ k = consumer[c].deaths
    BY <1>4, <1>o DEF ConsumeComplete
  <2>2. Completing(p)
    BY <1>4, <2>1 DEF ConsumeComplete, Completing
  <2>3. CopiesKept /\ ConfirmsKept
    BY <1>4, <2>1, <2>2, ConsumerEndTraced DEF ConsumeComplete
  <2>. QED
    BY <1>4, <2>1, <2>2, <2>3, PendingUpdate DEF ConsumeComplete
<1>5. CASE ConsumeEscapes(c) \/ Forward(c) \/ ForwardThrows(c) \/ ConsumerCrash(c)
  <2>1. PICK p \in Orders, k \in Deaths : p = consumer[c].order /\ k = consumer[c].deaths
    BY <1>5, <1>o DEF ConsumeEscapes, Forward, ForwardThrows, ConsumerCrash, ConsumerDone
  <2>2. CopiesKept /\ ConfirmsKept
    BY <1>5, <2>1, ConsumerEndTraced DEF ConsumeEscapes, Forward, ForwardThrows, ConsumerCrash
  <2>. QED
    BY <1>5, <1>q, <2>2 DEF ConsumeEscapes, Forward, ForwardThrows, ConsumerCrash
<1>6. CASE Reject(c)
  <2>1. PICK p \in Orders, k \in Deaths : p = consumer[c].order /\ k = consumer[c].deaths
    BY <1>6, <1>o DEF Reject
  <2>2. k + 1 \in Deaths
    BY <1>6, <2>1, PipelineAssumption DEF Reject, Deaths
  <2>3. CopiesKept /\ ConfirmsKept
    BY <1>6, <2>1, <2>2, ConsumerEndTraced DEF Reject
  <2>. QED
    BY <1>6, <1>q, <2>3 DEF Reject
<1>. QED
  BY <1>1, <1>2, <1>3, <1>4, <1>5, <1>6 DEF ConsumerNext

\* The failed listener hands its message on, or ends with its order decided.
LEMMA RecoveryEndTraced ==
  ASSUME Shape, NEW p \in Orders, p = recovery.order,
         UNCHANGED <<orderQueue, retryQueue, unacked, confirms, confirming, consumer>>,
         failedQueue' \in {failedQueue, [failedQueue EXCEPT ![p] = @ + 1]},
         parkingQueue' \in {parkingQueue, [parkingQueue EXCEPT ![p] = @ + 1]},
         \/ recovery'.order = p
         \/ failedQueue' = [failedQueue EXCEPT ![p] = @ + 1]
         \/ parkingQueue' = [parkingQueue EXCEPT ![p] = @ + 1]
         \/ Completing(p)
         \/ Failing(p)
  PROVE  CopiesKept /\ ConfirmsKept
<1>. QueueTypes
  BY ShapeTypes
<1>. USE DEF QueueTypes
<1>1. \A o \in Orders :
        /\ failedQueue[o] > 0 => failedQueue'[o] > 0
        /\ parkingQueue[o] > 0 => parkingQueue'[o] > 0
  OBVIOUS
<1>2. ASSUME NEW o \in Orders, o # p, Copies(o)
      PROVE  Copies(o)'
  BY <1>1, <1>2 DEF Copies, InQueue
<1>3. /\ failedQueue' = [failedQueue EXCEPT ![p] = @ + 1] => failedQueue'[p] > 0
      /\ parkingQueue' = [parkingQueue EXCEPT ![p] = @ + 1] => parkingQueue'[p] > 0
  OBVIOUS
<1>4. Copies(p)' \/ Completing(p) \/ Failing(p)
  BY <1>3 DEF Copies
<1>. QED
  BY <1>2, <1>4 DEF CopiesKept, ConfirmsKept

LEMMA RecoveryTraced ==
  ASSUME Shape, IdleOK, RecoveryNext
  PROVE  Traced
<1>. USE DEF Traced
<1>. QueueTypes /\ RedisTypeOK
  BY ShapeTypes DEF Shape, StoresOK
<1>r. recovery \in
        [pc : RecoveryPc, order : Orders \cup {None}, attempt : 0..MaxAttempts]
  BY DEF Shape, ThreadsOK, RecoveryOK
<1>o. recovery.pc # "idle" => recovery.order \in Orders
  BY DEF Shape, StoresOK, ThreadsOK, RecoveryOK
<1>q. UNCHANGED redis => PendingKept
  BY DEF redis, PendingKept
<1>m. ASSUME NEW from, NEW to, RecoveryAt(from, to)
      PROVE  recovery'.order = recovery.order /\ UNCHANGED <<confirming, consumer>>
  BY <1>m, <1>r DEF RecoveryAt
<1>1. CASE \E p \in Orders : DeliverFailed(p)
  <2>. PICK p \in Orders : DeliverFailed(p)
    BY <1>1
  <2>. USE DEF DeliverFailed
  <2>1. Copies(p)'
    BY DEF Copies
  <2>2. ASSUME NEW o \in Orders, o # p, Copies(o)
        PROVE  Copies(o)'
    <3>1. recovery.order # o
      BY SeckillRedisAssumption DEF IdleOK
    <3>2. failedQueue[o] > 0 => failedQueue'[o] > 0
      BY <2>2 DEF QueueTypes
    <3>. QED
      BY <2>2, <3>1, <3>2 DEF Copies, InQueue
  <2>. QED
    BY <1>q, <2>1, <2>2 DEF CopiesKept, ConfirmsKept
<1>2. CASE RecoverCheck \/ RecoverThrows
  <2>1. recovery'.order = recovery.order /\ UNCHANGED <<confirming, consumer>>
    BY <1>2, <1>m, <1>r DEF RecoverCheck, RecoverThrows, NextAttempt
  <2>. QED
    BY <1>2, <1>q, <2>1, QuietTraced DEF RecoverCheck, RecoverThrows
<1>3. CASE RecoverRestore
  <2>1. PICK p \in Orders : p = recovery.order
    BY <1>3, <1>o DEF RecoverRestore, RecoveryAt
  <2>2. recovery'.order = recovery.order /\ UNCHANGED <<confirming, consumer>>
    BY <1>3, <1>m DEF RecoverRestore
  <2>3. Restore(p) /\ UNCHANGED broker
    BY <1>3, <2>1 DEF RecoverRestore
  <2>. QED
    BY <2>2, <2>3, QuietTraced, PendingUpdate
<1>4. CASE RecoverClean \/ RecoverFail
  <2>1. PICK p \in Orders : p = recovery.order
    BY <1>4, <1>o DEF RecoverClean, RecoverFail
  <2>2. \/ Completing(p) /\ RemovePending(p)
        \/ Failing(p) /\ MarkFailed(p)
    BY <1>4, <2>1 DEF RecoverClean, RecoverFail, Completing, Failing
  <2>3. RecoveryDone
    BY <1>4 DEF RecoverClean, RecoverFail
  <2>4. CopiesKept /\ ConfirmsKept
    BY <2>1, <2>2, <2>3, RecoveryEndTraced DEF RecoveryDone
  <2>. QED
    BY <2>2, <2>4, PendingUpdate
<1>5. CASE Park \/ ParkThrows \/ RecoveryClosed
  <2>1. PICK p \in Orders : p = recovery.order
    BY <1>5, <1>o DEF Park, ParkThrows, RecoveryClosed, RecoveryAt
  <2>2. ParkThrows => recovery'.order = recovery.order
    BY <1>m DEF ParkThrows
  <2>3. CopiesKept /\ ConfirmsKept
    <3>1. CASE Park
      BY <2>1, <3>1, RecoveryEndTraced DEF Park
    <3>2. CASE ParkThrows
      BY <2>1, <2>2, <3>2, RecoveryEndTraced DEF ParkThrows, RecoveryAt
    <3>3. CASE RecoveryClosed
      BY <2>1, <3>3, RecoveryEndTraced DEF RecoveryClosed
    <3>. QED
      BY <1>5, <3>1, <3>2, <3>3
  <2>. QED
    BY <1>5, <1>q, <2>3 DEF Park, ParkThrows, RecoveryClosed
<1>. QED
  BY <1>1, <1>2, <1>3, <1>4, <1>5 DEF RecoveryNext

LEMMA TaskTraced ==
  ASSUME Shape, ~CanReturn, NEW t \in Tasks, TaskNext(t)
  PROVE  Traced
<1>. USE DEF Traced
<1>. RedisTypeOK
  BY DEF Shape, StoresOK
<1>o. task[t].pc # "idle" => task[t].order \in Orders
  BY DEF Shape, StoresOK, ThreadsOK, TaskOK
<1>u. UNCHANGED <<confirming, consumer, recovery>>
  BY DEF TaskNext, TaskScan, TaskCheck, TaskClean, TaskLoad, TaskRestore, TaskFail,
     TaskRepublish, TaskSend, TaskSendThrows, TaskThrows, TaskError, TaskLost, TaskAt, TaskDone
<1>q. UNCHANGED redis => PendingKept
  BY DEF redis, PendingKept
<1>1. CASE TaskSend(t) \/ TaskSendThrows(t)
  <2>1. PICK p \in Orders : p = task[t].order
    BY <1>1, <1>o DEF TaskSend, TaskSendThrows, TaskAt, TaskDone
  <2>2. (PublishOrder(p) \/ PublishThrows(p)) /\ UNCHANGED redis
    BY <1>1, <2>1 DEF TaskSend, TaskSendThrows
  <2>. QED
    BY <1>q, <1>u, <2>2, PublishTraced
<1>2. CASE ~(TaskSend(t) \/ TaskSendThrows(t))
  <2>1. UNCHANGED broker
    BY <1>2 DEF TaskNext, TaskScan, TaskCheck, TaskClean, TaskLoad, TaskRestore, TaskFail,
       TaskRepublish, TaskThrows, TaskError, TaskLost
  <2>2. CASE UNCHANGED redis
    BY <1>q, <1>u, <2>1, <2>2, QuietTraced
  <2>3. CASE TaskClean(t) \/ TaskRestore(t) \/ TaskFail(t) \/ TaskRepublish(t) \/ TaskError(t)
    <3>1. PICK p \in Orders : p = task[t].order
      BY <1>o, <2>3 DEF TaskClean, TaskRestore, TaskFail, TaskRepublish, TaskError,
         TaskAt, TaskDone
    <3>2. \/ Completing(p) /\ RemovePending(p)
          \/ Failing(p) /\ MarkFailed(p)
          \/ Restore(p)
          \/ BeforeRepublish(p)
          \/ MarkSendFailed(p)
      BY <2>3, <3>1 DEF TaskClean, TaskRestore, TaskFail, TaskRepublish, TaskError,
         TaskAt, TaskDone, Completing, Failing
    <3>. QED
      BY <1>u, <2>1, <3>2, QuietTraced, PendingUpdate
  <2>. QED
    BY <1>2, <2>2, <2>3 DEF TaskNext, TaskScan, TaskCheck, TaskLoad, TaskThrows, TaskLost
<1>. QED
  BY <1>1, <1>2

\* A message that waited goes back to the order queue.
LEMMA RequeueTraced ==
  ASSUME Shape, NEW p \in Orders, NEW k \in Deaths, RetryElapsed(p, k) \/ ChannelClosed(p, k)
  PROVE  Traced
<1>. QueueTypes
  BY ShapeTypes
<1>. USE DEF QueueTypes
<1>1. InQueue(orderQueue', p) /\ \A o \in Orders : InQueue(orderQueue, o) => InQueue(orderQueue', o)
  BY AddToQueue DEF RetryElapsed, ChannelClosed
<1>2. ASSUME NEW o \in Orders, o # p
      PROVE  /\ InQueue(retryQueue, o) => InQueue(retryQueue', o)
             /\ InQueue(unacked, o) => InQueue(unacked', o)
  BY <1>2, TakeFromQueue DEF RetryElapsed, ChannelClosed
<1>3. UNCHANGED <<failedQueue, parkingQueue, confirms, confirming, consumer, recovery, pending>>
  BY DEF RetryElapsed, ChannelClosed, threads, redis
<1>4. \A o \in Orders : Copies(o) => Copies(o)'
  BY <1>1, <1>2, <1>3 DEF Copies, InQueue
<1>. QED
  BY <1>3, <1>4 DEF Traced, CopiesKept, ConfirmsKept, PendingKept

LEMMA StepTraced ==
  ASSUME Shape, IdleOK, NoReturns, ~CanReturn, [Next]_vars
  PROVE  Traced
<1>1. ASSUME NEW o \in Orders, DataExpires(o)
      PROVE  Traced
  <2>1. UNCHANGED <<broker, confirming, consumer, recovery>> /\ ExpireData(o) /\ RedisTypeOK
    BY <1>1 DEF DataExpires, threads, Shape, StoresOK
  <2>. QED
    BY <2>1, QuietTraced, PendingUpdate DEF Traced
<1>2. CASE UNCHANGED vars
  BY <1>2, QuietTraced DEF vars, threads, redis, Traced, PendingKept
<1>. QED
  BY <1>1, <1>2, RequestTraced, CallbackTraced, ConsumerTraced, RecoveryTraced, TaskTraced,
     RequeueTraced DEF Next

-----------------------------------------------------------------------------
(* Accepted orders are kept                                                *)

\* An order that may leave the pending set, or has left it, is held.
HeldOK ==
  \A o \in Orders :
    /\ confirms[o]["ack"] > 0 \/ confirming[o] > 0 => Held(o)
    /\ o \in pending \/ Held(o)

\* A slot is reserved for an order of its user.
ReservedOwner == \A u \in Users : reservation[u] # None => Owner[reservation[u]] = u

KeptOK == NoReturns /\ IdleOK /\ HeldOK /\ ReservedOwner

LEMMA ReservedOwnerStays ==
  ASSUME Shape, StepOK, ReservedOwner
  PROVE  ReservedOwner'
<1>. USE SeckillRedisAssumption DEF ReservedOwner, Shape, StoresOK, RedisTypeOK
<1>1. CASE Admission
  BY <1>1 DEF Admission, Reserve
<1>2. CASE Insertion \/ HalfInsertion
  BY <1>2 DEF Insertion, HalfInsertion, redis
<1>3. CASE Internal
  <2>1. ASSUME NEW p \in issued, Restore(p)
        PROVE  ReservedOwner'
    BY <2>1 DEF Restore
  <2>2. UNCHANGED reservation => ReservedOwner'
    OBVIOUS
  <2>. QED
    BY <1>3, <2>1, <2>2, StatusUpdateKeepsSlots DEF Internal, redis, ExpireData
<1>. QED
  BY <1>1, <1>2, <1>3 DEF StepOK

\* A fresh order that is given a slot is pending.
LEMMA FreshPending ==
  ASSUME Shape, StepOK, NEW o \in Orders \ issued, Freed(o)
  PROVE  Freed(o)' \/ o \in pending'
<1>. USE SeckillRedisAssumption DEF Freed, Shape, StoresOK, RedisTypeOK
<1>1. CASE Admission
  BY <1>1 DEF Admission, Reserve
<1>2. CASE Insertion \/ HalfInsertion
  BY <1>2 DEF Insertion, HalfInsertion, redis
<1>3. CASE Internal
  <2>1. ASSUME NEW p \in issued, Restore(p)
        PROVE  Freed(o)'
    BY <2>1 DEF Restore
  <2>2. UNCHANGED reservation => Freed(o)'
    OBVIOUS
  <2>. QED
    BY <1>3, <2>1, <2>2, StatusUpdateKeepsSlots DEF Internal, redis, ExpireData
<1>. QED
  BY <1>1, <1>2, <1>3 DEF StepOK

\* What is held stays held: a message is given up for a decided order only.
LEMMA HeldStays ==
  ASSUME Shape, StepOK, Traced, CompletedOK, FailedOK, NEW o \in issued, o \in Orders, Held(o)
  PROVE  Held(o)'
<1>1. Completing(o) => Bought(o)
  BY DEF CompletedOK
<1>2. Failing(o) => Freed(o)
  BY DEF FailedOK
<1>3. Bought(o) => Bought(o)'
  BY BoughtStays
<1>4. Freed(o) => Freed(o)'
  BY FreedStays
<1>5. Copies(o) => Copies(o)' \/ Completing(o) \/ Failing(o)
  BY DEF Traced, CopiesKept
<1>. QED
  BY <1>1, <1>2, <1>3, <1>4, <1>5 DEF Held

LEMMA StepHeld ==
  ASSUME Shape, StepOK, Traced, CompletedOK, FailedOK, HeldOK
  PROVE  HeldOK'
<1>. SUFFICES ASSUME NEW o \in Orders
              PROVE  /\ confirms'[o]["ack"] > 0 \/ confirming'[o] > 0 => Held(o)'
                     /\ o \in pending' \/ Held(o)'
  BY DEF HeldOK
<1>1. CASE o \in issued
  <2>1. Held(o) => Held(o)'
    BY <1>1, HeldStays
  <2>2. confirms[o]["ack"] > 0 \/ confirming[o] > 0 => Held(o)'
    BY <2>1 DEF HeldOK
  <2>3. confirms'[o]["ack"] > 0 \/ confirming'[o] > 0 => Held(o)'
    BY <2>2 DEF Traced, ConfirmsKept, Held
  <2>4. CASE o \in pending
    <3>1. o \in pending' \/ Completing(o) \/ Failing(o) \/ Freed(o)' \/ confirming[o] > 0
      BY <2>4 DEF Traced, PendingKept
    <3>2. Completing(o) \/ Failing(o) => Held(o)
      BY DEF CompletedOK, FailedOK, Held
    <3>. QED
      BY <2>1, <2>2, <2>3, <3>1, <3>2 DEF Held
  <2>5. CASE Held(o)
    BY <2>1, <2>3, <2>5
  <2>. QED
    BY <2>4, <2>5 DEF HeldOK
<1>2. CASE o \notin issued
  <2>1. Freed(o)
    BY <1>2 DEF FailedOK
  <2>2. ~(confirms[o]["ack"] > 0) /\ ~(confirming[o] > 0)
    BY <1>2 DEF Shape, BrokerOK, ThreadsOK, ConfirmingOK, Carries, ConfirmKind
  <2>3. confirms'[o]["ack"] > 0 \/ confirming'[o] > 0 => Held(o)'
    BY <2>2 DEF Traced, ConfirmsKept, Held
  <2>. QED
    BY <1>2, <2>1, <2>3, FreshPending DEF Held
<1>. QED
  BY <1>1, <1>2

\* A legacy order owns no reservation.
LEMMA InitKept ==
  ASSUME Init
  PROVE  KeptOK
<1>1. NoReturns /\ IdleOK
  BY DEF Init, NoReturns, IdleOK, IdleConsumer, IdleRecovery, ConfirmKind
<1>2. \A o \in Orders : Held(o)
  BY SeckillRedisAssumption DEF Init, RedisInit, Held, Freed
<1>3. ReservedOwner
  BY DEF Init, RedisInit, ReservedOwner
<1>. QED
  BY <1>1, <1>2, <1>3 DEF KeptOK, HeldOK

\* A step that accounts for what it gives up keeps the orders.
LEMMA TracedKept ==
  ASSUME Shape, StepOK, CompletedOK, FailedOK, KeptOK, Traced, IdleOK'
  PROVE  KeptOK'
<1>1. NoReturns'
  BY DEF KeptOK, NoReturns, Traced, ConfirmsKept
<1>2. HeldOK'
  BY StepHeld DEF KeptOK
<1>3. ReservedOwner'
  BY ReservedOwnerStays DEF KeptOK
<1>. QED
  BY <1>1, <1>2, <1>3 DEF KeptOK

LEMMA StepKept ==
  ASSUME Shape, StepOK, ~CanReturn, CompletedOK, FailedOK, KeptOK, [Next]_vars
  PROVE  KeptOK'
BY StepTraced, StaysIdle, TracedKept DEF KeptOK

\* The order a slot is reserved for is pending, decided or in a message.
LEMMA KeptAccepted ==
  ASSUME IndInv, KeptOK
  PROVE  AcceptedNeverLost
<1>. SUFFICES ASSUME NEW u \in Reserved
              PROVE  u \in Buyers \/ reservation[u] \in pending \/ HasCopy(reservation[u])
  BY DEF AcceptedNeverLost
<1>1. u \in Users /\ reservation[u] \in Orders
  BY DEF Reserved, IndInv, Shape, StoresOK, RedisTypeOK
<1>2. PICK o \in Orders : o = reservation[u]
  BY <1>1
<1>3. o \in pending \/ Copies(o) \/ Bought(o) \/ Freed(o)
  BY DEF KeptOK, HeldOK, Held
<1>4. Owner[o] = u
  BY <1>1, <1>2, SeckillRedisAssumption DEF KeptOK, ReservedOwner
<1>5. HasCopy(o) <=> Copies(o)
  BY CopiesCount DEF IndInv, Shape
<1>. QED
  BY <1>2, <1>3, <1>4, <1>5 DEF Bought, Freed

-----------------------------------------------------------------------------
(* Theorems                                                                *)

\* An order reported COMPLETED left its user an order in MySQL, whichever
\* thread reported it and however late.
THEOREM CompletionsTrue == Spec => []CompletedHasOrder
<1>1. Init => IndInv /\ CompletedOK
  BY InitIndInv, InitReports
<1>2. IndInv /\ CompletedOK /\ [Next]_vars => (IndInv /\ CompletedOK)'
  BY StepIndInv, StepShape, StepHonest, StepCompletedOK DEF IndInv
<1>3. IndInv /\ CompletedOK => CompletedHasOrder
  BY DEF CompletedOK, CompletedHasOrder, Bought
<1>. QED
  BY <1>1, <1>2, <1>3, PTL DEF Spec

\* While no detail hash expires, an order reported FAILED holds no slot: each
\* of the paths to the report went through a compensation of that order.
THEOREM FailuresTrue == ~CanExpire => (Spec => []FailedHoldsNothing)
<1>. SUFFICES ASSUME ~CanExpire
              PROVE  Spec => []FailedHoldsNothing
  OBVIOUS
<1>1. Init => IndInv /\ FailedOK
  BY InitIndInv, InitReports
<1>2. IndInv /\ FailedOK /\ [Next]_vars => (IndInv /\ FailedOK)'
  BY StepIndInv, StepShape, StepHonest, StepFailedOK DEF IndInv
<1>3. IndInv /\ FailedOK => FailedHoldsNothing
  BY DEF FailedOK, FailedHoldsNothing, Freed
<1>. QED
  BY <1>1, <1>2, <1>3, PTL DEF Spec

\* An order that holds its slot is decided, pending, or carried by a message,
\* whatever crashes, lost or repeated confirms and retries happened, as long
\* as the broker routes what it takes and no detail hash expires.  A negative
\* or late confirm and the two-step markSendSuccess are the hard part: an
\* entry leaves the pending set only for a message or for a decision.
THEOREM AcceptedKept == ~CanExpire /\ ~CanReturn => (Spec => []AcceptedNeverLost)
<1>. SUFFICES ASSUME ~CanExpire, ~CanReturn
              PROVE  Spec => []AcceptedNeverLost
  OBVIOUS
<1>1. Init => IndInv /\ CompletedOK /\ FailedOK /\ KeptOK
  BY InitIndInv, InitReports, InitKept
<1>2. IndInv /\ CompletedOK /\ FailedOK /\ KeptOK /\ [Next]_vars
        => (IndInv /\ CompletedOK /\ FailedOK /\ KeptOK)'
  BY StepIndInv, StepShape, StepHonest, StepCompletedOK, StepFailedOK, StepKept DEF IndInv
<1>3. IndInv /\ KeptOK => AcceptedNeverLost
  BY KeptAccepted
<1>. QED
  BY <1>1, <1>2, <1>3, PTL DEF Spec
=============================================================================
