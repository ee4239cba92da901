-------------------------- MODULE VoucherPublication --------------------------
(***************************************************************************)
(* The publication of the seckill voucher and the pipeline that sells it.  *)
(* addSeckillVoucher writes two MySQL rows and then two Redis keys in one  *)
(* MySQL transaction, which Redis is no part of: a failure after the first *)
(* Redis write, the one of the commit included, leaves keys of a voucher   *)
(* that does not exist.  Nothing stops a client that knows the id, which   *)
(* is the next number, from buying it.                                     *)
(*                                                                         *)
(* The two inserts are one step, for nobody sees them before the commit.   *)
(***************************************************************************)
EXTENDS OrderPipeline

VARIABLES
  publisher,  \* the thread that runs addSeckillVoucher
  row,        \* the voucher's rows in MySQL
  keys        \* which of seckill:stock and seckill:time exist

publication == <<publisher, row, keys>>
pubVars     == <<vars, publication>>

PublicationTypeOK ==
  /\ publisher \in {"idle", "stock", "window", "noWindow", "commit", "done"}
  /\ row \in {"none", "private", "committed"}
  /\ keys \in {"none", "stock", "both"}

PubInit ==
  /\ Init
  /\ publisher = "idle"
  /\ row = "none"
  /\ keys = "none"

-----------------------------------------------------------------------------
(* addSeckillVoucher                                                       *)

PublisherAt(from, to) ==
  /\ publisher = from
  /\ publisher' = to
  /\ UNCHANGED vars

\* save(voucher) and save(seckillVoucher).
InsertRows ==
  /\ PublisherAt("idle", "stock")
  /\ row' = "private"
  /\ UNCHANGED keys

\* The request may come without a begin or an end.
SetStock ==
  /\ PublisherAt("stock", "window") \/ PublisherAt("stock", "noWindow")
  /\ keys' = "stock"
  /\ UNCHANGED row

\* Bug: the activity time is cached after the transaction.
CacheActivityTimeLate ==
  /\ PublisherAt("window", "commit")
  /\ row' = "committed"
  /\ UNCHANGED keys

CacheActivityTime ==
  /\ PublisherAt("window", "commit")
  /\ keys' = "both"
  /\ UNCHANGED row

Commit ==
  /\ PublisherAt("commit", "done")
  /\ row' = "committed"
  /\ UNCHANGED keys

\* A missing time, a Redis call that throws though it may have written, a
\* crash, or a commit that fails: MySQL rolls back, Redis does not.
Rollback ==
  /\ \/ PublisherAt("stock", "done") /\ keys' \in {"none", "stock"}
     \/ PublisherAt("window", "done") /\ keys' \in {"stock", "both"}
     \/ PublisherAt("noWindow", "done") /\ UNCHANGED keys
     \/ PublisherAt("commit", "done") /\ UNCHANGED keys
  /\ row' = "none"

PublisherNext ==
  \/ InsertRows
  \/ SetStock
  \/ CacheActivityTime
  \/ Commit
  \/ Rollback

-----------------------------------------------------------------------------
(* The pipeline of a voucher that may not exist                            *)

\* The admission script wants both keys; the window is open.
OnSale == keys = "both"

\* The stock update needs a visible row (it waits for the lock on a row still
\* private), and the task goes through the vouchers that MySQL lists.  The
\* insert of an order alone, in the synchronous mode, asks for no voucher.
Gate ==
  /\ issued' # issued => OnSale
  /\ dbStock' # dbStock => row = "committed"
  /\ \A t \in Tasks : TaskScan(t) => row = "committed"
  /\ UNCHANGED publication

\* Bug: the consumer takes the exception for the one of a duplicate key.
NoSuchVoucherAsDuplicate(c) ==
  /\ row = "none"
  /\ ConsumerAt(c, "create", "duplicate")
  /\ ~Duplicate(consumer[c].order)
  /\ UNCHANGED <<redis, mysql, broker, faults, publication>>

\* The stock update of createVouchOrder matches nothing, and the transaction
\* rolls the insert of the order back ...
NoSuchVoucher(c) ==
  /\ row = "none"
  /\ ConsumerAt(c, "create", "failed")
  /\ ~Duplicate(consumer[c].order)
  /\ UNCHANGED <<redis, mysql, broker, faults, publication>>

\* ... which the synchronous mode does not.
SyncNoSuchVoucher(o) ==
  /\ row = "none"
  /\ RequestAt(o, "deduct", "restore")
  /\ UNCHANGED <<redis, mysql, broker, faults, publication>>

PubNext ==
  \/ PublisherNext
  \/ Next /\ Gate
  \/ \E c \in Consumers : NoSuchVoucher(c)
  \/ \E o \in Orders : SyncNoSuchVoucher(o)

PubSpec == PubInit /\ [][PubNext]_pubVars

-----------------------------------------------------------------------------
(* Safety                                                                  *)

\* A voucher that the list of its shop shows can be bought: the Redis keys
\* are complete before the commit makes the rows visible.
ListedIsOnSale == row = "committed" => OnSale

\* Orders that hold a slot, whose request is over, and which no message will
\* ever decide.  The task republishes those of a voucher that MySQL lists;
\* of any other voucher they keep their slots for good.
WithoutMessage ==
  {o \in Orders :
     /\ reservation[Owner[o]] = o
     /\ Owner[o] \notin Buyers
     /\ request[o] \in {"idle", "sendFailed"}
     /\ ~HasCopy(o)}

\* It takes a fault to bring an order there: along the retry queue, the failed
\* queue and the parking queue, and in the two ways to handle an order whose
\* voucher does not exist, no handler gives up a message before its order is
\* decided.
OnlyFaultsLoseMessages ==
  [][\A o \in WithoutMessage' : o \in WithoutMessage \/ faults' = faults + 1]_pubVars

-----------------------------------------------------------------------------
(* Liveness                                                                *)

\* As in OrderPipeline, for the steps this voucher allows.  Neither the task
\* nor the confirms do anything for an order of a rolled-back voucher, so no
\* fairness is asked of them.
PubFairness ==
  /\ WF_pubVars(PublisherNext)
  /\ \A o \in Orders :
       /\ WF_pubVars((RequestSteps(o) /\ Gate) \/ SyncNoSuchVoucher(o))
       /\ SF_pubVars(DeliverFailed(o) /\ Gate)
  /\ \A c \in Consumers :
       WF_pubVars((ConsumerSteps(c) /\ Gate) \/ NoSuchVoucher(c))
  /\ \A o \in Orders, k \in Deaths :
       /\ SF_pubVars(\E c \in Consumers : Deliver(c, o, k) /\ Gate)
       /\ WF_pubVars(RetryElapsed(o, k) /\ Gate)
  /\ WF_pubVars(RecoverySteps /\ Gate)

FairPubSpec == PubSpec /\ PubFairness

\* Only the pending set knows the order, which the task does not scan.
Stranded(o) == faults > 0 /\ o \in pending /\ o \in WithoutMessage

\* A buyer of a voucher whose publication was rolled back is not kept
\* waiting as long as there is a message: the order fails at the consumer,
\* and the recovery gives the slot back or parks the order, although the task
\* never sees the voucher.  Past help are the order whose message a fault
\* lost, for it is the task that publishes again, and a user with a row that
\* the synchronous mode left behind, to whose next order the consumer answers
\* as to a duplicate.
PhantomSlotsReturn ==
  \A o \in Orders :
    row = "none" /\ publisher = "done" /\ reservation[Owner[o]] = o ~>
      \/ reservation[Owner[o]] # o
      \/ Owner[o] \in Buyers
      \/ parkingQueue[o] > 0
      \/ recovery.pc = "unacked"
      \/ Stranded(o)
=============================================================================
