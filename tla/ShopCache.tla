------------------------------- MODULE ShopCache -------------------------------
(***************************************************************************)
(* The two-level cache of one shop and the outbox that invalidates it.     *)
(* A read goes through the local cache of its instance, Redis and MySQL    *)
(* and fills the caches on its way back.  An update commits the row and an *)
(* outbox event together; a task on every instance claims due events,      *)
(* deletes the Redis entry and its own local entry and broadcasts the      *)
(* deletion to all instances, once at once and once more after a delay.    *)
(*                                                                         *)
(* The content of a shop is its version: 0 before it exists, one more at   *)
(* every write.  An event has the version of the update that recorded it.  *)
(* All keys carry the shop id, so one shop is modelled.                    *)
(***************************************************************************)
EXTENDS Naturals, FiniteSets

CONSTANTS
  Instances,      \* application instances, each with a task and a listener
  Readers,        \* request threads that read the shop
  Home,           \* Home[r]: the instance of reader r
  Absent,         \* "no entry"
  LocalEnabled,   \* instances with hmdp.cache.shop.local-enabled
  PromptReaders,  \* reads in flight end within double-delete-delay-ms
  CanDisconnect,  \* an instance may lose its broker connection and run on
  LocalCacheFails,\* the local cache may throw on a lookup
  MaxVersion,     \* bound on the writes of the shop
  MaxRetries,     \* hmdp.cache.outbox.max-retries
  MaxAttempts,    \* attempts of the invalidation listener
  MaxFaults       \* bound on crashes, failing calls and overrun leases

ASSUME ShopCacheAssumption ==
  /\ Home \in [Readers -> Instances]
  /\ Absent \notin Nat
  /\ LocalEnabled \subseteq Instances
  /\ PromptReaders \in BOOLEAN
  /\ CanDisconnect \in BOOLEAN
  /\ LocalCacheFails \in BOOLEAN
  /\ MaxVersion \in Nat
  /\ MaxRetries \in Nat \ {0}
  /\ MaxAttempts \in Nat \ {0}
  /\ MaxFaults \in Nat

VARIABLES
  row,        \* the version in tb_shop
  outbox,     \* rows of tb_cache_invalidate_outbox
  failures,   \* failures[e]: failed attempts at e since its stage began
  redisEntry, \* the Redis entry, version 0 being the cached null
  local,      \* local[i]: the Caffeine entry of instance i
  reader,
  worker,     \* worker[i]: the outbox task of instance i
  fanout,     \* fanout[i]: messages in the queue of instance i
  bound,      \* bound[i]: the queue of instance i exists
  consumer,   \* consumer[i]: the invalidation listener of instance i
  parked,     \* messages in the parking queue
  inFlight,   \* inFlight[e]: readers that were under way when the second
              \* deletion of e was scheduled and still are
  faults

mysql  == <<row, outbox, failures>>
caches == <<redisEntry, local>>
queues == <<fanout, bound, parked>>
vars   == <<mysql, caches, queues, reader, worker, consumer, inFlight, faults>>

Versions == 0..MaxVersion
Events   == 2..MaxVersion
Entries  == Versions \cup {Absent}
Initial  == 0
Delayed  == 1

EventStatus == {"none", "pending", "processing", "completed", "dead"}
NoEvent     == [status |-> "none", stage |-> Initial, retryCount |-> 0]

IdleReader   == [pc |-> "idle", mode |-> "locked", value |-> Absent]
IdleConsumer == [pc |-> "idle", attempt |-> 0, ok |-> TRUE]

\* A task works through a batch of snapshots; "now" is the one it has claimed.
Snapshot   == [event : Events, stage : {Initial, Delayed}, retryCount : 0..MaxRetries]
NoSnapshot == [event |-> 0, stage |-> Initial, retryCount |-> 0]
IdleWorker == [pc |-> "idle", batch |-> {}, now |-> NoSnapshot, ok |-> TRUE]

\* A retry count never exceeds the limit, no counter is negative, and every
\* thread is at one of its steps.
TypeOK ==
  /\ row \in Versions
  /\ outbox \in [Events ->
       [status : EventStatus, stage : {Initial, Delayed}, retryCount : 0..MaxRetries]]
  /\ failures \in [Events -> Nat]
  /\ redisEntry \in Entries
  /\ local \in [Instances -> (Versions \ {0}) \cup {Absent}]
  /\ reader \in [Readers ->
       [pc : {"idle", "redis", "db", "fill", "store"},
        mode : {"locked", "put", "direct"}, value : Entries]]
  /\ worker \in [Instances ->
       [pc : {"idle", "redis", "local", "publish", "finish"},
        batch : SUBSET Snapshot, now : Snapshot \cup {NoSnapshot}, ok : BOOLEAN]]
  /\ fanout \in [Instances -> Nat]
  /\ bound \in [Instances -> BOOLEAN]
  /\ consumer \in [Instances ->
       [pc : {"idle", "redis", "local"}, attempt : 0..MaxAttempts, ok : BOOLEAN]]
  /\ parked \in Nat
  /\ inFlight \in [Events -> SUBSET Readers]
  /\ faults \in 0..MaxFaults

\* The shop exists or not, and no cache holds it.
Init ==
  /\ row \in {0, 1} \cap Versions
  /\ outbox = [e \in Events |-> NoEvent]
  /\ failures = [e \in Events |-> 0]
  /\ redisEntry = Absent
  /\ local = [i \in Instances |-> Absent]
  /\ reader = [r \in Readers |-> IdleReader]
  /\ worker = [i \in Instances |-> IdleWorker]
  /\ fanout = [i \in Instances |-> 0]
  /\ bound = [i \in Instances |-> TRUE]
  /\ consumer = [i \in Instances |-> IdleConsumer]
  /\ parked = 0
  /\ inFlight = [e \in Events |-> {}]
  /\ faults = 0

Fault == faults < MaxFaults /\ faults' = faults + 1

-----------------------------------------------------------------------------
(* Writes of the shop                                                      *)

\* saveShop inserts the row and leaves the caches alone.
SaveShop ==
  /\ row = 0
  /\ row < MaxVersion
  /\ row' = 1
  /\ UNCHANGED <<outbox, failures, caches, queues, reader, worker, consumer, inFlight, faults>>

\* update commits the row and the event in one transaction; an update of a
\* shop that does not exist rolls back.
Update ==
  /\ row > 0
  /\ row < MaxVersion
  /\ row' = row + 1
  /\ outbox' = [outbox EXCEPT ![row + 1] = [NoEvent EXCEPT !.status = "pending"]]
  /\ UNCHANGED <<failures, caches, queues, reader, worker, consumer, inFlight, faults>>

-----------------------------------------------------------------------------
(* Reads: ShopCacheService                                                 *)

\* Bug: the entry is looked up, loaded and put without the lock of the key.
NeverLoading(i) == FALSE

\* Caffeine runs the loader under the lock of the key; invalidate waits.
Loading(i) ==
  \E r \in Readers : Home[r] = i /\ reader[r].pc # "idle" /\ reader[r].mode = "locked"

ReaderAt(r, from, to, value) ==
  /\ reader[r].pc = from
  /\ reader' = [reader EXCEPT ![r].pc = to, ![r].value = value]
  /\ UNCHANGED inFlight

ReaderDone(r, from) ==
  /\ reader[r].pc = from
  /\ reader' = [reader EXCEPT ![r] = IdleReader]
  /\ inFlight' = [e \in Events |-> inFlight[e] \ {r}]

\* The local cache misses, throws, or is switched off.  A hit changes nothing.
StartRead(r) ==
  /\ reader[r].pc = "idle"
  /\ \E mode \in {"locked", "put", "direct"} :
       /\ reader' = [reader EXCEPT ![r] = [IdleReader EXCEPT !.pc = "redis", !.mode = mode]]
       /\ \/ /\ mode = "locked"
             /\ Home[r] \in LocalEnabled
             /\ local[Home[r]] = Absent
             /\ ~Loading(Home[r])
             /\ UNCHANGED faults
          \/ /\ mode = "put"
             /\ Home[r] \in LocalEnabled
             /\ LocalCacheFails
             /\ Fault
          \/ /\ mode = "direct"
             /\ Home[r] \notin LocalEnabled
             /\ UNCHANGED faults
  /\ UNCHANGED <<mysql, caches, queues, worker, consumer, inFlight>>

\* A hit goes to the local cache, a cached null ends the read, and a miss or
\* a failure of Redis leads to MySQL.
ReadRedis(r) ==
  /\ \/ /\ redisEntry \notin {0, Absent}
        /\ ReaderAt(r, "redis", "store", redisEntry)
        /\ UNCHANGED faults
     \/ /\ redisEntry = 0
        /\ ReaderDone(r, "redis")
        /\ UNCHANGED faults
     \/ /\ \/ redisEntry = Absent /\ UNCHANGED faults
           \/ redisEntry # Absent /\ Fault
        /\ ReaderAt(r, "redis", "db", Absent)
  /\ UNCHANGED <<mysql, caches, queues, worker, consumer>>

ReadMySQL(r) ==
  /\ ReaderAt(r, "db", "fill", row)
  /\ UNCHANGED <<mysql, caches, queues, worker, consumer, faults>>

\* Redis gets the row, or a null entry when there is none; if it fails the
\* read goes on.
FillRedis(r) ==
  /\ \/ redisEntry' = reader[r].value /\ UNCHANGED faults
     \/ UNCHANGED redisEntry /\ Fault
  /\ \/ reader[r].value # 0 /\ ReaderAt(r, "fill", "store", reader[r].value)
     \/ reader[r].value = 0 /\ ReaderDone(r, "fill")
  /\ UNCHANGED <<mysql, local, queues, worker, consumer>>

StoreLocal(r) ==
  /\ ReaderDone(r, "store")
  /\ reader[r].mode = "put" => ~Loading(Home[r])
  /\ local' = IF reader[r].mode = "direct" THEN local
              ELSE [local EXCEPT ![Home[r]] = reader[r].value]
  /\ UNCHANGED <<mysql, redisEntry, queues, worker, consumer, faults>>

\* MySQL fails, the local cache refuses the entry, or the thread is gone.
ReadLost(r) ==
  /\ reader[r].pc # "idle"
  /\ ReaderDone(r, reader[r].pc)
  /\ Fault
  /\ UNCHANGED <<mysql, caches, queues, worker, consumer>>

\* Bug: entries are written without a lifetime.
NeverExpires == FALSE

RedisExpires ==
  /\ redisEntry # Absent
  /\ redisEntry' = Absent
  /\ UNCHANGED <<mysql, local, queues, reader, worker, consumer, inFlight, faults>>

\* Sixty seconds have passed, or the cache is full.
LocalExpires(i) ==
  /\ local[i] # Absent
  /\ local' = [local EXCEPT ![i] = Absent]
  /\ UNCHANGED <<mysql, redisEntry, queues, reader, worker, consumer, inFlight, faults>>

ReaderNext(r) ==
  \/ StartRead(r)
  \/ ReadRedis(r)
  \/ ReadMySQL(r)
  \/ FillRedis(r)
  \/ StoreLocal(r)
  \/ ReadLost(r)

-----------------------------------------------------------------------------
(* The outbox task: CacheInvalidationOutboxTask                            *)

WorkerAt(i, from, to, ok) ==
  /\ worker[i].pc = from
  /\ worker' = [worker EXCEPT ![i].pc = to, ![i].ok = ok]
  /\ UNCHANGED <<queues, reader, consumer>>

\* The event is dealt with; the rest of the batch follows.
WorkerDone(i) ==
  /\ worker[i].pc = "finish"
  /\ worker' = [worker EXCEPT ![i] = [IdleWorker EXCEPT !.batch = worker[i].batch]]
  /\ UNCHANGED <<row, caches, queues, reader, consumer, faults>>

\* Bug: nobody takes over the claim of a holder that is gone.
NeverRecovered(e) == FALSE

\* recoverExpiredClaims, as a scan begins on some instance: the lease of e has
\* run out, because its holder is gone or, which counts as a fault, is slow.
RecoverExpired(e) ==
  /\ outbox[e].status = "processing"
  /\ \E i \in Instances : worker[i] = IdleWorker
  /\ outbox' = [outbox EXCEPT ![e].status = "pending"]
  /\ IF \E i \in Instances : worker[i].now.event = e THEN Fault ELSE UNCHANGED faults
  /\ UNCHANGED <<row, failures, caches, queues, reader, worker, consumer, inFlight>>

\* The delayed stage is due once the delay is over; a retry may be due at any
\* time.
MayBeDue(e) ==
  /\ outbox[e].status = "pending"
  /\ PromptReaders /\ outbox[e].stage = Delayed => inFlight[e] = {}

SnapshotOf(e) ==
  [event |-> e, stage |-> outbox[e].stage, retryCount |-> outbox[e].retryCount]

\* findDue: the batch keeps stage and retry count as they are now.
FindDue(i) ==
  /\ worker[i] = IdleWorker
  /\ \E due \in SUBSET {e \in Events : MayBeDue(e)} \ {{}} :
       worker' = [worker EXCEPT ![i].batch = {SnapshotOf(e) : e \in due}]
  /\ UNCHANGED <<mysql, caches, queues, reader, consumer, inFlight, faults>>

\* claim: the update asks for status 0 and for nothing else.  The batch is
\* in the order of the ids.
Claim(i) ==
  /\ worker[i].pc = "idle"
  /\ \E s \in worker[i].batch :
       /\ \A t \in worker[i].batch : s.event <= t.event
       /\ \/ /\ outbox[s.event].status = "pending"
             /\ outbox' = [outbox EXCEPT ![s.event].status = "processing"]
             /\ worker' = [worker EXCEPT ![i] =
                  [pc |-> "redis", batch |-> @.batch \ {s}, now |-> s, ok |-> TRUE]]
          \/ /\ outbox[s.event].status # "pending"
             /\ worker' = [worker EXCEPT ![i].batch = @ \ {s}]
             /\ UNCHANGED outbox
  /\ UNCHANGED <<row, failures, caches, queues, reader, consumer, inFlight, faults>>

\* invalidateShop: each of its three steps is tried whatever became of the
\* ones before.
DeleteRedis(i) ==
  /\ \/ /\ WorkerAt(i, "redis", "local", TRUE)
        /\ redisEntry' = Absent
        /\ UNCHANGED faults
     \/ /\ WorkerAt(i, "redis", "local", FALSE)
        /\ Fault
        /\ UNCHANGED redisEntry
  /\ UNCHANGED <<mysql, local, inFlight>>

InvalidateLocal(i) ==
  /\ WorkerAt(i, "local", "publish", worker[i].ok)
  /\ ~Loading(i)
  /\ local' = [local EXCEPT ![i] = Absent]
  /\ UNCHANGED <<mysql, redisEntry, inFlight, faults>>

Broadcast == [i \in Instances |-> IF bound[i] THEN fanout[i] + 1 ELSE fanout[i]]

\* The broker confirms the message, or returns it when no queue is bound; or
\* the send or its confirm fails although the message may have gone out.
Publish(i) ==
  /\ worker[i].pc = "publish"
  /\ \E ok \in BOOLEAN :
       /\ worker' = [worker EXCEPT ![i].pc = "finish", ![i].ok = ok /\ @]
       /\ \/ /\ ok = (\E j \in Instances : bound[j])
             /\ fanout' = Broadcast
             /\ UNCHANGED faults
          \/ /\ ~ok
             /\ Fault
             /\ fanout' \in {fanout, Broadcast}
  /\ UNCHANGED <<mysql, caches, bound, parked, reader, consumer, inFlight>>

\* Bug: the first deletion is taken for the last one.
ScheduleDelayedStageAsCompleted(i) ==
  LET e == worker[i].now.event IN
  /\ WorkerDone(i)
  /\ worker[i].ok
  /\ worker[i].now.stage = Initial
  /\ outbox' = [outbox EXCEPT ![e].status = "completed"]
  /\ UNCHANGED <<failures, inFlight>>

\* Bug: the update does not ask whether the row is still being processed.
ScheduleDelayedStageUnguarded(i) ==
  LET e == worker[i].now.event IN
  /\ WorkerDone(i)
  /\ worker[i].ok
  /\ worker[i].now.stage = Initial
  /\ outbox' = [outbox EXCEPT ![e] =
       [status |-> "pending", stage |-> Delayed, retryCount |-> 0]]
  /\ failures' = [failures EXCEPT ![e] = 0]
  /\ UNCHANGED inFlight

\* The updates that end a claim ask for status 1, but not whose claim it is:
\* the row may have been recovered and claimed again meanwhile.
ScheduleDelayedStage(i) ==
  LET e == worker[i].now.event IN
  /\ WorkerDone(i)
  /\ worker[i].ok
  /\ worker[i].now.stage = Initial
  /\ IF outbox[e].status = "processing"
     THEN /\ outbox' = [outbox EXCEPT ![e] =
               [status |-> "pending", stage |-> Delayed, retryCount |-> 0]]
          /\ failures' = [failures EXCEPT ![e] = 0]
          /\ inFlight' = [inFlight EXCEPT ![e] =
               IF PromptReaders THEN {r \in Readers : reader[r].pc # "idle"} ELSE {}]
     ELSE UNCHANGED <<outbox, failures, inFlight>>

MarkCompleted(i) ==
  LET e == worker[i].now.event IN
  /\ WorkerDone(i)
  /\ worker[i].ok
  /\ worker[i].now.stage = Delayed
  /\ outbox' = IF outbox[e].status = "processing"
               THEN [outbox EXCEPT ![e].status = "completed"] ELSE outbox
  /\ UNCHANGED <<failures, inFlight>>

\* Bug: the comparison with the limit is off by one, at either side.
HandleFailureLate(i) ==
  LET e == worker[i].now.event
      retryCount == worker[i].now.retryCount + 1 IN
  /\ WorkerDone(i)
  /\ ~worker[i].ok
  /\ outbox' = [outbox EXCEPT
       ![e].status = IF retryCount > MaxRetries THEN "dead" ELSE "pending",
       ![e].retryCount = retryCount]
  /\ failures' = [failures EXCEPT ![e] = @ + 1]
  /\ UNCHANGED inFlight

HandleFailureEarly(i) ==
  LET e == worker[i].now.event
      retryCount == worker[i].now.retryCount + 1 IN
  /\ WorkerDone(i)
  /\ ~worker[i].ok
  /\ outbox' = [outbox EXCEPT
       ![e].status = IF retryCount >= MaxRetries - 1 THEN "dead" ELSE "pending",
       ![e].retryCount = retryCount]
  /\ failures' = [failures EXCEPT ![e] = @ + 1]
  /\ UNCHANGED inFlight

\* handleFailure counts from the snapshot: markRetry, or markDead at the end.
HandleFailure(i) ==
  LET e == worker[i].now.event
      retryCount == worker[i].now.retryCount + 1 IN
  /\ WorkerDone(i)
  /\ ~worker[i].ok
  /\ IF outbox[e].status = "processing"
     THEN /\ outbox' = [outbox EXCEPT
               ![e].status = IF retryCount >= MaxRetries THEN "dead" ELSE "pending",
               ![e].retryCount = retryCount]
          /\ failures' = [failures EXCEPT ![e] = @ + 1]
     ELSE UNCHANGED <<outbox, failures>>
  /\ UNCHANGED inFlight

\* The update that ends a successful attempt throws, which is a failure.
FinishThrows(i) ==
  /\ worker[i].ok
  /\ WorkerAt(i, "finish", "finish", FALSE)
  /\ Fault
  /\ UNCHANGED <<mysql, caches, inFlight>>

\* An exception leaves the loop, or the thread is gone: the batch is dropped
\* and the lease stays.
WorkerLost(i) ==
  /\ worker[i] # IdleWorker
  /\ worker' = [worker EXCEPT ![i] = IdleWorker]
  /\ Fault
  /\ UNCHANGED <<mysql, caches, queues, reader, consumer, inFlight>>

WorkerNext(i) ==
  \/ FindDue(i)
  \/ Claim(i)
  \/ DeleteRedis(i)
  \/ InvalidateLocal(i)
  \/ Publish(i)
  \/ ScheduleDelayedStage(i)
  \/ MarkCompleted(i)
  \/ HandleFailure(i)
  \/ FinishThrows(i)
  \/ WorkerLost(i)

-----------------------------------------------------------------------------
(* The listener: CacheInvalidateConsumer                                   *)

Receive(i) ==
  /\ consumer[i].pc = "idle"
  /\ fanout[i] > 0
  /\ fanout' = [fanout EXCEPT ![i] = @ - 1]
  /\ consumer' = [consumer EXCEPT ![i] = [pc |-> "redis", attempt |-> 1, ok |-> TRUE]]
  /\ UNCHANGED <<mysql, caches, bound, parked, reader, worker, inFlight, faults>>

ConsumeRedis(i) ==
  /\ consumer[i].pc = "redis"
  /\ \/ /\ redisEntry' = Absent
        /\ consumer' = [consumer EXCEPT ![i].pc = "local"]
        /\ UNCHANGED faults
     \/ /\ consumer' = [consumer EXCEPT ![i].pc = "local", ![i].ok = FALSE]
        /\ Fault
        /\ UNCHANGED redisEntry
  /\ UNCHANGED <<mysql, local, queues, reader, worker, inFlight>>

\* After a failure the retry interceptor tries again in the same thread; after
\* the last attempt the message goes to the parking queue.
ConsumeLocal(i) ==
  LET m == consumer[i] IN
  /\ m.pc = "local"
  /\ ~Loading(i)
  /\ local' = [local EXCEPT ![i] = Absent]
  /\ \/ /\ m.ok
        /\ consumer' = [consumer EXCEPT ![i] = IdleConsumer]
        /\ UNCHANGED parked
     \/ /\ ~m.ok /\ m.attempt < MaxAttempts
        /\ consumer' = [consumer EXCEPT ![i] =
             [pc |-> "redis", attempt |-> m.attempt + 1, ok |-> TRUE]]
        /\ UNCHANGED parked
     \/ /\ ~m.ok /\ m.attempt = MaxAttempts
        /\ consumer' = [consumer EXCEPT ![i] = IdleConsumer]
        /\ parked' = parked + 1
  /\ UNCHANGED <<mysql, redisEntry, fanout, bound, reader, worker, inFlight, faults>>

ConsumerNext(i) == Receive(i) \/ ConsumeRedis(i) \/ ConsumeLocal(i)

-----------------------------------------------------------------------------
(* Instances                                                               *)

\* The connection breaks: the exclusive queue goes with what is in it, and
\* the instance keeps its local cache.
Disconnect(i) ==
  /\ CanDisconnect
  /\ bound[i]
  /\ Fault
  /\ bound' = [bound EXCEPT ![i] = FALSE]
  /\ fanout' = [fanout EXCEPT ![i] = 0]
  /\ UNCHANGED <<mysql, caches, parked, reader, worker, consumer, inFlight>>

\* The connection is back and the queue is declared again.
Reconnect(i) ==
  /\ ~bound[i]
  /\ bound' = [bound EXCEPT ![i] = TRUE]
  /\ UNCHANGED <<mysql, caches, fanout, parked, reader, worker, consumer, inFlight, faults>>

\* The instance is killed and started again: its threads, its local cache and
\* its queue begin anew.
Crash(i) ==
  LET here == {r \in Readers : Home[r] = i} IN
  /\ Fault
  /\ local' = [local EXCEPT ![i] = Absent]
  /\ fanout' = [fanout EXCEPT ![i] = 0]
  /\ bound' = [bound EXCEPT ![i] = TRUE]
  /\ worker' = [worker EXCEPT ![i] = IdleWorker]
  /\ consumer' = [consumer EXCEPT ![i] = IdleConsumer]
  /\ reader' = [r \in Readers |-> IF r \in here THEN IdleReader ELSE reader[r]]
  /\ inFlight' = [e \in Events |-> inFlight[e] \ here]
  /\ UNCHANGED <<mysql, redisEntry, parked>>

InstanceNext(i) ==
  \/ WorkerNext(i)
  \/ ConsumerNext(i)
  \/ LocalExpires(i)
  \/ Disconnect(i)
  \/ Reconnect(i)
  \/ Crash(i)

Next ==
  \/ SaveShop
  \/ Update
  \/ RedisExpires
  \/ \E r \in Readers : ReaderNext(r)
  \/ \E e \in Events : RecoverExpired(e)
  \/ \E i \in Instances : InstanceNext(i)

Spec == Init /\ [][Next]_vars

-----------------------------------------------------------------------------
(* Safety                                                                  *)

Completed(e) == outbox[e].status = "completed"

Older(entry, e) == entry # Absent /\ entry < e

\* Once the event of an update is completed, Redis no longer holds what was
\* there before the update, although a read that took the old row from MySQL
\* may have put it back after the first deletion.
RedisFresh == \A e \in Events : Completed(e) => ~Older(redisEntry, e)

\* Once an instance has handled the broadcasts of a completed event, its local
\* cache is not older than the update either, although a load of the old
\* content may have been under way when the broadcast came.
LocalFresh ==
  \A e \in Events, i \in Instances :
    Completed(e) /\ fanout[i] = 0 /\ consumer[i].pc = "idle" => ~Older(local[i], e)

\* An event is final when it is completed or dead, and never falls back to
\* its first stage, whatever a task that lost its lease still writes.
FinalIsFinal ==
  [][\A e \in Events :
       /\ outbox[e].status \in {"completed", "dead"} => outbox'[e] = outbox[e]
       /\ outbox'[e].stage >= outbox[e].stage]_vars

\* An event is given up only after the configured number of failures of the
\* stage it is in.
DeadAfterRetries ==
  \A e \in Events : outbox[e].status = "dead" => failures[e] >= MaxRetries

-----------------------------------------------------------------------------
(* Liveness                                                                *)

ReaderSteps(r) == ReadRedis(r) \/ ReadMySQL(r) \/ FillRedis(r) \/ StoreLocal(r)

WorkerSteps(i) ==
  \/ Claim(i)
  \/ DeleteRedis(i)
  \/ InvalidateLocal(i)
  \/ Publish(i)
  \/ ScheduleDelayedStage(i)
  \/ MarkCompleted(i)
  \/ HandleFailure(i)

\* Threads run on, the task scans again and again and finds what stays due,
\* leases and cache entries run out, and connections come back.  An
\* invalidation that waits for the lock of the key gets it between two loads.
\* Nobody has to read or write the shop, and no fault has to happen.
Fairness ==
  /\ \A r \in Readers : WF_vars(ReaderSteps(r))
  /\ \A e \in Events : SF_vars(RecoverExpired(e) /\ UNCHANGED faults)
  /\ \A i \in Instances :
       /\ WF_vars(WorkerSteps(i))
       /\ WF_vars(ConsumerNext(i))
       /\ SF_vars(InvalidateLocal(i))
       /\ SF_vars(ConsumeLocal(i))
       /\ WF_vars(LocalExpires(i))
       /\ WF_vars(Reconnect(i))
  /\ \A e \in Events, i \in Instances :
       SF_vars(FindDue(i) /\ \E s \in worker'[i].batch : s.event = e)
  /\ WF_vars(RedisExpires)

FairSpec == Spec /\ Fairness

\* An invalidation that was committed with an update is carried out or given
\* up for an operator, whatever crashed on the way.
EventuallyFinished ==
  \A e \in Events :
    outbox[e].status = "pending" ~> outbox[e].status \in {"completed", "dead"}

\* After the last write all caches follow the row, for events that died and
\* for readers of any slowness as well.
EventuallyFresh ==
  <>[](/\ redisEntry \in {Absent, row}
       /\ \A i \in Instances : local[i] \in {Absent, row})
=============================================================================
