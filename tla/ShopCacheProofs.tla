--------------------------- MODULE ShopCacheProofs ---------------------------
(***************************************************************************)
(* Proofs about the shop cache and its outbox, for all instances, readers, *)
(* limits and numbers of faults.                                           *)
(*                                                                         *)
(* Every thread and every event satisfies a predicate of its own record;   *)
(* an action changes at most one thread of each kind and one event, so it  *)
(* is enough to look at the records it writes.                             *)
(***************************************************************************)
EXTENDS ShopCache, TLAPS

-----------------------------------------------------------------------------
(* The inductive invariant                                                 *)

ReaderType ==
  [pc : {"idle", "redis", "db", "fill", "store"},
   mode : {"locked", "put", "direct"}, value : Entries]

\* A read that fills the caches has something to fill them with.
ReaderOK(x) ==
  /\ x \in ReaderType
  /\ x.pc = "fill" => x.value # Absent
  /\ x.pc = "store" => x.value \notin {0, Absent}

EventType ==
  [status : EventStatus, stage : {Initial, Delayed}, retryCount : 0..MaxRetries]

\* An event that is not finished is below the retry limit.
EventOK(x) ==
  /\ x \in EventType
  /\ x.status \in {"pending", "processing"} => x.retryCount < MaxRetries

SnapshotOK(s) == s \in Snapshot /\ s.retryCount < MaxRetries

WorkerType ==
  [pc : {"idle", "redis", "local", "publish", "finish"},
   batch : SUBSET Snapshot, now : Snapshot \cup {NoSnapshot}, ok : BOOLEAN]

\* What a task remembers of an event is below the retry limit too, and a busy
\* task has claimed an event.
WorkerOK(w) ==
  /\ w \in WorkerType
  /\ \A s \in w.batch : SnapshotOK(s)
  /\ w.pc # "idle" => SnapshotOK(w.now)

ListenerType ==
  [pc : {"idle", "redis", "local"}, attempt : 0..MaxAttempts, ok : BOOLEAN]

ReadersOK ==
  /\ reader \in [Readers -> ReaderType]
  /\ \A r \in Readers : ReaderOK(reader[r])

\* Only updates that happened have events.
OutboxOK ==
  /\ row \in Versions
  /\ outbox \in [Events -> EventType]
  /\ \A e \in Events : EventOK(outbox[e]) /\ (e > row => outbox[e] = NoEvent)

WorkersOK ==
  /\ worker \in [Instances -> WorkerType]
  /\ \A i \in Instances : WorkerOK(worker[i])

ListenersOK == consumer \in [Instances -> ListenerType]

CachesOK ==
  /\ redisEntry \in Entries
  /\ local \in [Instances -> (Versions \ {0}) \cup {Absent}]

QueuesOK ==
  /\ fanout \in [Instances -> Nat]
  /\ bound \in [Instances -> BOOLEAN]
  /\ parked \in Nat

HistoryOK ==
  /\ failures \in [Events -> Nat]
  /\ inFlight \in [Events -> SUBSET Readers]
  /\ faults \in 0..MaxFaults

CacheInv ==
  /\ ReadersOK
  /\ OutboxOK
  /\ WorkersOK
  /\ ListenersOK
  /\ CachesOK
  /\ QueuesOK
  /\ HistoryOK

\* What FinalIsFinal says of a step.
NoRelapse ==
  \A e \in Events :
    /\ outbox[e].status \in {"completed", "dead"} => outbox'[e] = outbox[e]
    /\ outbox'[e].stage >= outbox[e].stage

\* The parts of the invariant make up the types of the specification.
LEMMA InvImpliesType == CacheInv => TypeOK
  BY DEF CacheInv, ReadersOK, OutboxOK, WorkersOK, ListenersOK, CachesOK, QueuesOK,
     HistoryOK, TypeOK, ReaderType, EventType, WorkerType, ListenerType

-----------------------------------------------------------------------------
(* Records                                                                 *)

\* What a thread or an event starts from is good.
LEMMA Initials ==
  /\ ReaderOK(IdleReader)
  /\ EventOK(NoEvent)
  /\ WorkerOK(IdleWorker)
  /\ IdleConsumer \in ListenerType
<1>1. ReaderOK(IdleReader)
  BY DEF ReaderOK, IdleReader, ReaderType, Entries
<1>2. EventOK(NoEvent)
  BY ShopCacheAssumption DEF EventOK, NoEvent, EventType, EventStatus, Initial
<1>3. WorkerOK(IdleWorker)
  BY DEF WorkerOK, IdleWorker, WorkerType, NoSnapshot
<1>4. IdleConsumer \in ListenerType
  BY ShopCacheAssumption DEF IdleConsumer, ListenerType
<1>5. QED
  BY <1>1, <1>2, <1>3, <1>4

\* A fault is within the bound.
LEMMA FaultCounted ==
  ASSUME HistoryOK, Fault
  PROVE  faults' \in 0..MaxFaults
  BY ShopCacheAssumption DEF HistoryOK, Fault

\* A thread that gets a good record leaves the threads of its kind good.
LEMMA ReaderWrite ==
  ASSUME ReadersOK, NEW r \in Readers, NEW x, ReaderOK(x),
         reader' = [reader EXCEPT ![r] = x]
  PROVE  ReadersOK'
  BY DEF ReadersOK, ReaderOK

\* The same for the outbox tasks.
LEMMA WorkerWrite ==
  ASSUME WorkersOK, NEW i \in Instances, NEW w, WorkerOK(w),
         worker' = [worker EXCEPT ![i] = w]
  PROVE  WorkersOK'
  BY DEF WorkersOK, WorkerOK

\* An open event that gets a good record, of no earlier stage.
LEMMA EventWrite ==
  ASSUME OutboxOK, NEW e \in Events, outbox[e].status \in {"pending", "processing"},
         NEW x, EventOK(x), x.stage >= outbox[e].stage,
         outbox' = [outbox EXCEPT ![e] = x], row' = row
  PROVE  OutboxOK' /\ NoRelapse
<1>1. outbox[e] # NoEvent
  BY DEF NoEvent
<1>2. OutboxOK'
  BY <1>1 DEF OutboxOK, EventOK
<1>3. ASSUME NEW f \in Events
      PROVE  /\ outbox[f].status \in {"completed", "dead"} => outbox'[f] = outbox[f]
             /\ outbox'[f].stage >= outbox[f].stage
  BY DEF OutboxOK, EventType, Initial, Delayed
<1>4. QED
  BY <1>2, <1>3 DEF NoRelapse

-----------------------------------------------------------------------------
(* Steps                                                                   *)

\* The invariant holds at the start.
LEMMA InitHolds == Init => CacheInv
<1>1. SUFFICES ASSUME Init
               PROVE  CacheInv
  OBVIOUS
<1>2. ReadersOK
  BY <1>1, Initials DEF Init, ReadersOK, ReaderOK
<1>3. OutboxOK
  BY <1>1, Initials DEF Init, OutboxOK, EventOK
<1>4. WorkersOK
  BY <1>1, Initials DEF Init, WorkersOK, WorkerOK
<1>5. ListenersOK
  BY <1>1, Initials DEF Init, ListenersOK
<1>6. CachesOK /\ QueuesOK /\ HistoryOK
  BY <1>1, ShopCacheAssumption DEF Init, CachesOK, QueuesOK, HistoryOK, Entries
<1>7. QED
  BY <1>2, <1>3, <1>4, <1>5, <1>6 DEF CacheInv

\* What a step leaves alone stays as it is: the readers,
LEMMA ReadersKept == ASSUME ReadersOK, UNCHANGED reader PROVE ReadersOK'
  BY DEF ReadersOK
\* The outbox, which then loses nothing either.
LEMMA OutboxKept ==
  ASSUME OutboxOK, UNCHANGED <<row, outbox>>
  PROVE  OutboxOK' /\ NoRelapse
  BY DEF OutboxOK, NoRelapse, EventType, Initial, Delayed
\* The tasks.
LEMMA WorkersKept == ASSUME WorkersOK, UNCHANGED worker PROVE WorkersOK'
  BY DEF WorkersOK
\* The listeners.
LEMMA ListenersKept == ASSUME ListenersOK, UNCHANGED consumer PROVE ListenersOK'
  BY DEF ListenersOK
\* The caches.
LEMMA CachesKept == ASSUME CachesOK, UNCHANGED caches PROVE CachesOK'
  BY DEF CachesOK, caches
\* The queues.
LEMMA QueuesKept == ASSUME QueuesOK, UNCHANGED queues PROVE QueuesOK'
  BY DEF QueuesOK, queues

\* saveShop and update.
LEMMA WriteStep ==
  ASSUME CacheInv, SaveShop \/ Update
  PROVE  CacheInv' /\ NoRelapse
<1> USE DEF CacheInv
<1>1. UNCHANGED <<reader, worker, consumer, caches, queues, failures, inFlight, faults>>
  BY DEF SaveShop, Update
<1>2. OutboxOK' /\ NoRelapse
  <2>1. CASE SaveShop
    <3>1. OutboxOK'
      BY <2>1, ShopCacheAssumption DEF SaveShop, OutboxOK, EventOK, Versions, Events
    <3>2. NoRelapse
      BY <2>1 DEF SaveShop, OutboxOK, NoRelapse, EventType, Initial, Delayed
    <3>3. QED
      BY <3>1, <3>2
  <2>2. CASE Update
    <3>1. [NoEvent EXCEPT !.status = "pending"]
            = [status |-> "pending", stage |-> Initial, retryCount |-> 0]
      BY DEF NoEvent
    <3>2. EventOK([status |-> "pending", stage |-> Initial, retryCount |-> 0])
      BY ShopCacheAssumption DEF EventOK, EventType, EventStatus
    <3>3. outbox' = [outbox EXCEPT ![row + 1] =
                       [status |-> "pending", stage |-> Initial, retryCount |-> 0]]
      BY <2>2, <3>1 DEF Update
    <3>4. row + 1 \in Events /\ row' = row + 1 /\ row' \in Versions
      BY <2>2, ShopCacheAssumption DEF Update, OutboxOK, Versions, Events
    <3>5. outbox[row + 1] = NoEvent
      BY <3>4 DEF OutboxOK, Versions
    <3>6. OutboxOK'
      BY <3>2, <3>3, <3>4 DEF OutboxOK, EventOK, Versions, Events
    <3>7. NoRelapse
      BY <3>3, <3>4, <3>5 DEF OutboxOK, NoRelapse, NoEvent, EventType, Initial, Delayed
    <3>8. QED
      BY <3>6, <3>7
  <2>3. QED
    BY <2>1, <2>2
<1>3. HistoryOK'
  BY <1>1 DEF HistoryOK
<1>4. QED
  BY <1>1, <1>2, <1>3, ReadersKept, WorkersKept, ListenersKept, CachesKept, QueuesKept

\* A read that goes on has a value fit for its next step.
LEMMA ReaderGoesOn ==
  ASSUME ReadersOK, HistoryOK, NEW r \in Readers, NEW from,
         NEW to \in {"redis", "db", "fill", "store"}, NEW value \in Entries,
         to = "fill" => value # Absent, to = "store" => value \notin {0, Absent},
         ReaderAt(r, from, to, value), faults' \in 0..MaxFaults, failures' = failures
  PROVE  ReadersOK' /\ HistoryOK'
<1> DEFINE x == [reader[r] EXCEPT !.pc = to, !.value = value]
<1>1. ReaderOK(x)
  BY DEF ReadersOK, ReaderOK, ReaderType
<1>2. reader' = [reader EXCEPT ![r] = x]
  BY DEF ReaderAt
<1>3. HistoryOK'
  BY DEF HistoryOK, ReaderAt
<1>4. QED
  BY <1>1, <1>2, <1>3, ReaderWrite

\* A read that ends.
LEMMA ReaderEnds ==
  ASSUME ReadersOK, HistoryOK, NEW r \in Readers, NEW from,
         ReaderDone(r, from), faults' \in 0..MaxFaults, failures' = failures
  PROVE  ReadersOK' /\ HistoryOK'
<1>1. ReadersOK'
  BY Initials, ReaderWrite DEF ReaderDone
<1>2. HistoryOK'
  BY DEF HistoryOK, ReaderDone
<1>3. QED
  BY <1>1, <1>2

\* ShopCacheService.
LEMMA ReaderStep ==
  ASSUME CacheInv, NEW r \in Readers, ReaderNext(r)
  PROVE  CacheInv' /\ NoRelapse
<1> USE DEF CacheInv
<1>1. UNCHANGED <<row, outbox, failures, worker, consumer, queues>>
  BY DEF ReaderNext, StartRead, ReadRedis, ReadMySQL, FillRedis, StoreLocal, ReadLost, mysql
<1>2. faults' \in 0..MaxFaults
  <2>1. Fault \/ UNCHANGED faults
    BY DEF ReaderNext, StartRead, ReadRedis, ReadMySQL, FillRedis, StoreLocal, ReadLost
  <2>2. QED
    BY <2>1, FaultCounted DEF HistoryOK
<1>3. ReadersOK' /\ CachesOK' /\ HistoryOK'
  <2>1. CASE StartRead(r)
    <3>1. PICK mode \in {"locked", "put", "direct"} :
            reader' = [reader EXCEPT ![r] = [IdleReader EXCEPT !.pc = "redis", !.mode = mode]]
      BY <2>1 DEF StartRead
    <3>2. ReaderOK([IdleReader EXCEPT !.pc = "redis", !.mode = mode])
      BY DEF ReaderOK, ReaderType, IdleReader, Entries
    <3>3. QED
      BY <1>1, <1>2, <2>1, <3>1, <3>2, ReaderWrite, CachesKept DEF StartRead, HistoryOK
  <2>2. CASE ReadRedis(r)
    <3>1. CachesOK' /\ redisEntry \in Entries
      BY <2>2, CachesKept DEF ReadRedis, CachesOK
    <3>2. \/ redisEntry \notin {0, Absent} /\ ReaderAt(r, "redis", "store", redisEntry)
          \/ ReaderDone(r, "redis")
          \/ ReaderAt(r, "redis", "db", Absent)
      BY <2>2 DEF ReadRedis
    <3>3. Absent \in Entries
      BY DEF Entries
    <3>4. QED
      BY <1>1, <1>2, <3>1, <3>2, <3>3, ReaderGoesOn, ReaderEnds
  <2>3. CASE ReadMySQL(r)
    <3>1. row \in Entries /\ row # Absent
      BY ShopCacheAssumption DEF OutboxOK, Entries, Versions
    <3>2. ReadersOK' /\ HistoryOK'
      BY <1>1, <1>2, <2>3, <3>1, ReaderGoesOn DEF ReadMySQL
    <3>3. QED
      BY <2>3, <3>2, CachesKept DEF ReadMySQL
  <2>4. CASE FillRedis(r)
    <3>1. reader[r].pc = "fill" /\ reader[r].value \in Entries /\ reader[r].value # Absent
      BY <2>4 DEF FillRedis, ReaderAt, ReaderDone, ReadersOK, ReaderOK, ReaderType
    <3>2. CachesOK'
      BY <2>4, <3>1 DEF FillRedis, CachesOK
    <3>3. \/ reader[r].value # 0 /\ ReaderAt(r, "fill", "store", reader[r].value)
          \/ ReaderDone(r, "fill")
      BY <2>4 DEF FillRedis
    <3>4. QED
      BY <1>1, <1>2, <3>1, <3>2, <3>3, ReaderGoesOn, ReaderEnds
  <2>5. CASE StoreLocal(r)
    <3>1. reader[r].value \in Versions \ {0}
      BY <2>5 DEF StoreLocal, ReaderDone, ReadersOK, ReaderOK, ReaderType, Entries
    <3>2. CachesOK'
      BY <2>5, <3>1 DEF StoreLocal, CachesOK
    <3>3. QED
      BY <1>1, <1>2, <2>5, <3>2, ReaderEnds DEF StoreLocal
  <2>6. CASE ReadLost(r)
    BY <1>1, <1>2, <2>6, ReaderEnds, CachesKept DEF ReadLost
  <2>7. QED
    BY <2>1, <2>2, <2>3, <2>4, <2>5, <2>6 DEF ReaderNext
<1>4. QED
  BY <1>1, <1>3, OutboxKept, WorkersKept, ListenersKept, QueuesKept

\* A busy task goes on with the event it has claimed.
LEMMA WorkerGoesOn ==
  ASSUME WorkersOK, NEW i \in Instances, NEW from \in {"redis", "local", "publish", "finish"},
         NEW to \in {"local", "publish", "finish"}, NEW ok \in BOOLEAN,
         worker[i].pc = from,
         worker' = [worker EXCEPT ![i].pc = to, ![i].ok = ok]
  PROVE  WorkersOK'
<1> DEFINE w == [worker[i] EXCEPT !.pc = to, !.ok = ok]
<1>1. WorkerOK(w)
  BY DEF WorkersOK, WorkerOK, WorkerType
<1>2. worker' = [worker EXCEPT ![i] = w]
  OBVIOUS
<1>3. QED
  BY <1>1, <1>2, WorkerWrite

\* A task with an idle thread and a good batch is good.
LEMMA WorkerWithBatch ==
  ASSUME NEW batch, \A s \in batch : SnapshotOK(s)
  PROVE  WorkerOK([IdleWorker EXCEPT !.batch = batch])
  BY DEF WorkerOK, WorkerType, IdleWorker, NoSnapshot, SnapshotOK

\* A task that is done with an event.
LEMMA WorkerEnds ==
  ASSUME WorkersOK, NEW i \in Instances, WorkerDone(i)
  PROVE  WorkersOK' /\ SnapshotOK(worker[i].now)
<1>1. \A s \in worker[i].batch : SnapshotOK(s)
  BY DEF WorkersOK, WorkerOK
<1>2. WorkersOK'
  BY <1>1, WorkerWithBatch, WorkerWrite DEF WorkerDone
<1>3. SnapshotOK(worker[i].now)
  BY DEF WorkersOK, WorkerOK, WorkerDone
<1>4. QED
  BY <1>2, <1>3

\* CacheInvalidationOutboxTask.
LEMMA WorkerStep ==
  ASSUME CacheInv, NEW i \in Instances, WorkerNext(i)
  PROVE  CacheInv' /\ NoRelapse
<1> USE DEF CacheInv
<1>1. UNCHANGED <<row, reader, consumer>>
  BY DEF WorkerNext, FindDue, Claim, DeleteRedis, InvalidateLocal, Publish,
     ScheduleDelayedStage, MarkCompleted, HandleFailure, FinishThrows, WorkerLost,
     WorkerAt, WorkerDone, mysql
<1>2. faults' \in 0..MaxFaults
  <2>1. Fault \/ UNCHANGED faults
    BY DEF WorkerNext, FindDue, Claim, DeleteRedis, InvalidateLocal, Publish,
       ScheduleDelayedStage, MarkCompleted, HandleFailure, FinishThrows, WorkerLost,
       WorkerDone
  <2>2. QED
    BY <2>1, FaultCounted DEF HistoryOK
<1>3. HistoryOK'
  <2>1. failures' \in [Events -> Nat] /\ inFlight' \in [Events -> SUBSET Readers]
    <3>1. CASE ScheduleDelayedStage(i)
      BY <3>1 DEF ScheduleDelayedStage, HistoryOK
    <3>2. CASE HandleFailure(i)
      BY <3>2 DEF HandleFailure, HistoryOK
    <3>3. CASE UNCHANGED <<failures, inFlight>>
      BY <3>3 DEF HistoryOK
    <3>4. QED
      BY <3>1, <3>2, <3>3 DEF WorkerNext, FindDue, Claim, DeleteRedis, InvalidateLocal,
         Publish, MarkCompleted, FinishThrows, WorkerLost, mysql
  <2>2. QED
    BY <1>2, <2>1 DEF HistoryOK
<1>4. CachesOK' /\ QueuesOK'
  <2>1. CASE DeleteRedis(i) \/ InvalidateLocal(i)
    <3>1. redisEntry' \in Entries
      BY <2>1 DEF DeleteRedis, InvalidateLocal, CachesOK, Entries
    <3>2. local' \in [Instances -> (Versions \ {0}) \cup {Absent}]
      BY <2>1 DEF DeleteRedis, InvalidateLocal, CachesOK
    <3>3. UNCHANGED queues
      BY <2>1 DEF DeleteRedis, InvalidateLocal, WorkerAt
    <3>4. QED
      BY <3>1, <3>2, <3>3, QueuesKept DEF CachesOK
  <2>2. CASE Publish(i)
    <3>1. Broadcast \in [Instances -> Nat]
      BY DEF Broadcast, QueuesOK
    <3>2. fanout' \in {fanout, Broadcast} /\ UNCHANGED <<bound, parked, caches>>
      BY <2>2 DEF Publish
    <3>3. QED
      BY <3>1, <3>2, CachesKept DEF QueuesOK
  <2>3. CASE UNCHANGED <<caches, queues>>
    BY <2>3, CachesKept, QueuesKept
  <2>4. QED
    BY <2>1, <2>2, <2>3 DEF WorkerNext, FindDue, Claim, ScheduleDelayedStage,
       MarkCompleted, HandleFailure, FinishThrows, WorkerLost, WorkerAt, WorkerDone
<1>5. WorkersOK' /\ OutboxOK' /\ NoRelapse
  <2>1. CASE FindDue(i)
    <3>1. PICK due \in SUBSET {e \in Events : MayBeDue(e)} \ {{}} :
            worker' = [worker EXCEPT ![i].batch = {SnapshotOf(e) : e \in due}]
      BY <2>1 DEF FindDue
    <3>2. \A s \in {SnapshotOf(e) : e \in due} : SnapshotOK(s)
      BY DEF SnapshotOf, SnapshotOK, Snapshot, MayBeDue, OutboxOK, EventOK, EventType
    <3>3. worker' = [worker EXCEPT ![i] =
                       [IdleWorker EXCEPT !.batch = {SnapshotOf(e) : e \in due}]]
      BY <2>1, <3>1 DEF FindDue
    <3>4. WorkersOK'
      BY <3>2, <3>3, WorkerWithBatch, WorkerWrite
    <3>5. QED
      BY <2>1, <3>4, OutboxKept DEF FindDue, mysql
  <2>2. CASE Claim(i)
    <3>1. PICK s \in worker[i].batch :
            \/ /\ outbox[s.event].status = "pending"
               /\ outbox' = [outbox EXCEPT ![s.event].status = "processing"]
               /\ worker' = [worker EXCEPT ![i] =
                    [pc |-> "redis", batch |-> @.batch \ {s}, now |-> s, ok |-> TRUE]]
            \/ /\ worker' = [worker EXCEPT ![i].batch = @ \ {s}]
               /\ UNCHANGED outbox
      BY <2>2 DEF Claim
    <3>2. SnapshotOK(s) /\ s.event \in Events
      BY DEF WorkersOK, WorkerOK, SnapshotOK, Snapshot
    <3>3. CASE /\ outbox[s.event].status = "pending"
               /\ outbox' = [outbox EXCEPT ![s.event].status = "processing"]
               /\ worker' = [worker EXCEPT ![i] =
                    [pc |-> "redis", batch |-> @.batch \ {s}, now |-> s, ok |-> TRUE]]
      <4> DEFINE w == [pc |-> "redis", batch |-> worker[i].batch \ {s}, now |-> s, ok |-> TRUE]
                 x == [outbox[s.event] EXCEPT !.status = "processing"]
      <4>1. WorkerOK(w)
        BY <3>2 DEF WorkersOK, WorkerOK, WorkerType, SnapshotOK
      <4>2. EventOK(x) /\ x.stage >= outbox[s.event].stage
        BY <3>2, <3>3 DEF OutboxOK, EventOK, EventType, EventStatus, Initial, Delayed
      <4>3. worker' = [worker EXCEPT ![i] = w] /\ outbox' = [outbox EXCEPT ![s.event] = x]
        BY <3>3
      <4> HIDE DEF w, x
      <4>4. WorkersOK'
        BY <4>1, <4>3, WorkerWrite
      <4>5. OutboxOK' /\ NoRelapse
        BY <1>1, <3>2, <3>3, <4>2, <4>3, EventWrite
      <4>6. QED
        BY <4>4, <4>5
    <3>4. CASE worker' = [worker EXCEPT ![i].batch = @ \ {s}] /\ UNCHANGED outbox
      <4> DEFINE w == [worker[i] EXCEPT !.batch = @ \ {s}]
      <4>1. WorkerOK(w)
        BY DEF WorkersOK, WorkerOK, WorkerType
      <4>2. worker' = [worker EXCEPT ![i] = w]
        BY <3>4
      <4>3. QED
        BY <1>1, <3>4, <4>1, <4>2, WorkerWrite, OutboxKept
    <3>5. QED
      BY <3>1, <3>3, <3>4
  <2>3. CASE DeleteRedis(i) \/ InvalidateLocal(i) \/ FinishThrows(i)
    <3>1. UNCHANGED outbox
      BY <2>3 DEF DeleteRedis, InvalidateLocal, FinishThrows, mysql
    <3>2. worker[i].ok \in BOOLEAN
      BY DEF WorkersOK, WorkerOK, WorkerType
    <3>3. PICK from \in {"redis", "local", "publish", "finish"},
               to \in {"local", "publish", "finish"}, ok \in BOOLEAN : WorkerAt(i, from, to, ok)
      BY <2>3, <3>2 DEF DeleteRedis, InvalidateLocal, FinishThrows
    <3>4. WorkersOK'
      BY <3>3, WorkerGoesOn DEF WorkerAt
    <3>5. QED
      BY <1>1, <3>1, <3>4, OutboxKept
  <2>4. CASE Publish(i)
    <3>1. worker[i].ok \in BOOLEAN
      BY DEF WorkersOK, WorkerOK, WorkerType
    <3>2. PICK ok \in BOOLEAN :
            worker' = [worker EXCEPT ![i].pc = "finish", ![i].ok = ok /\ @]
      BY <2>4 DEF Publish
    <3>3. worker' = [worker EXCEPT ![i].pc = "finish", ![i].ok = ok /\ worker[i].ok]
      BY <3>2
    <3>4. WorkersOK'
      BY <2>4, <3>1, <3>3, WorkerGoesOn DEF Publish
    <3>5. QED
      BY <2>4, <3>4, OutboxKept DEF Publish, mysql
  <2>5. CASE ScheduleDelayedStage(i) \/ MarkCompleted(i) \/ HandleFailure(i)
    <3> DEFINE e == worker[i].now.event
    <3>1. WorkersOK' /\ SnapshotOK(worker[i].now)
      BY <2>5, WorkerEnds DEF ScheduleDelayedStage, MarkCompleted, HandleFailure
    <3>2. e \in Events
      BY <3>1 DEF SnapshotOK, Snapshot
    <3>3. CASE UNCHANGED outbox
      BY <1>1, <3>1, <3>3, OutboxKept
    <3>4. CASE outbox' # outbox
      <4>1. outbox[e].status = "processing"
        BY <2>5, <3>4 DEF ScheduleDelayedStage, MarkCompleted, HandleFailure
      <4>2. ASSUME NEW x, EventOK(x), x.stage >= outbox[e].stage,
                   outbox' = [outbox EXCEPT ![e] = x]
            PROVE  OutboxOK' /\ NoRelapse
        BY <1>1, <3>2, <4>1, <4>2, EventWrite
      <4>3. outbox[e] \in EventType
        BY <3>2 DEF OutboxOK
      <4>4. CASE ScheduleDelayedStage(i)
        <5> DEFINE x == [status |-> "pending", stage |-> Delayed, retryCount |-> 0]
        <5>1. EventOK(x) /\ x.stage >= outbox[e].stage
          BY <4>3, ShopCacheAssumption DEF EventOK, EventType, EventStatus, Initial, Delayed
        <5>2. outbox' = [outbox EXCEPT ![e] = x]
          BY <4>1, <4>4 DEF ScheduleDelayedStage
        <5> HIDE DEF x
        <5>3. QED
          BY <3>1, <4>2, <5>1, <5>2
      <4>5. CASE MarkCompleted(i)
        <5> DEFINE x == [outbox[e] EXCEPT !.status = "completed"]
        <5>1. EventOK(x) /\ x.stage >= outbox[e].stage
          BY <4>3 DEF EventOK, EventType, EventStatus, Initial, Delayed
        <5>2. outbox' = [outbox EXCEPT ![e] = x]
          BY <4>1, <4>5 DEF MarkCompleted
        <5> HIDE DEF x
        <5>3. QED
          BY <3>1, <4>2, <5>1, <5>2
      <4>6. CASE HandleFailure(i)
        <5> DEFINE n == worker[i].now.retryCount + 1
                   x == [outbox[e] EXCEPT
                           !.status = IF n >= MaxRetries THEN "dead" ELSE "pending",
                           !.retryCount = n]
        <5>1. n \in 1..MaxRetries
          BY <3>1, ShopCacheAssumption DEF SnapshotOK, Snapshot
        <5>2. EventOK(x) /\ x.stage >= outbox[e].stage
          <6>1. x.retryCount = n /\ x.stage = outbox[e].stage
            BY <4>3 DEF EventType
          <6>2. x.status = IF n >= MaxRetries THEN "dead" ELSE "pending"
            BY <4>3 DEF EventType
          <6>3. n \in 0..MaxRetries /\ (x.status = "pending" => n < MaxRetries)
            BY <5>1, <6>2, ShopCacheAssumption
          <6>4. x \in EventType
            BY <4>3, <6>3 DEF EventType, EventStatus
          <6>5. x.stage >= outbox[e].stage
            BY <4>3, <6>1 DEF EventType, Initial, Delayed
          <6>6. QED
            BY <6>1, <6>2, <6>3, <6>4, <6>5 DEF EventOK
        <5>3. outbox' = [outbox EXCEPT ![e] = x]
          BY <4>1, <4>6 DEF HandleFailure
        <5> HIDE DEF x
        <5>4. QED
          BY <3>1, <4>2, <5>2, <5>3
      <4>7. QED
        BY <2>5, <4>4, <4>5, <4>6
    <3>5. QED
      BY <3>3, <3>4
  <2>6. CASE WorkerLost(i)
    BY <2>6, Initials, WorkerWrite, OutboxKept DEF WorkerLost, mysql
  <2>7. QED
    BY <2>1, <2>2, <2>3, <2>4, <2>5, <2>6 DEF WorkerNext
<1>6. QED
  BY <1>1, <1>3, <1>4, <1>5, ReadersKept, ListenersKept

\* CacheInvalidateConsumer.
LEMMA ListenerStep ==
  ASSUME CacheInv, NEW i \in Instances, ConsumerNext(i)
  PROVE  CacheInv' /\ NoRelapse
<1> USE DEF CacheInv
<1>1. UNCHANGED <<row, outbox, failures, reader, worker, inFlight>>
  BY DEF ConsumerNext, Receive, ConsumeRedis, ConsumeLocal, mysql
<1>2. HistoryOK'
  <2>1. Fault \/ UNCHANGED faults
    BY DEF ConsumerNext, Receive, ConsumeRedis, ConsumeLocal
  <2>2. QED
    BY <1>1, <2>1, FaultCounted DEF HistoryOK
<1>3. CachesOK' /\ QueuesOK'
  <2>1. CASE Receive(i)
    BY <2>1, CachesKept DEF Receive, QueuesOK
  <2>2. CASE ConsumeRedis(i)
    BY <2>2, QueuesKept DEF ConsumeRedis, CachesOK, Entries
  <2>3. CASE ConsumeLocal(i)
    BY <2>3 DEF ConsumeLocal, CachesOK, QueuesOK
  <2>4. QED
    BY <2>1, <2>2, <2>3 DEF ConsumerNext
<1>4. ListenersOK'
  <2>1. CASE Receive(i)
    BY <2>1, ShopCacheAssumption DEF Receive, ListenersOK, ListenerType
  <2>2. CASE ConsumeRedis(i)
    BY <2>2 DEF ConsumeRedis, ListenersOK, ListenerType
  <2>3. CASE ConsumeLocal(i)
    <3>1. consumer[i].attempt < MaxAttempts => consumer[i].attempt + 1 \in 0..MaxAttempts
      BY ShopCacheAssumption DEF ListenersOK, ListenerType
    <3>2. \E m \in ListenerType : consumer' = [consumer EXCEPT ![i] = m]
      BY <2>3, <3>1, Initials DEF ConsumeLocal, ListenerType
    <3>3. QED
      BY <3>2 DEF ListenersOK
  <2>4. QED
    BY <2>1, <2>2, <2>3 DEF ConsumerNext
<1>5. QED
  BY <1>1, <1>2, <1>3, <1>4, ReadersKept, OutboxKept, WorkersKept

\* Connections, crashes and the lifetimes of leases and entries.
LEMMA EnvironmentStep ==
  ASSUME CacheInv,
         \/ RedisExpires
         \/ \E e \in Events : RecoverExpired(e)
         \/ \E i \in Instances : LocalExpires(i) \/ Disconnect(i) \/ Reconnect(i) \/ Crash(i)
  PROVE  CacheInv' /\ NoRelapse
<1> USE DEF CacheInv
<1>1. CASE RedisExpires
  <2>1. CachesOK' /\ HistoryOK'
    BY <1>1 DEF RedisExpires, mysql, CachesOK, HistoryOK, Entries
  <2>2. QED
    BY <1>1, <2>1, ReadersKept, OutboxKept, WorkersKept, ListenersKept, QueuesKept
    DEF RedisExpires, mysql
<1>2. ASSUME NEW e \in Events, RecoverExpired(e)
      PROVE  CacheInv' /\ NoRelapse
  <2> DEFINE x == [outbox[e] EXCEPT !.status = "pending"]
  <2>1. EventOK(x) /\ x.stage >= outbox[e].stage
    BY <1>2 DEF RecoverExpired, OutboxOK, EventOK, EventType, EventStatus, Initial, Delayed
  <2>2. /\ outbox' = [outbox EXCEPT ![e] = x]
        /\ outbox[e].status \in {"pending", "processing"}
        /\ row' = row
    BY <1>2 DEF RecoverExpired
  <2> HIDE DEF x
  <2>3. OutboxOK' /\ NoRelapse
    BY <2>1, <2>2, EventWrite
  <2>4. HistoryOK'
    BY <1>2, FaultCounted DEF RecoverExpired, HistoryOK
  <2>5. QED
    BY <1>2, <2>3, <2>4, ReadersKept, WorkersKept, ListenersKept, CachesKept, QueuesKept
    DEF RecoverExpired
<1>3. ASSUME NEW i \in Instances, LocalExpires(i) \/ Disconnect(i) \/ Reconnect(i)
      PROVE  CacheInv' /\ NoRelapse
  <2>1. HistoryOK'
    BY <1>3, FaultCounted DEF LocalExpires, Disconnect, Reconnect, mysql, HistoryOK
  <2>2. CachesOK'
    BY <1>3 DEF LocalExpires, Disconnect, Reconnect, caches, CachesOK
  <2>3. QueuesOK'
    <3>1. fanout' \in [Instances -> Nat] /\ parked' \in Nat
      BY <1>3 DEF LocalExpires, Disconnect, Reconnect, queues, QueuesOK
    <3>2. bound' \in [Instances -> BOOLEAN]
      <4>1. CASE \E b \in BOOLEAN : bound' = [bound EXCEPT ![i] = b]
        BY <4>1 DEF QueuesOK
      <4>2. CASE UNCHANGED bound
        BY <4>2 DEF QueuesOK
      <4>3. QED
        BY <1>3, <4>1, <4>2 DEF LocalExpires, Disconnect, Reconnect, queues
    <3>3. QED
      BY <3>1, <3>2 DEF QueuesOK
  <2>4. QED
    BY <1>3, <2>1, <2>2, <2>3, ReadersKept, OutboxKept, WorkersKept, ListenersKept
    DEF LocalExpires, Disconnect, Reconnect, mysql
<1>4. ASSUME NEW i \in Instances, Crash(i)
      PROVE  CacheInv' /\ NoRelapse
  <2>1. HistoryOK'
    BY <1>4, FaultCounted DEF Crash, mysql, HistoryOK
  <2>2. CachesOK' /\ QueuesOK'
    BY <1>4 DEF Crash, CachesOK, QueuesOK
  <2>3. ReadersOK'
    BY <1>4, Initials DEF Crash, ReadersOK, ReaderOK
  <2>4. WorkersOK' /\ ListenersOK'
    BY <1>4, Initials, WorkerWrite DEF Crash, ListenersOK
  <2>5. QED
    BY <1>4, <2>1, <2>2, <2>3, <2>4, OutboxKept DEF Crash, mysql
<1>5. QED
  BY <1>1, <1>2, <1>3, <1>4

\* Every step keeps the invariant and takes no event back.
LEMMA NextHolds == CacheInv /\ [Next]_vars => CacheInv' /\ [NoRelapse]_vars
<1>1. ASSUME CacheInv, Next
      PROVE  CacheInv' /\ NoRelapse
  BY <1>1, WriteStep, ReaderStep, WorkerStep, ListenerStep, EnvironmentStep
  DEF Next, InstanceNext
<1>2. ASSUME CacheInv, UNCHANGED vars
      PROVE  CacheInv'
  BY <1>2, ReadersKept, OutboxKept, WorkersKept, ListenersKept, CachesKept, QueuesKept
  DEF CacheInv, vars, mysql, HistoryOK
<1>3. QED
  BY <1>1, <1>2

-----------------------------------------------------------------------------
(* Theorems                                                                *)

\* The invariant holds for any instances, readers, limits and faults.
THEOREM CacheInvariance == Spec => []CacheInv
  BY InitHolds, NextHolds, PTL DEF Spec

\* Every variable keeps its type: handleFailure never writes a retry count
\* beyond the limit, and what is loaded into a local cache is a shop.
THEOREM CacheTypes == Spec => []TypeOK
  BY CacheInvariance, InvImpliesType, PTL

\* An event that markCompleted or markDead ended stays as it is, and no event
\* returns to its first stage, however many tasks lost their leases.
THEOREM FinalStays == Spec => FinalIsFinal
<1>1. [NoRelapse]_vars =>
        [\A e \in Events :
           /\ outbox[e].status \in {"completed", "dead"} => outbox'[e] = outbox[e]
           /\ outbox'[e].stage >= outbox[e].stage]_vars
  BY DEF NoRelapse
<1>2. QED
  BY <1>1, CacheInvariance, NextHolds, PTL DEF Spec, FinalIsFinal

-----------------------------------------------------------------------------
(* Double deletion                                                         *)

\* A read is about to fill Redis with what was there before the update e.
OldFill(r, e) == reader[r].pc = "fill" /\ reader[r].value < e

\* No such read is left.  This is stable: what MySQL returns is new by now.
Settled(e) == e <= row /\ \A r \in Readers : ~OldFill(r, e)

\* When the second stage begins, the reads in flight are all that may be old.
DelayedOK ==
  \A e \in Events : outbox[e].stage = Delayed =>
    \A r \in Readers : OldFill(r, e) => r \in inFlight[e]

\* A task learns of a second stage when its delay is over.
LearnedOK ==
  \A i \in Instances :
    /\ \A s \in worker[i].batch : s.stage = Delayed => Settled(s.event)
    /\ worker[i].pc # "idle" /\ worker[i].now.stage = Delayed => Settled(worker[i].now.event)

\* A task that has deleted the entry in the second stage has done so for good.
DeletedOK ==
  \A i \in Instances :
    /\ worker[i].pc \in {"local", "publish", "finish"}
    /\ worker[i].ok
    /\ worker[i].now.stage = Delayed
    => ~Older(redisEntry, worker[i].now.event)

CompletedOK ==
  \A e \in Events : Completed(e) => Settled(e) /\ ~Older(redisEntry, e)

FreshInv == CacheInv /\ DelayedOK /\ LearnedOK /\ DeletedOK /\ CompletedOK

\* At the start nothing is old.
LEMMA FreshInit == Init => FreshInv
<1>1. SUFFICES ASSUME Init
               PROVE  FreshInv
  OBVIOUS
<1>2. /\ \A i \in Instances : worker[i].pc = "idle" /\ worker[i].batch = {}
      /\ \A e \in Events : outbox[e].stage # Delayed /\ outbox[e].status # "completed"
  BY <1>1 DEF Init, IdleWorker, NoEvent, Initial, Delayed
<1>3. QED
  BY <1>1, <1>2, InitHolds
  DEF FreshInv, DelayedOK, LearnedOK, DeletedOK, CompletedOK, Completed

\* What a read does to the other parts: it turns no read into an old one, it
\* leaves the set of reads in flight only when it ends, and an old entry comes
\* from an old fill.
LEMMA ReaderEffect ==
  ASSUME CacheInv, NEW r \in Readers, ReaderNext(r)
  PROVE  /\ UNCHANGED <<row, outbox, worker>>
         /\ \A q \in Readers, e \in Events : e <= row /\ OldFill(q, e)' => OldFill(q, e)
         /\ \A q \in Readers, e \in Events :
              q \in inFlight[e] /\ OldFill(q, e)' => q \in inFlight'[e]
         /\ \A e \in Events :
              Older(redisEntry', e) => Older(redisEntry, e) \/ OldFill(r, e)
<1>1. UNCHANGED <<row, outbox, worker>>
  BY DEF ReaderNext, StartRead, ReadRedis, ReadMySQL, FillRedis, StoreLocal, ReadLost, mysql
<1>2. reader \in [Readers -> ReaderType] /\ row \in Nat
  BY DEF CacheInv, ReadersOK, OutboxOK, Versions
<1>3. \/ UNCHANGED inFlight
      \/ /\ reader' = [reader EXCEPT ![r] = IdleReader]
         /\ inFlight' = [e \in Events |-> inFlight[e] \ {r}]
  BY DEF ReaderNext, StartRead, ReadRedis, ReadMySQL, FillRedis, StoreLocal, ReadLost,
     ReaderAt, ReaderDone
<1>4. \A q \in Readers, e \in Events :
        q \in inFlight[e] /\ OldFill(q, e)' => q \in inFlight'[e]
  BY <1>2, <1>3 DEF OldFill, IdleReader
<1>5. \A q \in Readers : q # r => reader'[q] = reader[q]
  BY <1>2 DEF ReaderNext, StartRead, ReadRedis, ReadMySQL, FillRedis, StoreLocal, ReadLost,
     ReaderAt, ReaderDone
<1>6. reader'[r].pc = "fill" => reader'[r].value = row
  <2>1. CASE ReadMySQL(r)
    BY <1>2, <2>1 DEF ReadMySQL, ReaderAt, ReaderType
  <2>2. CASE StartRead(r)
    BY <1>2, <2>2 DEF StartRead, ReaderType, IdleReader
  <2>3. CASE ReadRedis(r)
    BY <1>2, <2>3 DEF ReadRedis, ReaderAt, ReaderDone, ReaderType, IdleReader
  <2>4. CASE FillRedis(r)
    BY <1>2, <2>4 DEF FillRedis, ReaderAt, ReaderDone, ReaderType, IdleReader
  <2>5. CASE StoreLocal(r) \/ ReadLost(r)
    BY <1>2, <2>5 DEF StoreLocal, ReadLost, ReaderDone, IdleReader
  <2>6. QED
    BY <2>1, <2>2, <2>3, <2>4, <2>5 DEF ReaderNext
<1>7. \A q \in Readers, e \in Events : e <= row /\ OldFill(q, e)' => OldFill(q, e)
  BY <1>2, <1>5, <1>6 DEF OldFill, Events
<1>8. redisEntry' = redisEntry \/ (reader[r].pc = "fill" /\ redisEntry' = reader[r].value)
  BY DEF ReaderNext, StartRead, ReadRedis, ReadMySQL, FillRedis, StoreLocal, ReadLost,
     ReaderAt, ReaderDone, caches
<1>9. \A e \in Events : Older(redisEntry', e) => Older(redisEntry, e) \/ OldFill(r, e)
  BY <1>8 DEF Older, OldFill
<1>10. QED
  BY <1>1, <1>4, <1>7, <1>9

\* A step that brings no old reads and no old entries, after which tasks
\* remember what they did or are idle, and which moves no event on.
LEMMA FreshKept ==
  ASSUME FreshInv, CacheInv',
         row <= row',
         \A q \in Readers, e \in Events : e <= row /\ OldFill(q, e)' => OldFill(q, e),
         \A q \in Readers, e \in Events :
           q \in inFlight[e] /\ OldFill(q, e)' => q \in inFlight'[e],
         \A e \in Events : Settled(e) /\ Older(redisEntry', e) => Older(redisEntry, e),
         \A e \in Events :
           /\ outbox'[e].stage = Delayed => outbox[e].stage = Delayed
           /\ outbox'[e].status = "completed" => outbox[e].status = "completed",
         \A i \in Instances : worker'[i] = worker[i] \/ worker'[i] = IdleWorker
  PROVE  FreshInv'
<1>1. row \in Nat /\ row' \in Nat
  BY DEF FreshInv, CacheInv, OutboxOK, Versions
<1>2. \A e \in Events : Settled(e) => Settled(e)'
  BY <1>1 DEF Settled, Events
<1>3. DelayedOK'
  <2>1. \A e \in Events : outbox[e].stage = Delayed => e <= row
    BY <1>1 DEF FreshInv, CacheInv, OutboxOK, NoEvent, Initial, Delayed, Events
  <2>2. QED
    BY <2>1 DEF FreshInv, DelayedOK
<1>4. \A i \in Instances :
        /\ \A s \in worker[i].batch : s.event \in Events
        /\ worker[i].pc # "idle" => worker[i].now.event \in Events
  BY DEF FreshInv, CacheInv, WorkersOK, WorkerOK, SnapshotOK, Snapshot
<1>5. LearnedOK'
  BY <1>2, <1>4 DEF FreshInv, LearnedOK, IdleWorker
<1>6. DeletedOK'
  <2>1. SUFFICES ASSUME NEW i \in Instances,
                        worker'[i].pc \in {"local", "publish", "finish"},
                        worker'[i].ok, worker'[i].now.stage = Delayed
                 PROVE  ~Older(redisEntry', worker'[i].now.event)
    BY DEF DeletedOK
  <2>2. worker'[i] = worker[i]
    BY <2>1 DEF IdleWorker
  <2>3. /\ Settled(worker[i].now.event)
        /\ ~Older(redisEntry, worker[i].now.event)
        /\ worker[i].now.event \in Events
    BY <1>4, <2>1, <2>2 DEF FreshInv, LearnedOK, DeletedOK
  <2>4. QED
    BY <2>2, <2>3
<1>7. CompletedOK'
  BY <1>2 DEF FreshInv, CompletedOK, Completed
<1>8. QED
  BY <1>3, <1>5, <1>6, <1>7 DEF FreshInv

\* A task that changes no read and at most deletes the Redis entry.
LEMMA FreshWorkerStep ==
  ASSUME FreshInv, PromptReaders, NEW i \in Instances, WorkerNext(i)
  PROVE  FreshInv'
<1>1. CacheInv /\ CacheInv' /\ NoRelapse
  BY WorkerStep DEF FreshInv
<1>2. UNCHANGED <<row, reader>> /\ redisEntry' \in {redisEntry, Absent}
  BY DEF WorkerNext, FindDue, Claim, DeleteRedis, InvalidateLocal, Publish,
     ScheduleDelayedStage, MarkCompleted, HandleFailure, FinishThrows, WorkerLost,
     WorkerAt, WorkerDone, mysql, caches
<1>3. \A e : /\ Settled(e)' <=> Settled(e)
             /\ Older(redisEntry', e) => Older(redisEntry, e)
  BY <1>2 DEF Settled, OldFill, Older
<1>4. /\ worker \in [Instances -> WorkerType]
      /\ worker[i].pc # "idle" => worker[i].now.event \in Events
  BY <1>1 DEF CacheInv, WorkersOK, WorkerOK, SnapshotOK, Snapshot
<1>5. DelayedOK'
  <2>1. CASE ScheduleDelayedStage(i) /\ outbox[worker[i].now.event].status = "processing"
    <3> DEFINE e == worker[i].now.event
    <3>1. /\ outbox' = [outbox EXCEPT ![e] =
               [status |-> "pending", stage |-> Delayed, retryCount |-> 0]]
          /\ inFlight' = [inFlight EXCEPT ![e] = {r \in Readers : reader[r].pc # "idle"}]
      BY <2>1 DEF ScheduleDelayedStage
    <3>2. \A f \in Events : f # e => outbox'[f] = outbox[f] /\ inFlight'[f] = inFlight[f]
      BY <1>1, <3>1 DEF CacheInv, OutboxOK, HistoryOK
    <3>3. e \in Events => inFlight'[e] = {r \in Readers : reader[r].pc # "idle"}
      BY <1>1, <3>1 DEF CacheInv, HistoryOK
    <3> HIDE DEF e
    <3>4. ASSUME NEW f \in Events, NEW r \in Readers, outbox'[f].stage = Delayed,
                 OldFill(r, f)'
          PROVE  r \in inFlight'[f]
      <4>1. OldFill(r, f) /\ reader[r].pc # "idle"
        BY <1>2, <3>4 DEF OldFill
      <4>2. CASE f = e
        BY <3>3, <4>1, <4>2
      <4>3. CASE f # e
        BY <3>2, <3>4, <4>1, <4>3 DEF FreshInv, DelayedOK
      <4>4. QED
        BY <4>2, <4>3
    <3>5. QED
      BY <3>4 DEF DelayedOK
  <2>2. CASE ~(ScheduleDelayedStage(i) /\ outbox[worker[i].now.event].status = "processing")
    <3>1. UNCHANGED inFlight
      BY <2>2 DEF WorkerNext, FindDue, Claim, DeleteRedis, InvalidateLocal, Publish,
         ScheduleDelayedStage, MarkCompleted, HandleFailure, FinishThrows, WorkerLost
    <3>2. outbox \in [Events -> EventType]
      BY <1>1 DEF CacheInv, OutboxOK
    <3>3. \A e \in Events : outbox'[e].stage = outbox[e].stage
      <4>1. CASE Claim(i)
        BY <3>2, <4>1 DEF Claim, EventType
      <4>2. CASE MarkCompleted(i)
        BY <3>2, <4>2 DEF MarkCompleted, EventType
      <4>3. CASE HandleFailure(i)
        BY <3>2, <4>3 DEF HandleFailure, EventType
      <4>4. CASE UNCHANGED outbox
        BY <4>4
      <4>5. QED
        BY <2>2, <4>1, <4>2, <4>3, <4>4 DEF WorkerNext, FindDue, DeleteRedis,
           InvalidateLocal, Publish, ScheduleDelayedStage, FinishThrows, WorkerLost, mysql
    <3>4. QED
      BY <1>2, <3>1, <3>3 DEF FreshInv, DelayedOK, OldFill
  <2>3. QED
    BY <2>1, <2>2
<1>6. LearnedOK'
  <2>1. /\ \A j \in Instances : j # i => worker'[j] = worker[j]
        /\ \A j \in Instances :
             /\ \A s \in worker[j].batch : s.event \in Events
             /\ worker[j].pc # "idle" => worker[j].now.event \in Events
    <3>1. \A j \in Instances : j # i => worker'[j] = worker[j]
      BY <1>4 DEF WorkerNext, FindDue, Claim, DeleteRedis, InvalidateLocal, Publish,
         ScheduleDelayedStage, MarkCompleted, HandleFailure, FinishThrows, WorkerLost,
         WorkerAt, WorkerDone
    <3>2. QED
      BY <1>1, <3>1 DEF CacheInv, WorkersOK, WorkerOK, SnapshotOK, Snapshot
  <2>2. CASE FindDue(i)
    <3>1. PICK due \in SUBSET {e \in Events : MayBeDue(e)} \ {{}} :
            worker' = [worker EXCEPT ![i].batch = {SnapshotOf(e) : e \in due}]
      BY <2>2 DEF FindDue
    <3>2. \A e \in due : outbox[e].stage = Delayed => Settled(e)
      <4>1. SUFFICES ASSUME NEW e \in due, outbox[e].stage = Delayed
                     PROVE  Settled(e)
        OBVIOUS
      <4>2. e \in Events /\ inFlight[e] = {}
        BY <4>1 DEF MayBeDue
      <4>3. e <= row
        BY <1>1, <4>1, <4>2
        DEF CacheInv, OutboxOK, NoEvent, Initial, Delayed, Events, Versions
      <4>4. QED
        BY <4>1, <4>2, <4>3 DEF Settled, FreshInv, DelayedOK
    <3>3. worker'[i].batch = {SnapshotOf(e) : e \in due} /\ worker'[i].pc = "idle"
      <4>. DEFINE found == {SnapshotOf(e) : e \in due}
      <4>1. worker[i] \in WorkerType /\ worker[i].pc = "idle" /\ worker \in [Instances -> WorkerType]
        <5>1. worker[i] = IdleWorker
          BY <2>2 DEF FindDue
        <5>2. worker[i].pc = "idle"
          BY <5>1 DEF IdleWorker
        <5>3. QED
          BY <1>4, <5>2
      <4>2. worker' = [worker EXCEPT ![i].batch = found]
        BY <3>1
      <4>. HIDE DEF found
      <4>3. worker'[i] = [worker[i] EXCEPT !.batch = found]
        BY <4>1, <4>2
      <4>4. worker'[i].batch = found /\ worker'[i].pc = "idle"
        BY <4>1, <4>3 DEF WorkerType
      <4>. QED
        BY <4>4 DEF found
    <3>4. \A s \in worker'[i].batch : s.stage = Delayed => Settled(s.event)
      BY <3>2, <3>3 DEF SnapshotOf
    <3>5. QED
      BY <1>3, <2>1, <3>3, <3>4 DEF FreshInv, LearnedOK
  <2>3. CASE Claim(i)
    <3>1. PICK s \in worker[i].batch :
            \/ worker' = [worker EXCEPT ![i] =
                 [pc |-> "redis", batch |-> worker[i].batch \ {s}, now |-> s, ok |-> TRUE]]
            \/ worker' = [worker EXCEPT ![i].batch = worker[i].batch \ {s}]
      BY <2>3 DEF Claim
    <3>2. /\ worker'[i].batch \subseteq worker[i].batch
          /\ worker'[i].pc # "idle" => worker'[i].now \in worker[i].batch
      BY <1>4, <2>3, <3>1 DEF Claim, WorkerType
    <3>3. QED
      BY <1>3, <2>1, <3>2 DEF FreshInv, LearnedOK
  <2>4. CASE ~FindDue(i) /\ ~Claim(i)
    <3>1. /\ worker'[i].batch \subseteq worker[i].batch
          /\ worker'[i].pc # "idle" => worker[i].pc # "idle" /\ worker'[i].now = worker[i].now
      <4>1. CASE DeleteRedis(i) \/ InvalidateLocal(i) \/ FinishThrows(i)
        BY <1>4, <4>1 DEF DeleteRedis, InvalidateLocal, FinishThrows, WorkerAt, WorkerType
      <4>2. CASE Publish(i)
        BY <1>4, <4>2 DEF Publish, WorkerType
      <4>3. CASE WorkerDone(i)
        BY <1>4, <4>3 DEF WorkerDone, IdleWorker
      <4>4. CASE WorkerLost(i)
        BY <1>4, <4>4 DEF WorkerLost, IdleWorker
      <4>5. QED
        BY <2>4, <4>1, <4>2, <4>3, <4>4 DEF WorkerNext, ScheduleDelayedStage,
           MarkCompleted, HandleFailure
    <3>2. QED
      BY <1>3, <2>1, <3>1 DEF FreshInv, LearnedOK
  <2>5. QED
    BY <2>2, <2>3, <2>4
<1>7. DeletedOK'
  <2>1. SUFFICES ASSUME NEW j \in Instances,
                        worker'[j].pc \in {"local", "publish", "finish"},
                        worker'[j].ok, worker'[j].now.stage = Delayed
                 PROVE  ~Older(redisEntry', worker'[j].now.event)
    BY DEF DeletedOK
  <2>2. \/ redisEntry' = Absent
        \/ /\ worker[j].pc \in {"local", "publish", "finish"}
           /\ worker[j].ok
           /\ worker[j].now = worker'[j].now
    <3>1. CASE j # i
      BY <1>4, <2>1, <3>1 DEF WorkerNext, FindDue, Claim, DeleteRedis, InvalidateLocal,
         Publish, ScheduleDelayedStage, MarkCompleted, HandleFailure, FinishThrows,
         WorkerLost, WorkerAt, WorkerDone
    <3>2. CASE j = i
      <4>1. CASE FindDue(i) \/ Claim(i)
        <5>1. worker'[i].pc \in {"idle", "redis"}
          <6>1. CASE FindDue(i)
            BY <1>4, <6>1 DEF FindDue, IdleWorker, WorkerType
          <6>2. CASE Claim(i)
            BY <1>4, <6>2 DEF Claim, WorkerType
          <6>3. QED
            BY <4>1, <6>1, <6>2
        <5>2. QED
          BY <2>1, <3>2, <5>1
      <4>2. CASE DeleteRedis(i)
        BY <1>4, <2>1, <3>2, <4>2 DEF DeleteRedis, WorkerAt, WorkerType
      <4>3. CASE InvalidateLocal(i) \/ FinishThrows(i)
        BY <1>4, <2>1, <3>2, <4>3 DEF InvalidateLocal, FinishThrows, WorkerAt, WorkerType
      <4>4. CASE Publish(i)
        <5>1. PICK ok \in BOOLEAN :
                worker' = [worker EXCEPT ![i].pc = "finish", ![i].ok = ok /\ worker[i].ok]
          BY <4>4 DEF Publish
        <5>2. worker'[i].now = worker[i].now
          BY <1>4, <5>1 DEF WorkerType
        <5>3. worker'[i].ok = (ok /\ worker[i].ok)
          BY <1>4, <5>1 DEF WorkerType
        <5>4. worker[i].ok
          BY <2>1, <3>2, <5>3
        <5>5. QED
          BY <3>2, <4>4, <5>2, <5>4 DEF Publish
      <4>5. CASE ScheduleDelayedStage(i) \/ MarkCompleted(i) \/ HandleFailure(i) \/ WorkerLost(i)
        BY <1>4, <2>1, <3>2, <4>5 DEF ScheduleDelayedStage, MarkCompleted, HandleFailure,
           WorkerLost, WorkerDone, IdleWorker
      <4>6. QED
        BY <4>1, <4>2, <4>3, <4>4, <4>5 DEF WorkerNext
    <3>3. QED
      BY <3>1, <3>2
  <2>3. QED
    BY <1>3, <2>1, <2>2 DEF FreshInv, DeletedOK, Older
<1>8. CompletedOK'
  <2>1. \A e \in Events : Completed(e)' => Completed(e) \/ (MarkCompleted(i) /\ e = worker[i].now.event)
    <3>1. outbox \in [Events -> EventType]
      BY <1>1 DEF CacheInv, OutboxOK
    <3>2. CASE Claim(i)
      BY <3>1, <3>2 DEF Claim, Completed, EventType
    <3>3. CASE ScheduleDelayedStage(i) \/ HandleFailure(i)
      BY <3>1, <3>3 DEF ScheduleDelayedStage, HandleFailure, Completed, EventType
    <3>4. CASE MarkCompleted(i)
      BY <3>1, <3>4 DEF MarkCompleted, Completed, EventType
    <3>5. CASE UNCHANGED outbox
      BY <3>5 DEF Completed
    <3>6. QED
      BY <3>2, <3>3, <3>4, <3>5 DEF WorkerNext, FindDue, DeleteRedis, InvalidateLocal,
         Publish, FinishThrows, WorkerLost, mysql
  <2>2. MarkCompleted(i) =>
          /\ Settled(worker[i].now.event)
          /\ ~Older(redisEntry, worker[i].now.event)
    BY DEF MarkCompleted, WorkerDone, FreshInv, LearnedOK, DeletedOK
  <2>3. QED
    BY <1>3, <2>1, <2>2 DEF FreshInv, CompletedOK
<1>9. QED
  BY <1>1, <1>5, <1>6, <1>7, <1>8 DEF FreshInv

\* Every step keeps it so.
LEMMA FreshNext == FreshInv /\ [Next]_vars /\ PromptReaders => FreshInv'
<1>1. SUFFICES ASSUME FreshInv, [Next]_vars, PromptReaders
               PROVE  FreshInv'
  OBVIOUS
<1>2. CacheInv' /\ row \in Nat
  BY <1>1, NextHolds DEF FreshInv, CacheInv, OutboxOK, Versions
<1>3. CASE \E r \in Readers : ReaderNext(r)
  <2>1. PICK r \in Readers : ReaderNext(r)
    BY <1>3
  <2>2. /\ UNCHANGED <<row, outbox, worker>>
        /\ \A q \in Readers, e \in Events : e <= row /\ OldFill(q, e)' => OldFill(q, e)
        /\ \A q \in Readers, e \in Events :
             q \in inFlight[e] /\ OldFill(q, e)' => q \in inFlight'[e]
        /\ \A e \in Events :
             Older(redisEntry', e) => Older(redisEntry, e) \/ OldFill(r, e)
    BY <1>1, <2>1, ReaderEffect DEF FreshInv
  <2>3. \A e \in Events : Settled(e) /\ Older(redisEntry', e) => Older(redisEntry, e)
    BY <2>1, <2>2 DEF Settled
  <2>4. QED
    BY <1>1, <1>2, <2>2, <2>3, FreshKept
<1>4. CASE \E i \in Instances : WorkerNext(i)
  BY <1>1, <1>4, FreshWorkerStep
<1>5. CASE Next /\ ~(\E r \in Readers : ReaderNext(r)) /\ ~(\E i \in Instances : WorkerNext(i))
  <2>1. /\ row <= row'
        /\ redisEntry' \in {redisEntry, Absent}
        /\ \A i \in Instances : worker'[i] = worker[i] \/ worker'[i] = IdleWorker
    <3>1. row <= row'
      <4>1. row' \in {row, row + 1}
        <5>1. CASE SaveShop \/ Update
          BY <5>1 DEF SaveShop, Update
        <5>2. CASE UNCHANGED row
          BY <5>2
        <5>3. QED
          BY <1>5, <5>1, <5>2 DEF Next, InstanceNext, RedisExpires, RecoverExpired,
             ConsumerNext, Receive, ConsumeRedis, ConsumeLocal, LocalExpires, Disconnect,
             Reconnect, Crash, mysql
      <4>2. QED
        BY <1>2, <4>1
    <3>2. redisEntry' \in {redisEntry, Absent}
      BY <1>5 DEF Next, InstanceNext, SaveShop, Update, RedisExpires, RecoverExpired,
         ConsumerNext, Receive, ConsumeRedis, ConsumeLocal, LocalExpires, Disconnect,
         Reconnect, Crash, caches
    <3>3. \A i \in Instances : worker'[i] = worker[i] \/ worker'[i] = IdleWorker
      <4>1. CASE \E i \in Instances : Crash(i)
        BY <1>1, <4>1 DEF Crash, FreshInv, CacheInv, WorkersOK
      <4>2. CASE UNCHANGED worker
        BY <4>2
      <4>3. QED
        BY <1>5, <4>1, <4>2 DEF Next, InstanceNext, SaveShop, Update, RedisExpires,
           RecoverExpired, ConsumerNext, Receive, ConsumeRedis, ConsumeLocal,
           LocalExpires, Disconnect, Reconnect
    <3>4. QED
      BY <3>1, <3>2, <3>3
  <2>2. \A e \in Events :
          /\ outbox'[e].stage = Delayed => outbox[e].stage = Delayed
          /\ outbox'[e].status = "completed" => outbox[e].status = "completed"
    <3>1. outbox \in [Events -> EventType]
      BY <1>1 DEF FreshInv, CacheInv, OutboxOK
    <3>2. CASE Update
      BY <3>1, <3>2 DEF Update, NoEvent, EventType, Initial, Delayed
    <3>3. CASE \E e \in Events : RecoverExpired(e)
      BY <3>1, <3>3 DEF RecoverExpired, EventType
    <3>4. CASE UNCHANGED outbox
      BY <3>4
    <3>5. QED
      BY <1>5, <3>2, <3>3, <3>4 DEF Next, InstanceNext, SaveShop, RedisExpires,
         ConsumerNext, Receive, ConsumeRedis, ConsumeLocal, LocalExpires, Disconnect,
         Reconnect, Crash, mysql
  <2>3. /\ \A q \in Readers, e \in Events : OldFill(q, e)' => OldFill(q, e)
        /\ \A q \in Readers, e \in Events :
             q \in inFlight[e] /\ OldFill(q, e)' => q \in inFlight'[e]
    <3>1. CASE \E i \in Instances : Crash(i)
      BY <3>1 DEF Crash, OldFill, IdleReader
    <3>2. CASE UNCHANGED <<reader, inFlight>>
      BY <3>2 DEF OldFill
    <3>3. QED
      BY <1>5, <3>1, <3>2 DEF Next, InstanceNext, SaveShop, Update, RedisExpires,
         RecoverExpired, ConsumerNext, Receive, ConsumeRedis, ConsumeLocal, LocalExpires,
         Disconnect, Reconnect
  <2>4. \A e \in Events : Older(redisEntry', e) => Older(redisEntry, e)
    BY <2>1 DEF Older
  <2>5. QED
    BY <1>1, <1>2, <2>1, <2>2, <2>3, <2>4, FreshKept
<1>6. CASE UNCHANGED vars
  <2>1. UNCHANGED <<row, outbox, redisEntry, reader, worker, inFlight>>
    BY <1>6 DEF vars, mysql, caches
  <2>2. QED
    BY <1>1, <1>2, <2>1, FreshKept DEF OldFill
<1>7. QED
  BY <1>1, <1>3, <1>4, <1>5, <1>6

\* Double deletion works: when reads in flight at the first deletion end within
\* the delay, a completed event leaves nothing older than its update in Redis,
\* whatever failed, crashed, overran its lease or was broadcast in vain.
THEOREM DoubleDeletion == PromptReaders /\ Spec => []RedisFresh
<1>1. FreshInv => RedisFresh
  BY DEF FreshInv, CompletedOK, RedisFresh
<1>2. CASE PromptReaders
  <2>1. FreshInv /\ [Next]_vars => FreshInv'
    BY <1>2, FreshNext
  <2>2. QED
    BY <1>1, <2>1, FreshInit, PTL DEF Spec
<1>3. CASE ~PromptReaders
  BY <1>3
<1>4. QED
  BY <1>2, <1>3

-----------------------------------------------------------------------------
(* Local caches                                                            *)

\* A read is about to put what it loaded into the local cache.
Loads(r) == reader[r].mode = "locked" /\ reader[r].pc = "store"

\* Neither the local cache of i nor a read on its way to it is older than e.
Clean(i, e) ==
  /\ ~Older(local[i], e)
  /\ \A r \in Readers : Home[r] = i /\ Loads(r) => reader[r].value >= e

\* A broadcast waits for i or is being handled there.
Announced(i) == fanout[i] > 0 \/ consumer[i].pc # "idle"

\* The last broadcast of e went out.
Sent(e) ==
  \/ Completed(e)
  \/ \E j \in Instances :
       /\ worker[j].pc = "finish"
       /\ worker[j].ok
       /\ worker[j].now.stage = Delayed
       /\ worker[j].now.event = e

HandledOK == \A e \in Events, i \in Instances : Sent(e) => Announced(i) \/ Clean(i, e)

AllBound == \A i \in Instances : bound[i]

NoPuts == \A r \in Readers : reader[r].pc # "idle" => reader[r].mode # "put"

LocalInv == FreshInv /\ HandledOK /\ AllBound /\ NoPuts

\* By the last broadcast Redis and the reads that fill it are up to date.
LEMMA SentFresh ==
  ASSUME FreshInv, NEW e \in Events, Sent(e)
  PROVE  Settled(e) /\ ~Older(redisEntry, e)
<1>1. CASE Completed(e)
  BY <1>1 DEF FreshInv, CompletedOK
<1>2. CASE ~Completed(e)
  BY <1>2 DEF Sent, FreshInv, LearnedOK, DeletedOK
<1>3. QED
  BY <1>1, <1>2

\* Most steps send nothing, end no handling and bring nothing old.
LEMMA HandledKept ==
  ASSUME HandledOK,
         \A e \in Events : Sent(e)' => Sent(e),
         \A i \in Instances : Announced(i) => Announced(i)',
         \A e \in Events, i \in Instances : Sent(e) /\ Clean(i, e) => Clean(i, e)'
  PROVE  HandledOK'
  BY DEF HandledOK

\* A step of a read leaves clean caches clean.
LEMMA CleanRead ==
  ASSUME LocalInv, NEW r \in Readers, ReaderNext(r),
         NEW e \in Events, NEW i \in Instances, Sent(e), Clean(i, e)
  PROVE  Clean(i, e)'
<1>1. /\ reader \in [Readers -> ReaderType]
      /\ ReaderOK(reader[r])
      /\ redisEntry \in Entries
      /\ local \in [Instances -> (Versions \ {0}) \cup {Absent}]
  BY DEF LocalInv, FreshInv, CacheInv, ReadersOK, CachesOK
<1>2. ~OldFill(r, e) /\ ~Older(redisEntry, e) /\ e \in Nat
  BY SentFresh DEF LocalInv, Settled, Events
<1>3. \A q \in Readers : q # r => reader'[q] = reader[q]
  BY <1>1 DEF ReaderNext, StartRead, ReadRedis, ReadMySQL, FillRedis, StoreLocal, ReadLost,
     ReaderAt, ReaderDone
<1>4. Loads(r)' => reader'[r].value >= e
  <2>1. CASE StartRead(r)
    BY <1>1, <2>1 DEF StartRead, Loads, IdleReader
  <2>2. CASE ReadRedis(r)
    <3>1. CASE redisEntry \notin {0, Absent} /\ ReaderAt(r, "redis", "store", redisEntry)
      <4>1. reader'[r].value = redisEntry
        BY <1>1, <3>1 DEF ReaderAt, ReaderType
      <4>2. redisEntry \in Nat /\ ~(redisEntry < e)
        BY <1>1, <1>2, <3>1 DEF Older, Entries, Versions
      <4>3. QED
        BY <1>2, <4>1, <4>2
    <3>2. CASE ReaderDone(r, "redis") \/ ReaderAt(r, "redis", "db", Absent)
      BY <1>1, <3>2 DEF ReaderDone, ReaderAt, Loads, IdleReader, ReaderType
    <3>3. QED
      BY <2>2, <3>1, <3>2 DEF ReadRedis
  <2>3. CASE ReadMySQL(r)
    BY <1>1, <2>3 DEF ReadMySQL, ReaderAt, Loads, ReaderType
  <2>4. CASE FillRedis(r)
    <3>1. CASE ReaderAt(r, "fill", "store", reader[r].value)
      <4>1. reader'[r].value = reader[r].value /\ reader[r].pc = "fill"
        BY <1>1, <3>1 DEF ReaderAt, ReaderType
      <4>2. reader[r].value \in Nat /\ ~(reader[r].value < e)
        BY <1>1, <1>2, <4>1 DEF OldFill, ReaderOK, ReaderType, Entries, Versions
      <4>3. QED
        BY <1>2, <4>1, <4>2
    <3>2. CASE ReaderDone(r, "fill")
      BY <1>1, <3>2 DEF ReaderDone, Loads, IdleReader
    <3>3. QED
      BY <2>4, <3>1, <3>2 DEF FillRedis
  <2>5. CASE StoreLocal(r) \/ ReadLost(r)
    BY <1>1, <2>5 DEF StoreLocal, ReadLost, ReaderDone, Loads, IdleReader
  <2>6. QED
    BY <2>1, <2>2, <2>3, <2>4, <2>5 DEF ReaderNext
<1>5. \A q \in Readers : Home[q] = i /\ Loads(q)' => reader'[q].value >= e
  BY <1>3, <1>4 DEF Clean, Loads
<1>6. ~Older(local'[i], e)
  <2>1. CASE StoreLocal(r) /\ local' # local /\ Home[r] = i
    <3>1. /\ reader[r].pc = "store" /\ reader[r].mode # "direct"
          /\ local'[i] = reader[r].value
      BY <1>1, <2>1 DEF StoreLocal, ReaderDone
    <3>2. Loads(r)
      BY <1>1, <3>1 DEF LocalInv, NoPuts, Loads, ReaderType
    <3>3. reader[r].value >= e /\ reader[r].value \in Nat
      BY <1>1, <2>1, <3>1, <3>2 DEF Clean, ReaderOK, ReaderType, Entries, Versions
    <3>4. QED
      BY <1>2, <3>1, <3>3 DEF Older
  <2>2. CASE local'[i] = local[i]
    BY <2>2 DEF Clean
  <2>3. QED
    BY <1>1, <2>1, <2>2, ShopCacheAssumption
    DEF ReaderNext, StartRead, ReadRedis, ReadMySQL, FillRedis, StoreLocal, ReadLost, caches
<1>7. QED
  BY <1>5, <1>6 DEF Clean

\* CacheInvalidationOutboxTask: an attempt that succeeds reached every queue.
LEMMA HandledWorker ==
  ASSUME LocalInv, NEW i \in Instances, WorkerNext(i)
  PROVE  HandledOK'
<1>1. /\ worker \in [Instances -> WorkerType]
      /\ outbox \in [Events -> EventType]
      /\ fanout \in [Instances -> Nat]
      /\ local \in [Instances -> (Versions \ {0}) \cup {Absent}]
  BY DEF LocalInv, FreshInv, CacheInv, WorkersOK, OutboxOK, QueuesOK, CachesOK
<1>2. UNCHANGED <<reader, consumer>>
  BY DEF WorkerNext, FindDue, Claim, DeleteRedis, InvalidateLocal, Publish,
     ScheduleDelayedStage, MarkCompleted, HandleFailure, FinishThrows, WorkerLost,
     WorkerAt, WorkerDone
<1>3. \A j \in Instances : j # i => worker'[j] = worker[j]
  BY <1>1 DEF WorkerNext, FindDue, Claim, DeleteRedis, InvalidateLocal, Publish,
     ScheduleDelayedStage, MarkCompleted, HandleFailure, FinishThrows, WorkerLost,
     WorkerAt, WorkerDone
<1>4. \A j \in Instances : local'[j] = local[j] \/ local'[j] = Absent
  <2>1. CASE InvalidateLocal(i)
    BY <1>1, <2>1 DEF InvalidateLocal
  <2>2. CASE UNCHANGED local
    BY <2>2
  <2>3. QED
    BY <2>1, <2>2 DEF WorkerNext, FindDue, Claim, DeleteRedis, Publish,
       ScheduleDelayedStage, MarkCompleted, HandleFailure, FinishThrows, WorkerLost,
       WorkerDone, caches
<1>5. \A e \in Events, j \in Instances : Clean(j, e) => Clean(j, e)'
  BY <1>2, <1>4 DEF Clean, Loads, Older
<1>6. fanout' \in {fanout, Broadcast}
  BY DEF WorkerNext, FindDue, Claim, DeleteRedis, InvalidateLocal, Publish,
     ScheduleDelayedStage, MarkCompleted, HandleFailure, FinishThrows, WorkerLost,
     WorkerDone, WorkerAt, queues
<1>7. \A j \in Instances : fanout'[j] \in {fanout[j], fanout[j] + 1}
  BY <1>6 DEF Broadcast
<1>8. \A j \in Instances : Announced(j) => Announced(j)'
  BY <1>1, <1>2, <1>7 DEF Announced
<1>9. CASE Publish(i)
  <2>1. PICK ok \in BOOLEAN :
          /\ worker' = [worker EXCEPT ![i].pc = "finish", ![i].ok = ok /\ worker[i].ok]
          /\ \/ ok = (\E j \in Instances : bound[j]) /\ fanout' = Broadcast
             \/ ~ok
    BY <1>9 DEF Publish
  <2>2. CASE ok
    <3>1. fanout' = Broadcast
      BY <2>1, <2>2
    <3>2. \A j \in Instances : Announced(j)'
      BY <1>1, <3>1 DEF Announced, Broadcast, LocalInv, AllBound
    <3>3. QED
      BY <3>2 DEF HandledOK
  <2>3. CASE ~ok
    <3>1. worker'[i].ok = FALSE
      BY <1>1, <2>1, <2>3 DEF WorkerType
    <3>2. UNCHANGED outbox
      BY <1>9 DEF Publish, mysql
    <3>3. \A e \in Events : Sent(e)' => Sent(e)
      BY <1>3, <3>1, <3>2 DEF Sent, Completed
    <3>4. QED
      BY <1>5, <1>8, <3>3, HandledKept DEF LocalInv
  <2>4. QED
    BY <2>2, <2>3
<1>10. CASE ~Publish(i)
  <2>1. /\ worker'[i].pc = "finish" => worker[i].pc = "finish" /\ worker'[i].now = worker[i].now
        /\ worker'[i].pc = "finish" /\ worker'[i].ok => worker[i].ok
    <3>1. CASE FindDue(i)
      BY <1>1, <3>1 DEF FindDue, IdleWorker, WorkerType
    <3>2. CASE Claim(i)
      BY <1>1, <3>2 DEF Claim, WorkerType
    <3>3. CASE DeleteRedis(i) \/ InvalidateLocal(i) \/ FinishThrows(i)
      BY <1>1, <3>3 DEF DeleteRedis, InvalidateLocal, FinishThrows, WorkerAt, WorkerType
    <3>4. CASE WorkerDone(i) \/ WorkerLost(i)
      BY <1>1, <3>4 DEF WorkerDone, WorkerLost, IdleWorker
    <3>5. QED
      BY <1>10, <3>1, <3>2, <3>3, <3>4 DEF WorkerNext, ScheduleDelayedStage,
         MarkCompleted, HandleFailure
  <2>2. \A e \in Events : Completed(e)' => Sent(e)
    <3>1. CASE Claim(i)
      BY <1>1, <3>1 DEF Claim, Sent, Completed, EventType
    <3>2. CASE ScheduleDelayedStage(i) \/ HandleFailure(i)
      BY <1>1, <3>2 DEF ScheduleDelayedStage, HandleFailure, Sent, Completed, EventType
    <3>3. CASE MarkCompleted(i)
      BY <1>1, <3>3 DEF MarkCompleted, WorkerDone, Sent, Completed, EventType
    <3>4. CASE UNCHANGED outbox
      BY <3>4 DEF Sent, Completed
    <3>5. QED
      BY <1>10, <3>1, <3>2, <3>3, <3>4 DEF WorkerNext, FindDue, DeleteRedis,
         InvalidateLocal, FinishThrows, WorkerLost, mysql
  <2>3. \A e \in Events : Sent(e)' => Sent(e)
    <3>1. SUFFICES ASSUME NEW e \in Events, Sent(e)', ~Completed(e)'
                   PROVE  Sent(e)
      BY <2>2
    <3>2. PICK j \in Instances : /\ worker'[j].pc = "finish"
                                 /\ worker'[j].ok
                                 /\ worker'[j].now.stage = Delayed
                                 /\ worker'[j].now.event = e
      BY <3>1 DEF Sent
    <3>3. worker[j].pc = "finish" /\ worker[j].ok /\ worker[j].now = worker'[j].now
      BY <1>3, <2>1, <3>2
    <3>4. QED
      BY <3>2, <3>3 DEF Sent
  <2>4. QED
    BY <1>5, <1>8, <2>3, HandledKept DEF LocalInv
<1>11. QED
  BY <1>9, <1>10

\* CacheInvalidateConsumer: a handled message leaves the instance clean.
LEMMA HandledListener ==
  ASSUME LocalInv, NEW i \in Instances, ConsumerNext(i)
  PROVE  HandledOK'
<1>1. /\ consumer \in [Instances -> ListenerType]
      /\ fanout \in [Instances -> Nat]
      /\ local \in [Instances -> (Versions \ {0}) \cup {Absent}]
  BY DEF LocalInv, FreshInv, CacheInv, ListenersOK, QueuesOK, CachesOK
<1>2. UNCHANGED <<reader, outbox, worker>>
  BY DEF ConsumerNext, Receive, ConsumeRedis, ConsumeLocal, mysql
<1>3. \A e \in Events : Sent(e)' => Sent(e)
  BY <1>2 DEF Sent, Completed
<1>4. \A j \in Instances : j # i => /\ local'[j] = local[j]
                                   /\ consumer'[j] = consumer[j]
                                   /\ fanout'[j] = fanout[j]
  <2>1. CASE Receive(i)
    BY <1>1, <2>1 DEF Receive, caches
  <2>2. CASE ConsumeRedis(i)
    BY <1>1, <2>2 DEF ConsumeRedis, queues
  <2>3. CASE ConsumeLocal(i)
    BY <1>1, <2>3 DEF ConsumeLocal
  <2>4. QED
    BY <2>1, <2>2, <2>3 DEF ConsumerNext
<1>5. \A e \in Events, j \in Instances :
        j # i /\ Sent(e)' => Announced(j)' \/ Clean(j, e)'
  BY <1>2, <1>3, <1>4 DEF LocalInv, HandledOK, Announced, Clean, Loads
<1>6. CASE Receive(i) \/ ConsumeRedis(i)
  <2>1. consumer'[i].pc # "idle"
    <3>1. CASE Receive(i)
      BY <1>1, <3>1 DEF Receive
    <3>2. CASE ConsumeRedis(i)
      BY <1>1, <3>2 DEF ConsumeRedis, ListenerType
    <3>3. QED
      BY <1>6, <3>1, <3>2
  <2>2. QED
    BY <1>5, <2>1 DEF HandledOK, Announced
<1>7. CASE ConsumeLocal(i)
  <2>1. local'[i] = Absent /\ ~Loading(i)
    BY <1>1, <1>7 DEF ConsumeLocal
  <2>2. \A e \in Events : Clean(i, e)'
    BY <1>2, <2>1 DEF Clean, Older, Loads, Loading
  <2>3. QED
    BY <1>5, <2>2 DEF HandledOK
<1>8. QED
  BY <1>6, <1>7 DEF ConsumerNext

\* Crashes, and entries and leases that run out.
LEMMA HandledEnvironment ==
  ASSUME LocalInv,
         \/ SaveShop \/ Update \/ RedisExpires
         \/ \E e \in Events : RecoverExpired(e)
         \/ \E i \in Instances : LocalExpires(i) \/ Crash(i)
  PROVE  HandledOK'
<1>1. /\ outbox \in [Events -> EventType]
      /\ worker \in [Instances -> WorkerType]
      /\ consumer \in [Instances -> ListenerType]
      /\ reader \in [Readers -> ReaderType]
      /\ fanout \in [Instances -> Nat]
      /\ local \in [Instances -> (Versions \ {0}) \cup {Absent}]
  BY DEF LocalInv, FreshInv, CacheInv, OutboxOK, WorkersOK, ListenersOK, ReadersOK,
     QueuesOK, CachesOK
<1>2. \A e \in Events : Completed(e)' => Completed(e)
  <2>1. CASE Update
    BY <1>1, <2>1 DEF Update, NoEvent, Completed, EventType
  <2>2. CASE \E e \in Events : RecoverExpired(e)
    BY <1>1, <2>2 DEF RecoverExpired, Completed, EventType
  <2>3. CASE UNCHANGED outbox
    BY <2>3 DEF Completed
  <2>4. QED
    BY <2>1, <2>2, <2>3 DEF SaveShop, RedisExpires, LocalExpires, Crash, mysql
<1>3. CASE \E i \in Instances : Crash(i)
  <2>1. PICK i \in Instances : Crash(i)
    BY <1>3
  <2>2. \A j \in Instances : j # i => /\ worker'[j] = worker[j]
                                      /\ consumer'[j] = consumer[j]
                                      /\ fanout'[j] = fanout[j]
                                      /\ local'[j] = local[j]
    BY <1>1, <2>1 DEF Crash
  <2>3. worker'[i].pc = "idle" /\ local'[i] = Absent
    BY <1>1, <2>1 DEF Crash, IdleWorker
  <2>4. \A e \in Events : Sent(e)' => Sent(e)
    BY <1>2, <2>2, <2>3 DEF Sent
  <2>5. \A r \in Readers : \/ Home[r] # i /\ reader'[r] = reader[r]
                           \/ Home[r] = i /\ reader'[r].pc = "idle"
    BY <2>1 DEF Crash, IdleReader
  <2>6. \A e \in Events : Clean(i, e)'
    BY <2>3, <2>5 DEF Clean, Older, Loads
  <2>7. \A e \in Events, j \in Instances : j # i /\ Clean(j, e) => Clean(j, e)'
    BY <2>2, <2>5 DEF Clean, Loads
  <2>8. QED
    BY <2>2, <2>4, <2>6, <2>7 DEF LocalInv, HandledOK, Announced
<1>4. CASE ~(\E i \in Instances : Crash(i))
  <2>1. UNCHANGED <<worker, consumer, reader, fanout>>
    BY <1>4 DEF SaveShop, Update, RedisExpires, RecoverExpired, LocalExpires, queues
  <2>2. \A j \in Instances : local'[j] = local[j] \/ local'[j] = Absent
    <3>1. CASE \E i \in Instances : LocalExpires(i)
      BY <1>1, <3>1 DEF LocalExpires
    <3>2. CASE UNCHANGED local
      BY <3>2
    <3>3. QED
      BY <1>4, <3>1, <3>2 DEF SaveShop, Update, RedisExpires, RecoverExpired, caches
  <2>3. \A e \in Events, j \in Instances : Clean(j, e) => Clean(j, e)'
    BY <2>1, <2>2 DEF Clean, Older, Loads
  <2>4. QED
    BY <1>2, <2>1, <2>3, HandledKept DEF LocalInv, Sent, Announced
<1>5. QED
  BY <1>3, <1>4

\* Every step keeps the invariant while queues stay bound and the local cache
\* does not throw.
LEMMA LocalNext ==
  ASSUME PromptReaders, ~CanDisconnect, ~LocalCacheFails, LocalInv, [Next]_vars
  PROVE  LocalInv'
<1>1. FreshInv'
  BY FreshNext DEF LocalInv
<1>2. CASE UNCHANGED vars
  <2>1. UNCHANGED <<outbox, local, fanout, bound, reader, worker, consumer>>
    BY <1>2 DEF vars, mysql, caches, queues
  <2>2. QED
    BY <1>1, <2>1 DEF LocalInv, HandledOK, AllBound, NoPuts, Sent, Completed, Announced,
       Clean, Loads
<1>3. CASE Next
  <2>1. HandledOK'
    <3>1. CASE \E r \in Readers : ReaderNext(r)
      <4>1. PICK r \in Readers : ReaderNext(r)
        BY <3>1
      <4>2. UNCHANGED <<outbox, worker, fanout, consumer>>
        BY <4>1 DEF ReaderNext, StartRead, ReadRedis, ReadMySQL, FillRedis, StoreLocal,
           ReadLost, mysql, queues
      <4>3. /\ \A e \in Events : Sent(e)' => Sent(e)
            /\ \A i \in Instances : Announced(i) => Announced(i)'
        BY <4>2 DEF Sent, Completed, Announced
      <4>4. \A e \in Events, i \in Instances : Sent(e) /\ Clean(i, e) => Clean(i, e)'
        BY <4>1, CleanRead
      <4>5. QED
        BY <4>3, <4>4, HandledKept DEF LocalInv
    <3>2. ~(\E i \in Instances : Disconnect(i) \/ Reconnect(i))
      BY DEF Disconnect, Reconnect, LocalInv, AllBound
    <3>3. QED
      BY <1>3, <3>1, <3>2, HandledWorker, HandledListener, HandledEnvironment
      DEF Next, InstanceNext
  <2>2. AllBound'
    <3>1. bound \in [Instances -> BOOLEAN]
      BY DEF LocalInv, FreshInv, CacheInv, QueuesOK
    <3>2. CASE \E i \in Instances : Crash(i)
      BY <3>1, <3>2 DEF Crash, LocalInv, AllBound
    <3>3. CASE UNCHANGED bound
      BY <3>3 DEF LocalInv, AllBound
    <3>4. QED
      BY <1>3, <3>2, <3>3 DEF Next, ReaderNext, StartRead, ReadRedis, ReadMySQL, FillRedis,
         StoreLocal, ReadLost, InstanceNext, WorkerNext, FindDue, Claim, DeleteRedis,
         InvalidateLocal, Publish, ScheduleDelayedStage, MarkCompleted, HandleFailure,
         FinishThrows, WorkerLost, WorkerAt, WorkerDone, ConsumerNext, Receive,
         ConsumeRedis, ConsumeLocal, SaveShop, Update, RedisExpires, RecoverExpired,
         LocalExpires, Disconnect, Reconnect, LocalInv, AllBound, queues
  <2>3. NoPuts'
    <3>1. reader \in [Readers -> ReaderType]
      BY DEF LocalInv, FreshInv, CacheInv, ReadersOK
    <3>2. CASE \E r \in Readers : ReaderNext(r)
      <4>1. PICK r \in Readers : ReaderNext(r)
        BY <3>2
      <4>2. \A q \in Readers : q # r => reader'[q] = reader[q]
        BY <3>1, <4>1 DEF ReaderNext, StartRead, ReadRedis, ReadMySQL, FillRedis, StoreLocal,
           ReadLost, ReaderAt, ReaderDone
      <4>3. reader'[r].pc # "idle" => reader'[r].mode # "put"
        <5>1. CASE StartRead(r)
          BY <3>1, <5>1 DEF StartRead, IdleReader
        <5>2. CASE \E from : ReaderDone(r, from)
          BY <3>1, <5>2 DEF ReaderDone, IdleReader
        <5>3. CASE \E from \in {"redis", "db", "fill"} : \E to, value : ReaderAt(r, from, to, value)
          BY <3>1, <5>3 DEF ReaderAt, ReaderType, LocalInv, NoPuts
        <5>4. QED
          BY <4>1, <5>1, <5>2, <5>3 DEF ReaderNext, ReadRedis, ReadMySQL, FillRedis,
             StoreLocal, ReadLost
      <4>4. QED
        BY <4>2, <4>3 DEF LocalInv, NoPuts
    <3>3. CASE \E i \in Instances : Crash(i)
      BY <3>3 DEF Crash, IdleReader, LocalInv, NoPuts
    <3>4. CASE UNCHANGED reader
      BY <3>4 DEF LocalInv, NoPuts
    <3>5. QED
      BY <1>3, <3>2, <3>3, <3>4 DEF Next, InstanceNext, WorkerNext, FindDue, Claim,
         DeleteRedis, InvalidateLocal, Publish, ScheduleDelayedStage, MarkCompleted,
         HandleFailure, FinishThrows, WorkerLost, WorkerAt, WorkerDone, ConsumerNext,
         Receive, ConsumeRedis, ConsumeLocal, SaveShop, Update, RedisExpires,
         RecoverExpired, LocalExpires, Disconnect, Reconnect
  <2>4. QED
    BY <1>1, <2>1, <2>2, <2>3 DEF LocalInv
<1>4. QED
  BY <1>2, <1>3

\* Local caches follow: once an instance has handled the broadcasts of a
\* completed event it holds nothing older than the update, although a load of
\* the old shop may have run when the broadcast came, provided that its queue
\* stays bound and its cache does not throw, since the code then puts the entry
\* without the lock that invalidate waits for.
THEOREM LocalCachesFollow ==
  PromptReaders /\ ~CanDisconnect /\ ~LocalCacheFails /\ Spec => []LocalFresh
<1>1. Init => LocalInv
  <2>1. SUFFICES ASSUME Init
                 PROVE  LocalInv
    OBVIOUS
  <2>2. /\ \A e \in Events : ~Completed(e)
        /\ \A i \in Instances : worker[i].pc = "idle" /\ bound[i]
        /\ \A r \in Readers : reader[r].pc = "idle"
    BY <2>1 DEF Init, Completed, NoEvent, IdleWorker, IdleReader
  <2>3. QED
    BY <2>1, <2>2, FreshInit DEF LocalInv, HandledOK, Sent, AllBound, NoPuts
<1>2. LocalInv => LocalFresh
  <2>1. SUFFICES ASSUME LocalInv, NEW e \in Events, NEW i \in Instances,
                        Completed(e), fanout[i] = 0, consumer[i].pc = "idle"
                 PROVE  ~Older(local[i], e)
    BY DEF LocalFresh
  <2>2. ~Announced(i) /\ Sent(e)
    BY <2>1 DEF Announced, Sent
  <2>3. QED
    BY <2>1, <2>2 DEF LocalInv, HandledOK, Clean
<1>3. CASE PromptReaders /\ ~CanDisconnect /\ ~LocalCacheFails
  <2>1. LocalInv /\ [Next]_vars => LocalInv'
    BY <1>3, LocalNext
  <2>2. QED
    BY <1>1, <1>2, <2>1, PTL DEF Spec
<1>4. CASE ~(PromptReaders /\ ~CanDisconnect /\ ~LocalCacheFails)
  BY <1>4
<1>5. QED
  BY <1>3, <1>4

-----------------------------------------------------------------------------
(* Retry counts                                                            *)

\* What a task remembers of the events of its batch is what the rows say, and
\* no event is in the batch twice or once more after it was claimed.
SnapshotsOK ==
  \A i \in Instances :
    /\ \A s \in worker[i].batch : s = SnapshotOf(s.event)
    /\ worker[i].pc # "idle" =>
         /\ worker[i].now = SnapshotOf(worker[i].now.event)
         /\ \A s \in worker[i].batch : s.event # worker[i].now.event

CountsOK == \A e \in Events : outbox[e].retryCount <= failures[e]

DeadOK == \A e \in Events : outbox[e].status = "dead" => outbox[e].retryCount >= MaxRetries

CountInv == CacheInv /\ SnapshotsOK /\ CountsOK /\ DeadOK

\* Events of which the rows say what they said remain well remembered.
LEMMA SnapshotsKept ==
  ASSUME CacheInv, SnapshotsOK,
         \A i \in Instances :
           /\ worker'[i].batch \subseteq worker[i].batch
           /\ worker'[i].pc # "idle" => worker[i].pc # "idle" /\ worker'[i].now = worker[i].now,
         \A i \in Instances : \A s \in worker'[i].batch :
           SnapshotOf(s.event)' = SnapshotOf(s.event),
         \A i \in Instances : worker'[i].pc # "idle" =>
           SnapshotOf(worker[i].now.event)' = SnapshotOf(worker[i].now.event)
  PROVE  SnapshotsOK'
<1>1. SUFFICES ASSUME NEW i \in Instances
               PROVE  /\ \A s \in worker'[i].batch : s = SnapshotOf(s.event)'
                      /\ worker'[i].pc # "idle" =>
                           /\ worker'[i].now = SnapshotOf(worker[i].now.event)'
                           /\ \A s \in worker'[i].batch : s.event # worker'[i].now.event
  BY DEF SnapshotsOK, SnapshotOf
<1>2. ASSUME NEW s \in worker'[i].batch PROVE s = SnapshotOf(s.event)'
  <2>1. s \in worker[i].batch
    OBVIOUS
  <2>2. QED
    BY <2>1 DEF SnapshotsOK
<1>3. worker'[i].pc # "idle" =>
        /\ worker'[i].now = SnapshotOf(worker[i].now.event)'
        /\ \A s \in worker'[i].batch : s.event # worker'[i].now.event
  <2>1. SUFFICES ASSUME worker'[i].pc # "idle"
                 PROVE  /\ worker'[i].now = SnapshotOf(worker[i].now.event)'
                        /\ \A s \in worker'[i].batch : s.event # worker'[i].now.event
    OBVIOUS
  <2>2. /\ worker'[i].now = worker[i].now
        /\ worker[i].now = SnapshotOf(worker[i].now.event)
        /\ \A s \in worker[i].batch : s.event # worker[i].now.event
    BY <2>1 DEF SnapshotsOK
  <2>3. QED
    BY <2>1, <2>2
<1>4. QED
  BY <1>2, <1>3

\* A step that changes neither counts nor stages, and after which the tasks
\* remember no more than before.
LEMMA CountKept ==
  ASSUME CountInv, CacheInv',
         \A e \in Events : /\ outbox'[e].stage = outbox[e].stage
                           /\ outbox'[e].retryCount = outbox[e].retryCount
                           /\ outbox'[e].status = "dead" => outbox[e].status = "dead",
         \A i \in Instances :
           /\ worker'[i].batch \subseteq worker[i].batch
           /\ worker'[i].pc # "idle" => worker[i].pc # "idle" /\ worker'[i].now = worker[i].now,
         UNCHANGED failures
  PROVE  CountInv'
<1>1. \A e \in Events : SnapshotOf(e)' = SnapshotOf(e)
  BY DEF SnapshotOf
<1>2. \A i \in Instances :
        /\ \A s \in worker[i].batch : s.event \in Events
        /\ worker[i].pc # "idle" => worker[i].now.event \in Events
  BY DEF CountInv, CacheInv, WorkersOK, WorkerOK, SnapshotOK, Snapshot
<1>3. SnapshotsOK'
  BY <1>1, <1>2, SnapshotsKept DEF CountInv
<1>4. CountsOK' /\ DeadOK'
  BY DEF CountInv, CountsOK, DeadOK
<1>5. QED
  BY <1>3, <1>4 DEF CountInv

\* What a task of the only instance does.
LEMMA CountWorker ==
  ASSUME \A i, j \in Instances : i = j,
         CountInv, NEW i \in Instances, WorkerNext(i)
  PROVE  CountInv'
<1>1. CacheInv /\ CacheInv'
  BY WorkerStep DEF CountInv
<1>2. /\ worker \in [Instances -> WorkerType]
      /\ outbox \in [Events -> EventType]
      /\ failures \in [Events -> Nat]
      /\ \A s \in worker[i].batch : s \in Snapshot
      /\ worker[i].pc # "idle" => worker[i].now \in Snapshot
  BY <1>1 DEF CacheInv, WorkersOK, OutboxOK, HistoryOK, WorkerOK, SnapshotOK
<1>3. CASE FindDue(i)
  <2>1. PICK due \in SUBSET {e \in Events : MayBeDue(e)} \ {{}} :
          worker' = [worker EXCEPT ![i].batch = {SnapshotOf(e) : e \in due}]
    BY <1>3 DEF FindDue
  <2>2. worker'[i].batch = {SnapshotOf(e) : e \in due} /\ worker'[i].pc = "idle"
    BY <1>2, <1>3, <2>1 DEF FindDue, WorkerType, IdleWorker
  <2>3. UNCHANGED <<outbox, failures>>
    BY <1>3 DEF FindDue, mysql
  <2>4. \A s \in worker'[i].batch : s = SnapshotOf(s.event)'
    BY <2>2, <2>3 DEF SnapshotOf
  <2>5. SnapshotsOK'
    BY <2>2, <2>4 DEF SnapshotsOK, SnapshotOf
  <2>6. QED
    BY <1>1, <2>3, <2>5 DEF CountInv, CountsOK, DeadOK
<1>4. CASE Claim(i)
  <2>1. PICK s \in worker[i].batch :
          \/ /\ outbox' = [outbox EXCEPT ![s.event].status = "processing"]
             /\ worker' = [worker EXCEPT ![i] =
                  [pc |-> "redis", batch |-> worker[i].batch \ {s}, now |-> s, ok |-> TRUE]]
          \/ /\ worker' = [worker EXCEPT ![i].batch = worker[i].batch \ {s}]
             /\ UNCHANGED outbox
    BY <1>4 DEF Claim
  <2>2. s = SnapshotOf(s.event) /\ s.event \in Events
    BY <1>2 DEF CountInv, SnapshotsOK, Snapshot
  <2>3. \A e \in Events : /\ outbox'[e].stage = outbox[e].stage
                          /\ outbox'[e].retryCount = outbox[e].retryCount
                          /\ outbox'[e].status = "dead" => outbox[e].status = "dead"
    BY <1>2, <2>1, <2>2 DEF EventType
  <2>4. UNCHANGED failures
    BY <1>4 DEF Claim
  <2>5. worker'[i].batch = worker[i].batch \ {s}
    BY <1>2, <2>1 DEF WorkerType
  <2>6. worker'[i].pc # "idle" => worker'[i].now = s
    BY <1>2, <1>4, <2>1 DEF Claim, WorkerType
  <2>7. \A e \in Events : SnapshotOf(e)' = SnapshotOf(e)
    BY <2>3 DEF SnapshotOf
  <2>8. \A t \in worker[i].batch : t.event = s.event => t = s
    BY <2>2 DEF CountInv, SnapshotsOK
  <2>9. \A t \in worker'[i].batch : t = SnapshotOf(t.event)' /\ t.event # s.event
    BY <1>2, <2>5, <2>7, <2>8 DEF CountInv, SnapshotsOK, Snapshot
  <2>10. SnapshotsOK'
    BY <2>2, <2>6, <2>7, <2>9 DEF SnapshotsOK, SnapshotOf
  <2>11. QED
    BY <1>1, <2>3, <2>4, <2>10 DEF CountInv, CountsOK, DeadOK
<1>5. CASE ScheduleDelayedStage(i) \/ HandleFailure(i)
  <2> DEFINE e == worker[i].now.event
             n == worker[i].now.retryCount + 1
  <2>1. e \in Events /\ worker[i].now = SnapshotOf(e) /\ worker[i].pc = "finish"
    BY <1>2, <1>5
    DEF ScheduleDelayedStage, HandleFailure, WorkerDone, CountInv, SnapshotsOK, Snapshot
  <2>2. worker'[i].pc = "idle" /\ worker'[i].batch = worker[i].batch
    BY <1>2, <1>5 DEF ScheduleDelayedStage, HandleFailure, WorkerDone, IdleWorker
  <2>3. \A f \in Events : f # e => outbox'[f] = outbox[f] /\ failures'[f] = failures[f]
    BY <1>2, <1>5 DEF ScheduleDelayedStage, HandleFailure
  <2>4. \A s \in worker[i].batch : s.event # e /\ s.event \in Events
    BY <1>2, <2>1 DEF CountInv, SnapshotsOK, Snapshot
  <2>5. \A f \in Events : f # e => SnapshotOf(f)' = SnapshotOf(f)
    BY <2>3 DEF SnapshotOf
  <2>6. SnapshotsOK'
    BY <1>1, <2>2, <2>4, <2>5, SnapshotsKept DEF CountInv
  <2>7. /\ outbox'[e].retryCount <= failures'[e]
        /\ outbox'[e].status = "dead" => outbox'[e].retryCount >= MaxRetries
    <3>1. CASE UNCHANGED <<outbox, failures>>
      BY <2>1, <3>1 DEF CountInv, CountsOK, DeadOK
    <3>2. CASE ScheduleDelayedStage(i) /\ outbox[e].status = "processing"
      <4>1. /\ outbox' = [outbox EXCEPT ![e] =
                 [status |-> "pending", stage |-> Delayed, retryCount |-> 0]]
            /\ failures' = [failures EXCEPT ![e] = 0]
        BY <3>2 DEF ScheduleDelayedStage
      <4>2. QED
        BY <1>2, <2>1, <4>1
    <3>3. CASE HandleFailure(i) /\ outbox[e].status = "processing"
      <4>1. /\ outbox' = [outbox EXCEPT
                 ![e].status = IF n >= MaxRetries THEN "dead" ELSE "pending",
                 ![e].retryCount = n]
            /\ failures' = [failures EXCEPT ![e] = failures[e] + 1]
        BY <3>3 DEF HandleFailure
      <4>2. /\ outbox'[e].status = IF n >= MaxRetries THEN "dead" ELSE "pending"
            /\ outbox'[e].retryCount = n
            /\ failures'[e] = failures[e] + 1
        BY <1>2, <2>1, <4>1 DEF EventType
      <4>3. n = outbox[e].retryCount + 1 /\ n <= failures[e] + 1
        <5>1. outbox[e].retryCount \in Nat /\ failures[e] \in Nat
          BY <1>2, <2>1 DEF EventType
        <5>2. outbox[e].retryCount <= failures[e]
          BY <2>1 DEF CountInv, CountsOK
        <5>3. n = outbox[e].retryCount + 1
          BY <2>1 DEF SnapshotOf
        <5>4. QED
          BY <5>1, <5>2, <5>3
      <4>4. QED
        BY <4>2, <4>3
    <3>4. QED
      BY <1>5, <3>1, <3>2, <3>3 DEF ScheduleDelayedStage, HandleFailure
  <2>8. CountsOK' /\ DeadOK'
    BY <2>3, <2>7 DEF CountInv, CountsOK, DeadOK
  <2>9. QED
    BY <1>1, <2>6, <2>8 DEF CountInv
<1>6. CASE ~(FindDue(i) \/ Claim(i) \/ ScheduleDelayedStage(i) \/ HandleFailure(i))
  <2>1. /\ worker'[i].batch \subseteq worker[i].batch
        /\ worker'[i].pc # "idle" => worker[i].pc # "idle" /\ worker'[i].now = worker[i].now
    <3>1. CASE DeleteRedis(i) \/ InvalidateLocal(i) \/ FinishThrows(i)
      BY <1>2, <3>1 DEF DeleteRedis, InvalidateLocal, FinishThrows, WorkerAt, WorkerType
    <3>2. CASE Publish(i)
      BY <1>2, <3>2 DEF Publish, WorkerType
    <3>3. CASE WorkerDone(i) \/ WorkerLost(i)
      BY <1>2, <3>3 DEF WorkerDone, WorkerLost, IdleWorker
    <3>4. QED
      BY <1>6, <3>1, <3>2, <3>3 DEF WorkerNext, MarkCompleted
  <2>2. UNCHANGED failures
    BY <1>6 DEF WorkerNext, DeleteRedis, InvalidateLocal, Publish, MarkCompleted,
       FinishThrows, WorkerLost, mysql
  <2>3. \A e \in Events : /\ outbox'[e].stage = outbox[e].stage
                          /\ outbox'[e].retryCount = outbox[e].retryCount
                          /\ outbox'[e].status = "dead" => outbox[e].status = "dead"
    <3>1. CASE MarkCompleted(i)
      BY <1>2, <3>1 DEF MarkCompleted, EventType
    <3>2. CASE UNCHANGED outbox
      BY <3>2
    <3>3. QED
      BY <1>6, <3>1, <3>2 DEF WorkerNext, DeleteRedis, InvalidateLocal, Publish,
         FinishThrows, WorkerLost, mysql
  <2>4. QED
    BY <1>1, <2>1, <2>2, <2>3, CountKept
<1>7. QED
  BY <1>3, <1>4, <1>5, <1>6

\* Every step keeps the counts while there is one instance.
LEMMA CountNext ==
  ASSUME \A i, j \in Instances : i = j, CountInv, [Next]_vars
  PROVE  CountInv'
<1>1. CacheInv /\ CacheInv'
  BY NextHolds DEF CountInv
<1>2. CASE \E i \in Instances : WorkerNext(i)
  BY <1>2, CountWorker
<1>3. CASE ~(\E i \in Instances : WorkerNext(i))
  <2>1. UNCHANGED failures
    BY <1>3 DEF Next, vars, InstanceNext, ReaderNext, StartRead, ReadRedis, ReadMySQL,
       FillRedis, StoreLocal, ReadLost, ConsumerNext, Receive, ConsumeRedis, ConsumeLocal,
       SaveShop, Update, RedisExpires, RecoverExpired, LocalExpires, Disconnect, Reconnect,
       Crash, mysql
  <2>2. \A e \in Events : /\ outbox'[e].stage = outbox[e].stage
                          /\ outbox'[e].retryCount = outbox[e].retryCount
                          /\ outbox'[e].status = "dead" => outbox[e].status = "dead"
    <3>1. outbox \in [Events -> EventType]
      BY <1>1 DEF CacheInv, OutboxOK
    <3>2. CASE Update
      <4>1. row + 1 \in Events /\ row + 1 > row
        BY <1>1, <3>2, ShopCacheAssumption DEF Update, CacheInv, OutboxOK, Versions, Events
      <4>2. outbox[row + 1] = NoEvent
        BY <1>1, <4>1 DEF CacheInv, OutboxOK
      <4>3. outbox' = [outbox EXCEPT ![row + 1] = [NoEvent EXCEPT !.status = "pending"]]
        BY <3>2 DEF Update
      <4>4. QED
        BY <3>1, <4>1, <4>2, <4>3 DEF NoEvent
    <3>3. CASE \E e \in Events : RecoverExpired(e)
      BY <3>1, <3>3 DEF RecoverExpired, EventType
    <3>4. CASE UNCHANGED outbox
      BY <3>4
    <3>5. QED
      BY <1>3, <3>2, <3>3, <3>4 DEF Next, vars, InstanceNext, ReaderNext, StartRead, ReadRedis,
         ReadMySQL, FillRedis, StoreLocal, ReadLost, ConsumerNext, Receive, ConsumeRedis,
         ConsumeLocal, SaveShop, RedisExpires, LocalExpires, Disconnect, Reconnect, Crash,
         mysql
  <2>3. \A i \in Instances :
          /\ worker'[i].batch \subseteq worker[i].batch
          /\ worker'[i].pc # "idle" => worker[i].pc # "idle" /\ worker'[i].now = worker[i].now
    <3>1. CASE \E i \in Instances : Crash(i)
      BY <1>1, <3>1 DEF Crash, IdleWorker, CacheInv, WorkersOK
    <3>2. CASE UNCHANGED worker
      BY <3>2
    <3>3. QED
      BY <1>3, <3>1, <3>2 DEF Next, vars, InstanceNext, ReaderNext, StartRead, ReadRedis,
         ReadMySQL, FillRedis, StoreLocal, ReadLost, ConsumerNext, Receive, ConsumeRedis,
         ConsumeLocal, SaveShop, Update, RedisExpires, RecoverExpired, LocalExpires,
         Disconnect, Reconnect
  <2>4. QED
    BY <1>1, <2>1, <2>2, <2>3, CountKept
<1>4. QED
  BY <1>2, <1>3

\* handleFailure counts from the snapshot, which is what the row says as long
\* as nobody else works on the outbox: with one instance an event is given up
\* only after max-retries failures of its stage.
THEOREM RetriesCounted ==
  (\A i, j \in Instances : i = j) /\ Spec => []DeadAfterRetries
<1>1. Init => CountInv
  <2>1. SUFFICES ASSUME Init
                 PROVE  CountInv
    OBVIOUS
  <2>2. \A e \in Events : /\ outbox[e].retryCount = 0
                          /\ failures[e] = 0
                          /\ outbox[e].status # "dead"
    BY <2>1 DEF Init, NoEvent
  <2>3. \A i \in Instances : worker[i].pc = "idle" /\ worker[i].batch = {}
    BY <2>1 DEF Init, IdleWorker
  <2>4. QED
    BY <2>1, <2>2, <2>3, InitHolds DEF CountInv, SnapshotsOK, CountsOK, DeadOK
<1>2. CountInv => DeadAfterRetries
  <2>1. SUFFICES ASSUME CountInv, NEW e \in Events, outbox[e].status = "dead"
                 PROVE  failures[e] >= MaxRetries
    BY DEF DeadAfterRetries
  <2>2. outbox[e].retryCount <= failures[e] /\ outbox[e].retryCount >= MaxRetries
    BY <2>1 DEF CountInv, CountsOK, DeadOK
  <2>3. failures[e] \in Nat /\ outbox[e].retryCount \in Nat
    BY <2>1 DEF CountInv, CacheInv, OutboxOK, HistoryOK, EventType
  <2>4. QED
    BY <2>2, <2>3, ShopCacheAssumption
<1>3. CASE \A i, j \in Instances : i = j
  <2>1. CountInv /\ [Next]_vars => CountInv'
    BY <1>3, CountNext
  <2>2. QED
    BY <1>1, <1>2, <2>1, PTL DEF Spec
<1>4. CASE ~(\A i, j \in Instances : i = j)
  BY <1>4
<1>5. QED
  BY <1>3, <1>4
=============================================================================
