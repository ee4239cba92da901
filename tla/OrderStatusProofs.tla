--------------------------- MODULE OrderStatusProofs ---------------------------
(***************************************************************************)
(* What a client is told stays true, and what was accepted is known, for   *)
(* every number of users, orders, threads, retries and faults.             *)
(***************************************************************************)
EXTENDS OrderStatus, OrderVerdictProofs

\* An answer once given rests on the facts that no step undoes.  Only an
\* admitted order has a client.
AnswersOK ==
  \A o \in Orders :
    /\ client[o] = "COMPLETED" => Bought(o)
    /\ client[o] = "FAILED" => Freed(o)
    /\ client[o] # "none" => o \in issued

\* While no hash expires, an admitted order has one with its user's id.
HashesOK ==
  \A o \in issued \ LegacyOrders : data[o].owned /\ data[o].status # "none"

\* The query falls through to MySQL for the orders without a hash only.
KnownOK ==
  /\ HashesOK
  /\ \A o \in Orders \ LegacyOrders : client[o] \notin {"row", "NOT_FOUND"}

StatusInv ==
  /\ StatusTypeOK
  /\ IndInv /\ CompletedOK /\ FailedOK
  /\ AnswersOK

LEMMA InitStatusInv ==
  ASSUME StatusInit
  PROVE  StatusInv /\ KnownOK
<1>1. IndInv /\ CompletedOK /\ FailedOK
  BY InitIndInv, InitReports DEF StatusInit
<1>2. \A o \in Orders : client[o] = IF o \in LegacyOrders THEN "polling" ELSE "none"
  BY DEF StatusInit
<1>3. AnswersOK /\ issued = LegacyOrders
  BY <1>2 DEF StatusInit, Init, AnswersOK
<1>. QED
  BY <1>1, <1>2, <1>3 DEF StatusInv, StatusTypeOK, StatusInit, ClientPcs, KnownOK, HashesOK

LEMMA HashesStay ==
  ASSUME Shape, StepOK, Honest, HashesOK, ~CanExpire
  PROVE  HashesOK'
<1>. SUFFICES ASSUME NEW o \in issued', o \notin LegacyOrders
              PROVE  data'[o].owned /\ data'[o].status # "none"
  BY DEF HashesOK
<1>. USE DEF Shape, StoresOK, RedisTypeOK
<1>1. CASE Admission
  BY <1>1 DEF Admission, Reserve, HashesOK
<1>2. CASE Insertion \/ HalfInsertion
  BY <1>2 DEF Insertion, HalfInsertion, redis, HashesOK
<1>3. CASE Internal
  <2>1. o \in issued /\ o \in Orders /\ data[o].owned /\ data[o].status # "none"
    BY <1>3 DEF Internal, HashesOK
  <2>2. data'[o].status # "none"
    BY <2>1 DEF Honest, StatusHonest
  <2>3. ASSUME NEW p \in Orders, ExpireData(p)
        PROVE  data'[o].owned
    BY <2>1, <2>2, <2>3 DEF ExpireData, NoData
  <2>4. ASSUME NEW p \in issued, StatusUpdate(p)
        PROVE  data'[o].owned
    BY <2>1, <2>3, <2>4 DEF StatusUpdate, MarkSendSuccess, MarkSendFailed, MarkRouteFailed,
       BeforeRepublish, MarkFailed, MarkConsuming, RemovePending, WriteStatus
  <2>5. ASSUME NEW p \in issued, Restore(p)
        PROVE  data'[o].owned
    BY <2>1, <2>5 DEF Restore
  <2>. QED
    BY <1>3, <2>1, <2>2, <2>3, <2>4, <2>5 DEF Internal, redis
<1>. QED
  BY <1>1, <1>2, <1>3 DEF StepOK

\* A query tells what a hash or a row says.
LEMMA PollHonest ==
  ASSUME StatusInv, NEW o \in Orders, PollHash(o) \/ PollRow(o)
  PROVE  StatusTypeOK' /\ AnswersOK' /\ (KnownOK => KnownOK')
<1>. USE DEF StatusInv, StatusTypeOK, ClientPcs, Verdicts
<1>1. UNCHANGED vars
  BY DEF PollHash, PollRow
<1>2. \A p \in Orders : (Bought(p) <=> Bought(p)') /\ (Freed(p) <=> Freed(p)')
  BY <1>1 DEF vars, redis, mysql, Bought, Freed, Buyers
<1>3. PICK answer : client' = [client EXCEPT ![o] = answer]
  BY DEF PollHash, PollRow
<1>4. o \in issued
  BY DEF PollHash, PollRow, AnswersOK
<1>5. /\ answer \in ClientPcs
      /\ answer = "COMPLETED" => Bought(o)
      /\ answer = "FAILED" => Freed(o)
  <2>1. CASE PollHash(o)
    <3>1. client'[o] = IF data[o] = NoData THEN "row" ELSE HashAnswer(data[o])
      BY <2>1 DEF PollHash
    <3>2. client'[o] = answer
      BY <1>3
    <3>. QED
      BY <3>1, <3>2 DEF HashAnswer, CompletedOK, FailedOK
  <2>2. CASE PollRow(o)
    <3>1. client'[o] = IF o \in dbOrders THEN "COMPLETED" ELSE "NOT_FOUND"
      BY <2>2 DEF PollRow
    <3>2. client'[o] = answer
      BY <1>3
    <3>. QED
      BY <3>1, <3>2 DEF Bought, Buyers
  <2>. QED
    BY <2>1, <2>2
<1>6. StatusTypeOK'
  BY <1>3, <1>5
<1>7. AnswersOK'
  BY <1>1, <1>2, <1>3, <1>4, <1>5 DEF AnswersOK, vars
<1>8. ASSUME KnownOK
      PROVE  KnownOK'
  <2>1. o \notin LegacyOrders => data[o].owned /\ data[o] # NoData /\ client[o] # "row"
    BY <1>4, <1>8 DEF KnownOK, HashesOK, NoData
  <2>2. o \notin LegacyOrders => client'[o] \notin {"row", "NOT_FOUND"}
    BY <2>1 DEF PollHash, PollRow, HashAnswer
  <2>. QED
    BY <1>1, <1>3, <1>8, <2>2 DEF KnownOK, HashesOK, vars, redis
<1>. QED
  BY <1>6, <1>7, <1>8

LEMMA StepStatusInv ==
  ASSUME StatusInv, ~CanExpire, [StatusNext]_statusVars
  PROVE  StatusInv' /\ (KnownOK => KnownOK')
<1>1. CASE \E o \in Orders : PollHash(o) \/ PollRow(o)
  <2>1. UNCHANGED vars
    BY <1>1 DEF PollHash, PollRow
  <2>2. (IndInv /\ CompletedOK /\ FailedOK)'
    BY <2>1, StepIndInv, StepShape, StepHonest, StepCompletedOK, StepFailedOK
       DEF StatusInv, IndInv
  <2>. QED
    BY <1>1, <2>2, PollHonest DEF StatusInv
<1>2. CASE Next /\ \/ UNCHANGED client
                   \/ \E o \in issued \cap Orders : client' = [client EXCEPT ![o] = "polling"]
  <2>1. Shape /\ StepOK /\ Honest
    BY <1>2, StepShape, StepHonest DEF StatusInv, IndInv
  <2>2. (IndInv /\ CompletedOK /\ FailedOK)'
    BY <1>2, <2>1, StepIndInv, StepCompletedOK, StepFailedOK DEF StatusInv
  <2>3. issued \subseteq issued'
    BY <2>1 DEF StepOK, Admission, Insertion, HalfInsertion, Internal
  <2>4. StatusTypeOK'
    BY <1>2 DEF StatusInv, StatusTypeOK, ClientPcs
  <2>5. AnswersOK'
    <3>. SUFFICES ASSUME NEW o \in Orders
                  PROVE  /\ client'[o] = "COMPLETED" => Bought(o)'
                         /\ client'[o] = "FAILED" => Freed(o)'
                         /\ client'[o] # "none" => o \in issued'
      BY DEF AnswersOK
    <3>1. client'[o] = client[o] \/ (client'[o] = "polling" /\ o \in issued)
      BY <1>2 DEF StatusInv, StatusTypeOK
    <3>2. CASE client'[o] = client[o]
      BY <2>1, <2>3, <3>2, BoughtStays, FreedStays DEF StatusInv, AnswersOK
    <3>. QED
      BY <2>3, <3>1, <3>2
  <2>6. KnownOK => KnownOK'
    BY <1>2, <2>1, HashesStay DEF KnownOK, StatusInv, StatusTypeOK
  <2>. QED
    BY <2>2, <2>4, <2>5, <2>6 DEF StatusInv
<1>3. CASE UNCHANGED statusVars
  <2>1. UNCHANGED vars /\ UNCHANGED client
    BY <1>3 DEF statusVars
  <2>2. (IndInv /\ CompletedOK /\ FailedOK)'
    BY <2>1, StepIndInv, StepShape, StepHonest, StepCompletedOK, StepFailedOK
       DEF StatusInv, IndInv
  <2>. QED
    BY <2>1, <2>2 DEF StatusInv, StatusTypeOK, AnswersOK, KnownOK, HashesOK, Bought, Freed,
       Buyers, vars, redis, mysql
<1>4. StatusNext =>
        \/ \E o \in Orders : PollHash(o) \/ PollRow(o)
        \/ Next /\ \/ UNCHANGED client
                   \/ \E o \in issued \cap Orders : client' = [client EXCEPT ![o] = "polling"]
  <2>1. ASSUME NEW o \in Orders, Reply(o)
        PROVE  Next /\ \E p \in issued \cap Orders : client' = [client EXCEPT ![p] = "polling"]
    <3>1. Next
      BY <2>1 DEF Reply, Next, RequestNext
    <3>2. request[o] # "idle"
      BY <2>1 DEF Reply, RequestSend, RequestSendFailed, SyncComplete, RequestAt
    <3>3. o \in issued
      BY <3>2 DEF StatusInv, IndInv, Shape, ThreadsOK, RequestOK
    <3>. QED
      BY <2>1, <3>1, <3>3 DEF Reply
  <2>. QED
    BY <2>1 DEF StatusNext
<1>. QED
  BY <1>1, <1>2, <1>3, <1>4

-----------------------------------------------------------------------------
(* Theorems                                                                *)

\* A final answer stays true while no detail hash expires: the user of a
\* completed order keeps the order row, a failed order never holds the slot
\* again, whatever messages, callbacks and compensations come after the
\* answer.
THEOREM VerdictsFinal == ~CanExpire => (StatusSpec => []VerdictStaysTrue)
<1>. SUFFICES ASSUME ~CanExpire
              PROVE  StatusSpec => []VerdictStaysTrue
  OBVIOUS
<1>1. StatusInit => StatusInv
  BY InitStatusInv
<1>2. StatusInv /\ [StatusNext]_statusVars => StatusInv'
  BY StepStatusInv
<1>3. StatusInv => VerdictStaysTrue
  BY DEF StatusInv, AnswersOK, VerdictStaysTrue, Bought, Freed
<1>. QED
  BY <1>1, <1>2, <1>3, PTL DEF StatusSpec

\* While its detail hash lives, an accepted order is never answered like a
\* missing one, nor looked up in MySQL.
THEOREM AcceptedKnown == StatusSpec => []AcceptedIsKnown
<1>1. CASE CanExpire
  <2>1. AcceptedIsKnown
    BY <1>1 DEF AcceptedIsKnown
  <2>. QED
    BY <2>1, PTL
<1>2. CASE ~CanExpire
  <2>1. StatusInit => StatusInv /\ KnownOK
    BY InitStatusInv
  <2>2. StatusInv /\ KnownOK /\ [StatusNext]_statusVars => (StatusInv /\ KnownOK)'
    BY <1>2, StepStatusInv
  <2>3. KnownOK => AcceptedIsKnown
    BY DEF KnownOK, AcceptedIsKnown
  <2>. QED
    BY <2>1, <2>2, <2>3, PTL DEF StatusSpec
<1>. QED
  BY <1>1, <1>2
=============================================================================
