----------------------------- MODULE OrderStatus -----------------------------
(***************************************************************************)
(* The status query and the client that polls it.  The client of an order  *)
(* learns the id from the reply to its request and asks until the answer   *)
(* is final.  The query reads the detail hash, and MySQL only when there   *)
(* is no hash: two reads, between which the pipeline goes on.              *)
(***************************************************************************)
EXTENDS OrderPipeline

VARIABLE client   \* client[o]: where the client of o is, or its last answer

statusVars == <<vars, client>>

Verdicts  == {"COMPLETED", "FAILED", "NOT_FOUND"}
ClientPcs == {"none", "polling", "row"} \cup Verdicts

StatusTypeOK == client \in [Orders -> ClientPcs]

StatusInit ==
  /\ Init
  /\ client = [o \in Orders |-> IF o \in LegacyOrders THEN "polling" ELSE "none"]

\* The request replies with the order id.  A reply that gets lost is the
\* same step of the pipeline with the client left as it was.
Reply(o) ==
  /\ RequestSend(o) \/ RequestSendFailed(o) \/ SyncComplete(o)
  /\ client' = [client EXCEPT ![o] = "polling"]

\* Bug: an order whose message went back to the task is reported as failed.
HashAnswerNackIsFinal(hash) ==
  CASE ~hash.owned                                   -> "NOT_FOUND"
    [] hash.owned /\ hash.status = "ORDER_CREATED"   -> "COMPLETED"
    [] hash.owned /\ hash.status \in {"FAILED", "BROKER_NACK", "ROUTE_FAILED"}
                                                     -> "FAILED"
    [] OTHER                                         -> "polling"

\* The answer drawn from a detail hash; a hash without the asker's user id
\* is answered like a missing order.
HashAnswer(hash) ==
  CASE ~hash.owned                                   -> "NOT_FOUND"
    [] hash.owned /\ hash.status = "ORDER_CREATED"   -> "COMPLETED"
    [] hash.owned /\ hash.status = "FAILED"          -> "FAILED"
    [] OTHER                                         -> "polling"

\* PROCESSING is answered with another poll.
PollHash(o) ==
  /\ client[o] = "polling"
  /\ client' = [client EXCEPT ![o] =
       IF data[o] = NoData THEN "row" ELSE HashAnswer(data[o])]
  /\ UNCHANGED vars

PollRow(o) ==
  /\ client[o] = "row"
  /\ client' = [client EXCEPT ![o] =
       IF o \in dbOrders THEN "COMPLETED" ELSE "NOT_FOUND"]
  /\ UNCHANGED vars

StatusNext ==
  \/ Next /\ UNCHANGED client
  \/ \E o \in Orders : Reply(o) \/ PollHash(o) \/ PollRow(o)

StatusSpec == StatusInit /\ [][StatusNext]_statusVars

-----------------------------------------------------------------------------
(* Safety                                                                  *)

\* A client stops at its first final answer and acts on it, so the answer
\* must stay true whatever late messages, callbacks and compensations do
\* afterwards (querySeckillOrderStatus reads one store, the pipeline writes
\* two): the user of a completed order has an order row, and a failed order
\* does not hold the user's slot.
VerdictStaysTrue ==
  \A o \in Orders :
    /\ client[o] = "COMPLETED" => Owner[o] \in Buyers
    /\ client[o] = "FAILED" => reservation[Owner[o]] # o

\* While the detail hash lives, an order that was accepted is never reported
\* as unknown: no step of the pipeline drops the hash or its user id.
AcceptedIsKnown ==
  ~CanExpire => \A o \in Orders \ LegacyOrders : client[o] # "NOT_FOUND"

-----------------------------------------------------------------------------
(* Liveness                                                                *)

\* Clients keep polling, on top of the fairness of the pipeline.
PollFairness == \A o \in Orders : WF_statusVars(PollHash(o) \/ PollRow(o))

FairStatusSpec == StatusSpec /\ Fairness /\ PollFairness

\* "For clients to poll the final processing status": a client that keeps
\* polling is told a final status (VoucherOrderController).
PollersAreAnswered ==
  \A o \in Orders : client[o] \in {"polling", "row"} ~> client[o] \in Verdicts
=============================================================================
