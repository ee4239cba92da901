---------------------------- MODULE SeckillRedis ----------------------------
(***************************************************************************)
(* The Redis keys of one seckill voucher and every operation the program   *)
(* runs on them: the two Lua scripts and the methods of                    *)
(* PendingOrderService.  All keys of a voucher carry its id, so vouchers   *)
(* do not interact and one voucher is modelled.                            *)
(*                                                                         *)
(* A Lua script is one atomic step.  A method that reads a status and then *)
(* writes (markSendSuccess, markConsuming) is given as a test and a write, *)
(* for the caller to run in two steps; the writes of one method touch one  *)
(* order only and are taken together.  Timestamps, delays and error texts  *)
(* are left out: any pending order may be due at any time.                 *)
(***************************************************************************)
EXTENDS Naturals, FiniteSets

CONSTANTS
  Users,
  Orders,        \* snowflake order ids, each drawn once
  Owner,         \* Owner[o]: the user whose request drew the id o
  LegacyOrders,  \* orders admitted before the reservation hash existed
  None,          \* "no order"
  Total          \* the voucher's stock when it was published

\* Ids are unique, a legacy user has one legacy order, and the legacy orders
\* were admitted against the same stock.
ASSUME SeckillRedisAssumption ==
  /\ IsFiniteSet(Users)
  /\ IsFiniteSet(Orders)
  /\ Owner \in [Orders -> Users]
  /\ LegacyOrders \subseteq Orders
  /\ \A o, p \in LegacyOrders : Owner[o] = Owner[p] => o = p
  /\ None \notin Orders
  /\ Total \in Nat
  /\ Cardinality(LegacyOrders) <= Total

VARIABLES
  stock,        \* seckill:stock
  reservation,  \* seckill:reservation, user -> order id
  legacy,       \* seckill:order, the old set of users
  pending,      \* seckill:pending, orders to send or send again
  failed,       \* seckill:pending:failed
  data          \* seckill:pending:data, one hash per order

redis == <<stock, reservation, legacy, pending, failed, data>>

Status == {"none", "PENDING", "SENT", "ROUTE_FAILED", "BROKER_NACK",
           "REPUBLISHING", "CONSUMING", "ORDER_CREATED", "FAILED"}

\* A hash that does not exist.  "owned": the hash holds the userId field,
\* which only the admission script and markRouteFailed write.
NoData == [status |-> "none", retryCount |-> 0, owned |-> FALSE]

Reserved == {u \in Users : reservation[u] # None}
Holders  == Reserved \cup legacy

RedisTypeOK ==
  /\ stock \in Nat
  /\ reservation \in [Users -> Orders \cup {None}]
  /\ legacy \subseteq Users
  /\ pending \subseteq Orders
  /\ failed \subseteq Orders
  /\ data \in [Orders -> [status : Status, retryCount : Nat, owned : BOOLEAN]]

\* addSeckillVoucher copied the stock to Redis; legacy orders took from it.
RedisInit ==
  /\ stock = Total - Cardinality(LegacyOrders)
  /\ reservation = [u \in Users |-> None]
  /\ legacy = {Owner[o] : o \in LegacyOrders}
  /\ pending = {}
  /\ failed = {}
  /\ data = [o \in Orders |-> NoData]

-----------------------------------------------------------------------------
(* seckill.lua                                                             *)

\* The reply of the script to user u while the activity is in the given
\* window: "unset" (no activity time cached), "before", "open" or "over".
SeckillReply(u, window) ==
  IF reservation[u] # None THEN "EXISTS"
  ELSE IF u \in legacy THEN "LEGACY_EXISTS"
  ELSE IF window = "unset" THEN "4"
  ELSE IF window = "before" THEN "2"
  ELSE IF window = "over" THEN "3"
  ELSE IF stock = 0 THEN "1"
  ELSE "0"

\* What the script writes when it replies "0": the slot, its owner, the
\* pending entry and the detail hash appear together.
Reserve(o) ==
  /\ stock' = stock - 1
  /\ reservation' = [reservation EXCEPT ![Owner[o]] = o]
  /\ pending' = pending \cup {o}
  /\ data' = [data EXCEPT ![o] =
       [status |-> "PENDING", retryCount |-> 0, owned |-> TRUE]]
  /\ UNCHANGED <<legacy, failed>>

-----------------------------------------------------------------------------
(* seckill_restore.lua                                                     *)

\* Bug: gives the slot back without comparing the reservation with o.
RestoreOfAnyOrder(o) ==
  /\ pending' = pending \ {o}
  /\ stock' = IF Owner[o] \in Holders THEN stock + 1 ELSE stock
  /\ reservation' = [reservation EXCEPT ![Owner[o]] = None]
  /\ legacy' = legacy \ {Owner[o]}
  /\ UNCHANGED <<failed, data>>

\* Bug: gives a slot back without asking whether anything is held.
RestoreUnchecked(o) ==
  /\ pending' = pending \ {o}
  /\ stock' = stock + 1
  /\ reservation' = [reservation EXCEPT ![Owner[o]] = None]
  /\ legacy' = legacy \ {Owner[o]}
  /\ UNCHANGED <<failed, data>>

\* The slot returns only if o still owns it, or if the user has no
\* reservation and still holds a legacy slot; otherwise only the pending
\* entry goes.
Restore(o) ==
  LET u == Owner[o] IN
  /\ pending' = pending \ {o}
  /\ \/ /\ reservation[u] = o
        /\ stock' = stock + 1
        /\ reservation' = [reservation EXCEPT ![u] = None]
        /\ UNCHANGED legacy
     \/ /\ reservation[u] = None
        /\ u \in legacy
        /\ stock' = stock + 1
        /\ legacy' = legacy \ {u}
        /\ UNCHANGED reservation
     \/ /\ reservation[u] # o
        /\ reservation[u] # None \/ u \notin legacy
        /\ UNCHANGED <<stock, reservation, legacy>>
  /\ UNCHANGED <<failed, data>>

-----------------------------------------------------------------------------
(* PendingOrderService                                                     *)

WriteStatus(o, s) == data' = [data EXCEPT ![o].status = s]

\* markSendSuccess reads the status and gives up on these; a hash that is
\* gone has no status and passes.
MaySendSuccess(o) ==
  data[o].status \notin
    {"ROUTE_FAILED", "BROKER_NACK", "CONSUMING", "ORDER_CREATED", "FAILED"}

\* The writes of markSendSuccess.
MarkSendSuccess(o) ==
  /\ pending' = pending \ {o}
  /\ WriteStatus(o, "SENT")
  /\ UNCHANGED <<stock, reservation, legacy, failed>>

\* Bug: the entry is marked but not queued for another attempt.
MarkSendFailedNoRequeue(o) ==
  /\ pending' = pending \ {o}
  /\ WriteStatus(o, "BROKER_NACK")
  /\ UNCHANGED <<stock, reservation, legacy, failed>>

\* markSendFailed overwrites whatever status it finds.
MarkSendFailed(o) ==
  /\ pending' = pending \cup {o}
  /\ WriteStatus(o, "BROKER_NACK")
  /\ UNCHANGED <<stock, reservation, legacy, failed>>

\* markRouteFailed also rewrites the identity fields.
MarkRouteFailed(o) ==
  /\ pending' = pending \cup {o}
  /\ data' = [data EXCEPT ![o].status = "ROUTE_FAILED", ![o].owned = TRUE]
  /\ UNCHANGED <<stock, reservation, legacy, failed>>

\* beforeRepublish leaves the pending entry where it is.
BeforeRepublish(o) ==
  /\ data' = [data EXCEPT ![o].status = "REPUBLISHING", ![o].retryCount = @ + 1]
  /\ UNCHANGED <<stock, reservation, legacy, pending, failed>>

\* Bug: the detail hash goes with the pending entry.
MarkFailedDropsHash(o) ==
  /\ pending' = pending \ {o}
  /\ failed' = failed \cup {o}
  /\ data' = [data EXCEPT ![o] = NoData]
  /\ UNCHANGED <<stock, reservation, legacy>>

MarkFailed(o) ==
  /\ pending' = pending \ {o}
  /\ failed' = failed \cup {o}
  /\ WriteStatus(o, "FAILED")
  /\ UNCHANGED <<stock, reservation, legacy>>

\* markConsuming reads the status and gives up on a final one.
MayConsume(o) == data[o].status \notin {"ORDER_CREATED", "FAILED"}

\* The writes of markConsuming.
MarkConsuming(o) ==
  /\ WriteStatus(o, "CONSUMING")
  /\ UNCHANGED <<stock, reservation, legacy, pending, failed>>

RemovePending(o) ==
  /\ pending' = pending \ {o}
  /\ WriteStatus(o, "ORDER_CREATED")
  /\ UNCHANGED <<stock, reservation, legacy, failed>>

\* The detail hash lives 24 hours after its last write; the other keys of
\* the voucher have no expiry.
ExpireData(o) ==
  /\ data[o] # NoData
  /\ data' = [data EXCEPT ![o] = NoData]
  /\ UNCHANGED <<stock, reservation, legacy, pending, failed>>
-----------------------------------------------------------------------------
(* Safety                                                                  *)

\* Redis ledger: the counter and the slots held, by reservation or by the
\* legacy set, always make up the stock, and no user holds two.  Repeated,
\* late or misdirected compensations (seckill_restore.lua) must not mint or
\* burn a slot.
RedisConservation ==
  /\ stock + Cardinality(Holders) = Total
  /\ Reserved \cap legacy = {}
=============================================================================
