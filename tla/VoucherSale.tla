----------------------------- MODULE VoucherSale -----------------------------
(***************************************************************************)
(* What a flash sale of one voucher promises, with no queue, status or     *)
(* retry in sight.  A user takes a slot, a slot may be given back, and an  *)
(* order that once had a slot may be written to the books.  There are      *)
(* never more slots taken nor more orders written than the stock, and      *)
(* neither a second slot nor a second order for the same user.             *)
(*                                                                         *)
(* The promise does not tie an order to a slot that is still held: the     *)
(* program gives no such guarantee (see OrderBackedByReservation in        *)
(* OrderPipeline).  The bound on the orders is kept by the asynchronous    *)
(* mode only (see NeverOversold there).                                    *)
(***************************************************************************)
EXTENDS Naturals, FiniteSets

CONSTANTS
  Users,
  Orders,
  Owner,
  Total

VARIABLES
  holders,   \* users holding a slot
  accepted,  \* orders that were given a slot at some time
  sold       \* orders written to the books

sale == <<holders, accepted, sold>>

Buyers == {Owner[o] : o \in sold}

\* Slots and orders may exist already: a sale is picked up mid-way when the
\* program is upgraded.
Init ==
  /\ holders \subseteq Users
  /\ Cardinality(holders) <= Total
  /\ accepted \subseteq Orders
  /\ sold \subseteq accepted
  /\ \A o, p \in sold : Owner[o] = Owner[p] => o = p
  /\ Cardinality(sold) <= Total

\* A user without a slot takes one for a fresh order.
Accept(o) ==
  /\ o \notin accepted
  /\ Owner[o] \notin holders
  /\ Cardinality(holders) < Total
  /\ holders' = holders \cup {Owner[o]}
  /\ accepted' = accepted \cup {o}
  /\ UNCHANGED sold

Release(u) ==
  /\ u \in holders
  /\ holders' = holders \ {u}
  /\ UNCHANGED <<accepted, sold>>

\* The books take an accepted order of a user who has none yet.
Sell(o) ==
  /\ o \in accepted
  /\ Owner[o] \notin Buyers
  /\ Cardinality(sold) < Total
  /\ sold' = sold \cup {o}
  /\ UNCHANGED <<holders, accepted>>

Next ==
  \/ \E o \in Orders : Accept(o) \/ Sell(o)
  \/ \E u \in Users : Release(u)

Spec == Init /\ [][Next]_sale
=============================================================================
