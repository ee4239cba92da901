---------------------------- MODULE MCOrderStatus ----------------------------
(***************************************************************************)
(* Instances of OrderStatus for TLC: one user, whose orders follow each    *)
(* other.                                                                  *)
(***************************************************************************)
EXTENDS OrderStatus, TLC

CONSTANTS u1, o1, o2

OneUser   == {u1}
OneOrder  == {o1}
TwoOrders == {o1, o2}

OwnedByOne == [o \in Orders |-> u1]
=============================================================================
