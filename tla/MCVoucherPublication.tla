------------------------ MODULE MCVoucherPublication ------------------------
(***************************************************************************)
(* Instances of VoucherPublication for TLC: one user and two orders, the   *)
(* second of which can be accepted once the slot of the first came back.   *)
(***************************************************************************)
EXTENDS VoucherPublication, TLC

CONSTANTS u1, o1, o2

OneUser   == {u1}
TwoOrders == {o1, o2}

OwnedByOne == [o \in Orders |-> u1]
=============================================================================
