-------------------------- MODULE MCOrderPipeline --------------------------
(***************************************************************************)
(* Instances of OrderPipeline for TLC.                                     *)
(***************************************************************************)
EXTENDS OrderPipeline, TLC

CONSTANTS u1, u2, o1, o2

OneUser  == {u1}
TwoUsers == {u1, u2}

OneOrder    == {o1}
TwoOrders   == {o1, o2}

\* The orders of one user: a second one follows a compensation.
OwnedByOne == [o \in Orders |-> u1]

\* Two users with an order each.
OneEach == [o \in Orders |-> IF o = o1 THEN u1 ELSE u2]
=============================================================================
