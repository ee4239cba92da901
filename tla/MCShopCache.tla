------------------------------ MODULE MCShopCache ------------------------------
(***************************************************************************)
(* Instances of ShopCache for TLC.                                         *)
(***************************************************************************)
EXTENDS ShopCache

CONSTANTS i1, i2, r1, r2

OneInstance  == {i1}
TwoInstances == {i1, i2}

FirstInstance == {i1}

OneReader  == {r1}
TwoReaders == {r1, r2}

\* The first reader is on the first instance, any other on the second.
OneEach == [r \in Readers |-> IF r = r1 THEN i1 ELSE i2]
=============================================================================
