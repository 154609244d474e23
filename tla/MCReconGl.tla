------------------------------ MODULE MCReconGl ------------------------------
(* Instances of ReconGl for TLC: up to two bank and two ledger             *)
(* transactions, three groups and three journals; the .cfg files choose.   *)
EXTENDS ReconGl, TLC

CONSTANTS b1, b2, l1, l2, g1, g2, g3, j1, j2, j3

Ids == Permutations(Group) \union Permutations(Journal)

(* Equal magnitudes, so that every pairing may be matched; b2 is an outflow. *)
AmountOf == [t \in Txn |-> IF t = b2 THEN -1 ELSE 1]
OneCurrencyForAll == [t \in Txn |-> "HKD"]
TwoCurrencies == [t \in Txn |-> IF t = l2 THEN "USD" ELSE "HKD"]
=============================================================================
