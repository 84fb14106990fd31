------------------------- MODULE MCOutboundDelivery -------------------------
(***************************************************************************)
(* Instances of OutboundDelivery for TLC.                                  *)
(***************************************************************************)
EXTENDS OutboundDelivery, TLC

CONSTANTS k1, k2, d1, d2, c1, c2, s1, s2

EveryDevice == [k \in Keys |-> Devices]
ExpireAtThree == [k \in Keys |-> 3]
ExpireAtFour == [k \in Keys |-> 4]
ExpireAtFive == [k \in Keys |-> 5]

TwoSweepers == Permutations(Sweepers)
=============================================================================
