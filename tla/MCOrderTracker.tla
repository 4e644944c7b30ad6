--------------------------- MODULE MCOrderTracker ---------------------------
(***************************************************************************)
(* Instances of OrderTracker for TLC.                                      *)
(***************************************************************************)
EXTENDS OrderTracker

CONSTANTS o1, o2

TwoOrders == {o1, o2}
=============================================================================
