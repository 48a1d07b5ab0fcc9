---------------------------- MODULE MCPaidOrders ----------------------------
(* Small instances of PaidOrders for TLC.                                   *)
EXTENDS PaidOrders

CONSTANTS o1, o2, p1, p2, nobody
=============================================================================
