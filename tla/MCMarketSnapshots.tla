-------------------------- MODULE MCMarketSnapshots --------------------------
(* Small instances of MarketSnapshots for TLC.                              *)
EXTENDS MarketSnapshots

CONSTANTS w1, w2, q1, q2
=============================================================================
