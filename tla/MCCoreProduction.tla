-------------------------- MODULE MCCoreProduction --------------------------
(* Small instances of CoreProduction for TLC.                               *)
EXTENDS CoreProduction, TLC

CONSTANTS w1, w2, p1, p2

Symmetric == Permutations(Worker) \cup Permutations(Page)
=============================================================================
