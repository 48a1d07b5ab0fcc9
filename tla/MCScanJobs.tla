----------------------------- MODULE MCScanJobs -----------------------------
(* Small instances of ScanJobs for TLC. *)
EXTENDS ScanJobs

CONSTANTS w1, w2, k1, k2

MCWorkers == {w1, w2}

\* Both jobs are deep; with a lane worker beside a one-shot process, or with the
\* worker of another lane that takes part in the maintenance alone.
OneLane == [x \in Job \cup MCWorkers |-> "deep"]
WorkerLanes == [w \in MCWorkers |-> IF w = w1 THEN "free" ELSE "deep"]

\* Each job on a key of its own, as a paid order has it, or two on one key.
OwnKeys == [j \in Job |-> IF j = 1 THEN k1 ELSE k2]
OneCredit == [k \in {k1, k2} |-> 1]
OneKey == [j \in Job |-> k1]
TwoCredits == [k \in {k1} |-> 2]
=============================================================================
