--------------------------- MODULE DispatchOutbox ---------------------------
(***************************************************************************)
(* How a waiting worker learns of a job: an outbox row for the job, the    *)
(* dispatcher that publishes it, and the queue of hints.  A hint wakes a   *)
(* lane and never says which job to run.  The queue is outside the         *)
(* repository: it may deliver a hint again, and drop it.                   *)
(*                                                                         *)
(* No row ever leaves the table, and a run leases the first Batch rows of  *)
(* both tiers.  Of the rows of the free tier, whose hints wake another     *)
(* lane, the model has the places they take in a batch.                    *)
(*                                                                         *)
(* Deep jobs come from two producers.  The payment event writes the job    *)
(* and its outbox row in one transaction; enqueueScanJob, for the upgrade  *)
(* route, writes the job alone.                                            *)
(***************************************************************************)
EXTENDS DeepLane

CONSTANTS
  PaidJob,     \* the jobs of payment events; the others are upgrades
  FreeRows,    \* how many rows there are of the free tier
  Dispatcher,  \* runs of queue:dispatch and queue:reconcile
  Batch        \* the limit of a lease, 25 rows

ASSUME DispatcherAssumption == /\ PaidJob \subseteq Job
                               /\ None \notin Dispatcher
                               /\ FreeRows \in Nat /\ Batch \in Nat \ {0}

VARIABLES
  outbox,      \* [Job -> OutboxRow]: the table job_dispatch_outbox
  ahead,       \* pairs of rows whose next_attempt_at has come, the earlier first
  hint,        \* BOOLEAN: the queue of the lane holds a message
  dispatcher   \* [Dispatcher -> DispatcherState]: what a run has leased

outboxVars == <<outbox, ahead, hint, dispatcher>>
vars == <<laneVars, outboxVars>>

\* due: next_attempt_at has come; stale: published, half an hour ago or more;
\* lease: the run whose lease on the row is live.
OutboxRow == [state : {"absent", "pending", "published"}, due : BOOLEAN,
              stale : BOOLEAN, lease : Dispatcher \cup {None}]

\* rows: the leased rows of deep jobs that a run has still to do; sent: the one
\* among them whose hint is out and whose mark is not written yet.
DispatcherState == [rows : SUBSET Job, sent : Job \cup {None}]

\* The tables, the queue and the processes have their types.
TypeOK == /\ LaneTypeOK
          /\ outbox \in [Job -> OutboxRow]
          /\ ahead \subseteq Job \X Job
          /\ hint \in BOOLEAN
          /\ dispatcher \in [Dispatcher -> DispatcherState]

NoRow == [state |-> "absent", due |-> FALSE, stale |-> FALSE, lease |-> None]
PendingRow == [NoRow EXCEPT !.state = "pending", !.due = TRUE]
Idle == [rows |-> {}, sent |-> None]

\* The strict orders in which the rows of S may come.
Orders(S) == {o \in SUBSET (S \X S) :
                /\ \A q, r \in S : <<q, r>> \in o <=> q # r /\ <<r, q>> \notin o
                /\ \A p, q, r \in S : <<p, q>> \in o /\ <<q, r>> \in o => <<p, r>> \in o}

Init == /\ LaneInit
        /\ outbox = [j \in Job |-> NoRow]
        /\ ahead = {}
        /\ hint = FALSE
        /\ dispatcher = [d \in Dispatcher |-> Idle]

\* The rows of S have their next_attempt_at now, after those that have it behind
\* them; order says which comes first among them.
ComesUp(S, order) ==
  ahead' = ahead \cup ({q \in Job \ S : outbox[q].due} \X S) \cup order

-----------------------------------------------------------------------------
(* The producers.                                                           *)

EnqueueScanJob(j) ==
  /\ j \notin PaidJob
  /\ NextJob(j)
  /\ job' = [job EXCEPT ![j] = QueuedJob(None)]
  /\ UNCHANGED <<creditVars, lane, outboxVars>>

\* The transaction of the payment event.
AdmitPaidJob(j) ==
  /\ j \in PaidJob
  /\ NextJob(j)
  /\ job' = [job EXCEPT ![j] = QueuedJob(None)]
  /\ outbox' = [outbox EXCEPT ![j] = PendingRow]
  /\ ComesUp({j}, {})
  /\ UNCHANGED <<creditVars, lane, hint, dispatcher>>

-----------------------------------------------------------------------------
(* The dispatcher.                                                          *)

\* Queued jobs without a row.  The query asks for the stage, which a job leaves
\* with its first checkpoint, not for the execution state.
Missing(j) == outbox[j].state = "absent" /\ job[j].state # "absent" /\ job[j].fresh

\* reconcileQueuedJobDispatches, the first transaction of a reconciliation.  Its
\* rows have the time of the transaction; their ids, which are random, order them.
Repair ==
  LET missing == {j \in Job : Missing(j)} IN
  /\ missing # {}
  /\ outbox' = [j \in Job |-> IF j \in missing THEN PendingRow ELSE outbox[j]]
  /\ \E order \in Orders(missing) : ComesUp(missing, order)
  /\ UNCHANGED <<laneVars, hint, dispatcher>>

\* Mutant of Leasable: a published row is never leased again.
LeasableOnce(row, reconcile) == /\ row.due
                                /\ row.lease = None
                                /\ row.state = "pending"

\* A plain run leases pending rows, a reconciliation stale published ones too.
Leasable(row, reconcile) ==
  /\ row.due
  /\ row.lease = None
  /\ row.state = "pending" \/ (row.state = "published" /\ row.stale /\ reconcile)

\* The first rows of those that may be leased, when there is room for so many.
FirstRows(reconcile, room) ==
  LET rows == {j \in Job : Leasable(outbox[j], reconcile)}
  IN  {j \in rows : Cardinality({i \in rows : <<i, j>> \in ahead}) < room}

\* leaseJobDispatches.  Wherever the rows of the free tier stand in the order and
\* however many of them are due, they take some places of the batch.  A run that
\* leases no row of a deep job does nothing here.
LeaseJobDispatches(d, reconcile) ==
  /\ dispatcher[d] = Idle
  /\ \E taken \in 0 .. FreeRows :
       LET rows == FirstRows(reconcile, Batch - taken) IN
       /\ rows # {}
       /\ outbox' = [j \in Job |-> IF j \in rows THEN [outbox[j] EXCEPT !.lease = d]
                                                ELSE outbox[j]]
       /\ dispatcher' = [dispatcher EXCEPT ![d].rows = rows]
  /\ UNCHANGED <<laneVars, ahead, hint>>

\* The next leased row, in no order that the query promises.
Publish(d, j) ==
  /\ j \in dispatcher[d].rows
  /\ dispatcher[d].sent = None
  /\ hint' = TRUE
  /\ dispatcher' = [dispatcher EXCEPT ![d].sent = j]
  /\ UNCHANGED <<laneVars, outbox, ahead>>

\* The run goes on to its next row.
Done(d, j) == dispatcher' = [dispatcher EXCEPT ![d] = [rows |-> dispatcher[d].rows \ {j},
                                                      sent |-> None]]

\* Both marks give the lease back; they are refused when the lease is gone.
Mark(d, j, row) ==
  /\ outbox' = IF outbox[j].lease = d
               THEN [outbox EXCEPT ![j] = [row EXCEPT !.lease = None]]
               ELSE outbox
  /\ Done(d, j)
  /\ UNCHANGED <<laneVars, hint>>

\* The row keeps its next_attempt_at, and with it its place.
MarkJobDispatchPublished(d) ==
  LET j == dispatcher[d].sent IN
  /\ j # None
  /\ Mark(d, j, [outbox[j] EXCEPT !.state = "published", !.stale = FALSE])
  /\ UNCHANGED ahead

\* Mutant of MarkJobDispatchRetry: the row is abandoned, as abandonJobDispatch
\* (which nothing calls) would.
MarkJobDispatchAbandoned(d, j) == /\ j \in dispatcher[d].rows
                                  /\ dispatcher[d].sent \in {None, j}
                                  /\ Mark(d, j, [outbox[j] EXCEPT !.state = "abandoned"])
                                  /\ UNCHANGED ahead

\* The publication throws, or the first mark does: a publication that timed out
\* may have reached the queue all the same.  The row is put off, and comes after
\* the rows that are due by then; when this mark throws too, it stays leased and
\* the run goes on.
MarkJobDispatchRetry(d, j) ==
  /\ j \in dispatcher[d].rows
  /\ dispatcher[d].sent \in {None, j}
  /\ \/ /\ Mark(d, j, [outbox[j] EXCEPT !.due = FALSE])
        /\ ahead' = IF outbox[j].lease = d THEN {p \in ahead : p[1] # j /\ p[2] # j} ELSE ahead
     \/ Done(d, j) /\ UNCHANGED <<laneVars, outbox, ahead, hint>>

DispatcherDies(d) ==
  /\ dispatcher[d] # Idle
  /\ dispatcher' = [dispatcher EXCEPT ![d] = Idle]
  /\ UNCHANGED <<laneVars, outbox, ahead, hint>>

-----------------------------------------------------------------------------
(* The lane that waits for hints, and the queue.                            *)

\* runQueueHintCycle: a hint leads to one claim, of the oldest job.  The hint
\* is acknowledged as well as it goes: it may be there again, or others may.
HintClaim(w) ==
  /\ lane[w] = [mode |-> "wait", job |-> None]
  /\ hint
  /\ \E j \in Job \cup {None} : ClaimScanJob(w, j) /\ LaneAt(w, "wait", j)
  /\ hint' \in BOOLEAN
  /\ UNCHANGED <<outbox, ahead, dispatcher>>

\* The messages reach the retention of the queue.
HintExpires ==
  /\ hint
  /\ hint' = FALSE
  /\ UNCHANGED <<laneVars, outbox, ahead, dispatcher>>

RowLeaseExpires(j) ==
  /\ outbox[j].lease # None
  /\ outbox' = [outbox EXCEPT ![j].lease = None]
  /\ UNCHANGED <<laneVars, ahead, hint, dispatcher>>

RowDue(j) ==
  /\ outbox[j].state # "absent" /\ ~outbox[j].due
  /\ outbox' = [outbox EXCEPT ![j].due = TRUE]
  /\ ComesUp({j}, {})
  /\ UNCHANGED <<laneVars, hint, dispatcher>>

RowStale(j) ==
  /\ outbox[j].state = "published" /\ ~outbox[j].stale
  /\ outbox' = [outbox EXCEPT ![j].stale = TRUE]
  /\ UNCHANGED <<laneVars, ahead, hint, dispatcher>>

-----------------------------------------------------------------------------
DispatcherStep(d) == \/ \E reconcile \in BOOLEAN : LeaseJobDispatches(d, reconcile)
                     \/ \E j \in Job : Publish(d, j) \/ MarkJobDispatchRetry(d, j)
                     \/ MarkJobDispatchPublished(d)
                     \/ DispatcherDies(d)
RowStep(j) == RowLeaseExpires(j) \/ RowDue(j) \/ RowStale(j)

\* How a job ends is nothing to the queue: an end in the table is "completed",
\* or "failed" by maintenance.
Finish(w) == \/ TerminalizeScanJob(w, "completed") /\ UNCHANGED outboxVars
             \/ FailForRetry(w) /\ UNCHANGED outboxVars
             \/ GiveUp(w) /\ UNCHANGED outboxVars
WorkerStep(w) == LaneStep(w) /\ UNCHANGED outboxVars
TimePasses(j) == TimeStep(j) /\ UNCHANGED outboxVars

Next == \/ \E j \in Job : EnqueueScanJob(j) \/ AdmitPaidJob(j) \/ TimePasses(j)
        \/ \E j \in Job : RowStep(j)
        \/ Repair
        \/ \E d \in Dispatcher : DispatcherStep(d)
        \/ \E w \in Lane : WorkerStep(w) \/ Finish(w) \/ HintClaim(w)
        \/ HintExpires

Spec == Init /\ [][Next]_vars

Claim(w) == (DrainClaim(w) /\ UNCHANGED outboxVars) \/ HintClaim(w)

\* The rows of the free tier never fill a batch.
RoomForDeep == FreeRows < Batch

\* A worker is started again and does not for ever die before a claim; its
\* executions end.  The reconciliation is run again and again, and neither it
\* nor the queue fails the deep rows it has leased every time.  Which rows it
\* leases is not for fairness to say, nor that it leases any of a deep job when
\* those of the free tier can fill the batch.
Fairness ==
  /\ \A w \in Lane : /\ WF_vars(StartWorker(w) /\ UNCHANGED outboxVars)
                     /\ SF_vars(Claim(w))
                     /\ WF_vars(Finish(w))
  /\ WF_vars(\E j \in Job : TimePasses(j))
  /\ WF_vars(\E j \in Job : RowStep(j))
  /\ \A d \in Dispatcher : /\ SF_vars(RoomForDeep /\ LeaseJobDispatches(d, TRUE))
                           /\ SF_vars(\E j \in Job : Publish(d, j))
                           /\ WF_vars(MarkJobDispatchPublished(d))

FairSpec == Spec /\ Fairness

-----------------------------------------------------------------------------
\* Whatever dies or lapses between payment and report (the web process after
\* the commit, the dispatcher around a publication, the worker in a run, the hint
\* in the queue) a paid job comes to an end, unless the rows of the free tier fill
\* every batch.  Older rows of the deep tier may: their hints wake the same lane.
PaidJobEnds ==
  RoomForDeep => \A j \in PaidJob : job[j].state = "queued" ~> Over(j)

=============================================================================
