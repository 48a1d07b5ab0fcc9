------------------------ MODULE DispatchOutboxProofs ------------------------
(***************************************************************************)
(* For any number of jobs, workers and dispatchers: the types of           *)
(* DispatchOutbox, and that a paid job is never without the outbox row     *)
(* that leads a hint to it, whatever dies or lapses in between.            *)
(***************************************************************************)
EXTENDS DispatchOutbox, TLAPS

\* Only a running job has a lease.
LeaseRuns == \A j \in Job : job[j].leaseLive => job[j].state = "running"

\* A row is the row of a job, and a lease is a lease on a row.
RowOfJob(j) == /\ outbox[j].state # "absent" => job[j].state # "absent"
               /\ outbox[j].lease # None => outbox[j].state # "absent"

\* A run of the dispatcher has leased rows that exist, and publishes for one of them.
RunAtRow(d) == /\ \A j \in dispatcher[d].rows : outbox[j].state # "absent"
               /\ dispatcher[d].sent # None => dispatcher[d].sent \in dispatcher[d].rows

\* The transaction of the payment event leaves no paid job without its row, and
\* none of the marks, deaths and expiries that follow takes the row away.
PaidJobHasRow == \A j \in PaidJob : job[j].state # "absent" => outbox[j].state # "absent"

IInv == /\ TypeOK /\ PaidJobHasRow /\ LeaseRuns
        /\ \A j \in Job : RowOfJob(j)
        /\ \A d \in Dispatcher : RunAtRow(d)

LaneInv == LaneTypeOK /\ LeaseRuns

\* The lanes keep their types, and no job appears or disappears.
LaneKept == LaneInv' /\ \A j \in Job : job'[j].state = "absent" <=> job[j].state = "absent"

-----------------------------------------------------------------------------
(* The lanes.                                                               *)

\* A row gives its lease back.
LEMMA ReleasedType ==
  ASSUME NEW row \in JobRow
  PROVE  /\ Released(row) \in JobRow /\ Released(row).leaseLive = FALSE
         /\ Released(row).phaseAttempt = row.phaseAttempt
BY DEF JobRow, Released

\* A worker moves, and no table changes.
LEMMA LaneMoves ==
  ASSUME LaneInv, NEW w \in Lane, StartWorker(w) \/ GiveUp(w) \/ Crash(w)
  PROVE  LaneKept
<1>1. UNCHANGED <<job, creditVars>>
  BY DEF StartWorker, GiveUp, Crash
<1>2. lane \in [Lane -> LaneState] /\ lane[w].mode \in {"off", "drain", "wait"}
  BY DEF LaneInv, LaneTypeOK, LaneState
<1>3. PICK m \in {"off", "drain", "wait"} : LaneAt(w, m, None)
  BY <1>2 DEF StartWorker, GiveUp, Crash, Return
<1>4. lane' \in [Lane -> LaneState]
  BY <1>2, <1>3 DEF LaneAt, LaneState
<1> QED BY <1>1, <1>4 DEF LaneKept, LaneInv, LaneTypeOK, LeaseRuns, creditVars

\* One row is written.
LEMMA OneRowKept ==
  ASSUME LaneInv, ledger' \in [Reservation -> LedgerRow], balance' \in Nat,
         lane' \in [Lane -> LaneState],
         NEW i \in Job, NEW row \in JobRow, job' = [job EXCEPT ![i] = row],
         row.leaseLive => row.state = "running",
         row.state = "absent" <=> job[i].state = "absent"
  PROVE  LaneKept
<1>1. job' \in [Job -> JobRow] /\ \A j \in Job : job'[j] = IF j = i THEN row ELSE job[j]
  BY DEF LaneInv, LaneTypeOK
<1>2. LeaseRuns' /\ \A j \in Job : job'[j].state = "absent" <=> job[j].state = "absent"
  BY <1>1 DEF LaneInv, LeaseRuns
<1> QED BY <1>1, <1>2 DEF LaneKept, LaneInv, LaneTypeOK

\* A checkpoint, a retry, an end, and the two clocks.
LEMMA RowSteps ==
  ASSUME LaneInv,
         \/ \E w \in Lane : Advance(w) \/ FailForRetry(w) \/ TerminalizeScanJob(w, "completed")
         \/ \E j \in Job : TimeStep(j)
  PROVE  LaneKept
<1>0. /\ job \in [Job -> JobRow] /\ lane \in [Lane -> LaneState] /\ MaxAttempts \in Nat
      /\ ledger \in [Reservation -> LedgerRow] /\ balance \in Nat
  BY LaneAssumption DEF LaneInv, LaneTypeOK
<1>1. ASSUME NEW w \in Lane, Advance(w) PROVE LaneKept
  <2> PICK i \in Job : i = lane[w].job
    BY <1>0, <1>1 DEF Advance, LaneState
  <2> DEFINE row == [job[i] EXCEPT !.fresh = FALSE, !.phaseAttempt = 0]
  <2>1. job' = [job EXCEPT ![i] = row] /\ UNCHANGED <<ledger, balance, lane>>
    BY <1>1 DEF Advance, creditVars
  <2>2. row \in JobRow /\ row.state = job[i].state /\ row.leaseLive = job[i].leaseLive
    <3>1. 0 \in 0 .. MaxAttempts /\ job[i] \in JobRow
      BY <1>0
    <3> QED BY <3>1 DEF JobRow
  <2> HIDE DEF row
  <2> QED BY <1>0, <2>1, <2>2, OneRowKept DEF LaneInv, LeaseRuns
<1>2. ASSUME NEW w \in Lane, FailForRetry(w) PROVE LaneKept
  <2> PICK i \in Job : i = lane[w].job
    BY <1>0, <1>2 DEF FailForRetry, LaneState
  <2> DEFINE row == [Released(job[i]) EXCEPT !.state = "retry_wait", !.retryDue = FALSE]
  <2>1. /\ job' = [job EXCEPT ![i] = row] /\ UNCHANGED <<ledger, balance>>
        /\ job[i].state = "running"
    BY <1>2 DEF FailForRetry, Holds, creditVars, LaneInv, LeaseRuns
  <2>2. row \in JobRow /\ row.state = "retry_wait" /\ row.leaseLive = FALSE
    <3>1. Released(job[i]) \in JobRow /\ Released(job[i]).leaseLive = FALSE
      BY <1>0, ReleasedType
    <3> QED BY <3>1 DEF JobRow, JobState
  <2>3. lane' \in [Lane -> LaneState]
    BY <1>0, <1>2 DEF FailForRetry, Return, LaneAt, LaneState
  <2> HIDE DEF row
  <2> QED BY <1>0, <2>1, <2>2, <2>3, OneRowKept
<1>3. ASSUME NEW w \in Lane, TerminalizeScanJob(w, "completed") PROVE LaneKept
  <2> PICK i \in Job : i = lane[w].job
    BY <1>0, <1>3 DEF TerminalizeScanJob, LaneState
  <2> DEFINE row == [Released(job[i]) EXCEPT !.state = "completed", !.fresh = FALSE,
                                             !.retryDue = TRUE]
  <2>1. job' = [job EXCEPT ![i] = row] /\ job[i].state = "running"
    BY <1>3 DEF TerminalizeScanJob, Holds, LaneInv, LeaseRuns
  <2>2. row \in JobRow /\ row.state = "completed" /\ row.leaseLive = FALSE
    <3>1. Released(job[i]) \in JobRow /\ Released(job[i]).leaseLive = FALSE
      BY <1>0, ReleasedType
    <3> QED BY <3>1 DEF JobRow, JobState
  <2>3. lane' \in [Lane -> LaneState]
    BY <1>0, <1>3 DEF TerminalizeScanJob, Return, LaneAt, LaneState
  <2>4. ledger' \in [Reservation -> LedgerRow] /\ balance' \in Nat
    <3>1. CASE UNCHANGED creditVars
      BY <1>0, <3>1 DEF creditVars
    <3>2. CASE job[i].pays # None
      <4>1. SettleReservation(job[i].pays, i, "settled")
        BY <1>3, <3>2 DEF TerminalizeScanJob, TerminalCreditStatus
      <4>2. job[i].pays \in Reservation
        BY <1>0, <3>2 DEF JobRow
      <4>3. [ledger[job[i].pays] EXCEPT !.status = "settled"] \in LedgerRow
        BY <1>0, <4>2 DEF LedgerRow
      <4>4. balance' = balance
        BY <1>0, <4>1 DEF SettleReservation
      <4>5. ledger' = [ledger EXCEPT ![job[i].pays] =
                         [ledger[job[i].pays] EXCEPT !.status = "settled"]]
        BY <4>1 DEF SettleReservation
      <4> QED BY <1>0, <4>2, <4>3, <4>4, <4>5
    <3> QED BY <1>3, <3>1, <3>2 DEF TerminalizeScanJob
  <2> HIDE DEF row
  <2> QED BY <2>1, <2>2, <2>3, <2>4, OneRowKept
<1>4. ASSUME NEW i \in Job, LeaseExpires(i) PROVE LaneKept
  <2> DEFINE row == [job[i] EXCEPT !.leaseLive = FALSE]
  <2>1. job' = [job EXCEPT ![i] = row] /\ UNCHANGED <<ledger, balance, lane>>
    BY <1>4 DEF LeaseExpires, creditVars
  <2>2. row \in JobRow /\ row.state = job[i].state /\ row.leaseLive = FALSE
    BY <1>0 DEF JobRow
  <2> HIDE DEF row
  <2> QED BY <1>0, <2>1, <2>2, OneRowKept
<1>5. ASSUME NEW i \in Job, BackoffElapses(i) PROVE LaneKept
  <2> DEFINE row == [job[i] EXCEPT !.retryDue = TRUE]
  <2>1. job' = [job EXCEPT ![i] = row] /\ UNCHANGED <<ledger, balance, lane>>
    BY <1>5 DEF BackoffElapses, creditVars
  <2>2. row \in JobRow /\ row.state = job[i].state /\ row.leaseLive = job[i].leaseLive
    BY <1>0 DEF JobRow
  <2> HIDE DEF row
  <2> QED BY <1>0, <2>1, <2>2, OneRowKept DEF LaneInv, LeaseRuns
<1> QED BY <1>1, <1>2, <1>3, <1>4, <1>5 DEF TimeStep

\* Maintenance writes rows that are rows, and never one that is not there.
LEMMA MaintainedRows ==
  ASSUME LaneInv, NEW j \in Job
  PROVE  /\ Maintained[j] \in JobRow
         /\ Maintained[j].leaseLive => Maintained[j].state = "running"
         /\ Maintained[j].state = "absent" <=> job[j].state = "absent"
         /\ Maintained[j].phaseAttempt = job[j].phaseAttempt
<1>1. job[j] \in JobRow /\ (job[j].leaseLive => job[j].state = "running")
  BY DEF LaneInv, LaneTypeOK, LeaseRuns
<1>2. /\ Released(job[j]) \in JobRow /\ Released(job[j]).leaseLive = FALSE
      /\ Released(job[j]).phaseAttempt = job[j].phaseAttempt
  BY <1>1, ReleasedType
<1>3. CASE Exhausted(j)
  <2>1. Maintained[j] = [Released(job[j]) EXCEPT !.state = "failed", !.fresh = FALSE]
    BY <1>3 DEF Maintained
  <2>2. job[j].state # "absent"
    BY <1>3 DEF Exhausted
  <2> QED BY <1>2, <2>1, <2>2 DEF JobRow, JobState
<1>4. CASE ~Exhausted(j) /\ Lapsed(j)
  <2>1. Maintained[j] = [Released(job[j]) EXCEPT !.state = "retry_wait", !.retryDue = TRUE]
    BY <1>4 DEF Maintained
  <2>2. job[j].state # "absent"
    BY <1>4 DEF Lapsed
  <2> QED BY <1>2, <2>1, <2>2 DEF JobRow, JobState
<1>5. CASE ~Exhausted(j) /\ ~Lapsed(j)
  BY <1>1, <1>5 DEF Maintained
<1> QED BY <1>3, <1>4, <1>5

\* A claim, at the start of a worker or after a hint.
LEMMA ClaimKept ==
  ASSUME LaneInv, NEW w \in Lane, NEW j \in Job \cup {None}, ClaimScanJob(w, j),
         NEW mode \in {"drain", "wait"}, LaneAt(w, mode, j)
  PROVE  LaneKept
<1>0. /\ ledger \in [Reservation -> LedgerRow] /\ balance \in Nat
      /\ lane \in [Lane -> LaneState] /\ None \notin Job /\ MaxAttempts \in Nat
  BY LaneAssumption DEF LaneInv, LaneTypeOK
<1> DEFINE claimed(i) == [Maintained[i] EXCEPT !.state = "running", !.leaseOwner = w,
                            !.leaseLive = TRUE, !.phaseAttempt = Maintained[i].phaseAttempt + 1]
<1>1. ASSUME NEW i \in Job, Claimable(i)
      PROVE  /\ claimed(i) \in JobRow /\ claimed(i).state = "running"
             /\ job[i].state # "absent"
  <2>1. Maintained[i] \in JobRow /\ Maintained[i].phaseAttempt = job[i].phaseAttempt
    BY MaintainedRows
  <2>2. job[i].phaseAttempt \in 0 .. MaxAttempts
    BY DEF LaneInv, LaneTypeOK, JobRow
  <2>3. Maintained[i].phaseAttempt + 1 \in 0 .. MaxAttempts
    BY <1>0, <1>1, <2>1, <2>2 DEF Claimable
  <2>4. job[i].state # "absent"
    BY <1>1, MaintainedRows DEF Claimable
  <2> QED BY <2>1, <2>3, <2>4 DEF JobRow, JobState
<1>2. job' = [i \in Job |-> IF i = j THEN claimed(i) ELSE Maintained[i]]
  BY DEF ClaimScanJob
<1>3. j \in Job => Claimable(j)
  BY <1>0 DEF ClaimScanJob
<1> HIDE DEF claimed
<1>4. ASSUME NEW i \in Job
      PROVE  /\ job'[i] \in JobRow /\ (job'[i].leaseLive => job'[i].state = "running")
             /\ job'[i].state = "absent" <=> job[i].state = "absent"
  <2>1. CASE i = j
    BY <1>1, <1>2, <1>3, <2>1
  <2>2. CASE i # j
    BY <1>2, <2>2, MaintainedRows
  <2> QED BY <2>1, <2>2
<1>5. job' \in [Job -> JobRow]
  BY <1>2, <1>4
<1>6. ledger' \in [Reservation -> LedgerRow]
  BY <1>0 DEF ClaimScanJob, LedgerRow
<1>7. balance' \in Nat
  <2>1. balance' = balance + IF GivenBack = {} THEN 0 ELSE 1
    BY DEF ClaimScanJob
  <2> QED BY <1>0, <2>1
<1>8. lane' \in [Lane -> LaneState]
  BY <1>0 DEF LaneAt, LaneState
<1> QED BY <1>4, <1>5, <1>6, <1>7, <1>8 DEF LaneKept, LaneInv, LaneTypeOK, LeaseRuns

\* What a lane does, alone and with the queue, changes no outbox row.
LEMMA LaneStepKeeps ==
  ASSUME IInv, NEW w \in Lane, WorkerStep(w) \/ Finish(w) \/ HintClaim(w)
  PROVE  LaneKept /\ UNCHANGED <<outbox, ahead, dispatcher>> /\ hint' \in BOOLEAN
<1>1. LaneInv /\ hint \in BOOLEAN
  BY DEF IInv, TypeOK, LaneInv
<1>2. CASE WorkerStep(w)
  <2>1. UNCHANGED outboxVars /\ LaneStep(w)
    BY <1>2 DEF WorkerStep
  <2>2. CASE DrainClaim(w)
    <3>1. PICK j \in Job \cup {None} :
            ClaimScanJob(w, j) /\ LaneAt(w, IF j = None THEN "wait" ELSE "drain", j)
      BY <2>2 DEF DrainClaim
    <3> QED BY <1>1, <2>1, <3>1, ClaimKept DEF outboxVars
  <2> QED BY <1>1, <2>1, <2>2, LaneMoves, RowSteps DEF LaneStep, outboxVars
<1>3. CASE Finish(w)
  BY <1>1, <1>3, LaneMoves, RowSteps DEF Finish, outboxVars
<1>4. CASE HintClaim(w)
  BY <1>1, <1>4, ClaimKept DEF HintClaim
<1> QED BY <1>2, <1>3, <1>4

\* The rows of the outbox rely of the lanes only on the jobs that are there.
LEMMA LaneKeptKeeps ==
  ASSUME IInv, LaneKept, UNCHANGED <<outbox, ahead, dispatcher>>, hint' \in BOOLEAN
  PROVE  IInv'
<1>1. TypeOK' /\ LeaseRuns'
  BY DEF LaneKept, LaneInv, IInv, TypeOK
<1>2. PaidJobHasRow'
  BY DispatcherAssumption DEF LaneKept, IInv, PaidJobHasRow
<1>3. \A j \in Job : RowOfJob(j)'
  BY DEF LaneKept, IInv, RowOfJob
<1>4. \A d \in Dispatcher : RunAtRow(d)'
  BY DEF IInv, RunAtRow
<1> QED BY <1>1, <1>2, <1>3, <1>4 DEF IInv

-----------------------------------------------------------------------------
(* The producers and the dispatcher.                                        *)

\* What is left to show when only rows and runs change.
LEMMA OutboxKeeps ==
  ASSUME IInv, UNCHANGED laneVars, hint' \in BOOLEAN, ahead' \subseteq Job \X Job,
         outbox' \in [Job -> OutboxRow], dispatcher' \in [Dispatcher -> DispatcherState],
         \A j \in Job : /\ outbox'[j].state = "absent" => outbox[j].state = "absent"
                        /\ RowOfJob(j)',
         \A d \in Dispatcher : RunAtRow(d)'
  PROVE  IInv'
<1>1. TypeOK' /\ LeaseRuns'
  BY DEF laneVars, IInv, TypeOK, LaneTypeOK, LeaseRuns
<1>2. PaidJobHasRow'
  BY DispatcherAssumption DEF laneVars, IInv, PaidJobHasRow
<1> QED BY <1>1, <1>2 DEF IInv

\* Rows that come up are pairs of rows.
LEMMA ComesUpType ==
  ASSUME ahead \subseteq Job \X Job, NEW S \in SUBSET Job, NEW order \in SUBSET (Job \X Job),
         ComesUp(S, order)
  PROVE  ahead' \subseteq Job \X Job
BY DEF ComesUp

\* A new job is queued; that of a payment event comes with its row.
LEMMA ProducerKeeps ==
  ASSUME IInv, NEW j \in Job, EnqueueScanJob(j) \/ AdmitPaidJob(j)
  PROVE  IInv'
<1>0. /\ job \in [Job -> JobRow] /\ ledger \in [Reservation -> LedgerRow] /\ balance \in Nat
      /\ lane \in [Lane -> LaneState] /\ MaxAttempts \in Nat /\ outbox \in [Job -> OutboxRow]
  BY LaneAssumption DEF IInv, TypeOK, LaneTypeOK
<1> DEFINE new == QueuedJob(None)
<1>1. /\ job' = [job EXCEPT ![j] = new] /\ UNCHANGED <<ledger, balance, lane, hint, dispatcher>>
  BY DEF EnqueueScanJob, AdmitPaidJob, creditVars, outboxVars
<1>2. new \in JobRow /\ new.state = "queued" /\ new.leaseLive = FALSE
  <2>1. AbsentJob \in JobRow /\ AbsentJob.leaseLive = FALSE
    <3>1. 0 \in 0 .. MaxAttempts
      BY <1>0
    <3> QED BY <3>1 DEF AbsentJob, JobRow, JobState
  <2> QED BY <2>1 DEF QueuedJob, JobRow, JobState
<1> HIDE DEF new
<1>3. job' \in [Job -> JobRow] /\ \A i \in Job : job'[i] = IF i = j THEN new ELSE job[i]
  BY <1>0, <1>1, <1>2
<1>4. PendingRow \in OutboxRow /\ PendingRow.state = "pending" /\ PendingRow.lease = None
  BY DEF PendingRow, NoRow, OutboxRow
<1>5. /\ outbox' \in [Job -> OutboxRow]
      /\ \A i \in Job : i # j => outbox'[i] = outbox[i]
      /\ outbox'[j] = outbox[j] \/ outbox'[j] = PendingRow
      /\ j \in PaidJob => outbox'[j] = PendingRow
  BY <1>0, <1>4 DEF EnqueueScanJob, AdmitPaidJob, outboxVars
<1>6. TypeOK' /\ LeaseRuns'
  <2>1. ahead \subseteq Job \X Job
    BY DEF IInv, TypeOK
  <2>2. ahead' \subseteq Job \X Job
    <3>1. CASE ahead' = ahead
      BY <2>1, <3>1
    <3>2. CASE ComesUp({j}, {})
      BY <2>1, <3>2, ComesUpType
    <3> QED BY <3>1, <3>2 DEF EnqueueScanJob, AdmitPaidJob, outboxVars
  <2> QED BY <1>1, <1>2, <1>3, <1>5, <2>2 DEF IInv, TypeOK, LaneTypeOK, LeaseRuns
<1>7. PaidJobHasRow'
  BY <1>3, <1>4, <1>5, DispatcherAssumption DEF IInv, PaidJobHasRow
<1>8. \A i \in Job : RowOfJob(i)'
  BY <1>2, <1>3, <1>4, <1>5 DEF IInv, RowOfJob
<1>9. ASSUME NEW d \in Dispatcher PROVE RunAtRow(d)'
  <2>1. RunAtRow(d) /\ dispatcher[d].rows \in SUBSET Job
    BY DEF IInv, TypeOK, DispatcherState
  <2> QED BY <1>1, <1>4, <1>5, <2>1 DEF RunAtRow
<1> QED BY <1>6, <1>7, <1>8, <1>9 DEF IInv

\* The reconciliation, the queue and the clocks of a row.
LEMMA RowKeeps ==
  ASSUME IInv, Repair \/ HintExpires \/ \E j \in Job : RowStep(j)
  PROVE  IInv'
<1>0. outbox \in [Job -> OutboxRow] /\ hint \in BOOLEAN /\ ahead \subseteq Job \X Job
  BY DEF IInv, TypeOK
<1>1. UNCHANGED laneVars /\ dispatcher' = dispatcher /\ hint' \in BOOLEAN
  BY <1>0 DEF Repair, HintExpires, RowStep, RowLeaseExpires, RowDue, RowStale
<1>2. PendingRow \in OutboxRow /\ PendingRow.state = "pending" /\ PendingRow.lease = None
  BY DEF PendingRow, NoRow, OutboxRow
<1>3. /\ outbox' \in [Job -> OutboxRow] /\ ahead' \subseteq Job \X Job
      /\ \A i \in Job : \/ Missing(i) /\ outbox'[i] = PendingRow
                        \/ /\ outbox'[i].state = outbox[i].state
                           /\ outbox'[i].lease \in {outbox[i].lease, None}
  <2>1. CASE Repair
    <3>1. PICK missing \in SUBSET Job : missing = {j \in Job : Missing(j)}
      OBVIOUS
    <3>2. \E order \in Orders(missing) : ComesUp(missing, order)
      BY <2>1, <3>1 DEF Repair
    <3>3. Orders(missing) \subseteq SUBSET (Job \X Job)
      BY <3>1 DEF Orders
    <3>4. ahead' \subseteq Job \X Job
      BY <1>0, <3>2, <3>3, ComesUpType
    <3>5. outbox' = [j \in Job |-> IF j \in missing THEN PendingRow ELSE outbox[j]]
      BY <2>1, <3>1 DEF Repair
    <3> QED BY <1>0, <1>2, <3>1, <3>4, <3>5
  <2>2. CASE HintExpires
    BY <1>0, <2>2 DEF HintExpires
  <2>3. ASSUME NEW j \in Job, RowStep(j)
        PROVE  /\ outbox' \in [Job -> OutboxRow] /\ ahead' \subseteq Job \X Job
               /\ \A i \in Job : /\ outbox'[i].state = outbox[i].state
                                 /\ outbox'[i].lease \in {outbox[i].lease, None}
    <3>1. outbox[j] \in OutboxRow
      BY <1>0
    <3>2. PICK row \in OutboxRow : /\ outbox' = [outbox EXCEPT ![j] = row]
                                   /\ row.state = outbox[j].state
                                   /\ row.lease \in {outbox[j].lease, None}
      <4>1. ASSUME RowLeaseExpires(j)
            PROVE  LET row == [outbox[j] EXCEPT !.lease = None]
                   IN  row \in OutboxRow /\ outbox' = [outbox EXCEPT ![j] = row]
                       /\ row.state = outbox[j].state /\ row.lease \in {outbox[j].lease, None}
        BY <1>0, <3>1, <4>1 DEF RowLeaseExpires, OutboxRow
      <4>2. ASSUME RowDue(j)
            PROVE  LET row == [outbox[j] EXCEPT !.due = TRUE]
                   IN  row \in OutboxRow /\ outbox' = [outbox EXCEPT ![j] = row]
                       /\ row.state = outbox[j].state /\ row.lease \in {outbox[j].lease, None}
        BY <1>0, <3>1, <4>2 DEF RowDue, OutboxRow
      <4>3. ASSUME RowStale(j)
            PROVE  LET row == [outbox[j] EXCEPT !.stale = TRUE]
                   IN  row \in OutboxRow /\ outbox' = [outbox EXCEPT ![j] = row]
                       /\ row.state = outbox[j].state /\ row.lease \in {outbox[j].lease, None}
        BY <1>0, <3>1, <4>3 DEF RowStale, OutboxRow
      <4> QED BY <2>3, <4>1, <4>2, <4>3 DEF RowStep
    <3>3. ahead' \subseteq Job \X Job
      <4>1. ASSUME ComesUp({j}, {}) PROVE ahead' \subseteq Job \X Job
        BY <1>0, <4>1, ComesUpType
      <4> QED BY <1>0, <2>3, <4>1 DEF RowStep, RowLeaseExpires, RowDue, RowStale
    <3> QED BY <1>0, <3>2, <3>3
  <2> QED BY <2>1, <2>2, <2>3
<1>4. ASSUME NEW i \in Job
      PROVE  (outbox'[i].state = "absent" => outbox[i].state = "absent") /\ RowOfJob(i)'
  BY <1>1, <1>2, <1>3 DEF IInv, RowOfJob, Missing, laneVars
<1>5. ASSUME NEW d \in Dispatcher PROVE RunAtRow(d)'
  <2>1. RunAtRow(d) /\ dispatcher[d].rows \in SUBSET Job
    BY DEF IInv, TypeOK, DispatcherState
  <2> QED BY <1>1, <1>4, <2>1 DEF RunAtRow
<1>6. dispatcher' \in [Dispatcher -> DispatcherState]
  BY <1>1 DEF IInv, TypeOK
<1> QED BY <1>1, <1>3, <1>4, <1>5, <1>6, OutboxKeeps

\* What the step of a run writes: a row keeps its place, and the run has one.
Written(d) ==
  /\ outbox' \in [Job -> OutboxRow] /\ dispatcher' \in [Dispatcher -> DispatcherState]
  /\ \A i \in Job : /\ outbox'[i].state = "absent" <=> outbox[i].state = "absent"
                    /\ outbox'[i].lease # None => \/ outbox[i].lease # None
                                                  \/ outbox[i].state # "absent"
  /\ \A x \in Dispatcher : x # d => dispatcher'[x] = dispatcher[x]
  /\ \A j \in dispatcher'[d].rows : outbox[j].state # "absent"
  /\ dispatcher'[d].sent # None => dispatcher'[d].sent \in dispatcher'[d].rows

\* One row and the state of the run are all a step writes.
LEMMA WrittenBy ==
  ASSUME outbox \in [Job -> OutboxRow], dispatcher \in [Dispatcher -> DispatcherState],
         NEW d \in Dispatcher, NEW j \in Job, NEW row \in OutboxRow, NEW mine \in DispatcherState,
         outbox' = [outbox EXCEPT ![j] = row], dispatcher' = [dispatcher EXCEPT ![d] = mine],
         row.state # "absent", outbox[j].state # "absent",
         \A i \in mine.rows : outbox[i].state # "absent",
         mine.sent # None => mine.sent \in mine.rows
  PROVE  Written(d)
<1>1. outbox' \in [Job -> OutboxRow] /\ dispatcher' \in [Dispatcher -> DispatcherState]
  OBVIOUS
<1>2. /\ outbox'[j] = row /\ \A i \in Job : i # j => outbox'[i] = outbox[i]
      /\ dispatcher'[d] = mine /\ \A x \in Dispatcher : x # d => dispatcher'[x] = dispatcher[x]
  OBVIOUS
<1> QED BY <1>1, <1>2 DEF Written

\* A run of the dispatcher leases, publishes, marks or dies.
LEMMA DispatcherKeeps ==
  ASSUME IInv, NEW d \in Dispatcher, DispatcherStep(d)
  PROVE  IInv'
<1>0. /\ outbox \in [Job -> OutboxRow] /\ hint \in BOOLEAN
      /\ dispatcher \in [Dispatcher -> DispatcherState] /\ dispatcher[d] \in DispatcherState
      /\ None \notin Job /\ RunAtRow(d)
  BY LaneAssumption DEF IInv, TypeOK
<1>1. UNCHANGED laneVars /\ hint' \in BOOLEAN /\ ahead' \subseteq Job \X Job
  <2>1. ahead \subseteq Job \X Job
    BY DEF IInv, TypeOK
  <2> QED BY <1>0, <2>1 DEF DispatcherStep, LeaseJobDispatches, Publish, MarkJobDispatchPublished,
             MarkJobDispatchRetry, Mark, DispatcherDies
<1>2. Idle \in DispatcherState /\ Idle.rows = {} /\ Idle.sent = None
  BY DEF Idle, DispatcherState
<1>3. ASSUME NEW reconcile \in BOOLEAN, LeaseJobDispatches(d, reconcile) PROVE Written(d)
  <2>1. PICK taken \in 0 .. FreeRows :
          LET rows == FirstRows(reconcile, Batch - taken) IN
          /\ outbox' = [j \in Job |-> IF j \in rows THEN [outbox[j] EXCEPT !.lease = d]
                                                   ELSE outbox[j]]
          /\ dispatcher' = [dispatcher EXCEPT ![d].rows = rows]
    BY <1>3 DEF LeaseJobDispatches
  <2>2. PICK rows \in SUBSET Job : rows = FirstRows(reconcile, Batch - taken)
    BY DEF FirstRows
  <2>3. \A j \in rows : outbox[j].state # "absent"
    BY <2>2 DEF FirstRows, Leasable
  <2>4. dispatcher[d].rows = {} /\ dispatcher[d].sent = None
    BY <1>2, <1>3 DEF LeaseJobDispatches
  <2>5. PICK mine \in DispatcherState : mine = [dispatcher[d] EXCEPT !.rows = rows]
    BY <1>0 DEF DispatcherState
  <2>6. /\ dispatcher' = [dispatcher EXCEPT ![d] = mine]
        /\ mine.rows = rows /\ mine.sent = None
    BY <1>0, <2>1, <2>2, <2>4, <2>5 DEF DispatcherState
  <2>7. ASSUME NEW j \in Job
        PROVE  /\ [outbox[j] EXCEPT !.lease = d] \in OutboxRow
               /\ [outbox[j] EXCEPT !.lease = d].state = outbox[j].state
    BY <1>0 DEF OutboxRow
  <2>8. outbox' = [j \in Job |-> IF j \in rows THEN [outbox[j] EXCEPT !.lease = d]
                                               ELSE outbox[j]]
    BY <2>1, <2>2
  <2>9. ASSUME NEW j \in Job
        PROVE  /\ outbox'[j] \in OutboxRow /\ outbox'[j].state = outbox[j].state
               /\ outbox'[j].lease # None => \/ outbox[j].lease # None
                                             \/ outbox[j].state # "absent"
    BY <1>0, <2>3, <2>7, <2>8
  <2>10. outbox' \in [Job -> OutboxRow]
    BY <2>8, <2>9
  <2>11. dispatcher' \in [Dispatcher -> DispatcherState] /\ dispatcher'[d] = mine
         /\ \A x \in Dispatcher : x # d => dispatcher'[x] = dispatcher[x]
    BY <1>0, <2>6
  <2> QED BY <2>3, <2>6, <2>9, <2>10, <2>11 DEF Written
<1>4. ASSUME NEW j \in Job, Publish(d, j) PROVE Written(d)
  <2>1. /\ outbox' = outbox /\ dispatcher' = [dispatcher EXCEPT ![d].sent = j]
        /\ j \in dispatcher[d].rows
    BY <1>4 DEF Publish
  <2>2. PICK mine \in DispatcherState : mine = [dispatcher[d] EXCEPT !.sent = j]
    BY <1>0 DEF DispatcherState
  <2>3. /\ dispatcher' = [dispatcher EXCEPT ![d] = mine]
        /\ mine.rows = dispatcher[d].rows /\ mine.sent = j
    BY <1>0, <2>1, <2>2 DEF DispatcherState
  <2>4. outbox[j].state # "absent" /\ outbox[j] \in OutboxRow
    BY <1>0, <2>1 DEF RunAtRow
  <2>5. outbox' = [outbox EXCEPT ![j] = outbox[j]]
    BY <1>0, <2>1
  <2>6. \A i \in mine.rows : outbox[i].state # "absent"
    BY <1>0, <2>3 DEF RunAtRow
  <2> QED BY <1>0, <2>1, <2>3, <2>4, <2>5, <2>6, WrittenBy
<1>5. ASSUME NEW j \in Job, j \in dispatcher[d].rows, NEW new \in OutboxRow,
             new.state # "absent", Mark(d, j, new)
      PROVE  Written(d)
  <2>1. PICK row \in OutboxRow : row = [new EXCEPT !.lease = None] /\ row.state # "absent"
    <3>1. [new EXCEPT !.lease = None] \in OutboxRow /\ [new EXCEPT !.lease = None].state # "absent"
      BY <1>5 DEF OutboxRow
    <3> QED BY <3>1
  <2>2. PICK mine \in DispatcherState :
          /\ mine = [rows |-> dispatcher[d].rows \ {j}, sent |-> None]
          /\ mine.rows = dispatcher[d].rows \ {j} /\ mine.sent = None
    <3>1. dispatcher[d].rows \ {j} \in SUBSET Job
      BY <1>0 DEF DispatcherState
    <3>2. [rows |-> dispatcher[d].rows \ {j}, sent |-> None] \in DispatcherState
      BY <3>1 DEF DispatcherState
    <3> QED BY <3>2
  <2>3. /\ outbox' = IF outbox[j].lease = d THEN [outbox EXCEPT ![j] = row] ELSE outbox
        /\ dispatcher' = [dispatcher EXCEPT ![d] = mine]
    BY <1>0, <1>5, <2>1, <2>2 DEF Mark, Done
  <2>4. outbox[j].state # "absent" /\ outbox[j] \in OutboxRow
    BY <1>0, <1>5 DEF RunAtRow
  <2>5. outbox' = [outbox EXCEPT ![j] = row] \/ outbox' = [outbox EXCEPT ![j] = outbox[j]]
    BY <1>0, <2>3
  <2>6. \A i \in mine.rows : outbox[i].state # "absent"
    BY <1>0, <2>2 DEF RunAtRow
  <2> QED BY <1>0, <2>1, <2>2, <2>3, <2>4, <2>5, <2>6, WrittenBy
<1>6. ASSUME MarkJobDispatchPublished(d) PROVE Written(d)
  <2>1. PICK j \in Job : j = dispatcher[d].sent /\ j \in dispatcher[d].rows
    BY <1>0, <1>6 DEF MarkJobDispatchPublished, RunAtRow, DispatcherState
  <2>2. PICK new \in OutboxRow :
          new = [outbox[j] EXCEPT !.state = "published", !.stale = FALSE] /\ new.state = "published"
    <3>1. LET new == [outbox[j] EXCEPT !.state = "published", !.stale = FALSE]
          IN  new \in OutboxRow /\ new.state = "published"
      BY <1>0 DEF OutboxRow
    <3> QED BY <3>1
  <2>3. Mark(d, j, new)
    BY <1>6, <2>1, <2>2 DEF MarkJobDispatchPublished
  <2> QED BY <1>5, <2>1, <2>2, <2>3
<1>7. ASSUME NEW j \in Job, MarkJobDispatchRetry(d, j) PROVE Written(d)
  <2>1. j \in dispatcher[d].rows /\ outbox[j].state # "absent"
    BY <1>0, <1>7 DEF MarkJobDispatchRetry, RunAtRow
  <2>2. PICK new \in OutboxRow : new = [outbox[j] EXCEPT !.due = FALSE]
    BY <1>0 DEF OutboxRow
  <2>3. new.state # "absent"
    BY <1>0, <2>1, <2>2 DEF OutboxRow
  <2>4. Mark(d, j, new) \/ (Done(d, j) /\ outbox' = outbox)
    BY <1>7, <2>2 DEF MarkJobDispatchRetry
  <2>5. CASE Done(d, j) /\ outbox' = outbox
    <3>1. dispatcher[d].rows \ {j} \in SUBSET Job
      BY <1>0 DEF DispatcherState
    <3>2. PICK mine \in DispatcherState : /\ mine = [rows |-> dispatcher[d].rows \ {j}, sent |-> None]
                                          /\ mine.rows = dispatcher[d].rows \ {j} /\ mine.sent = None
      <4>1. [rows |-> dispatcher[d].rows \ {j}, sent |-> None] \in DispatcherState
        BY <3>1 DEF DispatcherState
      <4> QED BY <4>1
    <3>3. dispatcher' = [dispatcher EXCEPT ![d] = mine] /\ outbox' = [outbox EXCEPT ![j] = outbox[j]]
      BY <1>0, <2>5, <3>2 DEF Done
    <3>4. \A i \in mine.rows : outbox[i].state # "absent"
      BY <1>0, <3>2 DEF RunAtRow
    <3> QED BY <1>0, <2>1, <3>2, <3>3, <3>4, WrittenBy
  <2> QED BY <1>5, <2>1, <2>3, <2>4, <2>5
<1>7a. ASSUME DispatcherDies(d) PROVE Written(d)
  <2>1. outbox' = outbox /\ dispatcher' = [dispatcher EXCEPT ![d] = Idle]
    BY <1>7a DEF DispatcherDies
  <2> QED BY <1>0, <1>2, <2>1 DEF Written
<1>8. Written(d)
  BY <1>3, <1>4, <1>6, <1>7, <1>7a DEF DispatcherStep
<1>9. ASSUME NEW i \in Job
      PROVE  (outbox'[i].state = "absent" => outbox[i].state = "absent") /\ RowOfJob(i)'
  BY <1>1, <1>8 DEF IInv, RowOfJob, laneVars, Written
<1>10. ASSUME NEW x \in Dispatcher PROVE RunAtRow(x)'
  <2>1. RunAtRow(x) /\ dispatcher'[x].rows \in SUBSET Job
    BY <1>8 DEF IInv, DispatcherState, Written
  <2> QED BY <1>8, <1>9, <2>1 DEF RunAtRow, Written
<1> QED BY <1>1, <1>8, <1>9, <1>10, OutboxKeeps DEF Written

-----------------------------------------------------------------------------
(* The theorems.                                                            *)

\* The first state: no job, no row, no hint.
LEMMA InitIInv == Init => IInv
<1> SUFFICES ASSUME Init PROVE IInv
  OBVIOUS
<1>1. job \in [Job -> JobRow] /\ \A j \in Job : job[j].state = "absent" /\ job[j].leaseLive = FALSE
  <2>1. AbsentJob \in JobRow
    <3>1. 0 \in 0 .. MaxAttempts
      BY LaneAssumption
    <3> QED BY <3>1 DEF AbsentJob, JobRow, JobState
  <2> QED BY <2>1 DEF Init, LaneInit, AbsentJob
<1>2. /\ ledger \in [Reservation -> LedgerRow] /\ balance \in Nat
      /\ lane \in [Lane -> LaneState] /\ hint \in BOOLEAN
  BY LaneAssumption DEF Init, LaneInit, LedgerRow, LaneState
<1>3. outbox \in [Job -> OutboxRow] /\ \A j \in Job : outbox[j].state = "absent" /\ outbox[j].lease = None
  BY DEF Init, NoRow, OutboxRow
<1>4. /\ dispatcher \in [Dispatcher -> DispatcherState]
      /\ \A d \in Dispatcher : dispatcher[d].rows = {} /\ dispatcher[d].sent = None
  BY DEF Init, Idle, DispatcherState
<1>5. TypeOK
  BY <1>1, <1>2, <1>3, <1>4 DEF TypeOK, LaneTypeOK, Init
<1> QED BY <1>1, <1>3, <1>4, <1>5, DispatcherAssumption
        DEF IInv, PaidJobHasRow, LeaseRuns, RowOfJob, RunAtRow

\* The inductive invariant: rows follow jobs, and runs are at rows.
THEOREM Invariant == Spec => []IInv
<1>1. ASSUME IInv, [Next]_vars PROVE IInv'
  <2>1. CASE UNCHANGED vars
    <3>1. LaneKept /\ UNCHANGED <<outbox, ahead, dispatcher>> /\ hint' \in BOOLEAN
      BY <1>1, <2>1 DEF vars, laneVars, outboxVars, LaneKept, LaneInv, IInv, TypeOK, LaneTypeOK,
         LeaseRuns
    <3> QED BY <1>1, <3>1, LaneKeptKeeps
  <2>2. ASSUME NEW j \in Job, TimePasses(j) PROVE IInv'
    <3>1. LaneKept
      BY <1>1, <2>2, RowSteps DEF TimePasses, IInv, TypeOK, LaneInv
    <3>2. UNCHANGED <<outbox, ahead, dispatcher>> /\ hint' \in BOOLEAN
      BY <1>1, <2>2 DEF TimePasses, outboxVars, IInv, TypeOK
    <3> QED BY <1>1, <3>1, <3>2, LaneKeptKeeps
  <2>3. ASSUME NEW j \in Job, EnqueueScanJob(j) \/ AdmitPaidJob(j) PROVE IInv'
    BY <1>1, <2>3, ProducerKeeps
  <2>4. ASSUME NEW d \in Dispatcher, DispatcherStep(d) PROVE IInv'
    BY <1>1, <2>4, DispatcherKeeps
  <2>5. ASSUME NEW w \in Lane, WorkerStep(w) \/ Finish(w) \/ HintClaim(w) PROVE IInv'
    BY <1>1, <2>5, LaneStepKeeps, LaneKeptKeeps
  <2>6. CASE Repair \/ HintExpires \/ \E j \in Job : RowStep(j)
    BY <1>1, <2>6, RowKeeps
  <2> QED BY <1>1, <2>1, <2>2, <2>3, <2>4, <2>5, <2>6 DEF Next
<1> QED BY <1>1, InitIInv, PTL DEF Spec

\* The tables, the queue and the processes keep their types.
THEOREM TypesKept == Spec => []TypeOK
BY Invariant, PTL DEF IInv

\* A paid job always has the row that leads a hint to it.
THEOREM PaidJobKeepsRow == Spec => []PaidJobHasRow
BY Invariant, PTL DEF IInv
==============================================================================
