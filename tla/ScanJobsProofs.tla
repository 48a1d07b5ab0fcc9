--------------------------- MODULE ScanJobsProofs ---------------------------
(***************************************************************************)
(* What holds of ScanJobs for every set of jobs, workers and keys: types,  *)
(* safety, and what a step may never do.  The inductive invariant IInv     *)
(* says of each row what the guards of db/jobs.ts rely on without testing  *)
(* it, and of the credits what the rows imply.                             *)
(***************************************************************************)
EXTENDS ScanJobs, FiniteSetTheorems, TLAPS

\* An execution that loads or works has a job.
AimedAtJob == \A w \in Worker : pc[w] \in {"loading", "working"} => claimed[w] \in Job

TypeInv == TypeOK /\ AimedAtJob

-----------------------------------------------------------------------------
(* Rows stay rows.                                                          *)

\* The row an enqueue writes is a row.
LEMMA EnqueuedRowType == EnqueuedRow \in JobRow
<1>1. AbsentRow \in JobRow
  BY BoundAssumption DEF AbsentRow, JobRow, Stage, ExecutionState
<1> QED BY <1>1 DEF EnqueuedRow, JobRow, Stage, ExecutionState

\* Every way a statement rewrites a row gives a row, the counters aside.
LEMMA RowTypes ==
  ASSUME NEW row \in JobRow
  PROVE  /\ Released(row) \in JobRow
         /\ RecoveredRow(row) \in JobRow
         /\ ExhaustedRow(row) \in JobRow
         /\ ParkedRow(row) \in JobRow
         /\ ResumedRow(row) \in JobRow
         /\ ExpiredRow(row) \in JobRow
         /\ RecoveredPaidRow(row) \in JobRow
         /\ \A outcome \in TerminalStage : TerminalRow(row, outcome) \in JobRow
         /\ \A b \in BOOLEAN : [row EXCEPT !.leaseLive = b] \in JobRow
         /\ [row EXCEPT !.retryDue = TRUE] \in JobRow
<1>1. Released(row) \in JobRow
  BY DEF JobRow, Released
<1>2. RecoveredRow(row) \in JobRow /\ ParkedRow(row) \in JobRow
  BY <1>1 DEF JobRow, RecoveredRow, ParkedRow, ExecutionState
<1>3. ExhaustedRow(row) \in JobRow /\ ExpiredRow(row) \in JobRow
  BY <1>1 DEF JobRow, ExhaustedRow, ExpiredRow, Stage, TerminalStage, ExecutionState
<1>4. ResumedRow(row) \in JobRow
  BY DEF JobRow, ResumedRow, ExecutionState
<1>5. ASSUME NEW outcome \in TerminalStage PROVE TerminalRow(row, outcome) \in JobRow
  <2>1. TerminalState(outcome) \in ExecutionState /\ outcome \in Stage
    BY DEF TerminalState, ExecutionState, Stage
  <2> QED BY <1>1, <2>1 DEF JobRow, TerminalRow
<1>6. /\ \A b \in BOOLEAN : [row EXCEPT !.leaseLive = b] \in JobRow
      /\ [row EXCEPT !.retryDue = TRUE] \in JobRow
  BY DEF JobRow
<1>7. RecoveredPaidRow(row) \in JobRow
  <2>1. 0 \in 0 .. MaxAttempts
    BY BoundAssumption
  <2> QED BY <2>1 DEF JobRow, RecoveredPaidRow, Stage, ExecutionState
<1> QED BY <1>1, <1>2, <1>3, <1>4, <1>5, <1>6, <1>7

\* A claim counts an attempt; with one left, the count stays in its range.
LEMMA ClaimedRowType ==
  ASSUME NEW row \in JobRow, NEW w \in Worker, row.phaseAttempt < MaxAttempts
  PROVE  ClaimedRow(row, w) \in JobRow
<1>1. row.phaseAttempt + 1 \in 0 .. MaxAttempts
  BY BoundAssumption DEF JobRow
<1> QED BY <1>1 DEF JobRow, ClaimedRow, ExecutionState

\* A checkpoint counts a revision, in the row and perhaps in the envelope.
LEMMA CheckpointedRowType ==
  ASSUME NEW row \in JobRow, NEW p \in BOOLEAN, row.revision < MaxRevision
  PROVE  CheckpointedRow(row, p) \in JobRow
<1>1. row.revision + 1 \in 0 .. MaxRevision /\ 0 \in 0 .. MaxAttempts
  BY BoundAssumption DEF JobRow
<1>2. (IF p THEN row.revision + 1 ELSE row.envelope) \in 0 .. MaxRevision
  BY <1>1 DEF JobRow
<1> QED BY <1>1, <1>2 DEF JobRow, CheckpointedRow, ExecutionState

\* A retryable failure gives back an attempt at most.
LEMMA BackedOffRowType ==
  ASSUME NEW row \in JobRow, NEW defer \in BOOLEAN
  PROVE  BackedOffRow(row, defer) \in JobRow
<1>1. PhaseAttemptAfterFailure(row.phaseAttempt, defer) \in 0 .. MaxAttempts
  BY BoundAssumption DEF JobRow, PhaseAttemptAfterFailure
<1>2. Released(row) \in JobRow
  BY RowTypes
<1> QED BY <1>1, <1>2 DEF JobRow, BackedOffRow, ExecutionState

\* Maintenance of any part of the table keeps the types of what it writes.
LEMMA MaintenanceType ==
  ASSUME TypeOK, NEW scope \in SUBSET Job, Maintenance(scope)
  PROVE  /\ job' \in [Job -> JobRow]
         /\ credit' \in [Job -> CreditStatus]
         /\ balance' \in [Key -> Nat]
<1>1. job' \in [Job -> JobRow]
  BY RowTypes DEF Maintenance, TypeOK
<1>2. credit' \in [Job -> CreditStatus]
  BY DEF Maintenance, TypeOK, CreditStatus
<1>3. ASSUME NEW k \in Key PROVE Returned(k, scope) \in Nat
  BY DEF Returned
<1>4. balance' \in [Key -> Nat]
  BY <1>3 DEF Maintenance, TypeOK
<1> QED BY <1>1, <1>2, <1>4

\* An empty table has rows of the right type.
LEMMA TypeInit == Init => TypeInv
<1> SUFFICES ASSUME Init PROVE TypeInv
  OBVIOUS
<1>1. AbsentRow \in JobRow
  BY BoundAssumption DEF AbsentRow, JobRow, Stage, ExecutionState
<1> QED BY <1>1, MappingAssumption, BoundAssumption
        DEF Init, TypeInv, TypeOK, AimedAtJob, CreditStatus, WorkerState

\* Every step writes values of the right type.
LEMMA TypeStep == TypeInv /\ [Next]_vars => TypeInv'
<1> SUFFICES ASSUME TypeInv, [Next]_vars PROVE TypeInv'
  OBVIOUS
<1> USE DEF TypeInv, TypeOK, AimedAtJob, workerVars, creditVars
<1>1. ASSUME NEW j \in Job, ReserveCredit(j) PROVE TypeInv'
  <2>1. KeyOf[j] \in Key
    BY <1>1, MappingAssumption DEF ReserveCredit
  <2>2. balance[KeyOf[j]] - 1 \in Nat
    BY <1>1, <2>1 DEF ReserveCredit
  <2>3. balance' \in [Key -> Nat]
    BY <1>1, <2>1, <2>2 DEF ReserveCredit
  <2>4. credit' \in [Job -> CreditStatus]
    BY <1>1 DEF ReserveCredit, CreditStatus
  <2> QED BY <1>1, <2>3, <2>4 DEF ReserveCredit
<1>2. ASSUME NEW j \in Job, EnqueueScanJob(j) PROVE TypeInv'
  BY <1>2, EnqueuedRowType DEF EnqueueScanJob
<1>3. ASSUME NEW w \in Worker, MaintainLane(w) PROVE TypeInv'
  BY <1>3, MaintenanceType DEF MaintainLane, WorkerState
<1>4. ASSUME NEW w \in Worker, NEW j \in Job, MaintainExact(w, j) PROVE TypeInv'
  <2>1. Maintenance({j})
    BY <1>4 DEF MaintainExact
  <2> QED BY <1>4, <2>1, MaintenanceType DEF MaintainExact, WorkerState
<1>5. ASSUME NEW w \in Worker, Claim(w) PROVE TypeInv'
  <2>1. PICK j \in Eligible(w) : /\ job' = [job EXCEPT ![j] = ClaimedRow(job[j], w)]
                                 /\ claimed' = [claimed EXCEPT ![w] = j]
    BY <1>5 DEF Claim
  <2>2. j \in Job /\ job[j] \in JobRow /\ job[j].phaseAttempt < MaxAttempts
    BY DEF Eligible
  <2>3. ClaimedRow(job[j], w) \in JobRow
    BY <2>2, ClaimedRowType
  <2> QED BY <1>5, <2>1, <2>2, <2>3 DEF Claim, WorkerState
<1>6. ASSUME NEW w \in Worker, ClaimNothing(w) PROVE TypeInv'
  BY <1>6 DEF ClaimNothing, WorkerState
<1>7. ASSUME NEW w \in Worker, Load(w) PROVE TypeInv'
  BY <1>7 DEF Load, WorkerState, JobRow
<1>8. ASSUME NEW w \in Worker, HeartbeatScanJob(w) PROVE TypeInv'
  BY <1>8, RowTypes DEF HeartbeatScanJob
<1>9. ASSUME NEW w \in Worker, NEW p \in BOOLEAN, CheckpointScanJob(w, p) PROVE TypeInv'
  <2>1. claimed[w] \in Job /\ job[claimed[w]] \in JobRow
    BY <1>9 DEF CheckpointScanJob
  <2>2. CheckpointedRow(job[claimed[w]], p) \in JobRow
    BY <1>9, <2>1, CheckpointedRowType DEF CheckpointScanJob
  <2>3. seen[w] + 1 \in 0 .. MaxRevision
    BY <1>9, <2>1, BoundAssumption DEF CheckpointScanJob, JobRow
  <2> QED BY <1>9, <2>1, <2>2, <2>3 DEF CheckpointScanJob
<1>10. ASSUME NEW w \in Worker, NEW outcome \in TerminalStage, TerminalizeScanJob(w, outcome)
       PROVE  TypeInv'
  <2>1. claimed[w] \in Job
    BY <1>10 DEF TerminalizeScanJob
  <2>2. job' \in [Job -> JobRow]
    BY <1>10, <2>1, RowTypes DEF TerminalizeScanJob
  <2>3. credit' \in [Job -> CreditStatus] /\ balance' \in [Key -> Nat]
    BY <1>10, <2>1 DEF TerminalizeScanJob, TerminalCreditStatus, CreditStatus
  <2> QED BY <1>10, <2>2, <2>3 DEF TerminalizeScanJob, Idle, WorkerState
<1>11. ASSUME NEW w \in Worker, FailForRepair(w) PROVE TypeInv'
  BY <1>11, RowTypes DEF FailForRepair, Idle, WorkerState
<1>12. ASSUME NEW w \in Worker, NEW defer \in BOOLEAN, FailForRetry(w, defer) PROVE TypeInv'
  <2>1. claimed[w] \in Job /\ job[claimed[w]] \in JobRow
    BY <1>12 DEF FailForRetry
  <2>2. BackedOffRow(job[claimed[w]], defer) \in JobRow
    BY <1>12, <2>1, BackedOffRowType DEF FailForRetry
  <2> QED BY <1>12, <2>1, <2>2 DEF FailForRetry, Idle, WorkerState
<1>13. ASSUME NEW w \in Worker, Abandon(w) \/ Crash(w) PROVE TypeInv'
  BY <1>13 DEF Abandon, Crash, Idle, WorkerState
<1>14. ASSUME NEW j \in Job, ResumeAfterRepair(j) \/ LeaseExpires(j) \/ BackoffElapses(j)
       PROVE  TypeInv'
  <2>1. /\ ResumedRow(job[j]) \in JobRow
        /\ [job[j] EXCEPT !.leaseLive = FALSE] \in JobRow
        /\ [job[j] EXCEPT !.retryDue = TRUE] \in JobRow
    BY RowTypes
  <2>2. job' \in [Job -> JobRow]
    BY <1>14, <2>1 DEF ResumeAfterRepair, LeaseExpires, BackoffElapses
  <2> QED BY <1>14, <2>2 DEF ResumeAfterRepair, LeaseExpires, BackoffElapses
<1>15. ASSUME NEW j \in Job, ExpirePaidOrderSla(j) PROVE TypeInv'
  BY <1>15, RowTypes DEF ExpirePaidOrderSla, CreditStatus
<1>16. ASSUME NEW j \in Job, RecoverHistoricalPaidJob(j) PROVE TypeInv'
  <2>1. job' \in [Job -> JobRow] /\ credit' \in [Job -> CreditStatus]
    BY <1>16, RowTypes DEF RecoverHistoricalPaidJob, CreditStatus
  <2>2. KeyOf[j] \in Key
    BY <1>16, MappingAssumption, OrderedAssumption DEF RecoverHistoricalPaidJob
  <2>3. balance[KeyOf[j]] - 1 \in Nat
    BY <1>16, <2>2 DEF RecoverHistoricalPaidJob
  <2>4. balance' \in [Key -> Nat]
    BY <1>16, <2>2, <2>3 DEF RecoverHistoricalPaidJob, Debited
  <2> QED BY <1>16, <2>1, <2>4 DEF RecoverHistoricalPaidJob
<1>17. CASE UNCHANGED vars
  BY <1>17 DEF vars
<1> QED
  BY <1>1, <1>2, <1>3, <1>4, <1>5, <1>6, <1>7, <1>8, <1>9, <1>10, <1>11, <1>12, <1>13,
     <1>14, <1>15, <1>16, <1>17 DEF Next, WorkerStep, JobStep, Conclude

\* The tables and the workers' memory keep their types: no attempt, revision
\* or balance leaves its range, and a working execution has a job.
THEOREM TypeCorrect == Spec => [](TypeOK /\ AimedAtJob)
<1>1. Init => TypeInv BY TypeInit
<1>2. TypeInv /\ [Next]_vars => TypeInv' BY TypeStep
<1> QED BY <1>1, <1>2, PTL DEF Spec, TypeInv

-----------------------------------------------------------------------------
(* Safety.                                                                  *)

\* What every statement keeps of one row: the lease and the running state go
\* together, and stage, state, back-off and ledger agree.
RowInv(row) ==
  /\ (row.leaseOwner # None) <=> (row.executionState = "running")
  /\ row.leaseLive => row.leaseOwner # None
  /\ row.executionState = "absent" => row = AbsentRow
  /\ row.stage = "absent" => row.executionState = "absent"
  /\ (row.stage = "failed") <=> (row.executionState = "failed")
  /\ (row.stage \in {"completed", "completed_limited"}) <=> (row.executionState = "completed")
  /\ row.executionState = "retry_wait" => row.phaseAttempt < MaxAttempts
  /\ ~row.retryDue => row.executionState = "retry_wait"
  /\ row.slaExpired => row.executionState = "failed"
  /\ row.ledger # row.executionState
       => \/ /\ row.executionState = "queued" /\ row.ledger = "absent"
             /\ row.phaseAttempt = 0
          \/ /\ row.executionState = "failed" /\ row.ledger \in {"running", "retry_wait"}
             /\ row.phaseAttempt = MaxAttempts
          \/ row.executionState = "failed" /\ row.slaExpired

RowsInv == \A j \in Job : RowInv(job[j])

\* Only a job that a key pays for has a reservation.
PaidFor == \A j \in Job : credit[j] # "none" => KeyOf[j] # None

IInv == /\ TypeInv /\ RowsInv /\ HolderIsFresh
        /\ CreditFollowsOutcome /\ PaidFor /\ CreditBounded

-----------------------------------------------------------------------------
(* The rows: each statement keeps RowInv where its guards let it run.       *)

\* A lapsed running row, recovered or exhausted.
LEMMA MaintainedRowInv ==
  ASSUME NEW row \in JobRow, RowInv(row),
         row.executionState \in {"running", "retry_wait"}
  PROVE  /\ row.phaseAttempt < MaxAttempts => RowInv(RecoveredRow(row))
         /\ row.phaseAttempt >= MaxAttempts => RowInv(ExhaustedRow(row))
<1>1. ASSUME row.phaseAttempt < MaxAttempts PROVE RowInv(RecoveredRow(row))
  BY <1>1 DEF RecoveredRow, Released, RowInv, JobRow, AbsentRow
<1>2. ASSUME row.phaseAttempt >= MaxAttempts PROVE RowInv(ExhaustedRow(row))
  <2>1. row.phaseAttempt = MaxAttempts
    BY <1>2, BoundAssumption DEF JobRow
  <2> QED BY <2>1 DEF ExhaustedRow, Released, RowInv, JobRow, AbsentRow
<1> QED BY <1>1, <1>2

\* A claim of a queued or backed-off row.
LEMMA ClaimedRowInv ==
  ASSUME NEW row \in JobRow, NEW w \in Worker, RowInv(row), row.retryDue,
         row.executionState \in {"queued", "retry_wait"}
  PROVE  RowInv(ClaimedRow(row, w))
BY NoneAssumption DEF ClaimedRow, RowInv, JobRow, AbsentRow

\* The writes of the execution that holds the lease.
LEMMA HeldRowInv ==
  ASSUME NEW row \in JobRow, RowInv(row), row.executionState = "running"
  PROVE  /\ \A p \in BOOLEAN : RowInv(CheckpointedRow(row, p))
         /\ \A outcome \in TerminalStage : RowInv(TerminalRow(row, outcome))
         /\ RowInv(ParkedRow(row))
         /\ \A defer \in BOOLEAN :
              PhaseAttemptAfterFailure(row.phaseAttempt, defer) < MaxAttempts
                => RowInv(BackedOffRow(row, defer))
         /\ \A b \in BOOLEAN : RowInv([row EXCEPT !.leaseLive = b])
<1>1. ASSUME NEW p \in BOOLEAN PROVE RowInv(CheckpointedRow(row, p))
  BY DEF CheckpointedRow, RowInv, JobRow, AbsentRow
<1>2. ASSUME NEW outcome \in TerminalStage PROVE RowInv(TerminalRow(row, outcome))
  BY DEF TerminalRow, TerminalState, TerminalStage, Released, RowInv, JobRow, AbsentRow
<1>3. RowInv(ParkedRow(row))
  BY DEF ParkedRow, Released, RowInv, JobRow, AbsentRow
<1>4. ASSUME NEW defer \in BOOLEAN,
             PhaseAttemptAfterFailure(row.phaseAttempt, defer) < MaxAttempts
      PROVE  RowInv(BackedOffRow(row, defer))
  BY <1>4 DEF BackedOffRow, Released, RowInv, JobRow, AbsentRow
<1>5. ASSUME NEW b \in BOOLEAN PROVE RowInv([row EXCEPT !.leaseLive = b])
  BY DEF RowInv, JobRow, AbsentRow
<1> QED BY <1>1, <1>2, <1>3, <1>4, <1>5

\* The operator's resume, a lapse of the lease and the end of a back-off, and what
\* the order of the job does to it.
LEMMA OtherRowInv ==
  ASSUME NEW row \in JobRow, RowInv(row)
  PROVE  /\ row.executionState = "repair_wait" => RowInv(ResumedRow(row))
         /\ RowInv([row EXCEPT !.leaseLive = FALSE])
         /\ ~row.retryDue => RowInv([row EXCEPT !.retryDue = TRUE])
         /\ row.executionState # "absent" => RowInv(ExpiredRow(row))
         /\ (row.executionState = "failed" /\ ~row.slaExpired) => RowInv(RecoveredPaidRow(row))
<1>1. ASSUME row.executionState = "repair_wait" PROVE RowInv(ResumedRow(row))
  BY <1>1 DEF ResumedRow, RowInv, JobRow, AbsentRow
<1>2. RowInv([row EXCEPT !.leaseLive = FALSE])
  BY DEF RowInv, JobRow, AbsentRow
<1>3. ASSUME ~row.retryDue PROVE RowInv([row EXCEPT !.retryDue = TRUE])
  BY <1>3 DEF RowInv, JobRow, AbsentRow
<1>4. ASSUME row.executionState # "absent" PROVE RowInv(ExpiredRow(row))
  BY <1>4 DEF ExpiredRow, Released, RowInv, JobRow, AbsentRow
<1>5. ASSUME row.executionState = "failed", ~row.slaExpired PROVE RowInv(RecoveredPaidRow(row))
  BY <1>5 DEF RecoveredPaidRow, RowInv, JobRow, AbsentRow
<1> QED BY <1>1, <1>2, <1>3, <1>4, <1>5

\* The new row of an enqueue, and a row that is not there yet.
LEMMA FirstRowInv == RowInv(AbsentRow) /\ RowInv(EnqueuedRow)
BY NoneAssumption, BoundAssumption DEF AbsentRow, EnqueuedRow, RowInv

\* A write of row j keeps the rows when the new row is right.
LEMMA OneRow ==
  ASSUME TypeOK, RowsInv, NEW j \in Job, NEW row, RowInv(row),
         job' = [job EXCEPT ![j] = row]
  PROVE  RowsInv'
<1>1. ASSUME NEW i \in Job PROVE RowInv(job'[i])
  BY DEF TypeOK, RowsInv
<1> QED BY <1>1 DEF RowsInv, RowInv, AbsentRow

\* Maintenance of any part of the table.
LEMMA MaintenanceRows ==
  ASSUME TypeOK, RowsInv, NEW scope \in SUBSET Job, Maintenance(scope)
  PROVE  RowsInv'
<1>1. ASSUME NEW i \in Job PROVE RowInv(job'[i])
  <2>1. job[i] \in JobRow /\ RowInv(job[i])
    BY DEF TypeOK, RowsInv
  <2>2. CASE i \in scope /\ Recoverable(i)
    <3>1. RowInv(RecoveredRow(job[i]))
      BY <2>1, <2>2, MaintainedRowInv DEF Recoverable
    <3> QED BY <2>2, <3>1 DEF Maintenance
  <2>3. CASE i \in scope /\ ~Recoverable(i) /\ Exhausted(i)
    <3>1. RowInv(ExhaustedRow(job[i]))
      BY <2>1, <2>3, MaintainedRowInv DEF Exhausted
    <3> QED BY <2>3, <3>1 DEF Maintenance
  <2>4. CASE ~(i \in scope /\ Recoverable(i)) /\ ~(i \in scope /\ Exhausted(i))
    BY <2>1, <2>4 DEF Maintenance
  <2> QED BY <2>2, <2>3, <2>4
<1> QED BY <1>1 DEF RowsInv, RowInv, AbsentRow

\* The fence implies what the guards of terminalizeScanJob and failScanJob do
\* not test: the job is running.
LEMMA HolderRuns ==
  ASSUME RowsInv, NEW w \in Worker, NEW j \in Job, job[j].leaseOwner = w
  PROVE  job[j].executionState = "running"
BY NoneAssumption DEF RowsInv, RowInv

\* Every step keeps the rows right, the statements that test the lease but not
\* the state of the job included.
LEMMA RowsStep ==
  ASSUME TypeInv, RowsInv, [Next]_vars
  PROVE  RowsInv'
<1> USE DEF TypeInv
<1>1. ASSUME NEW j \in Job, EnqueueScanJob(j) PROVE RowsInv'
  BY <1>1, FirstRowInv, OneRow DEF EnqueueScanJob
<1>2. ASSUME NEW w \in Worker, MaintainLane(w) PROVE RowsInv'
  BY <1>2, MaintenanceRows DEF MaintainLane
<1>3. ASSUME NEW w \in Worker, NEW j \in Job, MaintainExact(w, j) PROVE RowsInv'
  <2>1. Maintenance({j})
    BY <1>3 DEF MaintainExact
  <2> QED BY <2>1, MaintenanceRows
<1>4. ASSUME NEW w \in Worker, Claim(w) PROVE RowsInv'
  <2>1. PICK j \in Eligible(w) : job' = [job EXCEPT ![j] = ClaimedRow(job[j], w)]
    BY <1>4 DEF Claim
  <2>2. /\ j \in Job /\ job[j] \in JobRow /\ RowInv(job[j]) /\ job[j].retryDue
        /\ job[j].executionState \in {"queued", "retry_wait"}
    BY DEF Eligible, TypeOK, RowsInv
  <2>3. RowInv(ClaimedRow(job[j], w))
    BY <2>2, ClaimedRowInv
  <2> QED BY <2>1, <2>2, <2>3, OneRow
<1>5. ASSUME NEW w \in Worker, HeartbeatScanJob(w) PROVE RowsInv'
  <2> DEFINE j == claimed[w]
  <2>1. /\ j \in Job /\ job[j] \in JobRow /\ RowInv(job[j])
        /\ job[j].executionState = "running"
    BY <1>5 DEF HeartbeatScanJob, TypeOK, AimedAtJob, RowsInv
  <2>2. RowInv([job[j] EXCEPT !.leaseLive = TRUE])
    BY <2>1, HeldRowInv
  <2>3. job' = [job EXCEPT ![j] = [job[j] EXCEPT !.leaseLive = TRUE]]
    BY <1>5 DEF HeartbeatScanJob
  <2> HIDE DEF j
  <2> QED BY <2>1, <2>2, <2>3, OneRow
<1>6. ASSUME NEW w \in Worker, NEW p \in BOOLEAN, CheckpointScanJob(w, p) PROVE RowsInv'
  <2> DEFINE j == claimed[w]
  <2>1. /\ j \in Job /\ job[j] \in JobRow /\ RowInv(job[j])
        /\ job[j].executionState = "running"
    BY <1>6 DEF CheckpointScanJob, TypeOK, AimedAtJob, RowsInv
  <2>2. RowInv(CheckpointedRow(job[j], p))
    BY <2>1, HeldRowInv
  <2>3. job' = [job EXCEPT ![j] = CheckpointedRow(job[j], p)]
    BY <1>6 DEF CheckpointScanJob
  <2> HIDE DEF j
  <2> QED BY <2>1, <2>2, <2>3, OneRow
<1>7. ASSUME NEW w \in Worker, NEW outcome \in TerminalStage, TerminalizeScanJob(w, outcome)
      PROVE  RowsInv'
  <2> DEFINE j == claimed[w]
  <2>1. j \in Job /\ job[j] \in JobRow /\ RowInv(job[j])
    BY <1>7 DEF TerminalizeScanJob, TypeOK, AimedAtJob, RowsInv
  <2>2. job[j].executionState = "running"
    BY <1>7, <2>1, HolderRuns DEF TerminalizeScanJob, Holds
  <2>3. RowInv(TerminalRow(job[j], outcome))
    BY <2>1, <2>2, HeldRowInv
  <2>4. job' = [job EXCEPT ![j] = TerminalRow(job[j], outcome)]
    BY <1>7 DEF TerminalizeScanJob
  <2> HIDE DEF j
  <2> QED BY <2>1, <2>3, <2>4, OneRow
<1>8. ASSUME NEW w \in Worker, FailForRepair(w) PROVE RowsInv'
  <2> DEFINE j == claimed[w]
  <2>1. j \in Job /\ job[j] \in JobRow /\ RowInv(job[j])
    BY <1>8 DEF FailForRepair, TypeOK, AimedAtJob, RowsInv
  <2>2. job[j].executionState = "running"
    BY <1>8, <2>1, HolderRuns DEF FailForRepair, Holds
  <2>3. RowInv(ParkedRow(job[j]))
    BY <2>1, <2>2, HeldRowInv
  <2>4. job' = [job EXCEPT ![j] = ParkedRow(job[j])]
    BY <1>8 DEF FailForRepair
  <2> HIDE DEF j
  <2> QED BY <2>1, <2>3, <2>4, OneRow
<1>9. ASSUME NEW w \in Worker, NEW defer \in BOOLEAN, FailForRetry(w, defer) PROVE RowsInv'
  <2> DEFINE j == claimed[w]
  <2>1. j \in Job /\ job[j] \in JobRow /\ RowInv(job[j])
    BY <1>9 DEF FailForRetry, TypeOK, AimedAtJob, RowsInv
  <2>2. job[j].executionState = "running"
    BY <1>9, <2>1, HolderRuns DEF FailForRetry, Holds
  <2>3. RowInv(BackedOffRow(job[j], defer))
    BY <1>9, <2>1, <2>2, HeldRowInv DEF FailForRetry
  <2>4. job' = [job EXCEPT ![j] = BackedOffRow(job[j], defer)]
    BY <1>9 DEF FailForRetry
  <2> HIDE DEF j
  <2> QED BY <2>1, <2>3, <2>4, OneRow
<1>10. ASSUME NEW j \in Job, ResumeAfterRepair(j) \/ LeaseExpires(j) \/ BackoffElapses(j)
       PROVE  RowsInv'
  <2>1. job[j] \in JobRow /\ RowInv(job[j])
    BY DEF TypeOK, RowsInv
  <2>2. CASE ResumeAfterRepair(j)
    BY <2>1, <2>2, OtherRowInv, OneRow DEF ResumeAfterRepair
  <2>3. CASE LeaseExpires(j)
    BY <2>1, <2>3, OtherRowInv, OneRow DEF LeaseExpires
  <2>4. CASE BackoffElapses(j)
    BY <2>1, <2>4, OtherRowInv, OneRow DEF BackoffElapses
  <2> QED BY <1>10, <2>2, <2>3, <2>4
<1>11. ASSUME job' = job PROVE RowsInv'
  BY <1>11 DEF RowsInv, RowInv, AbsentRow
<1>12. ASSUME NEW w \in Worker, ClaimNothing(w) \/ Load(w) \/ Abandon(w) \/ Crash(w)
       PROVE  RowsInv'
  BY <1>11, <1>12 DEF ClaimNothing, Load, Abandon, Crash
<1>13. ASSUME NEW j \in Job, ReserveCredit(j) PROVE RowsInv'
  BY <1>11, <1>13 DEF ReserveCredit
<1>14. ASSUME NEW j \in Job, ExpirePaidOrderSla(j) \/ RecoverHistoricalPaidJob(j)
       PROVE  RowsInv'
  <2>1. job[j] \in JobRow /\ RowInv(job[j])
    BY DEF TypeOK, RowsInv
  <2>2. CASE ExpirePaidOrderSla(j)
    BY <2>1, <2>2, OtherRowInv, OneRow DEF ExpirePaidOrderSla
  <2>3. CASE RecoverHistoricalPaidJob(j)
    BY <2>1, <2>3, OtherRowInv, OneRow DEF RecoverHistoricalPaidJob
  <2> QED BY <1>14, <2>2, <2>3
<1>15. CASE UNCHANGED vars
  BY <1>11, <1>15 DEF vars
<1> QED
  BY <1>1, <1>2, <1>3, <1>4, <1>5, <1>6, <1>7, <1>8, <1>9, <1>10, <1>12, <1>13, <1>14, <1>15
     DEF Next, WorkerStep, JobStep, Conclude

-----------------------------------------------------------------------------
(* The worker's revision.                                                   *)

Fresh(w) == pc[w] = "working" /\ job[claimed[w]].leaseOwner = w
              => seen[w] = job[claimed[w]].revision

\* The step changes nothing in the memory of w that Fresh depends on.
Undisturbed(w) == pc'[w] = "working" => /\ pc[w] = "working"
                                        /\ claimed'[w] = claimed[w]
                                        /\ seen'[w] = seen[w]

\* The rows that w owns after the step it owned before, at the same revision.
OwnedAsBefore(w) ==
  \A j \in Job : job'[j].leaseOwner = w => /\ job[j].leaseOwner = w
                                           /\ job'[j].revision = job[j].revision

\* What keeps the revision of w fresh in a step that is not its own progress.
LEMMA FreshKept ==
  ASSUME TypeInv', NEW w \in Worker, Fresh(w), Undisturbed(w), OwnedAsBefore(w)
  PROVE  Fresh(w)'
<1>1. pc'[w] = "working" => claimed'[w] \in Job
  BY DEF TypeInv, AimedAtJob
<1> QED BY <1>1 DEF Fresh, Undisturbed, OwnedAsBefore

\* What each statement does to the owner and the revision of its row.
LEMMA OwnerOfRows ==
  ASSUME NEW row \in JobRow, NEW w \in Worker
  PROVE  /\ RecoveredRow(row).leaseOwner = None /\ ExhaustedRow(row).leaseOwner = None
         /\ ParkedRow(row).leaseOwner = None /\ EnqueuedRow.leaseOwner = None
         /\ \A outcome : TerminalRow(row, outcome).leaseOwner = None
         /\ \A defer : BackedOffRow(row, defer).leaseOwner = None
         /\ ClaimedRow(row, w).leaseOwner = w
         /\ \A p : CheckpointedRow(row, p).leaseOwner = row.leaseOwner
         /\ \A p : CheckpointedRow(row, p).revision = row.revision + 1
         /\ ResumedRow(row).leaseOwner = row.leaseOwner
         /\ ResumedRow(row).revision = row.revision
         /\ ExpiredRow(row).leaseOwner = None
         /\ RecoveredPaidRow(row).leaseOwner = row.leaseOwner
         /\ RecoveredPaidRow(row).revision = row.revision
BY DEF JobRow, Released, RecoveredRow, ExhaustedRow, ParkedRow, EnqueuedRow, AbsentRow,
       TerminalRow, BackedOffRow, ClaimedRow, CheckpointedRow, ResumedRow, ExpiredRow,
       RecoveredPaidRow

\* A released row is nobody's: whoever owned a row keeps it or loses it.
LEMMA OwnedAfterRelease ==
  ASSUME TypeOK, NEW j \in Job, NEW row, row.leaseOwner = None,
         job' = [job EXCEPT ![j] = row], NEW w \in Worker
  PROVE  OwnedAsBefore(w)
BY NoneAssumption DEF TypeOK, OwnedAsBefore

\* Nor does a row that keeps its owner and its revision change hands.
LEMMA OwnedWhenKept ==
  ASSUME TypeOK, NEW j \in Job, NEW row, row.leaseOwner = job[j].leaseOwner,
         row.revision = job[j].revision, job' = [job EXCEPT ![j] = row], NEW w \in Worker
  PROVE  OwnedAsBefore(w)
BY DEF TypeOK, OwnedAsBefore

\* Maintenance gives no row to anyone.
LEMMA OwnedAfterMaintenance ==
  ASSUME TypeOK, NEW scope, Maintenance(scope), NEW w \in Worker
  PROVE  OwnedAsBefore(w)
<1>1. ASSUME NEW j \in Job, job'[j].leaseOwner = w PROVE job'[j] = job[j]
  <2>1. job[j] \in JobRow
    BY DEF TypeOK
  <2>2. RecoveredRow(job[j]).leaseOwner # w /\ ExhaustedRow(job[j]).leaseOwner # w
    BY <2>1, OwnerOfRows, NoneAssumption
  <2> QED BY <1>1, <2>2 DEF Maintenance
<1> QED BY <1>1 DEF OwnedAsBefore

\* Every step keeps the revision of each execution that owns its job.
LEMMA FreshStep ==
  ASSUME TypeInv, TypeInv', RowsInv, HolderIsFresh, [Next]_vars, NEW w \in Worker
  PROVE  Fresh(w)'
<1> USE DEF TypeInv
<1>0. Fresh(w)
  BY DEF HolderIsFresh, Fresh
<1>1. ASSUME job' = job, Undisturbed(w) PROVE Fresh(w)'
  <2>1. OwnedAsBefore(w)
    BY <1>1 DEF OwnedAsBefore
  <2> QED BY <1>0, <1>1, <2>1, FreshKept
<1>2. ASSUME NEW j \in Job, EnqueueScanJob(j) PROVE Fresh(w)'
  <2>1. Undisturbed(w)
    BY <1>2 DEF EnqueueScanJob, workerVars, Undisturbed
  <2>2. OwnedAsBefore(w)
    BY <1>2, OwnedAfterRelease DEF EnqueueScanJob, EnqueuedRow, AbsentRow
  <2> QED BY <1>0, <2>1, <2>2, FreshKept
<1>3. ASSUME NEW v \in Worker, MaintainLane(v) PROVE Fresh(w)'
  <2>1. Undisturbed(w)
    BY <1>3 DEF MaintainLane, Undisturbed, TypeOK
  <2>2. OwnedAsBefore(w)
    BY <1>3, OwnedAfterMaintenance DEF MaintainLane
  <2> QED BY <1>0, <2>1, <2>2, FreshKept
<1>4. ASSUME NEW v \in Worker, NEW j \in Job, MaintainExact(v, j) PROVE Fresh(w)'
  <2>1. Undisturbed(w)
    BY <1>4 DEF MaintainExact, Undisturbed, TypeOK
  <2>2. Maintenance({j})
    BY <1>4 DEF MaintainExact
  <2>3. OwnedAsBefore(w)
    BY <2>2, OwnedAfterMaintenance
  <2> QED BY <1>0, <2>1, <2>3, FreshKept
<1>5. ASSUME NEW v \in Worker, Claim(v) PROVE Fresh(w)'
  <2>1. PICK j \in Eligible(v) : /\ job' = [job EXCEPT ![j] = ClaimedRow(job[j], v)]
                                 /\ claimed' = [claimed EXCEPT ![v] = j]
    BY <1>5 DEF Claim
  <2>2. j \in Job /\ job[j] \in JobRow
    BY DEF Eligible, TypeOK
  <2>3. CASE v = w
    \* The claim leaves its worker loading.
    BY <1>5, <2>3 DEF Claim, Fresh, TypeOK
  <2>4. CASE v # w
    <3>1. Undisturbed(w)
      BY <1>5, <2>1, <2>4 DEF Claim, Undisturbed, TypeOK
    <3>2. ClaimedRow(job[j], v).leaseOwner # w
      BY <2>2, <2>4, OwnerOfRows
    <3>3. OwnedAsBefore(w)
      BY <2>1, <2>2, <3>2 DEF OwnedAsBefore, TypeOK
    <3> QED BY <1>0, <3>1, <3>3, FreshKept
  <2> QED BY <2>3, <2>4
<1>6. ASSUME NEW v \in Worker, Load(v) PROVE Fresh(w)'
  <2>1. CASE v = w
    \* The load reads the revision of the row.
    BY <1>6, <2>1 DEF Load, Fresh, TypeOK, creditVars
  <2>2. CASE v # w
    <3>1. Undisturbed(w) /\ job' = job
      BY <1>6, <2>2 DEF Load, Undisturbed, TypeOK
    <3> QED BY <3>1, <1>1
  <2> QED BY <2>1, <2>2
<1>7. ASSUME NEW v \in Worker, HeartbeatScanJob(v) PROVE Fresh(w)'
  <2>1. Undisturbed(w)
    BY <1>7 DEF HeartbeatScanJob, workerVars, Undisturbed
  <2>2. claimed[v] \in Job /\ job[claimed[v]] \in JobRow
    BY <1>7 DEF HeartbeatScanJob, TypeOK, AimedAtJob
  <2>3. OwnedAsBefore(w)
    BY <1>7, <2>2 DEF HeartbeatScanJob, OwnedAsBefore, TypeOK, JobRow
  <2> QED BY <1>0, <2>1, <2>3, FreshKept
<1>8. ASSUME NEW v \in Worker, NEW p \in BOOLEAN, CheckpointScanJob(v, p) PROVE Fresh(w)'
  <2> DEFINE j == claimed[v]
  <2>1. j \in Job /\ job[j] \in JobRow
    BY <1>8 DEF CheckpointScanJob, TypeOK, AimedAtJob
  <2>2. /\ job' = [job EXCEPT ![j] = CheckpointedRow(job[j], p)]
        /\ job[j].leaseOwner = v
        /\ job[j].revision = seen[v]
    BY <1>8 DEF CheckpointScanJob, Holds
  <2>3. CASE v = w
    \* Row and writer count the same checkpoint.
    <3>1. job'[j].revision = job[j].revision + 1
      BY <2>1, <2>2, OwnerOfRows DEF TypeOK
    <3>2. seen'[w] = seen[w] + 1 /\ claimed'[w] = j
      BY <1>8, <2>3 DEF CheckpointScanJob, TypeOK
    <3> QED BY <2>2, <2>3, <3>1, <3>2 DEF Fresh
  <2>4. CASE v # w
    <3>1. Undisturbed(w)
      BY <1>8, <2>4 DEF CheckpointScanJob, Undisturbed, TypeOK
    <3>2. CheckpointedRow(job[j], p).leaseOwner # w
      BY <2>1, <2>2, <2>4, OwnerOfRows
    <3> HIDE DEF j
    <3>3. OwnedAsBefore(w)
      BY <2>1, <2>2, <3>2 DEF OwnedAsBefore, TypeOK
    <3> QED BY <1>0, <3>1, <3>3, FreshKept
  <2> QED BY <2>3, <2>4
<1>9. ASSUME NEW v \in Worker,
             \/ \E outcome \in TerminalStage : TerminalizeScanJob(v, outcome)
             \/ FailForRepair(v)
             \/ \E defer \in BOOLEAN : FailForRetry(v, defer)
      PROVE  Fresh(w)'
  <2>1. pc[v] = "working" /\ Idle(v)
    BY <1>9 DEF TerminalizeScanJob, FailForRepair, FailForRetry
  <2>2. Undisturbed(w)
    BY <2>1 DEF Idle, Undisturbed, TypeOK
  <2>3. claimed[v] \in Job /\ job[claimed[v]] \in JobRow
    BY <2>1 DEF TypeOK, AimedAtJob
  <2>4. PICK row : row.leaseOwner = None /\ job' = [job EXCEPT ![claimed[v]] = row]
    BY <1>9, <2>3, OwnerOfRows DEF TerminalizeScanJob, FailForRepair, FailForRetry
  <2>5. OwnedAsBefore(w)
    BY <2>3, <2>4, OwnedAfterRelease
  <2> QED BY <1>0, <2>2, <2>5, FreshKept
<1>10. ASSUME NEW v \in Worker, ClaimNothing(v) \/ Abandon(v) \/ Crash(v) PROVE Fresh(w)'
  <2>1. Undisturbed(w) /\ job' = job
    BY <1>10 DEF ClaimNothing, Abandon, Crash, Idle, Undisturbed, TypeOK
  <2> QED BY <2>1, <1>1
<1>11. ASSUME NEW j \in Job, ResumeAfterRepair(j) \/ LeaseExpires(j) \/ BackoffElapses(j)
       PROVE  Fresh(w)'
  <2>1. Undisturbed(w)
    BY <1>11 DEF ResumeAfterRepair, LeaseExpires, BackoffElapses, workerVars, Undisturbed
  <2>2. OwnedAsBefore(w)
    <3>1. job[j] \in JobRow
      BY DEF TypeOK
    <3>2. PICK row : /\ row.leaseOwner = job[j].leaseOwner /\ row.revision = job[j].revision
                     /\ job' = [job EXCEPT ![j] = row]
      <4>1. CASE ResumeAfterRepair(j)
        BY <3>1, <4>1, OwnerOfRows DEF ResumeAfterRepair
      <4>2. CASE LeaseExpires(j)
        BY <3>1, <4>2 DEF LeaseExpires, JobRow
      <4>3. CASE BackoffElapses(j)
        BY <3>1, <4>3 DEF BackoffElapses, JobRow
      <4> QED BY <1>11, <4>1, <4>2, <4>3
    <3> QED BY <3>2, OwnedWhenKept
  <2> QED BY <1>0, <2>1, <2>2, FreshKept
<1>12. ASSUME NEW j \in Job, ReserveCredit(j) PROVE Fresh(w)'
  BY <1>1, <1>12 DEF ReserveCredit, workerVars, Undisturbed
<1>13. ASSUME NEW j \in Job, ExpirePaidOrderSla(j) \/ RecoverHistoricalPaidJob(j)
       PROVE  Fresh(w)'
  <2>1. Undisturbed(w)
    BY <1>13 DEF ExpirePaidOrderSla, RecoverHistoricalPaidJob, workerVars, Undisturbed
  <2>2. job[j] \in JobRow
    BY DEF TypeOK
  <2>3. CASE ExpirePaidOrderSla(j)
    <3>1. OwnedAsBefore(w)
      BY <2>2, <2>3, OwnerOfRows, OwnedAfterRelease DEF ExpirePaidOrderSla
    <3> QED BY <1>0, <2>1, <3>1, FreshKept
  <2>4. CASE RecoverHistoricalPaidJob(j)
    <3>1. OwnedAsBefore(w)
      BY <2>2, <2>4, OwnerOfRows, OwnedWhenKept DEF RecoverHistoricalPaidJob
    <3> QED BY <1>0, <2>1, <3>1, FreshKept
  <2> QED BY <1>13, <2>3, <2>4
<1>14. CASE UNCHANGED vars
  BY <1>1, <1>14 DEF vars, Undisturbed
<1> QED
  BY <1>2, <1>3, <1>4, <1>5, <1>6, <1>7, <1>8, <1>9, <1>10, <1>11, <1>12, <1>13, <1>14
     DEF Next, WorkerStep, JobStep, Conclude

-----------------------------------------------------------------------------
(* The credits.                                                             *)

\* What CreditFollowsOutcome and PaidFor say of one job.
Charged(j, stage, c) ==
  /\ c # "none" => KeyOf[j] # None
  /\ KeyOf[j] # None => /\ stage = "open" => c = "reserved"
                        /\ stage = "completed" => c = "settled"
                        /\ stage \in {"completed_limited", "failed"} => c = "refunded"

ChargesInv == \A j \in Job : Charged(j, job[j].stage, credit[j])

\* ChargesInv joins the two invariants, job by job.
LEMMA ChargesInvEquiv == ChargesInv <=> CreditFollowsOutcome /\ PaidFor
BY DEF ChargesInv, Charged, CreditFollowsOutcome, PaidFor

\* A running or waiting row is in its open stage.
LEMMA UnfinishedIsOpen ==
  ASSUME NEW row \in JobRow, RowInv(row), row.executionState \in {"running", "retry_wait"}
  PROVE  row.stage = "open"
BY DEF JobRow, Stage, TerminalStage, RowInv

\* What each statement does to the stage of its row.
LEMMA StageOfRows ==
  ASSUME NEW row \in JobRow
  PROVE  /\ RecoveredRow(row).stage = row.stage /\ ExhaustedRow(row).stage = "failed"
         /\ ParkedRow(row).stage = row.stage /\ EnqueuedRow.stage = "open"
         /\ \A outcome : TerminalRow(row, outcome).stage = outcome
         /\ \A defer : BackedOffRow(row, defer).stage = row.stage
         /\ \A w : ClaimedRow(row, w).stage = row.stage
         /\ \A p : CheckpointedRow(row, p).stage = row.stage
         /\ ResumedRow(row).stage = row.stage
         /\ \A b : [row EXCEPT !.leaseLive = b].stage = row.stage
         /\ [row EXCEPT !.retryDue = TRUE].stage = row.stage
         /\ ExpiredRow(row).stage = "failed" /\ RecoveredPaidRow(row).stage = "open"
BY DEF JobRow, Released, RecoveredRow, ExhaustedRow, ParkedRow, EnqueuedRow, AbsentRow,
       TerminalRow, BackedOffRow, ClaimedRow, CheckpointedRow, ResumedRow, ExpiredRow,
       RecoveredPaidRow

\* A statement that leaves the stage of its row and every credit alone.
LEMMA ChargesKept ==
  ASSUME TypeOK, ChargesInv, NEW j \in Job, NEW row, row.stage = job[j].stage,
         job' = [job EXCEPT ![j] = row], credit' = credit
  PROVE  ChargesInv'
<1>1. ASSUME NEW i \in Job PROVE job'[i].stage = job[i].stage
  BY DEF TypeOK
<1> QED BY <1>1 DEF ChargesInv, Charged

\* A failed job is refunded with the statement that fails it.
LEMMA ChargesMaintained ==
  ASSUME TypeOK, RowsInv, ChargesInv, NEW scope \in SUBSET Job, Maintenance(scope)
  PROVE  ChargesInv'
<1>1. ASSUME NEW i \in Job PROVE Charged(i, job'[i].stage, credit'[i])
  <2>1. job[i] \in JobRow /\ RowInv(job[i]) /\ Charged(i, job[i].stage, credit[i])
    BY DEF TypeOK, RowsInv, ChargesInv
  <2>2. CASE i \in scope /\ Recoverable(i)
    <3>1. job'[i].stage = job[i].stage
      BY <2>1, <2>2, StageOfRows DEF Maintenance
    <3>2. ~Exhausted(i)
      BY <2>1, <2>2, BoundAssumption DEF Recoverable, Exhausted, JobRow
    <3> QED BY <2>1, <3>1, <3>2 DEF Maintenance
  <2>3. CASE i \in scope /\ ~Recoverable(i) /\ Exhausted(i)
    <3>1. job'[i].stage = "failed"
      BY <2>1, <2>3, StageOfRows DEF Maintenance
    <3>2. job[i].stage = "open"
      BY <2>1, <2>3, UnfinishedIsOpen DEF Exhausted
    <3>3. credit'[i] = IF credit[i] = "reserved" THEN "refunded" ELSE credit[i]
      BY <2>3 DEF Maintenance
    <3> QED BY <2>1, <3>1, <3>2, <3>3 DEF Charged
  <2>4. CASE ~(i \in scope /\ Recoverable(i)) /\ ~(i \in scope /\ Exhausted(i))
    BY <2>1, <2>4 DEF Maintenance
  <2> QED BY <2>2, <2>3, <2>4
<1> QED BY <1>1 DEF ChargesInv, Charged

\* The outcome of a job decides its reservation in the same transaction.
LEMMA ChargesTerminalized ==
  ASSUME TypeInv, RowsInv, ChargesInv, NEW w \in Worker, NEW outcome \in TerminalStage,
         TerminalizeScanJob(w, outcome)
  PROVE  ChargesInv'
<1> DEFINE j == claimed[w]
<1>1. j \in Job /\ job[j] \in JobRow /\ RowInv(job[j]) /\ Charged(j, job[j].stage, credit[j])
  BY DEF TerminalizeScanJob, TypeInv, TypeOK, AimedAtJob, RowsInv, ChargesInv
<1>2. job[j].stage = "open"
  BY <1>1, HolderRuns, UnfinishedIsOpen DEF TerminalizeScanJob, Holds
<1>3. /\ job' = [job EXCEPT ![j] = TerminalRow(job[j], outcome)]
      /\ credit' = [credit EXCEPT ![j] = IF @ = "reserved" THEN TerminalCreditStatus(outcome)
                                         ELSE @]
  BY DEF TerminalizeScanJob
<1> HIDE DEF j
<1>4. job'[j].stage = outcome
  BY <1>1, <1>3, StageOfRows DEF TypeInv, TypeOK
<1>5. Charged(j, outcome, credit'[j])
  BY <1>1, <1>2, <1>3 DEF TypeInv, TypeOK, Charged, TerminalCreditStatus, TerminalStage
<1>6. ASSUME NEW i \in Job, i # j PROVE job'[i] = job[i] /\ credit'[i] = credit[i]
  BY <1>3, <1>6 DEF TypeInv, TypeOK
<1> QED BY <1>4, <1>5, <1>6 DEF ChargesInv, Charged

\* Every step keeps stage and reservation together.
LEMMA ChargesStep ==
  ASSUME TypeInv, RowsInv, ChargesInv, [Next]_vars
  PROVE  ChargesInv'
<1> USE DEF TypeInv
<1>1. ASSUME NEW j \in Job, ReserveCredit(j) PROVE ChargesInv'
  <2>1. /\ KeyOf[j] # None /\ credit[j] = "none" /\ job' = job
        /\ credit' = [credit EXCEPT ![j] = "reserved"]
    BY <1>1 DEF ReserveCredit
  <2>2. job[j].stage \notin {"open"} \cup TerminalStage
    BY <2>1 DEF ChargesInv, Charged, TerminalStage
  <2> QED BY <2>1, <2>2 DEF TypeOK, ChargesInv, Charged, TerminalStage
<1>2. ASSUME NEW j \in Job, EnqueueScanJob(j) PROVE ChargesInv'
  <2>1. /\ job' = [job EXCEPT ![j] = EnqueuedRow] /\ credit' = credit
        /\ KeyOf[j] # None => credit[j] = "reserved"
    BY <1>2 DEF EnqueueScanJob, creditVars
  <2>2. EnqueuedRow.stage = "open"
    BY DEF EnqueuedRow, AbsentRow
  <2> QED BY <2>1, <2>2 DEF TypeOK, ChargesInv, Charged
<1>3. ASSUME NEW w \in Worker, MaintainLane(w) PROVE ChargesInv'
  BY <1>3, ChargesMaintained DEF MaintainLane
<1>4. ASSUME NEW w \in Worker, NEW j \in Job, MaintainExact(w, j) PROVE ChargesInv'
  <2>1. Maintenance({j})
    BY <1>4 DEF MaintainExact
  <2> QED BY <2>1, ChargesMaintained
<1>5. ASSUME NEW w \in Worker, NEW outcome \in TerminalStage, TerminalizeScanJob(w, outcome)
      PROVE  ChargesInv'
  BY <1>5, ChargesTerminalized
<1>6. ASSUME NEW w \in Worker, Claim(w) PROVE ChargesInv'
  <2>1. PICK j \in Eligible(w) : job' = [job EXCEPT ![j] = ClaimedRow(job[j], w)]
    BY <1>6 DEF Claim
  <2>2. j \in Job /\ job[j] \in JobRow
    BY DEF Eligible, TypeOK
  <2>3. ClaimedRow(job[j], w).stage = job[j].stage /\ credit' = credit
    BY <1>6, <2>2, StageOfRows DEF Claim, creditVars
  <2> QED BY <2>1, <2>2, <2>3, ChargesKept
<1>7. ASSUME NEW w \in Worker,
             \/ HeartbeatScanJob(w)
             \/ \E p \in BOOLEAN : CheckpointScanJob(w, p)
             \/ FailForRepair(w)
             \/ \E defer \in BOOLEAN : FailForRetry(w, defer)
      PROVE  ChargesInv'
  <2>1. claimed[w] \in Job /\ job[claimed[w]] \in JobRow /\ credit' = credit
    BY <1>7 DEF HeartbeatScanJob, CheckpointScanJob, FailForRepair, FailForRetry, TypeOK,
                AimedAtJob, creditVars
  <2> DEFINE j == claimed[w]
  <2>2. CASE HeartbeatScanJob(w)
    <3>1. [job[j] EXCEPT !.leaseLive = TRUE].stage = job[j].stage
      BY <2>1 DEF JobRow
    <3>2. job' = [job EXCEPT ![j] = [job[j] EXCEPT !.leaseLive = TRUE]]
      BY <2>2 DEF HeartbeatScanJob
    <3> HIDE DEF j
    <3> QED BY <2>1, <3>1, <3>2, ChargesKept DEF j
  <2>3. ASSUME NEW p \in BOOLEAN, CheckpointScanJob(w, p) PROVE ChargesInv'
    <3>1. CheckpointedRow(job[j], p).stage = job[j].stage
      BY <2>1, StageOfRows
    <3> QED BY <2>1, <2>3, <3>1, ChargesKept DEF CheckpointScanJob
  <2>4. CASE FailForRepair(w)
    <3>1. ParkedRow(job[j]).stage = job[j].stage
      BY <2>1, StageOfRows
    <3> QED BY <2>1, <2>4, <3>1, ChargesKept DEF FailForRepair
  <2>5. ASSUME NEW defer \in BOOLEAN, FailForRetry(w, defer) PROVE ChargesInv'
    <3>1. BackedOffRow(job[j], defer).stage = job[j].stage
      BY <2>1, StageOfRows
    <3> QED BY <2>1, <2>5, <3>1, ChargesKept DEF FailForRetry
  <2> QED BY <1>7, <2>2, <2>3, <2>4, <2>5
<1>8. ASSUME NEW j \in Job, ResumeAfterRepair(j) \/ LeaseExpires(j) \/ BackoffElapses(j)
      PROVE  ChargesInv'
  <2>1. job[j] \in JobRow /\ credit' = credit
    BY <1>8 DEF ResumeAfterRepair, LeaseExpires, BackoffElapses, TypeOK, creditVars
  <2>2. /\ ResumedRow(job[j]).stage = job[j].stage
        /\ [job[j] EXCEPT !.leaseLive = FALSE].stage = job[j].stage
        /\ [job[j] EXCEPT !.retryDue = TRUE].stage = job[j].stage
    BY <2>1, StageOfRows DEF JobRow
  <2>3. PICK row \in {ResumedRow(job[j]), [job[j] EXCEPT !.leaseLive = FALSE],
                      [job[j] EXCEPT !.retryDue = TRUE]} :
          job' = [job EXCEPT ![j] = row]
    BY <1>8 DEF ResumeAfterRepair, LeaseExpires, BackoffElapses
  <2> QED BY <2>1, <2>2, <2>3, ChargesKept
<1>9. ASSUME job' = job, credit' = credit PROVE ChargesInv'
  BY <1>9 DEF ChargesInv, Charged
<1>10. ASSUME NEW w \in Worker, ClaimNothing(w) \/ Load(w) \/ Abandon(w) \/ Crash(w)
       PROVE  ChargesInv'
  BY <1>9, <1>10 DEF ClaimNothing, Load, Abandon, Crash, creditVars
<1>11. ASSUME NEW j \in Job, ExpirePaidOrderSla(j) \/ RecoverHistoricalPaidJob(j)
       PROVE  ChargesInv'
  <2>1. /\ job[j] \in JobRow /\ RowInv(job[j]) /\ Charged(j, job[j].stage, credit[j])
        /\ KeyOf[j] # None
    BY <1>11, OrderedAssumption DEF ExpirePaidOrderSla, RecoverHistoricalPaidJob, TypeOK,
                                    RowsInv, ChargesInv
  <2>2. CASE ExpirePaidOrderSla(j)
    <3>1. job[j].stage = "open"
      BY <2>1, <2>2 DEF ExpirePaidOrderSla, RowInv, JobRow, Stage, TerminalStage
    <3>2. credit[j] = "reserved"
      BY <2>1, <3>1 DEF Charged
    <3>3. job' = [job EXCEPT ![j] = ExpiredRow(job[j])] /\ credit' = [credit EXCEPT ![j] = "refunded"]
      BY <2>2, <3>2 DEF ExpirePaidOrderSla, TypeOK
    <3>4. job'[j].stage = "failed" /\ credit'[j] = "refunded"
      BY <2>1, <3>3, StageOfRows DEF TypeOK
    <3>5. ASSUME NEW i \in Job, i # j PROVE job'[i] = job[i] /\ credit'[i] = credit[i]
      BY <3>3, <3>5 DEF TypeOK
    <3> QED BY <2>1, <3>4, <3>5 DEF ChargesInv, Charged
  <2>3. CASE RecoverHistoricalPaidJob(j)
    <3>1. /\ job' = [job EXCEPT ![j] = RecoveredPaidRow(job[j])]
          /\ credit' = [credit EXCEPT ![j] = "reserved"]
      BY <2>3 DEF RecoverHistoricalPaidJob
    <3>2. job'[j].stage = "open" /\ credit'[j] = "reserved"
      BY <2>1, <3>1, StageOfRows DEF TypeOK
    <3>3. ASSUME NEW i \in Job, i # j PROVE job'[i] = job[i] /\ credit'[i] = credit[i]
      BY <3>1, <3>3 DEF TypeOK
    <3> QED BY <2>1, <3>2, <3>3 DEF ChargesInv, Charged
  <2> QED BY <1>11, <2>2, <2>3
<1>12. CASE UNCHANGED vars
  BY <1>9, <1>12 DEF vars
<1> QED
  BY <1>1, <1>2, <1>3, <1>4, <1>5, <1>6, <1>7, <1>8, <1>10, <1>11, <1>12
     DEF Next, WorkerStep, JobStep, Conclude

\* The credits a key has out are finitely many.
LEMMA HeldFinite == \A k \in Key : IsFiniteSet(Held(k)) /\ Cardinality(Held(k)) \in Nat
<1> SUFFICES ASSUME NEW k \in Key
             PROVE  IsFiniteSet(Held(k)) /\ Cardinality(Held(k)) \in Nat
  OBVIOUS
<1>1. IsFiniteSet(Held(k))
  BY JobsAssumption, FS_Subset DEF Held
<1> QED BY <1>1, FS_CardinalityType

\* Maintenance returns to a key no more credits than it takes from its jobs.
LEMMA ConservedByMaintenance ==
  ASSUME TypeOK, CreditBounded, NEW scope \in SUBSET Job, Maintenance(scope)
  PROVE  CreditBounded'
<1>1. ASSUME NEW k \in Key PROVE balance'[k] + Cardinality(Held(k)') <= Credits[k]
  <2>1. RefundedTo(k, scope) \subseteq Held(k)
    BY DEF RefundedTo, Held
  <2>2. Held(k)' = Held(k) \ RefundedTo(k, scope)
    BY DEF Maintenance, Held, RefundedTo, TypeOK
  <2>3. Held(k) \cap RefundedTo(k, scope) = RefundedTo(k, scope)
    BY <2>1
  <2>4. Cardinality(Held(k)') = Cardinality(Held(k)) - Cardinality(RefundedTo(k, scope))
    BY <2>2, <2>3, HeldFinite, FS_Difference
  <2>5. Cardinality(RefundedTo(k, scope)) \in Nat
    BY <2>1, HeldFinite, FS_Subset, FS_CardinalityType
  <2>6. balance'[k] = balance[k] + Returned(k, scope)
    BY DEF Maintenance
  <2>8. Returned(k, scope) \in Nat /\ Returned(k, scope) <= Cardinality(RefundedTo(k, scope))
    <3>1. CASE RefundedTo(k, scope) = {}
      BY <3>1, <2>5 DEF Returned
    <3>2. CASE RefundedTo(k, scope) # {}
      <4>1. IsFiniteSet(RefundedTo(k, scope))
        BY <2>1, HeldFinite, FS_Subset
      <4>2. Cardinality(RefundedTo(k, scope)) # 0
        BY <4>1, <3>2, FS_EmptySet
      <4> QED BY <4>2, <3>2, <2>5 DEF Returned
    <3> QED BY <3>1, <3>2
  <2>7. balance[k] \in Nat /\ balance[k] + Cardinality(Held(k)) <= Credits[k]
    BY DEF TypeOK, CreditBounded
  <2>9. Cardinality(Held(k)) \in Nat /\ Credits[k] \in Nat
    BY HeldFinite, MappingAssumption
  <2> QED BY <2>4, <2>5, <2>6, <2>7, <2>8, <2>9
<1> QED BY <1>1 DEF CreditBounded

\* A reservation takes one credit from its key and holds it.
LEMMA ConservedByReservation ==
  ASSUME TypeOK, CreditBounded, NEW j \in Job, ReserveCredit(j)
  PROVE  CreditBounded'
<1>1. ASSUME NEW k \in Key PROVE balance'[k] + Cardinality(Held(k)') <= Credits[k]
  <2>1. balance[k] \in Nat /\ balance[k] + Cardinality(Held(k)) <= Credits[k]
    BY DEF TypeOK, CreditBounded
  <2>2. CASE k = KeyOf[j]
    <3>1. Held(k)' = Held(k) \cup {j} /\ j \notin Held(k)
      BY <2>2 DEF ReserveCredit, Held, TypeOK
    <3>2. Cardinality(Held(k)') = Cardinality(Held(k)) + 1
      BY <3>1, HeldFinite, FS_AddElement
    <3>3. balance'[k] = balance[k] - 1
      BY <2>2 DEF ReserveCredit, TypeOK
    <3> QED BY <2>1, <3>2, <3>3, HeldFinite
  <2>3. CASE k # KeyOf[j]
    <3>1. Held(k)' = Held(k) /\ balance'[k] = balance[k]
      BY <2>3 DEF ReserveCredit, Held, TypeOK
    <3> QED BY <2>1, <3>1
  <2> QED BY <2>2, <2>3
<1> QED BY <1>1 DEF CreditBounded

\* An outcome keeps the credit for a complete report and returns it otherwise.
LEMMA ConservedByOutcome ==
  ASSUME TypeInv, PaidFor, CreditBounded, NEW w \in Worker, NEW outcome \in TerminalStage,
         TerminalizeScanJob(w, outcome)
  PROVE  CreditBounded'
<1> DEFINE j == claimed[w]
           target == TerminalCreditStatus(outcome)
<1>1. j \in Job /\ target \in {"settled", "refunded"}
  BY DEF TerminalizeScanJob, TypeInv, AimedAtJob, TerminalCreditStatus
<1>2. /\ credit' = [credit EXCEPT ![j] = IF @ = "reserved" THEN target ELSE @]
      /\ IF credit[j] = "reserved" /\ target = "refunded"
         THEN balance' = [balance EXCEPT ![KeyOf[j]] = @ + 1]
         ELSE UNCHANGED balance
  BY DEF TerminalizeScanJob
<1> HIDE DEF j, target
<1>3. ASSUME NEW k \in Key PROVE balance'[k] + Cardinality(Held(k)') <= Credits[k]
  <2>1. balance[k] \in Nat /\ balance[k] + Cardinality(Held(k)) <= Credits[k]
    BY DEF TypeInv, TypeOK, CreditBounded
  <2>2. CASE credit[j] = "reserved" /\ target = "refunded" /\ k = KeyOf[j]
    <3>1. Held(k)' = Held(k) \ {j} /\ j \in Held(k)
      BY <1>1, <1>2, <2>2 DEF Held, TypeInv, TypeOK
    <3>2. Cardinality(Held(k)') = Cardinality(Held(k)) - 1
      BY <3>1, HeldFinite, FS_RemoveElement
    <3>3. balance'[k] = balance[k] + 1
      BY <1>2, <2>2 DEF TypeInv, TypeOK
    <3> QED BY <2>1, <3>2, <3>3, HeldFinite
  <2>3. CASE ~(credit[j] = "reserved" /\ target = "refunded" /\ k = KeyOf[j])
    <3>1. Held(k)' = Held(k)
      BY <1>1, <1>2, <2>3 DEF Held, TypeInv, TypeOK
    <3>2. balance'[k] = balance[k]
      BY <1>1, <1>2, <2>3 DEF TypeInv, TypeOK
    <3> QED BY <2>1, <3>1, <3>2
  <2> QED BY <2>2, <2>3
<1> QED BY <1>3 DEF CreditBounded

\* The deadline of an order gives a reservation up and credits nobody.
LEMMA ConservedByDeadline ==
  ASSUME TypeOK, CreditBounded, NEW j \in Job, ExpirePaidOrderSla(j)
  PROVE  CreditBounded'
<1>1. ASSUME NEW k \in Key PROVE balance'[k] + Cardinality(Held(k)') <= Credits[k]
  <2>1. balance[k] \in Nat /\ balance[k] + Cardinality(Held(k)) <= Credits[k]
    BY DEF TypeOK, CreditBounded
  <2>2. Held(k)' \subseteq Held(k)
    BY DEF ExpirePaidOrderSla, Held, TypeOK
  <2>3. /\ Cardinality(Held(k)') \in Nat
        /\ Cardinality(Held(k)') <= Cardinality(Held(k))
    BY <2>2, HeldFinite, FS_Subset, FS_CardinalityType
  <2>4. balance'[k] = balance[k]
    BY DEF ExpirePaidOrderSla
  <2>5. Cardinality(Held(k)) \in Nat /\ Credits[k] \in Nat
    BY HeldFinite, MappingAssumption
  <2> QED BY <2>1, <2>3, <2>4, <2>5
<1> QED BY <1>1 DEF CreditBounded

\* The recovery of a paid job takes a credit from its key and holds it again.
LEMMA ConservedByRecovery ==
  ASSUME TypeOK, CreditBounded, NEW j \in Job, RecoverHistoricalPaidJob(j)
  PROVE  CreditBounded'
<1>1. ASSUME NEW k \in Key PROVE balance'[k] + Cardinality(Held(k)') <= Credits[k]
  <2>1. balance[k] \in Nat /\ balance[k] + Cardinality(Held(k)) <= Credits[k]
    BY DEF TypeOK, CreditBounded
  <2>2. CASE k = KeyOf[j]
    <3>1. Held(k)' = Held(k) \cup {j} /\ j \notin Held(k)
      BY <2>2 DEF RecoverHistoricalPaidJob, Held, TypeOK
    <3>2. Cardinality(Held(k)') = Cardinality(Held(k)) + 1
      BY <3>1, HeldFinite, FS_AddElement
    <3>3. balance'[k] = balance[k] - 1
      BY <2>2 DEF RecoverHistoricalPaidJob, Debited, TypeOK
    <3> QED BY <2>1, <3>2, <3>3, HeldFinite
  <2>3. CASE k # KeyOf[j]
    <3>1. Held(k)' = Held(k) /\ balance'[k] = balance[k]
      BY <2>3 DEF RecoverHistoricalPaidJob, Held, TypeOK
    <3> QED BY <2>1, <3>1
  <2> QED BY <2>2, <2>3
<1> QED BY <1>1 DEF CreditBounded

\* No step makes a credit.
LEMMA ConservedStep ==
  ASSUME TypeInv, PaidFor, CreditBounded, [Next]_vars
  PROVE  CreditBounded'
<1> USE DEF TypeInv
<1>1. ASSUME NEW j \in Job, ReserveCredit(j) PROVE CreditBounded'
  BY <1>1, ConservedByReservation
<1>2. ASSUME NEW w \in Worker, MaintainLane(w) PROVE CreditBounded'
  BY <1>2, ConservedByMaintenance DEF MaintainLane
<1>3. ASSUME NEW w \in Worker, NEW j \in Job, MaintainExact(w, j) PROVE CreditBounded'
  <2>1. Maintenance({j})
    BY <1>3 DEF MaintainExact
  <2> QED BY <2>1, ConservedByMaintenance
<1>4. ASSUME NEW w \in Worker, NEW outcome \in TerminalStage, TerminalizeScanJob(w, outcome)
      PROVE  CreditBounded'
  BY <1>4, ConservedByOutcome
<1>5. ASSUME UNCHANGED creditVars PROVE CreditBounded'
  BY <1>5 DEF creditVars, CreditBounded, Held
<1>6. ASSUME NEW w \in Worker,
             \/ Claim(w) \/ ClaimNothing(w) \/ Load(w) \/ HeartbeatScanJob(w)
             \/ \E p \in BOOLEAN : CheckpointScanJob(w, p)
             \/ FailForRepair(w) \/ Abandon(w) \/ Crash(w)
             \/ \E defer \in BOOLEAN : FailForRetry(w, defer)
      PROVE  CreditBounded'
  <2>1. UNCHANGED creditVars
    BY <1>6 DEF Claim, ClaimNothing, Load, HeartbeatScanJob, CheckpointScanJob, FailForRepair,
                Abandon, Crash, FailForRetry, creditVars
  <2> QED BY <2>1, <1>5
<1>7. ASSUME NEW j \in Job, \/ EnqueueScanJob(j) \/ ResumeAfterRepair(j)
                            \/ LeaseExpires(j) \/ BackoffElapses(j)
      PROVE  CreditBounded'
  BY <1>5, <1>7 DEF EnqueueScanJob, ResumeAfterRepair, LeaseExpires, BackoffElapses
<1>8. ASSUME NEW j \in Job, ExpirePaidOrderSla(j) \/ RecoverHistoricalPaidJob(j)
      PROVE  CreditBounded'
  BY <1>8, ConservedByDeadline, ConservedByRecovery
<1>9. CASE UNCHANGED vars
  BY <1>5, <1>9 DEF vars, creditVars
<1> QED
  BY <1>1, <1>2, <1>3, <1>4, <1>6, <1>7, <1>8, <1>9 DEF Next, WorkerStep, JobStep, Conclude

-----------------------------------------------------------------------------
(* The invariant.                                                           *)

\* An empty table with every credit at its key satisfies the invariant.
LEMMA InvariantInit == Init => IInv
<1> SUFFICES ASSUME Init PROVE IInv
  OBVIOUS
<1>1. TypeInv
  BY TypeInit
<1>2. RowsInv
  BY FirstRowInv DEF Init, RowsInv
<1>3. HolderIsFresh
  BY DEF Init, HolderIsFresh
<1>4. CreditFollowsOutcome /\ PaidFor
  BY DEF Init, AbsentRow, CreditFollowsOutcome, PaidFor
<1>5. CreditBounded
  <2>1. ASSUME NEW k \in Key PROVE balance[k] + Cardinality(Held(k)) <= Credits[k]
    <3>1. Held(k) = {}
      BY DEF Init, Held
    <3>2. Cardinality(Held(k)) = 0
      BY <3>1, FS_EmptySet
    <3>3. balance[k] = Credits[k] /\ Credits[k] \in Nat
      BY MappingAssumption DEF Init
    <3> QED BY <3>2, <3>3
  <2> QED BY <2>1 DEF CreditBounded
<1> QED BY <1>1, <1>2, <1>3, <1>4, <1>5 DEF IInv

\* Every step keeps it.
LEMMA InvariantStep == IInv /\ [Next]_vars => IInv'
<1> SUFFICES ASSUME IInv, [Next]_vars PROVE IInv'
  OBVIOUS
<1> USE DEF IInv
<1>1. TypeInv'
  BY TypeStep
<1>2. RowsInv'
  BY RowsStep
<1>3. HolderIsFresh'
  <2>1. \A w \in Worker : Fresh(w)'
    BY <1>1, FreshStep
  <2> QED BY <2>1 DEF HolderIsFresh, Fresh
<1>4. (CreditFollowsOutcome /\ PaidFor)'
  <2>1. ChargesInv
    BY ChargesInvEquiv
  <2>2. ChargesInv'
    BY <2>1, ChargesStep
  <2> QED BY <2>2 DEF ChargesInv, Charged, CreditFollowsOutcome, PaidFor
<1>5. CreditBounded'
  BY ConservedStep
<1> QED BY <1>1, <1>2, <1>3, <1>4, <1>5

\* The invariant holds throughout.
THEOREM Invariant == Spec => []IInv
<1>1. Init => IInv BY InvariantInit
<1>2. IInv /\ [Next]_vars => IInv' BY InvariantStep
<1> QED BY <1>1, <1>2, PTL DEF Spec

\* No job is leased unless it runs, nor runs without an owner: what failScanJob
\* and terminalizeScanJob rely on when they test the lease alone.
THEOREM LeaseSafe == Spec => []LeaseMeansRunning
<1>1. IInv => LeaseMeansRunning
  BY DEF IInv, RowsInv, RowInv, LeaseMeansRunning
<1> QED BY <1>1, Invariant, PTL

\* Stage, execution state and the ledger of transitions agree on a job, however
\* many workers, lapses, repairs and recoveries it saw: only a job never claimed
\* and one failed by exhaustion or by its deadline lack the event of their state.
THEOREM StagesAgree == Spec => []StageAgrees
<1>1. IInv => StageAgrees
  BY DEF IInv, RowsInv, RowInv, StageAgrees
<1> QED BY <1>1, Invariant, PTL

\* A job that waits to be retried has an attempt left.
THEOREM RetryBudget == Spec => []RetryKeepsBudget
<1>1. IInv => RetryKeepsBudget
  BY DEF IInv, RowsInv, RowInv, RetryKeepsBudget
<1> QED BY <1>1, Invariant, PTL

\* The execution that owns a job has its latest checkpoint revision, whatever
\* stale executions of the job are still running.
THEOREM HolderFresh == Spec => []HolderIsFresh
<1>1. IInv => HolderIsFresh
  BY DEF IInv
<1> QED BY <1>1, Invariant, PTL

\* A credit is reserved while its job is open, and decided as its job is.
THEOREM CreditOutcome == Spec => []CreditFollowsOutcome
<1>1. IInv => CreditFollowsOutcome
  BY DEF IInv
<1> QED BY <1>1, Invariant, PTL

\* The credits left on a key and held by its jobs are never more than it had.
THEOREM CreditNeverMade == Spec => []CreditBounded
<1>1. IInv => CreditBounded
  BY DEF IInv
<1> QED BY <1>1, Invariant, PTL

\* The three together: the columns of a row never contradict each other.
THEOREM RowsAlwaysAgree == Spec => []RowsAgree
BY LeaseSafe, StagesAgree, RetryBudget, PTL DEF RowsAgree

-----------------------------------------------------------------------------
(* What a step may never do: the guards of the statements alone do not      *)
(* exclude these steps, IInv does.                                          *)

\* The jobs that some statement can still write.
LEMMA SettledIsUntouched ==
  ASSUME IInv, NEW j \in Job, Settled(j)
  PROVE  /\ ~Recoverable(j) /\ ~Exhausted(j)
         /\ job[j].leaseOwner \notin Worker /\ ~job[j].leaseLive /\ job[j].retryDue
         /\ KeyOf[j] # None => credit[j] # "none"
<1>1. job[j] \in JobRow /\ RowInv(job[j])
  BY DEF IInv, TypeInv, TypeOK, RowsInv
<1>2. job[j].stage \in TerminalStage
  BY <1>1 DEF RowInv, Settled, TerminalStage
<1>3. job[j].leaseOwner \notin Worker /\ ~job[j].leaseLive /\ job[j].retryDue
  BY <1>1, NoneAssumption DEF RowInv, Settled, JobRow
<1>4. KeyOf[j] # None => credit[j] # "none"
  BY <1>2 DEF IInv, CreditFollowsOutcome, TerminalStage
<1> QED BY <1>3, <1>4 DEF Recoverable, Exhausted, Settled

\* A statement that writes one job leaves the others alone.
LEMMA OthersKept ==
  ASSUME TypeOK, NEW i \in Job, NEW row, job' = [job EXCEPT ![i] = row],
         NEW j \in Job, j # i
  PROVE  job'[j] = job[j]
BY DEF TypeOK

\* A failed paid job is taken back to the queue with its credit and a debit.
ReopenedRightly(j) ==
  /\ j \in Ordered
  /\ job[j].executionState = "failed" /\ job'[j].executionState = "queued"
  /\ credit[j] = "refunded" /\ credit'[j] = "reserved"
  /\ balance'[KeyOf[j]] = balance[KeyOf[j]] - 1

\* A job that is over, and its credit, are written by the recovery of a paid order
\* alone: not by a worker that still works on it, by maintenance, by a deadline, by
\* a resume or by a reservation.
THEOREM TerminalFinal == Spec => TerminalIsFinal
<1> DEFINE Same(j) == (job'[j] = job[j] /\ credit'[j] = credit[j]) \/ ReopenedRightly(j)
<1>1. ASSUME IInv, [Next]_vars, NEW j \in Job, Settled(j) PROVE Same(j)
  <2> USE DEF IInv, TypeInv
  <2>0. /\ ~Recoverable(j) /\ ~Exhausted(j)
        /\ job[j].leaseOwner \notin Worker /\ ~job[j].leaseLive /\ job[j].retryDue
        /\ KeyOf[j] # None => credit[j] # "none"
        /\ job[j].executionState \in {"completed", "failed"}
    BY <1>1, SettledIsUntouched DEF Settled
  <2>1. ASSUME NEW i \in Job, ReserveCredit(i) PROVE Same(j)
    BY <2>0, <2>1, <1>1 DEF ReserveCredit, TypeOK
  <2>2. ASSUME NEW i \in Job, EnqueueScanJob(i) PROVE Same(j)
    BY <2>0, <2>2, <1>1, OthersKept DEF EnqueueScanJob, creditVars
  <2>3. ASSUME NEW scope \in SUBSET Job, Maintenance(scope) PROVE Same(j)
    BY <2>0, <2>3 DEF Maintenance
  <2>4. ASSUME NEW w \in Worker, MaintainLane(w) PROVE Same(j)
    BY <2>3, <2>4 DEF MaintainLane
  <2>5. ASSUME NEW w \in Worker, NEW i \in Job, MaintainExact(w, i) PROVE Same(j)
    <3>1. Maintenance({i})
      BY <2>5 DEF MaintainExact
    <3> QED BY <2>3, <3>1
  <2>6. ASSUME NEW w \in Worker, Claim(w) PROVE Same(j)
    <3>1. PICK i \in Eligible(w) : job' = [job EXCEPT ![i] = ClaimedRow(job[i], w)]
      BY <2>6 DEF Claim
    <3>2. i \in Job /\ i # j
      BY <2>0 DEF Eligible
    <3> QED BY <1>1, <2>6, <3>1, <3>2, OthersKept DEF Claim, creditVars
  <2>7. ASSUME NEW w \in Worker, pc[w] = "working",
               job[claimed[w]].leaseOwner = w \/ job[claimed[w]].leaseLive
        PROVE  claimed[w] \in Job /\ claimed[w] # j
    BY <1>1, <2>0, <2>7 DEF AimedAtJob
  <2>8. ASSUME NEW w \in Worker, HeartbeatScanJob(w) PROVE Same(j)
    BY <1>1, <2>7, <2>8 DEF HeartbeatScanJob, creditVars, TypeOK
  <2>9. ASSUME NEW w \in Worker, NEW p \in BOOLEAN, CheckpointScanJob(w, p) PROVE Same(j)
    BY <1>1, <2>7, <2>9 DEF CheckpointScanJob, Holds, creditVars, TypeOK
  <2>10. ASSUME NEW w \in Worker, NEW outcome \in TerminalStage,
                TerminalizeScanJob(w, outcome)
         PROVE  Same(j)
    BY <1>1, <2>7, <2>10 DEF TerminalizeScanJob, Holds, TypeOK
  <2>11. ASSUME NEW w \in Worker, FailForRepair(w) PROVE Same(j)
    BY <1>1, <2>7, <2>11 DEF FailForRepair, Holds, creditVars, TypeOK
  <2>12. ASSUME NEW w \in Worker, NEW defer \in BOOLEAN, FailForRetry(w, defer) PROVE Same(j)
    BY <1>1, <2>7, <2>12 DEF FailForRetry, Holds, creditVars, TypeOK
  <2>13. ASSUME NEW w \in Worker, ClaimNothing(w) \/ Load(w) \/ Abandon(w) \/ Crash(w)
         PROVE  Same(j)
    BY <2>13 DEF ClaimNothing, Load, Abandon, Crash, creditVars
  <2>14. ASSUME NEW i \in Job, ResumeAfterRepair(i) PROVE Same(j)
    BY <1>1, <2>0, <2>14, OthersKept DEF ResumeAfterRepair, creditVars
  <2>15. ASSUME NEW i \in Job, LeaseExpires(i) \/ BackoffElapses(i) PROVE Same(j)
    BY <1>1, <2>0, <2>15, OthersKept DEF LeaseExpires, BackoffElapses, creditVars
  <2>16. ASSUME NEW i \in Job, ExpirePaidOrderSla(i) PROVE Same(j)
    <3>1. i # j
      BY <2>0, <2>16 DEF ExpirePaidOrderSla
    <3> QED BY <1>1, <2>16, <3>1, OthersKept DEF ExpirePaidOrderSla, TypeOK
  <2>17. ASSUME NEW i \in Job, RecoverHistoricalPaidJob(i) PROVE Same(j)
    <3>1. CASE i # j
      BY <1>1, <2>17, <3>1, OthersKept DEF RecoverHistoricalPaidJob, TypeOK
    <3>2. CASE i = j
      <4>1. /\ j \in Ordered /\ job[j].executionState = "failed" /\ credit[j] = "refunded"
            /\ job' = [job EXCEPT ![j] = RecoveredPaidRow(job[j])]
            /\ credit' = [credit EXCEPT ![j] = "reserved"]
        BY <2>17, <3>2 DEF RecoverHistoricalPaidJob
      <4>2. job'[j].executionState = "queued"
        BY <1>1, <4>1 DEF RecoveredPaidRow, TypeOK, JobRow
      <4>3. credit'[j] = "reserved"
        BY <1>1, <4>1 DEF TypeOK
      <4>4. KeyOf[j] \in Key
        BY <4>1, MappingAssumption, OrderedAssumption
      <4>5. balance'[KeyOf[j]] = balance[KeyOf[j]] - 1
        BY <1>1, <2>17, <3>2, <4>4 DEF RecoverHistoricalPaidJob, Debited, TypeOK
      <4> QED BY <4>1, <4>2, <4>3, <4>5 DEF ReopenedRightly
    <3> QED BY <3>1, <3>2
  <2>18. CASE UNCHANGED vars
    BY <2>18 DEF vars
  <2> QED
    BY <1>1, <2>1, <2>2, <2>4, <2>5, <2>6, <2>8, <2>9, <2>10, <2>11, <2>12, <2>13, <2>14,
       <2>15, <2>16, <2>17, <2>18 DEF Next, WorkerStep, JobStep, Conclude
<1>2. IInv /\ [Next]_vars
        => [\A j \in Job :
              Settled(j) /\ (job'[j] # job[j] \/ credit'[j] # credit[j])
                => /\ j \in Ordered
                   /\ job[j].executionState = "failed" /\ job'[j].executionState = "queued"
                   /\ credit[j] = "refunded" /\ credit'[j] = "reserved"
                   /\ balance'[KeyOf[j]] = balance[KeyOf[j]] - 1]_vars
  BY <1>1 DEF ReopenedRightly
<1> QED BY <1>2, Invariant, PTL DEF Spec, TerminalIsFinal

-----------------------------------------------------------------------------
\* What each statement does to the attempts and the revision of its row.
LEMMA AttemptsOfRows ==
  ASSUME NEW row \in JobRow
  PROVE  /\ RecoveredRow(row).phaseAttempt = row.phaseAttempt
         /\ ExhaustedRow(row).phaseAttempt = row.phaseAttempt
         /\ ParkedRow(row).phaseAttempt = row.phaseAttempt
         /\ ResumedRow(row).phaseAttempt = row.phaseAttempt
         /\ ExpiredRow(row).phaseAttempt = row.phaseAttempt
         /\ \A outcome \in TerminalStage : TerminalRow(row, outcome).phaseAttempt = row.phaseAttempt
         /\ \A w \in Worker : ClaimedRow(row, w).phaseAttempt = row.phaseAttempt + 1
         /\ \A p \in BOOLEAN : CheckpointedRow(row, p).revision = row.revision + 1
         /\ BackedOffRow(row, FALSE).phaseAttempt = row.phaseAttempt
         /\ BackedOffRow(row, TRUE).executionState = "retry_wait"
         /\ BackedOffRow(row, TRUE).phaseAttempt \in {row.phaseAttempt, row.phaseAttempt - 1}
BY DEF JobRow, Released, RecoveredRow, ExhaustedRow, ParkedRow, TerminalRow, BackedOffRow,
       ClaimedRow, CheckpointedRow, ResumedRow, ExpiredRow, PhaseAttemptAfterFailure

\* The budget of row new, written over row old of job j, was given back rightly.
Earned(j, old, new) ==
  new.phaseAttempt < old.phaseAttempt
    => \/ new.revision = old.revision + 1
       \/ /\ old.executionState = "running" /\ new.executionState = "retry_wait"
          /\ new.phaseAttempt = old.phaseAttempt - 1
       \/ /\ old.executionState = "failed" /\ new.executionState = "queued"
          /\ j \in Ordered

\* A row whose attempts do not sink needs no earning.
LEMMA EarnedByGrowth ==
  ASSUME NEW j, NEW old, NEW new, old.phaseAttempt \in Int,
         new.phaseAttempt \in {old.phaseAttempt, old.phaseAttempt + 1}
  PROVE  Earned(j, old, new)
BY DEF Earned

\* A running row that gives one attempt back as it is deferred has earned it.
LEMMA EarnedByDeferral ==
  ASSUME NEW j, NEW old, NEW new, old.phaseAttempt \in Int,
         old.executionState = "running", new.executionState = "retry_wait",
         new.phaseAttempt \in {old.phaseAttempt, old.phaseAttempt - 1}
  PROVE  Earned(j, old, new)
BY DEF Earned

\* A write of one row.
LEMMA EarnedByOne ==
  ASSUME TypeOK, NEW i \in Job, NEW row, job' = [job EXCEPT ![i] = row],
         Earned(i, job[i], row), NEW j \in Job
  PROVE  Earned(j, job[j], job'[j])
<1>1. CASE j = i
  BY <1>1 DEF TypeOK
<1>2. CASE j # i
  <2>1. job'[j] = job[j] /\ job[j].phaseAttempt \in Int
    BY <1>2, BoundAssumption DEF TypeOK, JobRow
  <2> QED BY <2>1 DEF Earned
<1> QED BY <1>1, <1>2

\* The attempts of a job are given back by a committed checkpoint, one at a time by a
\* deferred failure, or by the recovery of its failed paid order: no crash, lapse,
\* repair or resume resets them.
THEOREM BudgetGrows == Spec => BudgetOnlyGrows
<1>1. ASSUME IInv, [Next]_vars, NEW j \in Job PROVE Earned(j, job[j], job'[j])
  <2> USE DEF IInv, TypeInv
  <2>0. \A i \in Job : /\ job[i] \in JobRow /\ RowInv(job[i])
                       /\ job[i].phaseAttempt \in Int
    BY <1>1, BoundAssumption DEF TypeOK, RowsInv, JobRow
  <2>1. ASSUME NEW i \in Job, EnqueueScanJob(i) PROVE Earned(j, job[j], job'[j])
    <3>1. job[i].phaseAttempt = 0 /\ EnqueuedRow.phaseAttempt = 0
      BY <2>0, <2>1 DEF EnqueueScanJob, EnqueuedRow, AbsentRow, RowInv
    <3>2. Earned(i, job[i], EnqueuedRow)
      BY <3>1 DEF Earned
    <3> QED BY <1>1, <2>1, <3>2, EarnedByOne DEF EnqueueScanJob
  <2>2. ASSUME NEW scope \in SUBSET Job, Maintenance(scope) PROVE Earned(j, job[j], job'[j])
    <3>1. job'[j].phaseAttempt = job[j].phaseAttempt
      <4>1. /\ RecoveredRow(job[j]).phaseAttempt = job[j].phaseAttempt
            /\ ExhaustedRow(job[j]).phaseAttempt = job[j].phaseAttempt
        BY <2>0, AttemptsOfRows
      <4> QED BY <2>2, <4>1 DEF Maintenance
    <3> QED BY <2>0, <3>1, BoundAssumption DEF Earned
  <2>3. ASSUME NEW w \in Worker, MaintainLane(w) PROVE Earned(j, job[j], job'[j])
    BY <2>2, <2>3 DEF MaintainLane
  <2>4. ASSUME NEW w \in Worker, NEW i \in Job, MaintainExact(w, i)
        PROVE  Earned(j, job[j], job'[j])
    <3>1. Maintenance({i})
      BY <2>4 DEF MaintainExact
    <3> QED BY <2>2, <3>1
  <2>5. ASSUME NEW w \in Worker, Claim(w) PROVE Earned(j, job[j], job'[j])
    <3>1. PICK i \in Eligible(w) : job' = [job EXCEPT ![i] = ClaimedRow(job[i], w)]
      BY <2>5 DEF Claim
    <3>2. i \in Job
      BY DEF Eligible
    <3>3. Earned(i, job[i], ClaimedRow(job[i], w))
      <4>1. ClaimedRow(job[i], w).phaseAttempt = job[i].phaseAttempt + 1
        BY <2>0, <3>2, AttemptsOfRows
      <4> QED BY <2>0, <3>2, <4>1, EarnedByGrowth
    <3> QED BY <1>1, <3>1, <3>2, <3>3, EarnedByOne
  <2>6. \A w \in Worker : pc[w] = "working" => claimed[w] \in Job
    BY <1>1 DEF AimedAtJob
  <2>7. ASSUME NEW w \in Worker, HeartbeatScanJob(w) PROVE Earned(j, job[j], job'[j])
    <3> DEFINE i == claimed[w]
    <3>1. i \in Job /\ job' = [job EXCEPT ![i] = [job[i] EXCEPT !.leaseLive = TRUE]]
      BY <2>6, <2>7 DEF HeartbeatScanJob
    <3> HIDE DEF i
    <3>2. Earned(i, job[i], [job[i] EXCEPT !.leaseLive = TRUE])
      BY <2>0, <3>1, BoundAssumption DEF Earned, JobRow
    <3> QED BY <1>1, <3>1, <3>2, EarnedByOne
  <2>8. ASSUME NEW w \in Worker, NEW p \in BOOLEAN, CheckpointScanJob(w, p)
        PROVE  Earned(j, job[j], job'[j])
    <3> DEFINE i == claimed[w]
    <3>1. i \in Job /\ job' = [job EXCEPT ![i] = CheckpointedRow(job[i], p)]
      BY <2>6, <2>8 DEF CheckpointScanJob
    <3> HIDE DEF i
    <3>2. Earned(i, job[i], CheckpointedRow(job[i], p))
      BY <2>0, <3>1, AttemptsOfRows DEF Earned
    <3> QED BY <1>1, <3>1, <3>2, EarnedByOne
  <2>9. ASSUME NEW w \in Worker, NEW outcome \in TerminalStage, TerminalizeScanJob(w, outcome)
        PROVE  Earned(j, job[j], job'[j])
    <3> DEFINE i == claimed[w]
    <3>1. i \in Job /\ job' = [job EXCEPT ![i] = TerminalRow(job[i], outcome)]
      BY <2>6, <2>9 DEF TerminalizeScanJob
    <3> HIDE DEF i
    <3>2. Earned(i, job[i], TerminalRow(job[i], outcome))
      <4>1. TerminalRow(job[i], outcome).phaseAttempt = job[i].phaseAttempt
        BY <2>0, <3>1, AttemptsOfRows
      <4> QED BY <2>0, <3>1, <4>1, EarnedByGrowth
    <3> QED BY <1>1, <3>1, <3>2, EarnedByOne
  <2>10. ASSUME NEW w \in Worker, FailForRepair(w) PROVE Earned(j, job[j], job'[j])
    <3> DEFINE i == claimed[w]
    <3>1. i \in Job /\ job' = [job EXCEPT ![i] = ParkedRow(job[i])]
      BY <2>6, <2>10 DEF FailForRepair
    <3> HIDE DEF i
    <3>2. Earned(i, job[i], ParkedRow(job[i]))
      <4>1. ParkedRow(job[i]).phaseAttempt = job[i].phaseAttempt
        BY <2>0, <3>1, AttemptsOfRows
      <4> QED BY <2>0, <3>1, <4>1, EarnedByGrowth
    <3> QED BY <1>1, <3>1, <3>2, EarnedByOne
  <2>11. ASSUME NEW w \in Worker, NEW defer \in BOOLEAN, FailForRetry(w, defer)
         PROVE  Earned(j, job[j], job'[j])
    <3> DEFINE i == claimed[w]
    <3>1. i \in Job /\ job' = [job EXCEPT ![i] = BackedOffRow(job[i], defer)]
      BY <2>6, <2>11 DEF FailForRetry
    <3> HIDE DEF i
    <3>2. CASE defer
      <4>1. Earned(i, job[i], BackedOffRow(job[i], TRUE))
        <5>1. job[i] \in JobRow /\ job[i].phaseAttempt \in Int
          BY <2>0, <3>1
        <5>2. /\ BackedOffRow(job[i], TRUE).executionState = "retry_wait"
              /\ BackedOffRow(job[i], TRUE).phaseAttempt
                   \in {job[i].phaseAttempt, job[i].phaseAttempt - 1}
          BY <5>1, AttemptsOfRows
        <5>3. job[i].executionState = "running"
          BY <1>1, <2>11, <3>1, HolderRuns DEF FailForRetry, Holds, i
        <5> QED BY <5>1, <5>2, <5>3, EarnedByDeferral
      <4>2. defer = TRUE
        BY <3>2
      <4> QED BY <1>1, <3>1, <4>1, <4>2, EarnedByOne
    <3>3. CASE ~defer
      <4>1. Earned(i, job[i], BackedOffRow(job[i], FALSE))
        <5>1. BackedOffRow(job[i], FALSE).phaseAttempt = job[i].phaseAttempt
          BY <2>0, <3>1, AttemptsOfRows
        <5> QED BY <2>0, <3>1, <5>1, EarnedByGrowth
      <4>2. defer = FALSE
        BY <3>3
      <4> QED BY <1>1, <3>1, <4>1, <4>2, EarnedByOne
    <3> QED BY <3>2, <3>3
  <2>12. ASSUME NEW i \in Job, ResumeAfterRepair(i) \/ LeaseExpires(i) \/ BackoffElapses(i)
         PROVE  Earned(j, job[j], job'[j])
    <3>1. PICK row : row.phaseAttempt = job[i].phaseAttempt /\ job' = [job EXCEPT ![i] = row]
      <4>1. CASE ResumeAfterRepair(i)
        BY <2>0, <4>1, AttemptsOfRows DEF ResumeAfterRepair
      <4>2. CASE LeaseExpires(i)
        BY <2>0, <4>2 DEF LeaseExpires, JobRow
      <4>3. CASE BackoffElapses(i)
        BY <2>0, <4>3 DEF BackoffElapses, JobRow
      <4> QED BY <2>12, <4>1, <4>2, <4>3
    <3>2. Earned(i, job[i], row)
      BY <2>0, <3>1, EarnedByGrowth
    <3> QED BY <1>1, <3>1, <3>2, EarnedByOne
  <2>13. ASSUME job' = job PROVE Earned(j, job[j], job'[j])
    BY <2>0, <2>13, BoundAssumption DEF Earned
  <2>14. ASSUME NEW w \in Worker, ClaimNothing(w) \/ Load(w) \/ Abandon(w) \/ Crash(w)
         PROVE  Earned(j, job[j], job'[j])
    BY <2>13, <2>14 DEF ClaimNothing, Load, Abandon, Crash
  <2>15. ASSUME NEW i \in Job, ReserveCredit(i) PROVE Earned(j, job[j], job'[j])
    BY <2>13, <2>15 DEF ReserveCredit
  <2>16. ASSUME NEW i \in Job, ExpirePaidOrderSla(i) PROVE Earned(j, job[j], job'[j])
    <3>1. ExpiredRow(job[i]).phaseAttempt = job[i].phaseAttempt
      BY <2>0, AttemptsOfRows
    <3>2. Earned(i, job[i], ExpiredRow(job[i]))
      BY <2>0, <3>1, EarnedByGrowth
    <3> QED BY <1>1, <2>16, <3>2, EarnedByOne DEF ExpirePaidOrderSla
  <2>17. ASSUME NEW i \in Job, RecoverHistoricalPaidJob(i) PROVE Earned(j, job[j], job'[j])
    <3>1. Earned(i, job[i], RecoveredPaidRow(job[i]))
      BY <2>0, <2>17 DEF RecoverHistoricalPaidJob, RecoveredPaidRow, Earned, JobRow
    <3> QED BY <1>1, <2>17, <3>1, EarnedByOne DEF RecoverHistoricalPaidJob
  <2>18. CASE UNCHANGED vars
    BY <2>13, <2>18 DEF vars
  <2> QED
    BY <1>1, <2>1, <2>3, <2>4, <2>5, <2>7, <2>8, <2>9, <2>10, <2>11, <2>12, <2>14, <2>15,
       <2>16, <2>17, <2>18 DEF Next, WorkerStep, JobStep, Conclude
<1>2. IInv /\ [Next]_vars
        => [\A j \in Job : job'[j].phaseAttempt < job[j].phaseAttempt
              => \/ job'[j].revision = job[j].revision + 1
                 \/ /\ job[j].executionState = "running" /\ job'[j].executionState = "retry_wait"
                    /\ job'[j].phaseAttempt = job[j].phaseAttempt - 1
                 \/ /\ job[j].executionState = "failed" /\ job'[j].executionState = "queued"
                    /\ j \in Ordered]_vars
  BY <1>1 DEF Earned
<1> QED BY <1>2, Invariant, PTL DEF Spec, BudgetOnlyGrows

-----------------------------------------------------------------------------
\* The row a statement of worker v does not write: every statement but
\* maintenance, a lane claim and an operator's writes claimed[v] alone.
LEMMA OnlyClaimedIsWritten ==
  ASSUME TypeInv, NEW v \in Worker,
         HeartbeatScanJob(v) \/ (\E p \in BOOLEAN : CheckpointScanJob(v, p)) \/ Conclude(v)
  PROVE  \A j \in Job \ {claimed[v]} : job'[j] = job[j]
<1>1. CASE HeartbeatScanJob(v)
  BY <1>1 DEF HeartbeatScanJob, TypeInv, TypeOK
<1>2. ASSUME NEW p \in BOOLEAN, CheckpointScanJob(v, p)
      PROVE  \A j \in Job \ {claimed[v]} : job'[j] = job[j]
  BY <1>2 DEF CheckpointScanJob, TypeInv, TypeOK
<1>3. ASSUME NEW outcome \in TerminalStage, TerminalizeScanJob(v, outcome)
      PROVE  \A j \in Job \ {claimed[v]} : job'[j] = job[j]
  BY <1>3 DEF TerminalizeScanJob, TypeInv, TypeOK
<1>4. CASE FailForRepair(v)
  BY <1>4 DEF FailForRepair, TypeInv, TypeOK
<1>5. ASSUME NEW defer \in BOOLEAN, FailForRetry(v, defer)
      PROVE  \A j \in Job \ {claimed[v]} : job'[j] = job[j]
  BY <1>5 DEF FailForRetry, TypeInv, TypeOK
<1>6. CASE Abandon(v)
  BY <1>6 DEF Abandon
<1> QED BY <1>1, <1>2, <1>3, <1>4, <1>5, <1>6 DEF Conclude

\* Only worker w moves the program counter and the revision of w.
LEMMA OwnStep ==
  ASSUME TypeInv, [Next]_vars, NEW w \in Worker, <<pc[w], seen[w]>>' # <<pc[w], seen[w]>>
  PROVE  WorkerStep(w)
<1> USE DEF TypeInv, TypeOK
<1>1. ASSUME NEW v \in Worker, v # w PROVE ~WorkerStep(v)
  <2>1. WorkerStep(v) => pc'[w] = pc[w] /\ seen'[w] = seen[w]
    <3>1. Idle(v) => pc'[w] = pc[w] /\ seen'[w] = seen[w]
      BY <1>1 DEF Idle
    <3>2. Conclude(v) \/ Crash(v) => Idle(v)
      BY DEF Conclude, Crash, TerminalizeScanJob, FailForRepair, FailForRetry, Abandon
    <3>3. MaintainLane(v) \/ (\E j \in Job : MaintainExact(v, j))
            => pc'[w] = pc[w] /\ seen'[w] = seen[w]
      BY <1>1 DEF MaintainLane, MaintainExact
    <3>4. Claim(v) \/ ClaimNothing(v) \/ Load(v) => pc'[w] = pc[w] /\ seen'[w] = seen[w]
      BY <1>1 DEF Claim, ClaimNothing, Load
    <3>5. HeartbeatScanJob(v) \/ (\E p \in BOOLEAN : CheckpointScanJob(v, p))
            => pc'[w] = pc[w] /\ seen'[w] = seen[w]
      BY <1>1 DEF HeartbeatScanJob, CheckpointScanJob, workerVars
    <3> QED BY <3>1, <3>2, <3>3, <3>4, <3>5 DEF WorkerStep
  <2> QED BY <2>1
<1>2. ASSUME NEW j \in Job PROVE ~JobStep(j)
  BY DEF JobStep, ReserveCredit, EnqueueScanJob, ExpirePaidOrderSla,
         RecoverHistoricalPaidJob, ResumeAfterRepair, LeaseExpires, BackoffElapses, workerVars
<1>3. ~UNCHANGED vars
  BY DEF vars
<1> QED BY <1>1, <1>2, <1>3 DEF Next

\* The step with which an execution that lost its lease ends, or goes on,
\* writes neither its job nor the credit of it.
THEOREM LostLeaseIsHarmless == Spec => LostLeaseWritesNothing
<1>1. ASSUME TypeInv, [Next]_vars, NEW w \in Worker, pc[w] = "working",
             job[claimed[w]].leaseOwner # w \/ ~job[claimed[w]].leaseLive,
             <<pc[w], seen[w]>>' # <<pc[w], seen[w]>>
      PROVE  job'[claimed[w]] = job[claimed[w]] /\ credit'[claimed[w]] = credit[claimed[w]]
  <2>1. WorkerStep(w)
    BY <1>1, OwnStep
  <2>2. ~Holds(w, claimed[w])
    BY <1>1 DEF Holds
  <2>3. ~HeartbeatScanJob(w)
    BY <1>1 DEF HeartbeatScanJob, workerVars
  <2>4. Abandon(w) \/ Crash(w)
    BY <1>1, <2>1, <2>2, <2>3
       DEF WorkerStep, MaintainLane, MaintainExact, Claim, ClaimNothing, Load, Conclude,
           CheckpointScanJob, TerminalizeScanJob, FailForRepair, FailForRetry
  <2> QED BY <2>4 DEF Abandon, Crash, creditVars
<1>2. TypeInv /\ [Next]_vars
        => [\A w \in Worker :
              (/\ pc[w] = "working"
               /\ job[claimed[w]].leaseOwner # w \/ ~job[claimed[w]].leaseLive
               /\ <<pc[w], seen[w]>>' # <<pc[w], seen[w]>>)
                => job'[claimed[w]] = job[claimed[w]]
                     /\ credit'[claimed[w]] = credit[claimed[w]]]_vars
  BY <1>1
<1>3. IInv => TypeInv
  BY DEF IInv
<1> QED BY <1>2, <1>3, Invariant, PTL DEF Spec, LostLeaseWritesNothing

\* A process started for one job moves on without writing any other row:
\* maintenance and claim are both confined to the job it was started for.
THEOREM OneShotIsConfined == Spec => OneShotKeepsToItsJob
<1>1. ASSUME TypeInv, [Next]_vars, NEW w \in OneShot, pc'[w] # pc[w],
             NEW j \in Job \ {claimed[w], claimed'[w]}
      PROVE  job'[j] = job[j]
  <2>0. w \in Worker
    BY MappingAssumption
  <2>1. WorkerStep(w)
    BY <1>1, <2>0, OwnStep
  <2>2. ASSUME NEW i \in Job, MaintainExact(w, i) PROVE job'[j] = job[j]
    <3>1. claimed'[w] = i /\ Maintenance({i})
      BY <2>0, <2>2, <1>1 DEF MaintainExact, TypeInv, TypeOK
    <3> QED BY <1>1, <3>1 DEF Maintenance
  <2>3. CASE Claim(w)
    <3>1. PICK i \in Eligible(w) : /\ job' = [job EXCEPT ![i] = ClaimedRow(job[i], w)]
                                   /\ claimed' = [claimed EXCEPT ![w] = i]
      BY <2>3 DEF Claim
    <3>2. claimed'[w] = i /\ i \in Job
      BY <1>1, <2>0, <3>1 DEF Eligible, TypeInv, TypeOK
    <3> QED BY <1>1, <3>1, <3>2, OthersKept DEF TypeInv
  <2>4. CASE ClaimNothing(w) \/ Load(w) \/ Crash(w)
    BY <2>4 DEF ClaimNothing, Load, Crash
  <2>5. CASE HeartbeatScanJob(w) \/ (\E p \in BOOLEAN : CheckpointScanJob(w, p)) \/ Conclude(w)
    BY <1>1, <2>0, <2>5, OnlyClaimedIsWritten
  <2>6. ~MaintainLane(w)
    BY <1>1 DEF MaintainLane
  <2> QED BY <2>1, <2>2, <2>3, <2>4, <2>5, <2>6 DEF WorkerStep
<1>2. TypeInv /\ [Next]_vars
        => [\A w \in OneShot : pc'[w] # pc[w] =>
              \A j \in Job \ {claimed[w], claimed'[w]} : job'[j] = job[j]]_vars
  BY <1>1
<1>3. IInv => TypeInv
  BY DEF IInv
<1> QED BY <1>2, <1>3, Invariant, PTL DEF Spec, OneShotKeepsToItsJob
=============================================================================
