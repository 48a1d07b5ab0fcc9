------------------------------ MODULE ScanJobs ------------------------------
(***************************************************************************)
(* The scan-job ledger: rows of the table scan_jobs, the workers that      *)
(* lease them, and the credit each job has reserved.                       *)
(*                                                                         *)
(* PostgreSQL is the only authority.  Every operation of db/jobs.ts is one *)
(* transaction, or a short sequence of them, and a worker process keeps    *)
(* what it read between two transactions in its own memory: the job it     *)
(* claimed and the checkpoint revision it observed.  An action below is    *)
(* one transaction, or the passing of time.                                *)
(*                                                                         *)
(* The paid contracts end a job in a transaction of their own: to the row  *)
(* and its credit it does what TerminalizeScanJob does, under the same     *)
(* lease and with the same event (PaidOrders has the order beside it).     *)
(* The jobs that enhance a V4 report, which end without an event, are not  *)
(* among the rows here; ReportArtifacts has them.                          *)
(*                                                                         *)
(* Time is abstract.  A lease is live or not (lease_expires_at > now()),   *)
(* a back-off has elapsed or not (retry_not_before <= now()); the flags    *)
(* are turned by LeaseExpires and BackoffElapses.                          *)
(***************************************************************************)
EXTENDS Integers, FiniteSets

CONSTANTS
  Job,          \* scan_jobs rows, but enhancements; naturals: < is (created_at, id)
  Worker,       \* worker identities (a UUID for every worker loop)
  Key,          \* access keys
  None,         \* no worker, no job, no key
  TierOf,       \* [Job -> lane]: the column tier
  LaneOf,       \* [Worker -> lane]: the tier a worker loop drains
  OneShot,      \* the worker processes started for one exact job
  KeyOf,        \* [Job -> Key \cup {None}]: the key that pays for the job
  Ordered,      \* the jobs that fulfill a paid order, on a key of the order's own
  Credits,      \* [Key -> Nat]: credits a key was created with
  MaxAttempts,  \* max_attempts
  MaxRevision   \* bound: checkpoints one job may commit

ASSUME JobsAssumption == Job \subseteq Nat /\ IsFiniteSet(Job)
ASSUME NoneAssumption == None \notin (Job \cup Worker \cup Key)
ASSUME MappingAssumption == /\ KeyOf \in [Job -> Key \cup {None}]
                            /\ Credits \in [Key -> Nat]
                            /\ OneShot \subseteq Worker
ASSUME OrderedAssumption == Ordered \subseteq {j \in Job : KeyOf[j] # None}
ASSUME BoundAssumption == MaxAttempts \in Nat \ {0} /\ MaxRevision \in Nat

VARIABLES
  job,      \* [Job -> JobRow]: the table scan_jobs
  credit,   \* [Job -> CreditStatus]: the credit_ledger row of the job
  balance,  \* [Key -> Nat]: access_keys.credits_remaining
  pc,       \* [Worker -> WorkerState]: what a worker loop does next
  claimed,  \* [Worker -> Job \cup {None}]: the job it works on or aims at
  seen      \* [Worker -> Nat]: checkpoint revision its writer last observed

workerVars == <<pc, claimed, seen>>
creditVars == <<credit, balance>>
vars == <<job, credit, balance, pc, claimed, seen>>

TerminalStage == {"completed", "completed_limited", "failed"}
Stage == {"absent", "open"} \cup TerminalStage
ExecutionState == {"absent", "queued", "running", "retry_wait",
                   "repair_wait", "completed", "failed"}
CreditStatus == {"none", "reserved", "settled", "refunded"}
WorkerState == {"idle", "claiming", "loading", "working"}

JobRow == [stage : Stage,
           executionState : ExecutionState,
           leaseOwner : Worker \cup {None},
           leaseLive : BOOLEAN,
           retryDue : BOOLEAN,
           phaseAttempt : 0 .. MaxAttempts,
           revision : 0 .. MaxRevision,
           envelope : 0 .. MaxRevision,  \* checkpoint.recovery.revision, 0: none
           slaExpired : BOOLEAN,         \* error_code = 'sla_expired'
           ledger : ExecutionState]      \* to-state of the last transition event

AbsentRow == [stage |-> "absent", executionState |-> "absent",
              leaseOwner |-> None, leaseLive |-> FALSE, retryDue |-> TRUE,
              phaseAttempt |-> 0, revision |-> 0, envelope |-> 0,
              slaExpired |-> FALSE, ledger |-> "absent"]

Init == /\ job = [j \in Job |-> AbsentRow]
        /\ credit = [j \in Job |-> "none"]
        /\ balance = Credits
        /\ pc = [w \in Worker |-> "idle"]
        /\ claimed = [w \in Worker |-> None]
        /\ seen = [w \in Worker |-> 0]

-----------------------------------------------------------------------------
(* Admission: the reservation of a credit, then the job that carries it.   *)

\* Mutant of ReserveCredit: the reservation does not take the credit.
ReserveCreditUncharged(j) ==
  /\ KeyOf[j] # None
  /\ credit[j] = "none"
  /\ balance[KeyOf[j]] > 0
  /\ credit' = [credit EXCEPT ![j] = "reserved"]
  /\ UNCHANGED <<job, balance, workerVars>>

\* reserveCredit: the key must have a credit left.
ReserveCredit(j) ==
  /\ KeyOf[j] # None
  /\ credit[j] = "none"
  /\ balance[KeyOf[j]] > 0
  /\ credit' = [credit EXCEPT ![j] = "reserved"]
  /\ balance' = [balance EXCEPT ![KeyOf[j]] = @ - 1]
  /\ UNCHANGED <<job, workerVars>>

\* No transition event is written: the first is that of the first claim.
EnqueuedRow == [AbsentRow EXCEPT !.stage = "open", !.executionState = "queued"]

\* enqueueScanJob: rows are created in the order of their ids.
EnqueueScanJob(j) ==
  /\ job[j].executionState = "absent"
  /\ KeyOf[j] # None => credit[j] = "reserved"
  /\ \A i \in Job : i < j => job[i].executionState # "absent"
  /\ job' = [job EXCEPT ![j] = EnqueuedRow]
  /\ UNCHANGED <<creditVars, workerVars>>

-----------------------------------------------------------------------------
(* Claiming a job: a maintenance transaction, then the claim, then a read. *)

\* Mutant of Released: the lease survives the end of the run.
ReleasedKeepingLease(row) == row

Released(row) == [row EXCEPT !.leaseOwner = None, !.leaseLive = FALSE]

\* Mutants of Recoverable and Exhausted: no budget test, no lapsed lease, and no
\* test of the state.
RecoverableWithoutBudget(j) == job[j].executionState = "running" /\ ~job[j].leaseLive
RecoverableWhileLive(j) == /\ job[j].executionState = "running" /\ job[j].leaseLive
                           /\ job[j].phaseAttempt < MaxAttempts
ExhaustedInAnyState(j) == ~job[j].leaseLive /\ job[j].phaseAttempt >= MaxAttempts

\* A running job whose worker let the lease lapse.
Recoverable(j) == /\ job[j].executionState = "running"
                  /\ ~job[j].leaseLive
                  /\ job[j].phaseAttempt < MaxAttempts

\* A job without a live lease that has used up its phase-local attempts.
Exhausted(j) == /\ job[j].executionState \in {"running", "retry_wait"}
                /\ ~job[j].leaseLive
                /\ job[j].phaseAttempt >= MaxAttempts

RecoveredRow(row) ==
  [Released(row) EXCEPT !.executionState = "retry_wait", !.retryDue = TRUE,
                        !.ledger = "retry_wait"]

\* Mutant of ExhaustedRow: the stage is left as it was.
ExhaustedRowKeepingStage(row) ==
  [Released(row) EXCEPT !.executionState = "failed", !.retryDue = TRUE]

\* The exhausted job gets no transition event: its ledger entry stays.
ExhaustedRow(row) ==
  [Released(row) EXCEPT !.stage = "failed", !.executionState = "failed",
                        !.retryDue = TRUE]

\* The jobs of scope whose reservation the transaction hands back to key k.
RefundedTo(k, scope) == {j \in scope : Exhausted(j) /\ credit[j] = "reserved"
                                       /\ KeyOf[j] = k}

\* UPDATE access_keys ... FROM refunded changes the row of a key once, however
\* many refunded rows it joins.
Returned(k, scope) == IF RefundedTo(k, scope) = {} THEN 0 ELSE 1

Maintenance(scope) ==
  /\ job' = [j \in Job |->
               IF j \in scope /\ Recoverable(j) THEN RecoveredRow(job[j])
               ELSE IF j \in scope /\ Exhausted(j) THEN ExhaustedRow(job[j])
               ELSE job[j]]
  /\ credit' = [j \in Job |->
                  IF j \in scope /\ Exhausted(j) /\ credit[j] = "reserved"
                  THEN "refunded" ELSE credit[j]]
  /\ balance' = [k \in Key |-> balance[k] + Returned(k, scope)]

\* claimScanJob, first transaction: every lapsed job of every tier.
MaintainLane(w) ==
  /\ w \notin OneShot
  /\ pc[w] = "idle"
  /\ Maintenance(Job)
  /\ pc' = [pc EXCEPT ![w] = "claiming"]
  /\ UNCHANGED <<claimed, seen>>

\* Mutant of MaintainExact: maintenance of the whole table.
MaintainExactEverything(w, j) ==
  /\ w \in OneShot
  /\ pc[w] = "idle"
  /\ job[j].executionState # "absent"
  /\ TierOf[j] = LaneOf[w]
  /\ Maintenance(Job)
  /\ pc' = [pc EXCEPT ![w] = "claiming"]
  /\ claimed' = [claimed EXCEPT ![w] = j]
  /\ UNCHANGED seen

\* claimExactScanJob, first transaction: the target only.
MaintainExact(w, j) ==
  /\ w \in OneShot
  /\ pc[w] = "idle"
  /\ job[j].executionState # "absent"
  /\ TierOf[j] = LaneOf[w]
  /\ Maintenance({j})
  /\ pc' = [pc EXCEPT ![w] = "claiming"]
  /\ claimed' = [claimed EXCEPT ![w] = j]
  /\ UNCHANGED seen

\* The jobs the claim of worker w may select.
Eligible(w) == {j \in Job : /\ claimed[w] \in {None, j}
                            /\ TierOf[j] = LaneOf[w]
                            /\ job[j].executionState \in {"queued", "retry_wait"}
                            /\ job[j].phaseAttempt < MaxAttempts
                            /\ job[j].retryDue
                            /\ ~job[j].leaseLive}

ClaimedRow(row, w) ==
  [row EXCEPT !.executionState = "running", !.leaseOwner = w, !.leaseLive = TRUE,
              !.phaseAttempt = @ + 1, !.ledger = "running"]

\* JobTransitionService.claim and claimExact: the oldest eligible row.
Claim(w) ==
  /\ pc[w] = "claiming"
  /\ \E j \in Eligible(w) :
       /\ \A i \in Eligible(w) : j <= i
       /\ job' = [job EXCEPT ![j] = ClaimedRow(job[j], w)]
       /\ claimed' = [claimed EXCEPT ![w] = j]
  /\ pc' = [pc EXCEPT ![w] = "loading"]
  /\ UNCHANGED <<creditVars, seen>>

ClaimNothing(w) ==
  /\ pc[w] = "claiming"
  /\ Eligible(w) = {}
  /\ pc' = [pc EXCEPT ![w] = "idle"]
  /\ claimed' = [claimed EXCEPT ![w] = None]
  /\ UNCHANGED <<job, creditVars, seen>>

\* Mutant of Load: the writer keeps the revision it observed before.
LoadKeepingRevision(w) ==
  /\ pc[w] = "loading"
  /\ pc' = [pc EXCEPT ![w] = "working"]
  /\ UNCHANGED <<job, creditVars, claimed, seen>>

\* The row is read after the claim committed, by whoever holds it by then.
Load(w) ==
  /\ pc[w] = "loading"
  /\ pc' = [pc EXCEPT ![w] = "working"]
  /\ seen' = [seen EXCEPT ![w] = job[claimed[w]].revision]
  /\ UNCHANGED <<job, creditVars, claimed>>

-----------------------------------------------------------------------------
(* Working on a job.  Holds is the WHERE clause of every fenced write.      *)

\* Mutant of Holds: a live lease is enough, whoever owns it.
HoldsAnyLease(w, j) == job[j].leaseLive

Holds(w, j) == job[j].leaseOwner = w /\ job[j].leaseLive

Idle(w) == /\ pc' = [pc EXCEPT ![w] = "idle"]
           /\ claimed' = [claimed EXCEPT ![w] = None]
           /\ UNCHANGED seen

\* heartbeatScanJob checks the owner and the state, not that the lease is live.
HeartbeatScanJob(w) ==
  /\ pc[w] = "working"
  /\ LET j == claimed[w] IN
       /\ job[j].leaseOwner = w
       /\ job[j].executionState = "running"
       /\ job' = [job EXCEPT ![j] = [job[j] EXCEPT !.leaseLive = TRUE]]
  /\ UNCHANGED <<creditVars, workerVars>>

\* A checkpoint without a payload leaves the envelope behind the revision.
CheckpointedRow(row, withPayload) ==
  [row EXCEPT !.revision = @ + 1, !.phaseAttempt = 0, !.retryDue = TRUE,
              !.envelope = IF withPayload THEN row.revision + 1 ELSE @,
              !.ledger = "running"]

\* checkpointScanJob under the revision the writer expects, which is the one
\* it puts in the envelope.
CheckpointScanJob(w, withPayload) ==
  /\ pc[w] = "working"
  /\ LET j == claimed[w] IN
       /\ Holds(w, j)
       /\ job[j].executionState = "running"
       /\ job[j].revision = seen[w]
       /\ job[j].revision < MaxRevision
       /\ job' = [job EXCEPT ![j] = CheckpointedRow(job[j], withPayload)]
  /\ seen' = [seen EXCEPT ![w] = @ + 1]
  /\ UNCHANGED <<creditVars, pc, claimed>>

\* Mutant of TerminalCreditStatus: a limited report is charged like a full one.
TerminalCreditStatusOfAny(outcome) == IF outcome = "failed" THEN "refunded" ELSE "settled"

TerminalState(outcome) == IF outcome = "failed" THEN "failed" ELSE "completed"
TerminalCreditStatus(outcome) == IF outcome = "completed" THEN "settled"
                                                          ELSE "refunded"

TerminalRow(row, outcome) ==
  [Released(row) EXCEPT !.stage = outcome, !.executionState = TerminalState(outcome),
                        !.retryDue = TRUE, !.ledger = TerminalState(outcome)]

\* terminalizeScanJob: the product and the credit outcome commit together, and
\* a reservation that cannot take the outcome rolls the whole write back.
TerminalizeScanJob(w, outcome) ==
  /\ pc[w] = "working"
  /\ LET j == claimed[w]
         target == TerminalCreditStatus(outcome)
     IN
       /\ Holds(w, j)
       /\ job[j].stage \notin TerminalStage
       /\ job' = [job EXCEPT ![j] = TerminalRow(job[j], outcome)]
       /\ credit[j] \in {"none", "reserved", target}
       /\ credit' = [credit EXCEPT ![j] = IF @ = "reserved" THEN target ELSE @]
       /\ IF credit[j] = "reserved" /\ target = "refunded"
          THEN balance' = [balance EXCEPT ![KeyOf[j]] = @ + 1]
          ELSE UNCHANGED balance
  /\ Idle(w)

ParkedRow(row) ==
  [Released(row) EXCEPT !.executionState = "repair_wait", !.retryDue = TRUE,
                        !.ledger = "repair_wait"]

\* failScanJob, operator-repairable: the job parks without a lease.
FailForRepair(w) ==
  /\ pc[w] = "working"
  /\ Holds(w, claimed[w])
  /\ job' = [job EXCEPT ![claimed[w]] = ParkedRow(job[claimed[w]])]
  /\ Idle(w)
  /\ UNCHANGED creditVars

\* Mutant of PhaseAttemptAfterFailure: two attempts come back.
PhaseAttemptAfterFailureTwice(n, defer) == IF defer THEN n - 2 ELSE n

\* A deferred failure hands the attempt of this claim back.
PhaseAttemptAfterFailure(n, defer) == IF defer /\ n > 0 THEN n - 1 ELSE n

BackedOffRow(row, defer) ==
  [Released(row) EXCEPT !.executionState = "retry_wait", !.retryDue = FALSE,
                        !.phaseAttempt = PhaseAttemptAfterFailure(row.phaseAttempt, defer),
                        !.ledger = "retry_wait"]

\* failScanJob, retryable: only while an attempt is left.  Without one the
\* code goes on to terminalizeScanJob with "failed", in a second transaction.
FailForRetry(w, defer) ==
  /\ pc[w] = "working"
  /\ LET j == claimed[w] IN
       /\ Holds(w, j)
       /\ PhaseAttemptAfterFailure(job[j].phaseAttempt, defer) < MaxAttempts
       /\ job' = [job EXCEPT ![j] = BackedOffRow(job[j], defer)]
  /\ Idle(w)
  /\ UNCHANGED creditVars

\* A write of the execution was refused: the lease is gone, the loop goes on.
Abandon(w) ==
  /\ pc[w] = "working"
  /\ ~Holds(w, claimed[w])
  /\ Idle(w)
  /\ UNCHANGED <<job, creditVars>>

\* The process dies at any point (or its error path fails); a new loop starts.
Crash(w) ==
  /\ pc[w] # "idle"
  /\ Idle(w)
  /\ UNCHANGED <<job, creditVars>>

-----------------------------------------------------------------------------
(* The paid order of a job, the operator, and time.                         *)

\* The job whose order missed its deadline gets no transition event either.
ExpiredRow(row) ==
  [Released(row) EXCEPT !.stage = "failed", !.executionState = "failed",
                        !.retryDue = TRUE, !.slaExpired = TRUE]

\* expirePaidOrderSla: any job that is not over is failed under its worker, and
\* its reservation is given up without crediting the key.  When the deadline
\* passes is the matter of PaidOrders.
ExpirePaidOrderSla(j) ==
  /\ j \in Ordered
  /\ job[j].executionState \notin {"absent", "completed", "failed"}
  /\ job' = [job EXCEPT ![j] = ExpiredRow(job[j])]
  /\ credit' = [credit EXCEPT ![j] = IF @ = "reserved" THEN "refunded" ELSE @]
  /\ UNCHANGED <<balance, workerVars>>

RecoveredPaidRow(row) ==
  [row EXCEPT !.stage = "open", !.executionState = "queued", !.phaseAttempt = 0,
              !.retryDue = TRUE, !.ledger = "queued"]

\* Mutant of Debited: the key is not debited again.
DebitedNothing(credits) == credits

Debited(credits) == credits - 1

\* recoverHistoricalPaidJob, before the deadline of the order: the failed job goes
\* back to the queue with a new budget, at the phase of a checkpoint that describes
\* the row, and takes its credit again.  What it asks of the order, the refund and
\* the e-mail is the matter of PaidOrders.
RecoverHistoricalPaidJob(j) ==
  /\ j \in Ordered
  /\ job[j].executionState = "failed" /\ ~job[j].slaExpired
  /\ job[j].envelope > 0 /\ job[j].envelope = job[j].revision
  /\ credit[j] = "refunded" /\ balance[KeyOf[j]] > 0
  /\ job' = [job EXCEPT ![j] = RecoveredPaidRow(job[j])]
  /\ credit' = [credit EXCEPT ![j] = "reserved"]
  /\ balance' = [balance EXCEPT ![KeyOf[j]] = Debited(@)]
  /\ UNCHANGED workerVars

ResumedRow(row) ==
  [row EXCEPT !.executionState = "queued", !.retryDue = TRUE, !.ledger = "queued"]

\* resumeScanJobAfterRepair: the envelope must describe the row's revision.
\* The phase attempts of the job are kept.
ResumeAfterRepair(j) ==
  /\ job[j].executionState = "repair_wait"
  /\ job[j].envelope > 0
  /\ job[j].envelope = job[j].revision
  /\ job' = [job EXCEPT ![j] = ResumedRow(job[j])]
  /\ UNCHANGED <<creditVars, workerVars>>

LeaseExpires(j) ==
  /\ job[j].leaseLive
  /\ job' = [job EXCEPT ![j] = [job[j] EXCEPT !.leaseLive = FALSE]]
  /\ UNCHANGED <<creditVars, workerVars>>

BackoffElapses(j) ==
  /\ ~job[j].retryDue
  /\ job' = [job EXCEPT ![j] = [job[j] EXCEPT !.retryDue = TRUE]]
  /\ UNCHANGED <<creditVars, workerVars>>

-----------------------------------------------------------------------------
\* What ends an execution that is neither crashed nor stuck: the hard deadline
\* of JobExecutionLease aborts the work, and the abort is a failure like others.
Conclude(w) == \/ \E outcome \in TerminalStage : TerminalizeScanJob(w, outcome)
               \/ FailForRepair(w)
               \/ \E defer \in BOOLEAN : FailForRetry(w, defer)
               \/ Abandon(w)

WorkerStep(w) == \/ MaintainLane(w)
                 \/ \E j \in Job : MaintainExact(w, j)
                 \/ Claim(w) \/ ClaimNothing(w) \/ Load(w)
                 \/ HeartbeatScanJob(w)
                 \/ \E withPayload \in BOOLEAN : CheckpointScanJob(w, withPayload)
                 \/ Conclude(w)
                 \/ Crash(w)

JobStep(j) == \/ ReserveCredit(j) \/ EnqueueScanJob(j)
              \/ ExpirePaidOrderSla(j) \/ RecoverHistoricalPaidJob(j)
              \/ ResumeAfterRepair(j) \/ LeaseExpires(j) \/ BackoffElapses(j)

Next == \/ \E w \in Worker : WorkerStep(w)
        \/ \E j \in Job : JobStep(j)

Spec == Init /\ [][Next]_vars

\* A worker loop polls forever and does not die each time between maintenance
\* and claim; it reads the row it claimed, and its execution ends.  A lease
\* that is not renewed expires and a back-off elapses.
Fairness == /\ \A w \in Worker : /\ WF_vars(MaintainLane(w))
                                 /\ SF_vars(Claim(w) \/ ClaimNothing(w))
                                 /\ WF_vars(Load(w))
                                 /\ WF_vars(Conclude(w))
            /\ \A j \in Job : WF_vars(LeaseExpires(j)) /\ WF_vars(BackoffElapses(j))

FairSpec == Spec /\ Fairness

-----------------------------------------------------------------------------
(* Properties.                                                              *)

Settled(j) == job[j].executionState \in {"completed", "failed"}

TypeOK == /\ job \in [Job -> JobRow]
          /\ credit \in [Job -> CreditStatus]
          /\ balance \in [Key -> Nat]
          /\ pc \in [Worker -> WorkerState]
          /\ claimed \in [Worker -> Job \cup {None}]
          /\ seen \in [Worker -> 0 .. MaxRevision]

\* A lease belongs to a running job and every running job has an owner.  The
\* repair path of failScanJob relies on it: it checks the lease, not the state.
LeaseMeansRunning ==
  \A j \in Job : /\ (job[j].leaseOwner # None) <=> (job[j].executionState = "running")
                 /\ job[j].leaseLive => job[j].leaseOwner # None

\* Two live executions of one job never both pass the fence, and the one that
\* passes has the revision of the row: its compare-and-swap cannot fail.
HolderIsFresh ==
  \A w \in Worker : pc[w] = "working" /\ job[claimed[w]].leaseOwner = w
                      => seen[w] = job[claimed[w]].revision

\* The columns stage and execution_state and the last transition event, written
\* by different statements and tested by different guards, agree: the event names
\* the state of the row, except that a job never claimed has none, and that the
\* failures by exhaustion and by the deadline of the order write none.
StageAgrees ==
  \A j \in Job :
    /\ (job[j].stage = "failed") <=> (job[j].executionState = "failed")
    /\ (job[j].stage \in {"completed", "completed_limited"})
         <=> (job[j].executionState = "completed")
    /\ job[j].ledger # job[j].executionState
         => \/ /\ job[j].executionState = "queued" /\ job[j].ledger = "absent"
               /\ job[j].phaseAttempt = 0
            \/ /\ job[j].executionState = "failed" /\ job[j].ledger \in {"running", "retry_wait"}
               /\ job[j].phaseAttempt = MaxAttempts
            \/ job[j].executionState = "failed" /\ job[j].slaExpired

\* A job backing off always has an attempt left, through lapses, deferrals and
\* resumes: what the claim refuses is parked or over, never waiting to retry.
RetryKeepsBudget ==
  \A j \in Job : job[j].executionState = "retry_wait" => job[j].phaseAttempt < MaxAttempts

\* The columns of a row that different statements write and test never contradict
\* each other: lease and state, stage and state and event, state and attempts.
RowsAgree == LeaseMeansRunning /\ StageAgrees /\ RetryKeepsBudget

\* A credit stays reserved exactly as long as its job runs, is settled for a
\* complete report and refunded for a limited or failed one.
CreditFollowsOutcome ==
  \A j \in Job :
    KeyOf[j] # None =>
      /\ job[j].stage = "open" => credit[j] = "reserved"
      /\ job[j].stage = "completed" => credit[j] = "settled"
      /\ job[j].stage \in {"completed_limited", "failed"} => credit[j] = "refunded"

Held(k) == {j \in Job : KeyOf[j] = k /\ credit[j] \in {"reserved", "settled"}}

\* No interleaving of workers, lapses and maintenance makes a credit.
CreditBounded == \A k \in Key : balance[k] + Cardinality(Held(k)) <= Credits[k]

\* A job that is over is written again by the recovery of a paid order alone: it
\* takes a failed job back to the queue together with the credit that went back,
\* so no late worker, maintenance or deadline touches an outcome.
TerminalIsFinal ==
  [][\A j \in Job :
       Settled(j) /\ (job'[j] # job[j] \/ credit'[j] # credit[j])
         => /\ j \in Ordered
            /\ job[j].executionState = "failed" /\ job'[j].executionState = "queued"
            /\ credit[j] = "refunded" /\ credit'[j] = "reserved"
            /\ balance'[KeyOf[j]] = balance[KeyOf[j]] - 1]_vars

\* The step with which an execution that lost its lease ends, or goes on,
\* writes neither the job nor its credit.
LostLeaseWritesNothing ==
  [][\A w \in Worker :
       (/\ pc[w] = "working"
        /\ job[claimed[w]].leaseOwner # w \/ ~job[claimed[w]].leaseLive
        /\ <<pc[w], seen[w]>>' # <<pc[w], seen[w]>>)
         => job'[claimed[w]] = job[claimed[w]] /\ credit'[claimed[w]] = credit[claimed[w]]]_vars

\* Attempts are given back by a committed checkpoint, one by one by a deferred
\* failure, or all of them by the recovery of a failed paid job; no lapse, claim,
\* repair or resume resets the budget.
BudgetOnlyGrows ==
  [][\A j \in Job :
       job'[j].phaseAttempt < job[j].phaseAttempt
         => \/ job'[j].revision = job[j].revision + 1
            \/ /\ job[j].executionState = "running" /\ job'[j].executionState = "retry_wait"
               /\ job'[j].phaseAttempt = job[j].phaseAttempt - 1
            \/ /\ job[j].executionState = "failed" /\ job'[j].executionState = "queued"
               /\ j \in Ordered]_vars

\* jobs.ts:319: "Exact one-shot claims deliberately perform maintenance only for
\* their target": no row but the target changes when such a process moves on.
OneShotKeepsToItsJob ==
  [][\A w \in OneShot : pc'[w] # pc[w] =>
       \A j \in Job \ {claimed[w], claimed'[w]} : job'[j] = job[j]]_vars

Running(j) == job[j].executionState = "running"

\* In the queue with an attempt left: a job resumed after its last one is not.
Waiting(j) == /\ job[j].executionState \in {"queued", "retry_wait"}
              /\ job[j].phaseAttempt < MaxAttempts

\* No job is forgotten, whatever workers crash and leases lapse: no run lasts for
\* ever, and a job with an attempt left is run again unless it is over before, or
\* its lane is at an older job.  (That it ends is not promised: the code limits
\* neither deferrals nor the checkpoints that give attempts back.)
NoJobIsForgotten ==
  \A j \in Job :
    /\ Running(j) ~> ~Running(j)
    /\ Waiting(j) ~> \/ Running(j) \/ Settled(j)
                     \/ \E i \in Job : i < j /\ TierOf[i] = TierOf[j] /\ Running(i)

\* db/jobs.ts:282: exhaustion must "atomically return any still-reserved
\* commercial credit".  Refuted: of two jobs of one key that one maintenance
\* exhausts, one credit comes back.
CreditConserved == \A k \in Key : balance[k] + Cardinality(Held(k)) = Credits[k]
=============================================================================
