------------------------------ MODULE DeepLane ------------------------------
(***************************************************************************)
(* The deep jobs of one report as their producers and the queue see them:  *)
(* the rows of scan_jobs, the reservations of one access key that pay for  *)
(* them, and the realtime lanes that run them.                             *)
(*                                                                         *)
(* ScanJobs has the life of a job in full: the two transactions of a claim,*)
(* the checkpoints, the repair.  Here a claim is one step and a job has at *)
(* most one checkpoint, the one that takes its stage away from 'queued'.   *)
(* CreditUpgrade and DispatchOutbox extend this module.                    *)
(***************************************************************************)
EXTENDS Integers, FiniteSets

CONSTANTS
  Job,          \* scan_jobs rows; naturals, so that < is (created_at, id)
  Lane,         \* realtime workers of the deep lane
  Reservation,  \* credit_ledger rows, one for an idempotency key
  None,         \* no job, no lane, no reservation, no locale
  Credits,      \* credits_remaining of the access key at the start
  MaxAttempts   \* max_attempts

ASSUME LaneAssumption == /\ Job \subseteq Nat /\ IsFiniteSet(Job)
                         /\ None \notin (Job \cup Lane \cup Reservation)
                         /\ Credits \in Nat
                         /\ MaxAttempts \in Nat \ {0}

VARIABLES
  job,      \* [Job -> JobRow]: the table scan_jobs
  ledger,   \* [Reservation -> LedgerRow]: the table credit_ledger
  balance,  \* access_keys.credits_remaining
  lane      \* [Lane -> LaneState]: what a worker process does

creditVars == <<ledger, balance>>
laneVars == <<job, ledger, balance, lane>>

JobState == {"absent", "queued", "running", "retry_wait",
             "completed", "completed_limited", "failed"}

JobRow == [state : JobState,
           fresh : BOOLEAN,                  \* stage is still 'queued'
           leaseOwner : Lane \cup {None},
           leaseLive : BOOLEAN,
           retryDue : BOOLEAN,
           phaseAttempt : 0 .. MaxAttempts,
           pays : Reservation \cup {None}]   \* credit_reservation_id

LedgerRow == [status : {"none", "reserved", "settled", "refunded"},
              job : Job \cup {None}]

\* drain: claims until the table has no work; wait: claims when a hint comes.
LaneState == [mode : {"off", "drain", "wait"}, job : Job \cup {None}]

LaneTypeOK == /\ job \in [Job -> JobRow]
              /\ ledger \in [Reservation -> LedgerRow]
              /\ balance \in Nat
              /\ lane \in [Lane -> LaneState]

AbsentJob == [state |-> "absent", fresh |-> TRUE, leaseOwner |-> None,
              leaseLive |-> FALSE, retryDue |-> TRUE, phaseAttempt |-> 0,
              pays |-> None]

LaneInit == /\ job = [j \in Job |-> AbsentJob]
            /\ ledger = [k \in Reservation |-> [status |-> "none", job |-> None]]
            /\ balance = Credits
            /\ lane = [w \in Lane |-> [mode |-> "off", job |-> None]]

Over(j) == job[j].state \in {"completed", "completed_limited", "failed"}

\* A new row of scan_jobs; rows are created in the order of their ids.
NextJob(j) == job[j].state = "absent" /\ \A i \in Job : i < j => job[i].state # "absent"
QueuedJob(k) == [AbsentJob EXCEPT !.state = "queued", !.pays = k]

-----------------------------------------------------------------------------
(* A claim: maintenance of the table, then the oldest eligible job.         *)

Released(row) == [row EXCEPT !.leaseOwner = None, !.leaseLive = FALSE]

Lapsed(j) == job[j].state = "running" /\ ~job[j].leaseLive
Exhausted(j) == /\ job[j].state \in {"running", "retry_wait"}
                /\ ~job[j].leaseLive
                /\ job[j].phaseAttempt >= MaxAttempts

Maintained == [j \in Job |->
  IF Exhausted(j) THEN [Released(job[j]) EXCEPT !.state = "failed", !.fresh = FALSE]
  ELSE IF Lapsed(j) THEN [Released(job[j]) EXCEPT !.state = "retry_wait", !.retryDue = TRUE]
  ELSE job[j]]

\* Mutant of GivenBack: it asks for the job of the reservation.
GivenBackByLedger == {k \in Reservation : /\ ledger[k].status = "reserved"
                                          /\ \E j \in Job : Exhausted(j) /\ ledger[k].job = j}

\* Maintenance asks for the reservation of the job, not for the job of the
\* reservation.
GivenBack == {k \in Reservation : /\ ledger[k].status = "reserved"
                                  /\ \E j \in Job : Exhausted(j) /\ job[j].pays = k}

Claimable(j) == /\ Maintained[j].state \in {"queued", "retry_wait"}
                /\ job[j].retryDue \/ Lapsed(j)
                /\ job[j].phaseAttempt < MaxAttempts

Nothing == \A j \in Job : ~Claimable(j)

\* claimScanJob of worker w, who gets job j, or None when nothing is eligible.
\* One UPDATE ... FROM returns one credit however many reservations it joins.
ClaimScanJob(w, j) ==
  /\ IF j = None THEN Nothing
     ELSE Claimable(j) /\ \A i \in Job : Claimable(i) => j <= i
  /\ job' = [i \in Job |->
               IF i = j THEN [Maintained[i] EXCEPT !.state = "running", !.leaseOwner = w,
                                !.leaseLive = TRUE, !.phaseAttempt = @ + 1]
               ELSE Maintained[i]]
  /\ ledger' = [k \in Reservation |->
                  IF k \in GivenBack THEN [ledger[k] EXCEPT !.status = "refunded"]
                  ELSE ledger[k]]
  /\ balance' = balance + IF GivenBack = {} THEN 0 ELSE 1

-----------------------------------------------------------------------------
(* A worker process: it starts, drains the table, waits for hints, and runs *)
(* one job at a time.                                                       *)

LaneAt(w, mode, j) == lane' = [lane EXCEPT ![w] = [mode |-> mode, job |-> j]]

StartWorker(w) ==
  /\ lane[w].mode = "off"
  /\ LaneAt(w, "drain", None)
  /\ UNCHANGED <<job, creditVars>>

\* drainTierUntilEmpty: the startup recovery.
DrainClaim(w) ==
  /\ lane[w] = [mode |-> "drain", job |-> None]
  /\ \E j \in Job \cup {None} :
       /\ ClaimScanJob(w, j)
       /\ LaneAt(w, IF j = None THEN "wait" ELSE "drain", j)

Holds(w, j) == job[j].leaseOwner = w /\ job[j].leaseLive

Return(w) == LaneAt(w, lane[w].mode, None)

\* The first checkpoint: the stage leaves 'queued', the attempts start again.
Advance(w) ==
  /\ lane[w].job # None
  /\ LET j == lane[w].job IN
       /\ Holds(w, j)
       /\ job[j].fresh
       /\ job' = [job EXCEPT ![j] = [@ EXCEPT !.fresh = FALSE, !.phaseAttempt = 0]]
  /\ UNCHANGED <<creditVars, lane>>

\* Mutant of TerminalCreditStatus: a limited report is charged like a full one.
TerminalCreditStatusOfAny(outcome) == IF outcome = "failed" THEN "refunded" ELSE "settled"

TerminalCreditStatus(outcome) == IF outcome = "completed" THEN "settled" ELSE "refunded"

\* The reservation takes the outcome of job j, or the transaction rolls back.
SettleReservation(k, j, target) ==
  /\ ledger[k].job \in {None, j}
  /\ ledger[k].status \in {"reserved", target}
  /\ ledger' = [ledger EXCEPT ![k].status = target]
  /\ balance' = balance + IF ledger[k].status # target /\ target = "refunded"
                          THEN 1 ELSE 0

\* terminalizeScanJob under the lease; a job that ends well has made progress.
TerminalizeScanJob(w, outcome) ==
  /\ lane[w].job # None
  /\ LET j == lane[w].job IN
       /\ Holds(w, j)
       /\ outcome # "failed" => ~job[j].fresh
       /\ job' = [job EXCEPT ![j] =
                    [Released(@) EXCEPT !.state = outcome, !.fresh = FALSE, !.retryDue = TRUE]]
       /\ IF job[j].pays = None THEN UNCHANGED creditVars
          ELSE SettleReservation(job[j].pays, j, TerminalCreditStatus(outcome))
  /\ Return(w)

\* failScanJob, retryable, with an attempt left.
FailForRetry(w) ==
  /\ lane[w].job # None
  /\ LET j == lane[w].job IN
       /\ Holds(w, j)
       /\ job[j].phaseAttempt < MaxAttempts
       /\ job' = [job EXCEPT ![j] = [Released(@) EXCEPT !.state = "retry_wait",
                                                        !.retryDue = FALSE]]
  /\ Return(w)
  /\ UNCHANGED <<creditVars>>

\* An execution whose last write was refused, for the lease or for the
\* reservation, is over for the process; the row keeps its lease.
GiveUp(w) ==
  /\ lane[w].job # None
  /\ LET j == lane[w].job
         k == job[j].pays
     IN \/ ~Holds(w, j)
        \/ /\ k # None
           /\ ledger[k].status # "reserved" \/ ledger[k].job \notin {None, j}
  /\ Return(w)
  /\ UNCHANGED <<job, creditVars>>

Crash(w) ==
  /\ lane[w].mode # "off"
  /\ LaneAt(w, "off", None)
  /\ UNCHANGED <<job, creditVars>>

LeaseExpires(j) ==
  /\ job[j].leaseLive
  /\ job' = [job EXCEPT ![j].leaseLive = FALSE]
  /\ UNCHANGED <<creditVars, lane>>

BackoffElapses(j) ==
  /\ ~job[j].retryDue
  /\ job' = [job EXCEPT ![j].retryDue = TRUE]
  /\ UNCHANGED <<creditVars, lane>>

Outcome == {"completed", "completed_limited", "failed"}

LaneStep(w) == \/ StartWorker(w) \/ DrainClaim(w)
               \/ Advance(w) \/ FailForRetry(w) \/ GiveUp(w) \/ Crash(w)

TimeStep(j) == LeaseExpires(j) \/ BackoffElapses(j)
=============================================================================
