------------------------- MODULE CreditUpgradeProofs -------------------------
(***************************************************************************)
(* For any number of requests, keys, jobs, workers and credits: the types  *)
(* of CreditUpgrade, the bound on the credits, and that a credit is spent  *)
(* exactly for a completed job.  What the queue and its workers do to the  *)
(* tables is said once (LaneEffect) and shown step by step.                *)
(***************************************************************************)
EXTENDS CreditUpgrade, FiniteSetTheorems, TLAPS

\* Only a running job has a lease, and a row that is not there names no key.
RowInv(j) == /\ job[j].leaseLive => job[j].state = "running"
             /\ job[j].state = "absent" => job[j].pays = None

\* The job of a reservation names it; a key nobody used is named by no job.
KeyInv(k) == /\ ledger[k].job # None => job[ledger[k].job].pays = k
             /\ ledger[k].status = "none" => /\ ledger[k].job = None
                                             /\ \A j \in Job : job[j].pays # k

\* A request that reserved finds its reservation again, whatever its status, and
\* the job it is about to attach names the key already.
RequestInv(r) ==
  /\ request[r].at \in {"locale", "enqueue", "attach", "refund"}
       => ledger[KeyOf[r]].status # "none"
  /\ request[r].at = "attach" => /\ request[r].job # None
                                 /\ job[request[r].job].pays = KeyOf[r]

IInv == /\ TypeOK /\ CreditBounded /\ PaidIffCompleted /\ AuditFindsNothing
        /\ \A j \in Job : RowInv(j)
        /\ \A k \in Reservation : KeyInv(k)
        /\ \A r \in Request : RequestInv(r)
        /\ IsFiniteSet(Held)

-----------------------------------------------------------------------------
(* What the queue, its workers and the clock may do to the tables.          *)

\* A job keeps its key and stays over, and a lease means that it runs.
JobEffect(j) ==
  /\ job'[j].pays = job[j].pays
  /\ job'[j].leaseLive => job'[j].state = "running"
  /\ job'[j].state = "absent" <=> job[j].state = "absent"
  /\ Over(j) => job'[j].state = job[j].state

\* A job that ends takes its reservation along.
EndEffect(j) ==
  Over(j)' /\ ~Over(j) /\ job[j].pays # None =>
    /\ ledger'[job[j].pays].status # "reserved"
    /\ job'[j].state = "completed" => ledger'[job[j].pays].status = "settled"

\* A reservation ends once, and is charged only for a job that completes.
KeyEffect(k) ==
  /\ ledger'[k].job = ledger[k].job
  /\ ledger[k].status # "reserved" => ledger'[k].status = ledger[k].status
  /\ ledger[k].status = "reserved" => ledger'[k].status \in {"reserved", "settled", "refunded"}
  /\ ledger'[k].status = "settled" =>
       \/ ledger[k].status = "settled"
       \/ \E j \in Job : job[j].pays = k /\ job'[j].state = "completed"

\* At most one credit comes back, and only with a reservation that was held.
BalanceEffect ==
  /\ balance' \in Nat
  /\ \/ balance' = balance
     \/ /\ balance' = balance + 1
        /\ \E k \in Reservation : k \in Held /\ k \notin Held'

LaneEffect == /\ LaneTypeOK'
              /\ \A j \in Job : JobEffect(j) /\ EndEffect(j)
              /\ \A k \in Reservation : KeyEffect(k)
              /\ BalanceEffect

\* The invariant, as far as the lane needs it.
LaneInv == LaneTypeOK /\ \A j \in Job : RowInv(j)

-----------------------------------------------------------------------------
(* The lane's steps have no other effect.                                   *)

\* A row gives its lease back and is otherwise what it was.
LEMMA ReleasedType ==
  ASSUME NEW row \in JobRow
  PROVE  /\ Released(row) \in JobRow /\ Released(row).leaseLive = FALSE
         /\ Released(row).pays = row.pays /\ Released(row).state = row.state
         /\ Released(row).phaseAttempt = row.phaseAttempt
BY DEF JobRow, Released

\* What is left to show of a step that writes no credit and ends no job.
LEMMA NoCreditEffect ==
  ASSUME LaneInv, UNCHANGED creditVars, job' \in [Job -> JobRow],
         lane' \in [Lane -> LaneState],
         \A j \in Job : JobEffect(j) /\ (Over(j)' => Over(j))
  PROVE  LaneEffect
<1>1. LaneTypeOK'
  BY DEF LaneInv, LaneTypeOK, creditVars
<1>2. \A k \in Reservation : KeyEffect(k)
  <2>1. ledger' = ledger /\ ledger \in [Reservation -> LedgerRow]
    BY DEF LaneInv, LaneTypeOK, creditVars
  <2>2. \A k \in Reservation :
          ledger[k].status = "reserved" => ledger[k].status \in {"reserved", "settled", "refunded"}
    OBVIOUS
  <2> QED BY <2>1, <2>2 DEF KeyEffect
<1>3. BalanceEffect
  BY DEF BalanceEffect, creditVars, LaneInv, LaneTypeOK
<1> QED BY <1>1, <1>2, <1>3 DEF LaneEffect, EndEffect

\* A worker moves, and no table changes.
LEMMA LaneMoves ==
  ASSUME LaneInv, NEW w \in Lane, StartWorker(w) \/ GiveUp(w) \/ Crash(w)
  PROVE  LaneEffect
<1>1. UNCHANGED <<job, creditVars>>
  BY DEF StartWorker, GiveUp, Crash
<1>2. lane' \in [Lane -> LaneState]
  <2>1. \E m \in {"off", "drain", "wait"} : LaneAt(w, m, None)
    <3>1. lane[w].mode \in {"off", "drain", "wait"}
      BY DEF LaneInv, LaneTypeOK, LaneState
    <3> QED BY <3>1 DEF StartWorker, GiveUp, Crash, Return
  <2> QED BY <2>1 DEF LaneAt, LaneInv, LaneTypeOK, LaneState
<1>3. \A j \in Job : JobEffect(j) /\ (Over(j)' => Over(j))
  BY <1>1 DEF JobEffect, LaneInv, RowInv, Over
<1> QED BY <1>1, <1>2, <1>3, NoCreditEffect DEF LaneInv, LaneTypeOK

\* One row is written, in a way that neither ends the job nor touches its key.
LEMMA OneRowEffect ==
  ASSUME LaneInv, UNCHANGED creditVars, lane' \in [Lane -> LaneState],
         NEW i \in Job, NEW row \in JobRow, job' = [job EXCEPT ![i] = row],
         row.pays = job[i].pays, row.leaseLive => row.state = "running",
         row.state = "absent" <=> job[i].state = "absent",
         row.state = job[i].state \/ (~Over(i) /\ row.state \in {"running", "retry_wait"})
  PROVE  LaneEffect
<1>1. job' \in [Job -> JobRow] /\ \A j \in Job : job'[j] = IF j = i THEN row ELSE job[j]
  BY DEF LaneInv, LaneTypeOK
<1>2. \A j \in Job : JobEffect(j) /\ (Over(j)' => Over(j))
  BY <1>1 DEF JobEffect, LaneInv, RowInv, Over
<1> QED BY <1>1, <1>2, NoCreditEffect

\* A checkpoint, a retry, and the two clocks.
LEMMA RowSteps ==
  ASSUME LaneInv,
         \/ \E w \in Lane : Advance(w) \/ FailForRetry(w)
         \/ \E j \in Job : LeaseExpires(j) \/ BackoffElapses(j)
  PROVE  LaneEffect
<1>0. job \in [Job -> JobRow] /\ lane \in [Lane -> LaneState] /\ MaxAttempts \in Nat
  BY LaneAssumption DEF LaneInv, LaneTypeOK
<1>1. ASSUME NEW w \in Lane, Advance(w) PROVE LaneEffect
  <2> PICK i \in Job : i = lane[w].job
    BY <1>0, <1>1 DEF Advance, LaneState
  <2> DEFINE row == [job[i] EXCEPT !.fresh = FALSE, !.phaseAttempt = 0]
  <2>1. job' = [job EXCEPT ![i] = row] /\ UNCHANGED <<creditVars, lane>>
    BY <1>1 DEF Advance
  <2>2. /\ row \in JobRow /\ row.pays = job[i].pays /\ row.state = job[i].state
        /\ row.leaseLive = job[i].leaseLive
    <3>1. 0 \in 0 .. MaxAttempts /\ job[i] \in JobRow
      BY <1>0
    <3> QED BY <3>1 DEF JobRow
  <2> HIDE DEF row
  <2> QED BY <1>0, <2>1, <2>2, OneRowEffect DEF LaneInv, RowInv
<1>2. ASSUME NEW w \in Lane, FailForRetry(w) PROVE LaneEffect
  <2> PICK i \in Job : i = lane[w].job
    BY <1>0, <1>2 DEF FailForRetry, LaneState
  <2> DEFINE row == [Released(job[i]) EXCEPT !.state = "retry_wait", !.retryDue = FALSE]
  <2>1. job' = [job EXCEPT ![i] = row] /\ UNCHANGED creditVars /\ job[i].leaseLive
    BY <1>2 DEF FailForRetry, Holds
  <2>2. /\ row \in JobRow /\ row.pays = job[i].pays /\ row.state = "retry_wait"
        /\ row.leaseLive = FALSE
    <3>1. /\ Released(job[i]) \in JobRow /\ Released(job[i]).pays = job[i].pays
          /\ Released(job[i]).leaseLive = FALSE
      BY <1>0, ReleasedType
    <3> QED BY <3>1 DEF JobRow, JobState
  <2>3. job[i].state = "running" /\ ~Over(i)
    BY <2>1 DEF LaneInv, RowInv, Over
  <2>4. lane' \in [Lane -> LaneState]
    BY <1>0, <1>2 DEF FailForRetry, Return, LaneAt, LaneState
  <2> HIDE DEF row
  <2> QED BY <2>1, <2>2, <2>3, <2>4, OneRowEffect
<1>3. ASSUME NEW i \in Job, LeaseExpires(i) PROVE LaneEffect
  <2> DEFINE row == [job[i] EXCEPT !.leaseLive = FALSE]
  <2>1. job' = [job EXCEPT ![i] = row] /\ UNCHANGED <<creditVars, lane>>
    BY <1>3 DEF LeaseExpires
  <2>2. /\ row \in JobRow /\ row.pays = job[i].pays /\ row.state = job[i].state
        /\ row.leaseLive = FALSE
    BY <1>0 DEF JobRow
  <2> HIDE DEF row
  <2> QED BY <1>0, <2>1, <2>2, OneRowEffect
<1>4. ASSUME NEW i \in Job, BackoffElapses(i) PROVE LaneEffect
  <2> DEFINE row == [job[i] EXCEPT !.retryDue = TRUE]
  <2>1. job' = [job EXCEPT ![i] = row] /\ UNCHANGED <<creditVars, lane>>
    BY <1>4 DEF BackoffElapses
  <2>2. /\ row \in JobRow /\ row.pays = job[i].pays /\ row.state = job[i].state
        /\ row.leaseLive = job[i].leaseLive
    BY <1>0 DEF JobRow
  <2> HIDE DEF row
  <2> QED BY <1>0, <2>1, <2>2, OneRowEffect DEF LaneInv, RowInv
<1> QED BY <1>1, <1>2, <1>3, <1>4

\* Maintenance fails the rows without an attempt left and frees the lapsed ones.
LEMMA MaintainedRows ==
  ASSUME LaneInv, NEW j \in Job
  PROVE  /\ Maintained[j] \in JobRow /\ Maintained[j].pays = job[j].pays
         /\ Maintained[j].leaseLive => Maintained[j].state = "running"
         /\ Maintained[j].state = "absent" <=> job[j].state = "absent"
         /\ Over(j) => Maintained[j].state = job[j].state
         /\ Maintained[j].phaseAttempt = job[j].phaseAttempt
         /\ Exhausted(j) => Maintained[j].state = "failed"
         /\ ~Exhausted(j) => Maintained[j].state \in {job[j].state, "retry_wait"}
<1>1. job[j] \in JobRow /\ RowInv(j)
  BY DEF LaneInv, LaneTypeOK
<1>2. CASE Exhausted(j)
  <2>1. Maintained[j] = [Released(job[j]) EXCEPT !.state = "failed", !.fresh = FALSE]
    BY <1>2 DEF Maintained
  <2>2. /\ Maintained[j] \in JobRow /\ Maintained[j].pays = job[j].pays
        /\ Maintained[j].state = "failed" /\ Maintained[j].leaseLive = FALSE
        /\ Maintained[j].phaseAttempt = job[j].phaseAttempt
    <3>1. /\ Released(job[j]) \in JobRow /\ Released(job[j]).leaseLive = FALSE
          /\ Released(job[j]).pays = job[j].pays
          /\ Released(job[j]).phaseAttempt = job[j].phaseAttempt
      BY <1>1, ReleasedType
    <3> QED BY <2>1, <3>1 DEF JobRow, JobState
  <2>3. ~Over(j) /\ job[j].state # "absent"
    BY <1>2 DEF Exhausted, Over
  <2> QED BY <1>2, <2>2, <2>3
<1>3. CASE ~Exhausted(j) /\ Lapsed(j)
  <2>1. Maintained[j] = [Released(job[j]) EXCEPT !.state = "retry_wait", !.retryDue = TRUE]
    BY <1>3 DEF Maintained
  <2>2. /\ Maintained[j] \in JobRow /\ Maintained[j].pays = job[j].pays
        /\ Maintained[j].state = "retry_wait" /\ Maintained[j].leaseLive = FALSE
        /\ Maintained[j].phaseAttempt = job[j].phaseAttempt
    <3>1. /\ Released(job[j]) \in JobRow /\ Released(job[j]).leaseLive = FALSE
          /\ Released(job[j]).pays = job[j].pays
          /\ Released(job[j]).phaseAttempt = job[j].phaseAttempt
      BY <1>1, ReleasedType
    <3> QED BY <2>1, <3>1 DEF JobRow, JobState
  <2>3. ~Over(j) /\ job[j].state # "absent"
    BY <1>3 DEF Lapsed, Over
  <2> QED BY <1>3, <2>2, <2>3
<1>4. CASE ~Exhausted(j) /\ ~Lapsed(j)
  <2>1. Maintained[j] = job[j]
    BY <1>4 DEF Maintained
  <2> QED BY <1>1, <1>4, <2>1 DEF RowInv
<1> QED BY <1>2, <1>3, <1>4

\* The job that is claimed runs; it was not over.
LEMMA ClaimedRow ==
  ASSUME LaneInv, NEW w \in Lane, NEW j \in Job, Claimable(j),
         NEW row, row = [Maintained[j] EXCEPT !.state = "running", !.leaseOwner = w,
                                 !.leaseLive = TRUE, !.phaseAttempt = @ + 1]
  PROVE  /\ row \in JobRow /\ row.pays = job[j].pays /\ row.state = "running"
         /\ ~Over(j) /\ job[j].state # "absent" /\ ~Exhausted(j)
<1>1. /\ Maintained[j] \in JobRow /\ Maintained[j].pays = job[j].pays
      /\ Maintained[j].phaseAttempt = job[j].phaseAttempt
  BY MaintainedRows
<1>2. Maintained[j].phaseAttempt + 1 \in 0 .. MaxAttempts
  <2>1. job[j].phaseAttempt \in 0 .. MaxAttempts
    BY DEF LaneInv, LaneTypeOK, JobRow
  <2> QED BY <1>1, <2>1, LaneAssumption DEF Claimable
<1>3. row \in JobRow /\ row.pays = job[j].pays /\ row.state = "running"
  BY <1>1, <1>2 DEF JobRow, JobState
<1>4. Maintained[j].state \in {"queued", "retry_wait"}
  BY DEF Claimable
<1> QED BY <1>3, <1>4, MaintainedRows DEF Over

\* The claim: maintenance, the credits of the jobs it failed, and one new lease.
LEMMA ClaimEffect ==
  ASSUME LaneInv, NEW w \in Lane, NEW j \in Job \cup {None}, ClaimScanJob(w, j),
         LaneAt(w, IF j = None THEN "wait" ELSE "drain", j)
  PROVE  LaneEffect
<1>0. /\ ledger \in [Reservation -> LedgerRow] /\ balance \in Nat
      /\ lane \in [Lane -> LaneState] /\ None \notin Job
  BY LaneAssumption DEF LaneInv, LaneTypeOK
<1> DEFINE row(i) == IF i = j THEN [Maintained[i] EXCEPT !.state = "running",
                                      !.leaseOwner = w, !.leaseLive = TRUE,
                                      !.phaseAttempt = @ + 1]
                     ELSE Maintained[i]
<1>1. job' = [i \in Job |-> row(i)]
  BY DEF ClaimScanJob
<1>2. ASSUME NEW i \in Job
      PROVE  /\ row(i) \in JobRow /\ row(i).pays = job[i].pays
             /\ row(i).leaseLive => row(i).state = "running"
             /\ row(i).state = "absent" <=> job[i].state = "absent"
             /\ Over(i) => row(i).state = job[i].state
             /\ ~Over(i) /\ row(i).state \in {"completed", "completed_limited", "failed"}
                  => Exhausted(i) /\ row(i).state = "failed"
  <2>1. CASE i = j
    <3>1. Claimable(j)
      BY <1>0, <2>1 DEF ClaimScanJob
    <3>2. PICK r : r = row(j)
      OBVIOUS
    <3>3. r = [Maintained[j] EXCEPT !.state = "running", !.leaseOwner = w, !.leaseLive = TRUE,
                                    !.phaseAttempt = @ + 1]
      BY <3>2
    <3>4. j \in Job
      BY <2>1
    <3>5. /\ r \in JobRow /\ r.pays = job[j].pays /\ r.state = "running"
          /\ ~Over(j) /\ job[j].state # "absent"
      BY <3>1, <3>3, <3>4, ClaimedRow
    <3> HIDE DEF row
    <3> QED BY <2>1, <3>2, <3>5
  <2>2. CASE i # j
    BY <2>2, MaintainedRows DEF Over
  <2> QED BY <2>1, <2>2
<1> HIDE DEF row
<1>3. \A k \in Reservation :
        /\ ledger'[k] \in LedgerRow /\ ledger'[k].job = ledger[k].job
        /\ k \in GivenBack => ledger'[k].status = "refunded"
        /\ k \notin GivenBack => ledger'[k] = ledger[k]
  <2> SUFFICES ASSUME NEW k \in Reservation
               PROVE  /\ ledger'[k] \in LedgerRow /\ ledger'[k].job = ledger[k].job
                      /\ k \in GivenBack => ledger'[k].status = "refunded"
                      /\ k \notin GivenBack => ledger'[k] = ledger[k]
    OBVIOUS
  <2>1. ledger'[k] = IF k \in GivenBack THEN [ledger[k] EXCEPT !.status = "refunded"]
                                        ELSE ledger[k]
    BY DEF ClaimScanJob
  <2> QED BY <1>0, <2>1 DEF LedgerRow
<1>4. ledger' \in [Reservation -> LedgerRow]
  BY <1>3 DEF ClaimScanJob
<1>5. BalanceEffect
  <2>0. balance' = balance + IF GivenBack = {} THEN 0 ELSE 1
    BY DEF ClaimScanJob
  <2>1. CASE GivenBack = {}
    BY <1>0, <2>0, <2>1 DEF BalanceEffect
  <2>2. CASE GivenBack # {}
    <3>1. PICK k \in Reservation : k \in GivenBack
      BY <2>2 DEF GivenBack
    <3>2. k \in Held /\ k \notin Held'
      BY <1>3, <3>1 DEF GivenBack, Held
    <3> QED BY <1>0, <2>0, <2>2, <3>2 DEF BalanceEffect
  <2> QED BY <2>1, <2>2
<1>6. \A k \in Reservation : KeyEffect(k)
  BY <1>3 DEF KeyEffect, GivenBack
<1>7. ASSUME NEW i \in Job PROVE JobEffect(i) /\ EndEffect(i)
  <2>1. job'[i] = row(i)
    BY <1>1
  <2>2. JobEffect(i)
    BY <1>2, <2>1 DEF JobEffect
  <2>3. ASSUME Over(i)', ~Over(i), job[i].pays # None
        PROVE  ledger'[job[i].pays].status # "reserved" /\ job'[i].state # "completed"
    <3>1. Exhausted(i) /\ job'[i].state = "failed"
      BY <1>2, <2>1, <2>3 DEF Over
    <3>2. PICK k \in Reservation : k = job[i].pays
      BY <2>3 DEF LaneInv, LaneTypeOK, JobRow
    <3>3. CASE ledger[k].status = "reserved"
      BY <1>3, <3>1, <3>2, <3>3 DEF GivenBack
    <3>4. CASE ledger[k].status # "reserved"
      BY <1>3, <3>1, <3>2, <3>4 DEF GivenBack
    <3> QED BY <3>3, <3>4
  <2> QED BY <2>2, <2>3 DEF EndEffect
<1>8. job' \in [Job -> JobRow]
  BY <1>1, <1>2
<1>9. lane' \in [Lane -> LaneState]
  BY <1>0 DEF LaneAt, LaneState
<1>10. LaneTypeOK'
  BY <1>4, <1>5, <1>8, <1>9 DEF LaneTypeOK, BalanceEffect
<1> QED BY <1>5, <1>6, <1>7, <1>10 DEF LaneEffect

\* The end of a job under its lease, with what becomes of its reservation.
LEMMA TerminalizeEffect ==
  ASSUME LaneInv, NEW w \in Lane, NEW outcome \in Outcome, TerminalizeScanJob(w, outcome)
  PROVE  LaneEffect
<1>0. /\ job \in [Job -> JobRow] /\ lane \in [Lane -> LaneState]
      /\ ledger \in [Reservation -> LedgerRow] /\ balance \in Nat /\ None \notin Reservation
  BY LaneAssumption DEF LaneInv, LaneTypeOK
<1> PICK i \in Job : i = lane[w].job
  BY <1>0 DEF TerminalizeScanJob, LaneState
<1> DEFINE row == [Released(job[i]) EXCEPT !.state = outcome, !.fresh = FALSE, !.retryDue = TRUE]
           target == TerminalCreditStatus(outcome)
<1>1. job' = [job EXCEPT ![i] = row] /\ job[i].leaseLive
  BY DEF TerminalizeScanJob, Holds
<1>2. IF job[i].pays = None THEN UNCHANGED creditVars
                            ELSE SettleReservation(job[i].pays, i, target)
  BY DEF TerminalizeScanJob
<1>3. /\ row \in JobRow /\ row.pays = job[i].pays /\ row.state = outcome /\ row.leaseLive = FALSE
  <2>1. /\ Released(job[i]) \in JobRow /\ Released(job[i]).pays = job[i].pays
        /\ Released(job[i]).leaseLive = FALSE
    BY <1>0, ReleasedType
  <2> QED BY <2>1 DEF JobRow, JobState, Outcome
<1>4. job[i].state = "running" /\ ~Over(i)
  BY <1>1 DEF LaneInv, RowInv, Over
<1>5. lane' \in [Lane -> LaneState]
  BY <1>0 DEF TerminalizeScanJob, Return, LaneAt, LaneState
<1>6. target = (IF outcome = "completed" THEN "settled" ELSE "refunded")
  BY DEF TerminalCreditStatus
<1> HIDE DEF row, target
<1>7. job' \in [Job -> JobRow] /\ \A j \in Job : job'[j] = IF j = i THEN row ELSE job[j]
  BY <1>0, <1>1, <1>3
<1>8. \A j \in Job : JobEffect(j)
  BY <1>3, <1>4, <1>7 DEF JobEffect, LaneInv, RowInv, Over, Outcome
<1>9. CASE job[i].pays = None
  <2>1. UNCHANGED creditVars
    BY <1>2, <1>9
  <2>2. \A j \in Job : EndEffect(j)
    BY <1>7, <1>9 DEF EndEffect, Over
  <2>3. \A k \in Reservation : KeyEffect(k)
    <3>1. ledger' = ledger
      BY <2>1 DEF creditVars
    <3> QED BY <1>0, <3>1 DEF KeyEffect
  <2>4. BalanceEffect /\ LaneTypeOK'
    BY <1>0, <1>5, <1>7, <2>1 DEF creditVars, BalanceEffect, LaneTypeOK
  <2> QED BY <1>8, <2>2, <2>3, <2>4 DEF LaneEffect
<1>10. CASE job[i].pays # None
  <2> PICK k \in Reservation : k = job[i].pays
    BY <1>0, <1>10 DEF JobRow
  <2>1. /\ ledger[k].status \in {"reserved", target}
        /\ ledger' = [ledger EXCEPT ![k].status = target]
        /\ balance' = balance + IF ledger[k].status # target /\ target = "refunded"
                                THEN 1 ELSE 0
    BY <1>2, <1>10 DEF SettleReservation
  <2>2. /\ ledger' \in [Reservation -> LedgerRow]
        /\ ledger'[k].status = target /\ ledger'[k].job = ledger[k].job
        /\ \A m \in Reservation : m # k => ledger'[m] = ledger[m]
    <3>1. target \in {"settled", "refunded"}
      BY <1>6
    <3>2. [ledger[k] EXCEPT !.status = target] \in LedgerRow
      BY <1>0, <3>1 DEF LedgerRow
    <3>3. [ledger[k] EXCEPT !.status = target].status = target
          /\ [ledger[k] EXCEPT !.status = target].job = ledger[k].job
      BY <1>0 DEF LedgerRow
    <3>4. ledger' = [ledger EXCEPT ![k] = [ledger[k] EXCEPT !.status = target]]
      BY <2>1
    <3> QED BY <1>0, <3>2, <3>3, <3>4
  <2>3. \A j \in Job : EndEffect(j)
    BY <1>3, <1>6, <1>7, <2>2 DEF EndEffect, Over
  <2>4. ASSUME NEW m \in Reservation PROVE KeyEffect(m)
    <3>1. CASE m # k
      BY <1>0, <2>2, <3>1 DEF KeyEffect
    <3>2. CASE m = k
      <4>1. target = "settled" => job'[i].state = "completed"
        BY <1>3, <1>6, <1>7
      <4> QED BY <1>6, <2>1, <2>2, <3>2, <4>1 DEF KeyEffect
    <3> QED BY <3>1, <3>2
  <2>5. BalanceEffect
    <3>1. CASE ledger[k].status # target /\ target = "refunded"
      <4>1. k \in Held /\ k \notin Held'
        BY <2>1, <2>2, <3>1 DEF Held
      <4>2. balance' = balance + 1
        BY <2>1, <3>1
      <4> QED BY <1>0, <4>1, <4>2 DEF BalanceEffect
    <3>2. CASE ~(ledger[k].status # target /\ target = "refunded")
      BY <1>0, <2>1, <3>2 DEF BalanceEffect
    <3> QED BY <3>1, <3>2
  <2>6. LaneTypeOK'
    BY <1>5, <1>7, <2>2, <2>5 DEF LaneTypeOK, BalanceEffect
  <2> QED BY <1>8, <2>3, <2>4, <2>5, <2>6 DEF LaneEffect
<1> QED BY <1>9, <1>10

\* Every step of a worker and of the clock.
LEMMA LaneStepEffect ==
  ASSUME LaneInv, (\E w \in Lane : LaneStep(w)) \/ (\E j \in Job : TimeStep(j))
  PROVE  LaneEffect
<1>1. ASSUME NEW w \in Lane, LaneStep(w) PROVE LaneEffect
  <2>1. CASE DrainClaim(w)
    BY <2>1, ClaimEffect DEF DrainClaim
  <2> QED BY <1>1, <2>1, LaneMoves, RowSteps DEF LaneStep
<1>2. ASSUME NEW j \in Job, TimeStep(j) PROVE LaneEffect
  BY <1>2, RowSteps DEF TimeStep
<1> QED BY <1>1, <1>2

-----------------------------------------------------------------------------
(* The invariant survives these effects.                                    *)

\* A credit that comes back leaves the set of those that are held.
LEMMA HeldShrinks ==
  ASSUME CreditBounded, IsFiniteSet(Held), balance \in Nat, BalanceEffect,
         \A k \in Reservation : KeyEffect(k)
  PROVE  CreditBounded' /\ IsFiniteSet(Held')
<1>1. Held' \subseteq Held
  BY DEF Held, KeyEffect
<1>2. /\ IsFiniteSet(Held') /\ Cardinality(Held') <= Cardinality(Held)
      /\ Cardinality(Held) \in Nat /\ Cardinality(Held') \in Nat
  BY <1>1, FS_Subset, FS_CardinalityType
<1>3. CASE balance' = balance
  BY <1>2, <1>3, LaneAssumption DEF CreditBounded
<1>4. ASSUME balance' = balance + 1, NEW k \in Reservation, k \in Held, k \notin Held'
      PROVE  CreditBounded'
  <2>1. Held' \subseteq Held \ {k}
    BY <1>1, <1>4
  <2>2. IsFiniteSet(Held \ {k}) /\ Cardinality(Held \ {k}) = Cardinality(Held) - 1
    BY <1>4, FS_RemoveElement
  <2>3. Cardinality(Held') <= Cardinality(Held) - 1
    BY <2>1, <2>2, FS_Subset
  <2> QED BY <1>2, <1>4, <2>3, LaneAssumption DEF CreditBounded
<1> QED BY <1>2, <1>3, <1>4 DEF BalanceEffect

\* What is left to show of a step with these effects: the requests that move.
LEMMA EffectKeeps ==
  ASSUME IInv, LaneEffect,
         request' \in [Request -> RequestState], locale' \in Locale, reports' \subseteq Job,
         \A r \in Request : request'[r] = request[r] \/ RequestInv(r)'
  PROVE  IInv'
<1>0. /\ \A j \in Job : JobEffect(j) /\ EndEffect(j) /\ RowInv(j)
      /\ \A k \in Reservation : KeyEffect(k) /\ KeyInv(k)
      /\ job \in [Job -> JobRow] /\ ledger \in [Reservation -> LedgerRow] /\ None \notin Reservation
  BY LaneAssumption DEF LaneEffect, IInv, TypeOK, LaneTypeOK
<1>1. TypeOK'
  BY DEF LaneEffect, IInv, TypeOK
<1>2. CreditBounded' /\ IsFiniteSet(Held')
  BY HeldShrinks DEF LaneEffect, IInv, TypeOK, LaneTypeOK
<1>3. PaidIffCompleted'
  <2> SUFFICES ASSUME NEW k \in Reservation
               PROVE  ledger'[k].status = "settled"
                        <=> \E j \in Job : job'[j].pays = k /\ job'[j].state = "completed"
    BY DEF PaidIffCompleted
  <2>1. ASSUME ledger'[k].status = "settled"
        PROVE  \E j \in Job : job'[j].pays = k /\ job'[j].state = "completed"
    <3>1. CASE ledger[k].status = "settled"
      <4>1. PICK j \in Job : job[j].pays = k /\ job[j].state = "completed"
        BY <3>1 DEF IInv, PaidIffCompleted
      <4> QED BY <1>0, <4>1 DEF JobEffect, Over
    <3>2. CASE ledger[k].status # "settled"
      <4>1. PICK j \in Job : job[j].pays = k /\ job'[j].state = "completed"
        BY <1>0, <2>1, <3>2 DEF KeyEffect
      <4> QED BY <1>0, <4>1 DEF JobEffect
    <3> QED BY <3>1, <3>2
  <2>2. ASSUME NEW j \in Job, job'[j].pays = k, job'[j].state = "completed"
        PROVE  ledger'[k].status = "settled"
    <3>1. job[j].pays = k
      BY <1>0, <2>2 DEF JobEffect
    <3>2. CASE Over(j)
      <4>1. ledger[k].status = "settled"
        BY <1>0, <2>2, <3>1, <3>2 DEF JobEffect, IInv, PaidIffCompleted
      <4> QED BY <1>0, <4>1 DEF KeyEffect
    <3>3. CASE ~Over(j)
      BY <1>0, <2>2, <3>1, <3>3 DEF EndEffect, Over
    <3> QED BY <3>2, <3>3
  <2> QED BY <2>1, <2>2
<1>4. AuditFindsNothing'
  <2> SUFFICES ASSUME NEW k \in Reservation, NEW j \in Job, Over(j)',
                      job'[j].pays = k \/ ledger'[k].job = j
               PROVE  ledger'[k].status # "reserved"
    BY DEF AuditFindsNothing
  <2>1. job[j].pays = k
    <3>1. None \notin Job
      BY LaneAssumption
    <3> QED BY <1>0, <3>1 DEF JobEffect, KeyEffect, KeyInv
  <2>2. CASE Over(j)
    BY <1>0, <2>1, <2>2 DEF IInv, AuditFindsNothing, KeyEffect
  <2>3. CASE ~Over(j)
    BY <1>0, <2>1, <2>3 DEF EndEffect
  <2> QED BY <2>2, <2>3
<1>5. ASSUME NEW j \in Job PROVE RowInv(j)'
  BY <1>0 DEF JobEffect, RowInv
<1>6. ASSUME NEW k \in Reservation PROVE KeyInv(k)'
  <2>1. ledger'[k].job # None => ledger[k].job \in Job
    BY <1>0 DEF KeyEffect, LedgerRow
  <2>2. ledger'[k].status = "none" => ledger[k].status = "none"
    BY <1>0 DEF KeyEffect
  <2> QED BY <1>0, <2>1, <2>2 DEF JobEffect, KeyEffect, KeyInv
<1>7. ASSUME NEW r \in Request, request'[r] = request[r] PROVE RequestInv(r)'
  <2>1. RequestInv(r) /\ KeyOf[r] \in Reservation /\ request[r].job \in Job \cup {None}
    BY RequestAssumption DEF IInv, TypeOK, RequestState
  <2> QED BY <1>0, <1>7, <2>1 DEF RequestInv, JobEffect, KeyEffect
<1> QED BY <1>1, <1>2, <1>3, <1>4, <1>5, <1>6, <1>7 DEF IInv

\* A step that leaves the tables alone has these effects.
LEMMA NoEffect == ASSUME IInv, UNCHANGED laneVars PROVE LaneEffect
<1>1. LaneInv
  BY DEF IInv, TypeOK, LaneInv
<1>2. \A j \in Job : JobEffect(j) /\ (Over(j)' => Over(j))
  BY <1>1 DEF laneVars, JobEffect, LaneInv, RowInv, Over
<1>3. job' \in [Job -> JobRow] /\ lane' \in [Lane -> LaneState] /\ UNCHANGED creditVars
  BY <1>1 DEF laneVars, creditVars, LaneInv, LaneTypeOK
<1> QED BY <1>1, <1>2, <1>3, NoCreditEffect

-----------------------------------------------------------------------------
(* The steps of a request.                                                  *)

\* A request moves on, and the tables change as the queue might change them.
LEMMA RequestMoves ==
  ASSUME IInv, LaneEffect, NEW r \in Request, NEW row \in RequestState,
         request' = [request EXCEPT ![r] = row], row.at # "attach",
         row.at \in {"locale", "enqueue", "refund"} => ledger[KeyOf[r]].status # "none",
         locale' \in Locale, UNCHANGED reports
  PROVE  IInv'
<1>0. request \in [Request -> RequestState] /\ reports \subseteq Job /\ KeyOf[r] \in Reservation
  BY RequestAssumption DEF IInv, TypeOK
<1>1. request' \in [Request -> RequestState]
  BY <1>0
<1>2. \A x \in Request : x # r => request'[x] = request[x]
  BY <1>0
<1>3. ledger'[KeyOf[r]].status = "none" => ledger[KeyOf[r]].status = "none"
  BY <1>0 DEF LaneEffect, KeyEffect
<1>4. RequestInv(r)'
  BY <1>0, <1>3 DEF RequestInv
<1> QED BY <1>0, <1>1, <1>2, <1>4, EffectKeeps

\* Goto writes one field of one request.
LEMMA GotoRow ==
  ASSUME IInv, NEW r \in Request, NEW step \in Step, Goto(r, step)
  PROVE  \E row \in RequestState : request' = [request EXCEPT ![r] = row] /\ row.at = step
<1>1. request[r] \in RequestState
  BY DEF IInv, TypeOK
<1>2. /\ [request[r] EXCEPT !.at = step] \in RequestState
      /\ [request[r] EXCEPT !.at = step].at = step
  BY <1>1 DEF RequestState
<1> QED BY <1>2 DEF Goto

\* What a request reads, settles, or leaves undone.
LEMMA QuietRequestKeeps ==
  ASSUME IInv, NEW r \in Request,
         ReadReport(r) \/ SettleLocale(r) \/ WriteFails(r) \/ RequestDies(r)
  PROVE  IInv'
<1>0. request[r] \in RequestState /\ locale \in Locale /\ RequestInv(r)
  BY DEF IInv, TypeOK
<1>1. LaneEffect /\ UNCHANGED reports
  BY NoEffect DEF ReadReport, SettleLocale, WriteFails, RequestDies
<1>2. CASE ReadReport(r)
  <2>1. PICK step \in {"done", "reserve"} :
          request' = [request EXCEPT ![r].read = locale, ![r].at = step]
    BY <1>2, Zenon DEF ReadReport
  <2> DEFINE row == [request[r] EXCEPT !.read = locale, !.at = step]
  <2>2. row \in RequestState /\ row.at = step
    BY <1>0 DEF RequestState, Step
  <2>3. request' = [request EXCEPT ![r] = row] /\ locale' = locale
    BY <1>2, <2>1 DEF ReadReport
  <2> HIDE DEF row
  <2> QED BY <1>0, <1>1, <2>2, <2>3, RequestMoves
<1>3. CASE SettleLocale(r)
  <2>1. PICK step \in {"refund", "done", "enqueue"} : Goto(r, step)
    BY <1>3, Zenon DEF SettleLocale
  <2>2. PICK row \in RequestState : request' = [request EXCEPT ![r] = row] /\ row.at = step
    BY <2>1, GotoRow DEF Step
  <2>3. locale' \in Locale
    <3>1. WantsOf[r] \in Locale /\ request[r].read \in Locale
      BY <1>0 DEF Locale, RequestState
    <3> QED BY <1>0, <1>3, <3>1 DEF SettleLocale
  <2>4. ledger[KeyOf[r]].status # "none"
    BY <1>0, <1>3 DEF SettleLocale, RequestInv
  <2> QED BY <1>1, <2>2, <2>3, <2>4, RequestMoves
<1>4. CASE WriteFails(r)
  <2>1. PICK row \in RequestState : request' = [request EXCEPT ![r] = row] /\ row.at = "refund"
    BY <1>4, GotoRow DEF WriteFails, Step
  <2>2. ledger[KeyOf[r]].status # "none" /\ locale' = locale
    BY <1>0, <1>4 DEF WriteFails, RequestInv
  <2> QED BY <1>0, <1>1, <2>1, <2>2, RequestMoves
<1>5. CASE RequestDies(r)
  <2>1. PICK row \in RequestState : request' = [request EXCEPT ![r] = row] /\ row.at = "done"
    BY <1>5, GotoRow DEF RequestDies, Step
  <2>2. locale' = locale
    BY <1>5 DEF RequestDies
  <2> QED BY <1>0, <1>1, <2>1, <2>2, RequestMoves
<1> QED BY <1>2, <1>3, <1>4, <1>5

\* A refund by the route is the same to the tables as one by maintenance.
LEMMA RefundKeeps == ASSUME IInv, NEW r \in Request, RefundCredit(r) PROVE IInv'
<1> DEFINE k == KeyOf[r]
<1>0. /\ k \in Reservation /\ LaneInv /\ ledger \in [Reservation -> LedgerRow]
      /\ balance \in Nat /\ locale \in Locale
  BY RequestAssumption DEF IInv, TypeOK, LaneInv, LaneTypeOK
<1>1. PICK row \in RequestState : request' = [request EXCEPT ![r] = row] /\ row.at = "done"
  BY GotoRow DEF RefundCredit, Step
<1>2. UNCHANGED <<job, lane, locale, reports>>
  BY DEF RefundCredit
<1>3. CASE UNCHANGED creditVars
  <2>1. LaneEffect
    BY <1>2, <1>3, NoEffect DEF laneVars, creditVars
  <2> QED BY <1>0, <1>1, <1>2, <2>1, RequestMoves
<1>4. CASE Refunded(k)
  <2>1. /\ ledger[k].status = "reserved" /\ balance' = balance + 1
        /\ ledger' = [ledger EXCEPT ![k] = [ledger[k] EXCEPT !.status = "refunded"]]
    BY <1>4 DEF Refunded
  <2>2. /\ [ledger[k] EXCEPT !.status = "refunded"] \in LedgerRow
        /\ [ledger[k] EXCEPT !.status = "refunded"].status = "refunded"
        /\ [ledger[k] EXCEPT !.status = "refunded"].job = ledger[k].job
    BY <1>0 DEF LedgerRow
  <2> HIDE DEF k
  <2>3. /\ ledger' \in [Reservation -> LedgerRow]
        /\ ledger'[k].status = "refunded" /\ ledger'[k].job = ledger[k].job
        /\ \A m \in Reservation : m # k => ledger'[m] = ledger[m]
    BY <1>0, <2>1, <2>2
  <2>4. \A m \in Reservation : KeyEffect(m)
    BY <1>0, <2>1, <2>3 DEF KeyEffect
  <2>5. BalanceEffect
    <3>1. k \in Held /\ k \notin Held'
      BY <1>0, <2>1, <2>3 DEF Held
    <3> QED BY <1>0, <2>1, <3>1 DEF BalanceEffect
  <2>6. \A j \in Job : JobEffect(j) /\ EndEffect(j)
    BY <1>0, <1>2 DEF JobEffect, EndEffect, LaneInv, RowInv, Over
  <2>7. LaneTypeOK'
    BY <1>0, <1>2, <2>3, <2>5 DEF LaneInv, LaneTypeOK, BalanceEffect
  <2>8. LaneEffect
    BY <2>4, <2>5, <2>6, <2>7 DEF LaneEffect
  <2> QED BY <1>0, <1>1, <1>2, <2>8, RequestMoves
<1> QED BY <1>3, <1>4 DEF RefundCredit

\* A key that nobody used takes a credit; nobody names it yet.
LEMMA ReserveKeeps == ASSUME IInv, NEW r \in Request, ReserveCredit(r) PROVE IInv'
<1> PICK k \in Reservation : k = KeyOf[r]
  BY RequestAssumption
<1>0. /\ ledger \in [Reservation -> LedgerRow] /\ balance \in Nat /\ locale \in Locale
      /\ request[r] \in RequestState /\ job \in [Job -> JobRow] /\ lane \in [Lane -> LaneState]
      /\ request \in [Request -> RequestState] /\ reports \subseteq Job
  BY DEF IInv, TypeOK, LaneTypeOK
<1>1. UNCHANGED <<job, lane, locale, reports>> /\ request[r].at = "reserve"
  BY DEF ReserveCredit
<1> DEFINE fresh == [status |-> "reserved", job |-> None]
<1>2. CASE /\ ledger[k].status # "none" /\ UNCHANGED creditVars
           /\ request' = [request EXCEPT ![r].at = "locale", ![r].row = ledger[k]]
  <2> DEFINE row == [request[r] EXCEPT !.at = "locale", !.row = ledger[k]]
  <2>1. row \in RequestState /\ row.at = "locale"
    BY <1>0 DEF RequestState, Step
  <2>2. request' = [request EXCEPT ![r] = row]
    BY <1>2
  <2>3. LaneEffect
    BY <1>1, <1>2, NoEffect DEF laneVars, creditVars
  <2> HIDE DEF row
  <2> QED BY <1>0, <1>1, <1>2, <2>1, <2>2, <2>3, RequestMoves
<1>3. CASE UNCHANGED creditVars /\ Goto(r, "done")
  <2>1. PICK row \in RequestState : request' = [request EXCEPT ![r] = row] /\ row.at = "done"
    BY <1>3, GotoRow DEF Step
  <2>2. LaneEffect
    BY <1>1, <1>3, NoEffect DEF laneVars, creditVars
  <2> QED BY <1>0, <1>1, <2>1, <2>2, RequestMoves
<1>4. CASE /\ ledger[k].status = "none" /\ HasCredit /\ balance' = balance - 1
           /\ ledger' = [ledger EXCEPT ![k] = fresh]
           /\ request' = [request EXCEPT ![r].at = "locale", ![r].row = fresh]
  <2> DEFINE row == [request[r] EXCEPT !.at = "locale", !.row = fresh]
  <2>1. row \in RequestState /\ row.at = "locale" /\ fresh \in LedgerRow
    BY <1>0 DEF RequestState, Step, LedgerRow
  <2>2. request' = [request EXCEPT ![r] = row]
    BY <1>4
  <2>3. /\ ledger'[k].status = "reserved" /\ ledger'[k].job = None
        /\ ledger' \in [Reservation -> LedgerRow]
        /\ \A m \in Reservation : m # k => ledger'[m] = ledger[m]
    BY <1>0, <1>4, <2>1
  <2> HIDE DEF row, fresh
  <2>4. balance' \in Nat /\ balance' + 1 = balance
    BY <1>0, <1>4 DEF HasCredit
  <2>5. TypeOK'
    BY <1>0, <1>1, <2>1, <2>2, <2>3, <2>4 DEF TypeOK, LaneTypeOK
  <2>6. CreditBounded' /\ IsFiniteSet(Held')
    <3>1. Held' = Held \cup {k} /\ k \notin Held /\ IsFiniteSet(Held)
      BY <1>4, <2>3 DEF Held, IInv
    <3>2. IsFiniteSet(Held') /\ Cardinality(Held') = Cardinality(Held) + 1
      BY <3>1, FS_AddElement
    <3>3. Cardinality(Held) \in Nat
      BY <3>1, FS_CardinalityType
    <3>4. balance + Cardinality(Held) <= Credits
      BY DEF IInv, CreditBounded
    <3>5. balance' + Cardinality(Held') = balance + Cardinality(Held)
      BY <2>4, <3>2, <3>3
    <3>6. CreditBounded'
      BY <3>4, <3>5 DEF CreditBounded
    <3> QED BY <3>2, <3>6
  <2>7. KeyInv(k) /\ \A j \in Job : job[j].pays # k
    BY <1>4 DEF IInv, KeyInv
  <2>8. PaidIffCompleted'
    BY <1>1, <1>4, <2>3, <2>7 DEF IInv, PaidIffCompleted
  <2>9. AuditFindsNothing'
    <3>1. None \notin Job
      BY LaneAssumption
    <3> QED BY <1>1, <2>3, <2>7, <3>1 DEF IInv, AuditFindsNothing, Over
  <2>10. \A j \in Job : RowInv(j)'
    BY <1>1 DEF IInv, RowInv
  <2>11. \A m \in Reservation : KeyInv(m)'
    BY <1>1, <2>3, <2>7 DEF IInv, KeyInv
  <2>12. ASSUME NEW x \in Request PROVE RequestInv(x)'
    <3>1. RequestInv(x) /\ KeyOf[x] \in Reservation
      BY RequestAssumption DEF IInv
    <3>2. ledger'[KeyOf[x]].status = "none" => ledger[KeyOf[x]].status = "none"
      BY <2>3, <3>1
    <3>3. CASE x = r
      BY <1>0, <2>1, <2>2, <2>3, <3>3 DEF RequestInv
    <3>4. CASE x # r
      BY <1>0, <1>1, <2>2, <3>1, <3>2, <3>4 DEF RequestInv
    <3> QED BY <3>3, <3>4
  <2> QED BY <2>5, <2>6, <2>8, <2>9, <2>10, <2>11, <2>12 DEF IInv
<1> QED BY <1>2, <1>3, <1>4 DEF ReserveCredit

\* A new job names a key whose reservation exists.
LEMMA EnqueueKeeps ==
  ASSUME IInv, NEW r \in Request, NEW j \in Job, EnqueueScanJob(r, j)
  PROVE  IInv'
<1> PICK k \in Reservation : k = KeyOf[r]
  BY RequestAssumption
<1>0. /\ ledger \in [Reservation -> LedgerRow] /\ job \in [Job -> JobRow]
      /\ request[r] \in RequestState /\ request \in [Request -> RequestState]
      /\ None \notin (Job \cup Reservation) /\ MaxAttempts \in Nat
  BY LaneAssumption DEF IInv, TypeOK, LaneTypeOK
<1> DEFINE row == [request[r] EXCEPT !.at = "attach", !.job = j]
           new == QueuedJob(k)
<1>1. /\ request[r].at = "enqueue" /\ job[j].state = "absent"
      /\ job' = [job EXCEPT ![j] = new] /\ request' = [request EXCEPT ![r] = row]
      /\ UNCHANGED <<creditVars, lane, locale, reports>>
  BY DEF EnqueueScanJob, NextJob
<1>2. row \in RequestState /\ row.at = "attach" /\ row.job = j
  BY <1>0 DEF RequestState, Step
<1>3. new \in JobRow /\ new.pays = k /\ new.state = "queued" /\ new.leaseLive = FALSE
  <2>1. AbsentJob \in JobRow /\ AbsentJob.leaseLive = FALSE
    <3>1. 0 \in 0 .. MaxAttempts
      BY <1>0
    <3> QED BY <3>1 DEF AbsentJob, JobRow, JobState
  <2> QED BY <2>1 DEF QueuedJob, JobRow, JobState
<1> HIDE DEF row, new
<1>4. /\ job' \in [Job -> JobRow] /\ \A i \in Job : job'[i] = IF i = j THEN new ELSE job[i]
      /\ request' \in [Request -> RequestState] /\ request'[r] = row
      /\ \A x \in Request : x # r => request'[x] = request[x]
  BY <1>0, <1>1, <1>2, <1>3
<1>5. ledger' = ledger /\ balance' = balance
  BY <1>1 DEF creditVars
<1>6. job[j].pays = None /\ ledger[k].status # "none"
  BY <1>1 DEF IInv, RowInv, RequestInv
<1>7. TypeOK'
  BY <1>1, <1>4, <1>5 DEF IInv, TypeOK, LaneTypeOK
<1>8. CreditBounded' /\ IsFiniteSet(Held')
  BY <1>5 DEF IInv, CreditBounded, Held
<1>9. PaidIffCompleted'
  BY <1>1, <1>3, <1>4, <1>5 DEF IInv, PaidIffCompleted
<1>10. AuditFindsNothing'
  BY <1>3, <1>4, <1>5 DEF IInv, AuditFindsNothing, Over
<1>11. \A i \in Job : RowInv(i)'
  BY <1>3, <1>4 DEF IInv, RowInv
<1>12. ASSUME NEW m \in Reservation PROVE KeyInv(m)'
  <2>1. KeyInv(m) /\ ledger[m].job \in Job \cup {None}
    BY <1>0 DEF IInv, LedgerRow
  <2>2. ledger[m].job # j
    BY <1>0, <1>6, <2>1 DEF KeyInv
  <2> QED BY <1>3, <1>4, <1>5, <1>6, <2>1, <2>2 DEF KeyInv
<1>13. ASSUME NEW x \in Request PROVE RequestInv(x)'
  <2>1. RequestInv(x) /\ KeyOf[x] \in Reservation /\ request[x].job \in Job \cup {None}
    BY RequestAssumption DEF IInv, TypeOK, RequestState
  <2>2. CASE x = r
    BY <1>0, <1>2, <1>3, <1>4, <1>5, <1>6, <2>2 DEF RequestInv
  <2>3. CASE x # r
    <3>1. request[x].at = "attach" => request[x].job # j
      BY <1>0, <1>6, <2>1 DEF RequestInv
    <3> QED BY <1>4, <1>5, <2>1, <2>3, <3>1 DEF RequestInv
  <2> QED BY <2>2, <2>3
<1> QED BY <1>7, <1>8, <1>9, <1>10, <1>11, <1>12, <1>13 DEF IInv

\* The reservation learns of its job, which names it already and may be over.
LEMMA AttachKeeps == ASSUME IInv, NEW r \in Request, AttachReservationToJob(r) PROVE IInv'
<1> PICK k \in Reservation : k = KeyOf[r]
  BY RequestAssumption
<1>0. /\ ledger \in [Reservation -> LedgerRow] /\ job \in [Job -> JobRow]
      /\ request[r] \in RequestState /\ request \in [Request -> RequestState]
      /\ None \notin (Job \cup Reservation)
  BY LaneAssumption DEF IInv, TypeOK, LaneTypeOK
<1>1. /\ request[r].at = "attach" /\ Goto(r, "done")
      /\ UNCHANGED <<balance, lane, locale, reports>>
  BY DEF AttachReservationToJob
<1>2. RequestInv(r)
  BY DEF IInv
<1> PICK j \in Job : j = request[r].job
  BY <1>0, <1>1, <1>2 DEF RequestInv, RequestState
<1>3. job[j].pays = k /\ ledger[k].status # "none"
  BY <1>1, <1>2 DEF RequestInv
<1>4. job' = job
  <2>1. job' = [job EXCEPT ![j] = [job[j] EXCEPT !.pays = k]]
    BY DEF AttachReservationToJob
  <2>2. job[j] = [job[j] EXCEPT !.pays = k]
    BY <1>0, <1>3 DEF JobRow
  <2> QED BY <1>0, <2>1, <2>2
<1> DEFINE given == IF ledger[k].job = None THEN j ELSE ledger[k].job
           entry == [ledger[k] EXCEPT !.job = given]
<1>5. ledger' = [ledger EXCEPT ![k] = entry]
  BY DEF AttachReservationToJob
<1>6. entry \in LedgerRow /\ entry.job = given /\ entry.status = ledger[k].status
  BY <1>0 DEF LedgerRow
<1> HIDE DEF entry
<1>7. /\ ledger' \in [Reservation -> LedgerRow] /\ ledger'[k].job = given
      /\ \A m \in Reservation : /\ ledger'[m].status = ledger[m].status
                                /\ m # k => ledger'[m] = ledger[m]
  BY <1>0, <1>5, <1>6
<1>8. PICK row \in RequestState : request' = [request EXCEPT ![r] = row] /\ row.at = "done"
  BY <1>1, GotoRow DEF Step
<1>9. /\ request' \in [Request -> RequestState] /\ request'[r].at = "done"
      /\ \A x \in Request : x # r => request'[x] = request[x]
  BY <1>0, <1>8
<1>10. TypeOK'
  BY <1>1, <1>4, <1>7, <1>9 DEF IInv, TypeOK, LaneTypeOK
<1>11. CreditBounded' /\ IsFiniteSet(Held')
  <2>1. Held' = Held
    BY <1>7 DEF Held
  <2> QED BY <1>1, <2>1 DEF IInv, CreditBounded
<1>12. PaidIffCompleted'
  BY <1>4, <1>7 DEF IInv, PaidIffCompleted
<1>13. AuditFindsNothing'
  BY <1>3, <1>4, <1>7 DEF IInv, AuditFindsNothing, Over
<1>14. \A i \in Job : RowInv(i)'
  BY <1>4 DEF IInv, RowInv
<1>15. \A m \in Reservation : KeyInv(m)'
  BY <1>3, <1>4, <1>7 DEF IInv, KeyInv
<1>16. ASSUME NEW x \in Request PROVE RequestInv(x)'
  <2>1. RequestInv(x) /\ KeyOf[x] \in Reservation
    BY RequestAssumption DEF IInv
  <2> QED BY <1>4, <1>7, <1>9, <2>1 DEF RequestInv
<1> QED BY <1>10, <1>11, <1>12, <1>13, <1>14, <1>15, <1>16 DEF IInv

-----------------------------------------------------------------------------
(* The theorems.                                                            *)

\* The first state: no jobs, no reservations, all requests still to come.
LEMMA InitIInv == Init => IInv
<1> SUFFICES ASSUME Init PROVE IInv
  OBVIOUS
<1>1. job \in [Job -> JobRow] /\ \A j \in Job : /\ job[j].state = "absent" /\ job[j].pays = None
                                                /\ job[j].leaseLive = FALSE
  <2>1. AbsentJob \in JobRow
    <3>1. 0 \in 0 .. MaxAttempts
      BY LaneAssumption
    <3> QED BY <3>1 DEF AbsentJob, JobRow, JobState
  <2> QED BY <2>1 DEF Init, LaneInit, AbsentJob
<1>2. /\ ledger \in [Reservation -> LedgerRow]
      /\ \A k \in Reservation : ledger[k].status = "none" /\ ledger[k].job = None
  BY DEF Init, LaneInit, LedgerRow
<1>3. balance \in Nat /\ balance = Credits /\ lane \in [Lane -> LaneState]
  BY LaneAssumption DEF Init, LaneInit, LaneState
<1>4. /\ request \in [Request -> RequestState] /\ \A r \in Request : request[r].at = "new"
      /\ locale \in Locale /\ reports \subseteq Job
  BY DEF Init, RequestState, LedgerRow, Step, Locale
<1>5. TypeOK
  BY <1>1, <1>2, <1>3, <1>4 DEF TypeOK, LaneTypeOK
<1>6. Held = {} /\ IsFiniteSet(Held) /\ CreditBounded
  <2>1. Held = {}
    BY <1>2 DEF Held
  <2> QED BY <1>3, <2>1, FS_EmptySet DEF CreditBounded
<1>7. PaidIffCompleted /\ AuditFindsNothing
  BY <1>1, <1>2 DEF PaidIffCompleted, AuditFindsNothing, Over
<1>8. /\ \A j \in Job : RowInv(j)
      /\ \A k \in Reservation : KeyInv(k)
      /\ \A r \in Request : RequestInv(r)
  <2>1. None \notin Reservation
    BY LaneAssumption
  <2> QED BY <1>1, <1>2, <1>4, <2>1 DEF RowInv, KeyInv, RequestInv
<1> QED BY <1>5, <1>6, <1>7, <1>8 DEF IInv

\* The steps that the queue takes without the requests.
LEMMA WorkerKeeps ==
  ASSUME IInv, (\E w \in Lane : WorkerStep(w)) \/ (\E j \in Job : TimePasses(j))
  PROVE  IInv'
<1>0. LaneInv /\ request \in [Request -> RequestState] /\ locale \in Locale /\ reports \subseteq Job
  BY DEF IInv, TypeOK, LaneInv
<1>1. ASSUME LaneEffect, UNCHANGED upgradeVars PROVE IInv'
  BY <1>0, <1>1, EffectKeeps DEF upgradeVars
<1>2. ASSUME NEW w \in Lane, LaneStep(w), UNCHANGED upgradeVars PROVE IInv'
  BY <1>0, <1>1, <1>2, LaneStepEffect
<1>3. ASSUME NEW j \in Job, TimePasses(j) PROVE IInv'
  BY <1>0, <1>1, <1>3, LaneStepEffect DEF TimePasses
<1>4. ASSUME NEW w \in Lane, NEW outcome \in Outcome, Terminalize(w, outcome) PROVE IInv'
  BY <1>0, <1>1, <1>4, TerminalizeEffect DEF Terminalize
<1>5. ASSUME NEW w \in Lane, PersistAiReport(w) PROVE IInv'
  <2>1. LaneEffect /\ UNCHANGED <<request, locale>>
    BY <1>5, NoEffect DEF PersistAiReport
  <2>2. reports' \subseteq Job
    BY <1>0, <1>5 DEF PersistAiReport, LaneInv, LaneTypeOK, LaneState
  <2> QED BY <1>0, <2>1, <2>2, EffectKeeps
<1> QED BY <1>2, <1>3, <1>4, <1>5 DEF WorkerStep

\* The inductive invariant: a reservation and its job agree about each other
\* whatever the route, the worker and the maintenance have done so far.
THEOREM Invariant == Spec => []IInv
<1>1. ASSUME IInv, [Next]_vars PROVE IInv'
  <2>1. CASE UNCHANGED vars
    <3>1. UNCHANGED laneVars /\ UNCHANGED upgradeVars
      BY <2>1 DEF vars
    <3> QED BY <1>1, <3>1, NoEffect, EffectKeeps DEF upgradeVars, IInv, TypeOK
  <2>2. ASSUME NEW r \in Request, RequestStep(r) PROVE IInv'
    BY <1>1, <2>2, QuietRequestKeeps, ReserveKeeps, EnqueueKeeps, AttachKeeps, RefundKeeps
       DEF RequestStep
  <2> QED BY <1>1, <2>1, <2>2, WorkerKeeps DEF Next
<1> QED BY <1>1, InitIInv, PTL DEF Spec

\* The tables, what the requests remember, and the workers keep their types.
THEOREM TypesKept == Spec => []TypeOK
BY Invariant, PTL DEF IInv

\* The key never has more credits than it was sold.
THEOREM CreditsBounded == Spec => []CreditBounded
BY Invariant, PTL DEF IInv

\* A credit is spent exactly for a completed job.
THEOREM CreditSpentIffCompleted == Spec => []PaidIffCompleted
BY Invariant, PTL DEF IInv

\* The audit of credits.ts never has a result.
THEOREM AuditEmpty == Spec => []AuditFindsNothing
BY Invariant, PTL DEF IInv

-----------------------------------------------------------------------------
(* What a step may not do.                                                  *)

\* The end of a reservation and of a job is final, in whatever order the route,
\* the worker and the maintenance reach them: nothing that was charged is given
\* back, and nothing that was given back is charged.
EndsKept ==
  /\ \A k \in Reservation : ledger[k].status \in {"settled", "refunded"}
                               => ledger'[k].status = ledger[k].status
  /\ \A j \in Job : Over(j) => job'[j].state = job[j].state /\ job'[j].pays = job[j].pays
EndsAreFinal == [][EndsKept]_vars

\* The statements of the route leave the ends alone.
LEMMA RequestEnds ==
  ASSUME IInv, NEW r \in Request, RequestStep(r)
  PROVE  EndsKept
<1> USE DEF EndsKept
<1>0. /\ ledger \in [Reservation -> LedgerRow] /\ job \in [Job -> JobRow]
      /\ KeyOf[r] \in Reservation
  BY RequestAssumption DEF IInv, TypeOK, LaneTypeOK
<1>1. CASE ReadReport(r) \/ SettleLocale(r) \/ WriteFails(r) \/ RequestDies(r)
  BY <1>1 DEF ReadReport, SettleLocale, WriteFails, RequestDies, laneVars
<1>2. CASE ReserveCredit(r)
  BY <1>0, <1>2 DEF ReserveCredit, creditVars
<1>3. ASSUME NEW j \in Job, EnqueueScanJob(r, j)
      PROVE  /\ ledger' = ledger
             /\ \A i \in Job : Over(i) => job'[i] = job[i]
  BY <1>0, <1>3 DEF EnqueueScanJob, NextJob, Over, creditVars
<1>4. CASE AttachReservationToJob(r)
  <2>1. request[r].job \in Job /\ job[request[r].job].pays = KeyOf[r]
    BY <1>4 DEF AttachReservationToJob, IInv, RequestInv, TypeOK, RequestState
  <2>2. \A k \in Reservation : ledger'[k].status = ledger[k].status
    BY <1>0, <1>4 DEF AttachReservationToJob, LedgerRow
  <2>3. \A j \in Job : job'[j].state = job[j].state /\ job'[j].pays = job[j].pays
    BY <1>0, <1>4, <2>1 DEF AttachReservationToJob, JobRow
  <2> QED BY <2>2, <2>3
<1>5. CASE RefundCredit(r)
  BY <1>0, <1>5 DEF RefundCredit, Refunded, creditVars
<1> QED BY <1>1, <1>2, <1>3, <1>4, <1>5 DEF RequestStep

\* Reservations and jobs end once.
THEOREM EndsStayFinal == Spec => EndsAreFinal
<1>1. ASSUME IInv, [Next]_vars PROVE EndsKept
  <2>0. LaneInv
    BY <1>1 DEF IInv, TypeOK, LaneInv
  <2>1. ASSUME LaneEffect PROVE EndsKept
    BY <2>1 DEF LaneEffect, KeyEffect, JobEffect, EndsKept
  <2>2. CASE UNCHANGED laneVars
    BY <1>1, <2>1, <2>2, NoEffect
  <2>3. ASSUME NEW w \in Lane, WorkerStep(w) PROVE EndsKept
    <3>1. CASE LaneStep(w)
      BY <2>0, <2>1, <3>1, LaneStepEffect
    <3>2. CASE PersistAiReport(w)
      BY <2>2, <3>2 DEF PersistAiReport
    <3>3. ASSUME NEW outcome \in Outcome, Terminalize(w, outcome) PROVE EndsKept
      BY <2>0, <2>1, <3>3, TerminalizeEffect DEF Terminalize
    <3> QED BY <2>3, <3>1, <3>2, <3>3 DEF WorkerStep
  <2>4. ASSUME NEW j \in Job, TimePasses(j) PROVE EndsKept
    BY <2>0, <2>1, <2>4, LaneStepEffect DEF TimePasses
  <2>5. ASSUME NEW r \in Request, RequestStep(r) PROVE EndsKept
    BY <1>1, <2>5, RequestEnds
  <2> QED BY <1>1, <2>2, <2>3, <2>4, <2>5 DEF Next, vars
<1> QED BY <1>1, Invariant, PTL DEF Spec, EndsAreFinal
==============================================================================
