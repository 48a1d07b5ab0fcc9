----------------------------- MODULE PaidOrders -----------------------------
(***************************************************************************)
(* A paid order from the payment event to the report or the refund: the    *)
(* rows of payment_orders, scan_jobs, credit_ledger, payment_refunds and    *)
(* the failure e-mail, written by webhooks, workers and the commerce run.  *)
(*                                                                         *)
(* Each action is one transaction of db/commercial-refunds.ts or one call  *)
(* of the payment provider.  The life of the job inside its lease is the    *)
(* matter of ScanJobs: here a job is open until its terminal transaction.   *)
(***************************************************************************)
EXTENDS Integers

CONSTANTS
  Order,        \* payment_orders rows
  V4,           \* the orders under the contract combined_geo_report_v4
  Legacy,       \* the orders of the retired product deep_report_v1
  Reopenable,   \* the orders whose failed checkpoint can be recovered
  Run,          \* processes that submit refunds (commerce:refunds)
  None,         \* no process, no order
  MaxAttempts   \* attempts of a refund after which an error is final

ASSUME ContractAssumption == /\ V4 \subseteq Order /\ Legacy \subseteq Order \ V4
                             /\ Reopenable \subseteq Order
ASSUME NobodyAssumption == None \notin Run \cup Order
ASSUME AttemptsAssumption == MaxAttempts \in Nat \ {0}

VARIABLES
  order,    \* [Order -> OrderRow]: the table payment_orders
  job,      \* [Order -> JobState]: stage of the fulfillment job
  bound,    \* [Order -> BOOLEAN]: scan_jobs.credit_reservation_id is set
  credit,   \* [Order -> CreditStatus]: the credit_ledger row of the order
  key,      \* [Order -> Int]: credits_remaining of the order's internal key
  refund,   \* [Order -> RefundRow]: the table payment_refunds
  mail,     \* [Order -> MailState]: the e-mail that promises the refund
  provider, \* [Order -> ProviderState]: the refund at the payment provider
  recovery, \* [Order -> RecoveryState]: the recovery of the order's failed job
  run       \* [Run -> RunState]: what a refund process holds in memory

orderVars == <<order, job, bound, credit, key, recovery>>
refundVars == <<refund, provider, run>>
vars == <<order, job, bound, credit, key, recovery, refund, mail, provider, run>>

TerminalOutcome == {"completed", "completed_limited", "failed"}
JobState == {"none", "open"} \cup TerminalOutcome
CreditStatus == {"none", "reserved", "settled", "refunded"}
MailState == {"none", "queued", "sending", "sent"}  \* sending: accepted, not yet marked
ProviderState == {"none", "accepted", "rejected"}
Answer == {"none", "submitted", "succeeded", "error"}

\* A recovery that has read the refund waits for the lock of the order; "overtaken",
\* which no guard asks for, remembers that the refund went on its way meanwhile.
RecoveryState == {"none", "waiting", "overtaken"}

OrderRow == [payment : {"open", "paid", "failed", "cancelled"},  \* open: created, pending
             fulfillment : {"not_started", "queued"} \cup TerminalOutcome,
             refund : {"not_required", "pending", "submitted", "refunded", "failed"},
             courtesy : BOOLEAN,
             deadline : {"none", "ahead", "passed"},
             retire : {"no", "cutoff", "retired"}]   \* legacy_retirement_cutoff_at, _retired_at

RefundRow == [state : {"none", "pending", "submitted", "succeeded", "failed"},
              owner : Run \cup {None},
              live : BOOLEAN,              \* lease_expires_at > now()
              due : BOOLEAN,               \* next_retry_at <= now()
              attempts : 0 .. MaxAttempts] \* saturates: only >= MaxAttempts is tested

RunState == [pc : {"idle", "calling", "answered", "marking", "failing"},
             order : Order \cup {None},
             answer : Answer,
             final : BOOLEAN]              \* the error is not retried

NoRefund == [state |-> "none", owner |-> None, live |-> FALSE, due |-> TRUE, attempts |-> 0]
NewRefund == [NoRefund EXCEPT !.state = "pending"]
IdleRun == [pc |-> "idle", order |-> None, answer |-> "none", final |-> FALSE]

Init == /\ order = [o \in Order |-> [payment |-> "open", fulfillment |-> "not_started",
                                     refund |-> "not_required", courtesy |-> FALSE,
                                     deadline |-> "none", retire |-> "no"]]
        /\ job = [o \in Order |-> "none"]
        /\ bound = [o \in Order |-> FALSE]
        /\ credit = [o \in Order |-> "none"]
        /\ key = [o \in Order |-> 0]
        /\ refund = [o \in Order |-> NoRefund]
        /\ mail = [o \in Order |-> "none"]
        /\ provider = [o \in Order |-> "none"]
        /\ recovery = [o \in Order |-> "none"]
        /\ run = [p \in Run |-> IdleRun]

Over(o) == order[o].fulfillment \in TerminalOutcome

\* INSERT ... ON CONFLICT (order_id) DO NOTHING.
WithRefund(row) == IF row.state = "none" THEN NewRefund ELSE row

\* refund_status = CASE WHEN 'not_required' THEN 'pending' ELSE refund_status.
RefundDue(status) == IF status = "not_required" THEN "pending" ELSE status

-----------------------------------------------------------------------------
(* Payment events.  A webhook may deliver any of them late and repeatedly.  *)

\* Mutant of PaidOrder: a repeated event starts the fulfillment again.
PaidOrderAgain(row) == [row EXCEPT !.payment = "paid", !.fulfillment = "queued",
                                   !.deadline = "ahead"]

PaidOrder(row) ==
  [row EXCEPT !.payment = "paid",
              !.fulfillment = IF @ = "not_started" THEN "queued" ELSE @,
              !.deadline = IF @ = "none" THEN "ahead" ELSE @]

\* Mutant of Retired: only the time of the event counts.
RetiredByTime(o, late) == o \in Legacy /\ order[o].retire # "no" /\ late

\* lateRetiredLegacyPayment: the event is later than the cutoff of its order, or
\* the order is retired.
Retired(o, late) == /\ o \in Legacy /\ order[o].retire # "no"
                    /\ late \/ order[o].retire = "retired"

\* The order can still be paid: it is not cancelled or failed, unless it was
\* cancelled after a payment made before the cutoff.
Payable(o) == \/ order[o].payment \in {"open", "paid"}
              \/ order[o].payment = "cancelled" /\ o \in Legacy /\ order[o].retire # "no"

\* Mutant of ApplyPaidPaymentEvent: a repeated event binds the job again.
ApplyPaidPaymentEventRebinding(o, late) ==
  /\ ~Retired(o, late) /\ Payable(o)
  /\ order' = [order EXCEPT ![o] = PaidOrder(order[o])]
  /\ job' = [job EXCEPT ![o] = IF @ = "none" THEN "open" ELSE @]
  /\ bound' = [bound EXCEPT ![o] = TRUE]
  /\ credit' = [credit EXCEPT ![o] = IF @ = "none" THEN "reserved" ELSE @]
  /\ UNCHANGED <<key, recovery, refundVars, mail>>

\* applyPaidPaymentEvent, applyReportV4PaidPaymentEvent: the entitlement, the
\* reservation and the job are created once.  The V4 boundary refuses the event
\* when the job no longer names the reservation.
ApplyPaidPaymentEvent(o, late) ==
  /\ ~Retired(o, late) /\ Payable(o)
  /\ o \in V4 /\ job[o] # "none" => bound[o]
  /\ order' = [order EXCEPT ![o] = PaidOrder(order[o])]
  /\ job' = [job EXCEPT ![o] = IF @ = "none" THEN "open" ELSE @]
  /\ bound' = [bound EXCEPT ![o] = IF job[o] = "none" THEN TRUE ELSE @]
  /\ credit' = [credit EXCEPT ![o] = IF @ = "none" THEN "reserved" ELSE @]
  /\ UNCHANGED <<key, recovery, refundVars, mail>>

RetiredOrder(row) == [row EXCEPT !.payment = "paid", !.fulfillment = "failed",
                                 !.refund = RefundDue(@), !.courtesy = TRUE]

\* applyPaidPaymentEvent for a retired order: the money goes back.
ApplyRetiredPaymentEvent(o, late) ==
  /\ Retired(o, late)
  /\ order' = [order EXCEPT ![o] = RetiredOrder(order[o])]
  /\ refund' = [refund EXCEPT ![o] = WithRefund(refund[o])]
  /\ UNCHANGED <<job, bound, credit, key, recovery, mail, provider, run>>

\* prepareLegacyUnpaidOrderRetirement.
PrepareRetirement(o) ==
  /\ o \in Legacy /\ order[o].payment = "open" /\ order[o].retire = "no"
  /\ order' = [order EXCEPT ![o].retire = "cutoff"]
  /\ UNCHANGED <<job, bound, credit, key, recovery, refundVars, mail>>

\* finalizeLegacyUnpaidOrderRetirement, once the provider has withdrawn the checkout.
FinalizeRetirement(o) ==
  /\ o \in Legacy /\ order[o].payment = "open" /\ order[o].retire = "cutoff"
  /\ order' = [order EXCEPT ![o].payment = "cancelled", ![o].retire = "retired"]
  /\ UNCHANGED <<job, bound, credit, key, recovery, refundVars, mail>>

\* applyUnsuccessfulPaymentEvent: ignored on an order that is paid already.
ApplyUnsuccessfulPaymentEvent(o, status) ==
  /\ order[o].payment = "open"
  /\ order' = [order EXCEPT ![o].payment = status]
  /\ UNCHANGED <<job, bound, credit, key, recovery, refundVars, mail>>

-----------------------------------------------------------------------------
(* The end of the job and its commercial outcome: in two transactions, or in  *)
(* one for the contracts that terminalize the order with the job.           *)

\* terminalCreditStatus.
TerminalCredit(outcome) == IF outcome = "completed" THEN "settled" ELSE "refunded"

\* The reservation of job o is settled, or returned to the internal key.
SettleCredit(o, outcome) ==
  LET settles == bound[o] /\ credit[o] = "reserved"
  IN /\ credit' = [credit EXCEPT ![o] = IF settles THEN TerminalCredit(outcome) ELSE @]
     /\ key' = [key EXCEPT ![o] = IF settles /\ TerminalCredit(outcome) = "refunded"
                                  THEN @ + 1 ELSE @]

\* terminalizeScanJob by the worker, or the exhaustion of the job's attempts; of
\* a V4 job only the latter.
TerminalizeJob(o, outcome) ==
  /\ job[o] = "open"
  /\ o \in V4 => outcome = "failed"
  /\ bound[o] => credit[o] \in {"reserved", TerminalCredit(outcome)}
  /\ job' = [job EXCEPT ![o] = outcome]
  /\ SettleCredit(o, outcome)
  /\ UNCHANGED <<order, bound, recovery, refundVars, mail>>

\* Mutant of Refundable: a limited report is charged.
RefundableFailureOnly(outcome) == outcome = "failed"

Refundable(outcome) == outcome # "completed"

FulfilledOrder(row, outcome) ==
  [row EXCEPT !.fulfillment = outcome,
              !.refund = IF Refundable(outcome) THEN RefundDue(@) ELSE @]

\* The order, its refund and its e-mail after the outcome of the job.
FulfillOrder(o, outcome) ==
  /\ order' = [order EXCEPT ![o] = FulfilledOrder(order[o], outcome)]
  /\ refund' = [refund EXCEPT ![o] = IF Refundable(outcome) THEN WithRefund(refund[o]) ELSE @]
  /\ mail' = [mail EXCEPT ![o] = IF Refundable(outcome) /\ @ = "none" THEN "queued" ELSE @]
  /\ UNCHANGED <<provider, run>>

\* recordPaidJobOutcome: by the worker after its terminal write, and by
\* reconcilePaidJobOutcomes for what a crash left behind.
RecordPaidJobOutcome(o) ==
  /\ order[o].payment = "paid"
  /\ job[o] \in TerminalOutcome
  /\ Over(o) => order[o].fulfillment = job[o]
  /\ FulfillOrder(o, job[o])
  /\ UNCHANGED <<job, bound, credit, key, recovery>>

\* terminalizePaidReportV4Core, terminalizeFailedPaidReportV4Core and, for the
\* other contracts, terminalizePaidPublicSourceReport: both in one transaction.
TerminalizePaidReport(o, outcome) ==
  /\ o \notin Legacy /\ job[o] = "open" /\ order[o].payment = "paid"
  /\ bound[o] => credit[o] = "reserved"
  /\ o \in V4 => bound[o] /\ order[o].fulfillment = "queued" /\ order[o].refund = "not_required"
  /\ job' = [job EXCEPT ![o] = outcome]
  /\ SettleCredit(o, outcome)
  /\ FulfillOrder(o, outcome)
  /\ UNCHANGED <<bound, recovery>>

\* Mutant of SlaMissed: the state of the job is not read.
SlaMissedUnchecked(o) ==
  /\ order[o].payment = "paid" /\ order[o].deadline = "passed"
  /\ ~order[o].courtesy /\ ~Over(o)

SlaMissed(o) ==
  /\ order[o].payment = "paid" /\ order[o].deadline = "passed"
  /\ ~order[o].courtesy /\ ~Over(o)
  /\ job[o] = "open"

LateOrder(row) == [row EXCEPT !.refund = RefundDue(@), !.courtesy = TRUE]

\* expirePaidOrderSla: the job is failed under its worker, the reservation is
\* given up without crediting the internal key, and a refund is due.
ExpirePaidOrderSla(o) ==
  /\ SlaMissed(o)
  /\ refund' = [refund EXCEPT ![o] = WithRefund(refund[o])]
  /\ credit' = [credit EXCEPT ![o] = IF @ = "reserved" THEN "refunded" ELSE @]
  /\ job' = [job EXCEPT ![o] = IF bound[o] THEN "failed" ELSE @]
  /\ bound' = [bound EXCEPT ![o] = FALSE]
  /\ order' = [order EXCEPT ![o] = LateOrder(order[o])]
  /\ UNCHANGED <<key, recovery, mail, provider, run>>

DeadlinePasses(o) ==
  /\ order[o].deadline = "ahead"
  /\ order' = [order EXCEPT ![o].deadline = "passed"]
  /\ UNCHANGED <<job, bound, credit, key, recovery, refundVars, mail>>

\* What the recovery asks of the job and the order, the rows it locks.
Recoverable(o) ==
  /\ o \in Reopenable
  /\ job[o] = "failed" /\ order[o].payment = "paid" /\ order[o].fulfillment = "failed"
  /\ order[o].deadline = "ahead"

\* Mutant of Undecided: a refund that is on its way is called off as well.
UndecidedOrNot(o) == credit[o] = "refunded"

\* What it asks of the rows it reads without a lock.  Neither the refund's lease nor
\* refund_status of the order is looked at.
Undecided(o) == refund[o].state = "pending" /\ credit[o] = "refunded"

\* recoverHistoricalPaidJob, the SELECT: its snapshot is taken before the locks of job
\* and order are free.  (A job or order that fails the test now fails it later too.)
ReadForRecovery(o) ==
  /\ recovery[o] = "none"
  /\ Recoverable(o) /\ Undecided(o)
  /\ recovery' = [recovery EXCEPT ![o] = "waiting"]
  /\ UNCHANGED <<order, job, bound, credit, key, refundVars, mail>>

\* It throws, or is the victim of a deadlock with a mark of the refund.
RefuseRecovery(o) ==
  /\ recovery[o] = "waiting"
  /\ recovery' = [recovery EXCEPT ![o] = "none"]
  /\ UNCHANGED <<order, job, bound, credit, key, refundVars, mail>>

\* Mutant of Debited: the capacity is not taken back.
DebitedNothing(balance) == balance

Debited(balance) == balance - 1

ReopenedOrder(row) == [row EXCEPT !.fulfillment = "queued", !.refund = "not_required"]

\* Mutant of WithoutPending: the DELETE does not look at the state.
WithoutAny(row) == NoRefund

\* DELETE FROM payment_refunds WHERE state = 'pending': whether it finds the row is
\* not looked at.
WithoutPending(row) == IF row.state = "pending" THEN NoRefund ELSE row

\* recoverHistoricalPaidJob with both locks: job and order as they are now, refund
\* and credit as they were read.  (A mark of the refund that comes between the locks
\* and the DELETE waits for the order, and one of the two is aborted.)
RecoverHistoricalPaidJob(o) ==
  /\ recovery[o] = "waiting"
  /\ Recoverable(o)
  /\ key[o] >= 1 /\ mail[o] # "sent"
  /\ recovery' = [recovery EXCEPT ![o] =
                     IF refund[o].state = "pending" THEN "none" ELSE "overtaken"]
  /\ key' = [key EXCEPT ![o] = Debited(key[o])]
  /\ mail' = [mail EXCEPT ![o] = "none"]
  /\ refund' = [refund EXCEPT ![o] = WithoutPending(refund[o])]
  /\ credit' = [credit EXCEPT ![o] = IF @ = "refunded" THEN "reserved" ELSE @]
  /\ order' = [order EXCEPT ![o] = ReopenedOrder(order[o])]
  /\ job' = [job EXCEPT ![o] = "open"]
  /\ bound' = [bound EXCEPT ![o] = TRUE]
  /\ UNCHANGED <<provider, run>>

-----------------------------------------------------------------------------
(* The refund at the provider: claim, call, mark.                           *)

\* Mutant of Claimable: a lease that ran out is not taken over.
ClaimableOnce(row) == row.state = "pending" /\ row.due /\ row.owner = None

Claimable(row) == row.state = "pending" /\ row.due /\ ~row.live

Attempted(n) == IF n < MaxAttempts THEN n + 1 ELSE MaxAttempts
LeasedRefund(row, p) == [row EXCEPT !.owner = p, !.live = TRUE, !.attempts = Attempted(@)]
Released(row) == [row EXCEPT !.owner = None, !.live = FALSE]

\* claimPendingRefunds, one refund of the batch.
ClaimPendingRefund(p, o) ==
  /\ run[p].pc = "idle"
  /\ Claimable(refund[o])
  /\ refund' = [refund EXCEPT ![o] = LeasedRefund(refund[o], p)]
  /\ run' = [run EXCEPT ![p] = [pc |-> "calling", order |-> o, answer |-> "none",
                                final |-> Attempted(refund[o].attempts) >= MaxAttempts]]
  /\ UNCHANGED <<orderVars, mail, provider>>

AnsweredRun(r, answer, permanent) ==
  [r EXCEPT !.pc = IF answer = "error" THEN "failing" ELSE "answered",
            !.answer = answer,
            !.final = @ \/ (answer = "error" /\ permanent)]

\* submitRefund, the call: the idempotency key makes a second request the same
\* refund, and an error leaves open whether the provider has accepted it.
RequestRefund(p, answer, permanent) ==
  LET o == run[p].order IN
  /\ run[p].pc = "calling"
  /\ provider' \in {[provider EXCEPT ![o] = IF @ = "none" THEN s ELSE @] : s \in ProviderState}
  /\ answer \in {"submitted", "succeeded"} => provider'[o] = "accepted"
  /\ run' = [run EXCEPT ![p] = AnsweredRun(run[p], answer, permanent)]
  /\ UNCHANGED <<orderVars, mail, refund>>

\* Mutant of Fenced: the owner alone decides.
FencedByNobody(p, o) == refund[o].state \in {"pending", "submitted"}

\* The lease of refund o is still that of process p.
Fenced(p, o) == refund[o].owner = p /\ refund[o].live

SubmittedRefund(row) == [Released(row) EXCEPT !.state = "submitted"]

\* markRefundSubmitted; when it finds no row the run goes to its error path.
MarkRefundSubmitted(p) ==
  LET o == run[p].order
      marked == Fenced(p, o) /\ refund[o].state \in {"pending", "submitted"}
  IN /\ run[p].pc = "answered"
     /\ IF marked
        THEN /\ refund' = [refund EXCEPT ![o] = SubmittedRefund(refund[o])]
             /\ order' = [order EXCEPT ![o].refund =
                            IF @ \in {"pending", "submitted"} THEN "submitted" ELSE @]
        ELSE UNCHANGED <<refund, order>>
     /\ run' = IF ~marked THEN [run EXCEPT ![p].pc = "failing"]
               ELSE IF run[p].answer = "succeeded" THEN [run EXCEPT ![p].pc = "marking"]
               ELSE [run EXCEPT ![p] = IdleRun]
     /\ UNCHANGED <<job, bound, credit, key, recovery, mail, provider>>

SucceededRefund(row) ==
  IF row.state \in {"pending", "submitted", "succeeded"}
  THEN [Released(row) EXCEPT !.state = "succeeded"] ELSE row

\* Mutant of Succeed: the order is left to a later reconciliation.
SucceedRefundOnly(o) ==
  /\ refund' = [refund EXCEPT ![o] = SucceededRefund(refund[o])]
  /\ UNCHANGED order

\* markRefundSucceeded: neither owner nor lease is asked for.
Succeed(o) ==
  /\ refund' = [refund EXCEPT ![o] = SucceededRefund(refund[o])]
  /\ order' = [order EXCEPT ![o].refund =
                 IF /\ refund[o].state \in {"pending", "submitted", "succeeded"}
                    /\ @ \in {"pending", "submitted", "refunded"}
                 THEN "refunded" ELSE @]

MarkRefundSucceeded(p) ==
  /\ run[p].pc = "marking"
  /\ Succeed(run[p].order)
  /\ run' = [run EXCEPT ![p] = IdleRun]
  /\ UNCHANGED <<job, bound, credit, key, recovery, mail, provider>>

\* Mutant of RefundEvent: the status in the event is not read.
RefundEventOfAnyStatus(o) ==
  /\ provider[o] # "none"
  /\ Succeed(o)
  /\ UNCHANGED <<job, bound, credit, key, recovery, mail, provider, run>>

\* markRefundSucceededFromProvider, for the webhook of an accepted refund.
RefundEvent(o) ==
  /\ provider[o] = "accepted"
  /\ Succeed(o)
  /\ UNCHANGED <<job, bound, credit, key, recovery, mail, provider, run>>

FailedRefund(row) == [Released(row) EXCEPT !.state = "failed"]
BackedOffRefund(row) == [Released(row) EXCEPT !.due = FALSE]

\* markRefundFailed on a final error.
MarkRefundFailed(p) ==
  LET o == run[p].order
      marked == Fenced(p, o) /\ refund[o].state \in {"pending", "submitted"}
  IN /\ run[p].pc = "failing" /\ run[p].final
     /\ refund' = [refund EXCEPT ![o] = IF marked THEN FailedRefund(refund[o]) ELSE @]
     /\ order' = [order EXCEPT ![o].refund =
                    IF marked /\ @ \in {"pending", "submitted"} THEN "failed" ELSE @]
     /\ run' = [run EXCEPT ![p] = IdleRun]
     /\ UNCHANGED <<job, bound, credit, key, recovery, mail, provider>>

\* scheduleRefundRetry on any other error.
ScheduleRefundRetry(p) ==
  LET o == run[p].order IN
  /\ run[p].pc = "failing" /\ ~run[p].final
  /\ refund' = [refund EXCEPT ![o] = IF Fenced(p, o) /\ refund[o].state = "pending"
                                     THEN BackedOffRefund(refund[o]) ELSE @]
  /\ run' = [run EXCEPT ![p] = IdleRun]
  /\ UNCHANGED <<orderVars, mail, provider>>

CrashRun(p) ==
  /\ run[p].pc # "idle"
  /\ run' = [run EXCEPT ![p] = IdleRun]
  /\ UNCHANGED <<orderVars, mail, refund, provider>>

LeaseExpires(o) ==
  /\ refund[o].live
  /\ refund' = [refund EXCEPT ![o].live = FALSE]
  /\ UNCHANGED <<orderVars, mail, provider, run>>

BackoffElapses(o) ==
  /\ ~refund[o].due
  /\ refund' = [refund EXCEPT ![o].due = TRUE]
  /\ UNCHANGED <<orderVars, mail, provider, run>>

\* sendDelivery of the failure e-mail: the provider takes it, then it is marked.
SendPromise(o) ==
  /\ mail[o] = "queued"
  /\ mail' = [mail EXCEPT ![o] = "sending"]
  /\ UNCHANGED <<orderVars, refundVars>>

MarkPromiseSent(o) ==
  /\ mail[o] = "sending"
  /\ mail' = [mail EXCEPT ![o] = "sent"]
  /\ UNCHANGED <<orderVars, refundVars>>

-----------------------------------------------------------------------------
OrderStep(o) ==
  \/ \E late \in BOOLEAN : ApplyPaidPaymentEvent(o, late) \/ ApplyRetiredPaymentEvent(o, late)
  \/ PrepareRetirement(o)
  \/ FinalizeRetirement(o)
  \/ \E status \in {"failed", "cancelled"} : ApplyUnsuccessfulPaymentEvent(o, status)
  \/ \E outcome \in TerminalOutcome : \/ TerminalizeJob(o, outcome)
                                        \/ TerminalizePaidReport(o, outcome)
  \/ RecordPaidJobOutcome(o)
  \/ ExpirePaidOrderSla(o)
  \/ DeadlinePasses(o)
  \/ ReadForRecovery(o)
  \/ RecoverHistoricalPaidJob(o)
  \/ RefuseRecovery(o)
  \/ RefundEvent(o)
  \/ LeaseExpires(o)
  \/ BackoffElapses(o)
  \/ SendPromise(o)
  \/ MarkPromiseSent(o)

RequestStep(p) == \E answer \in Answer \ {"none"}, permanent \in BOOLEAN :
                    RequestRefund(p, answer, permanent)

WorkStep(p) ==
  \/ RequestStep(p)
  \/ MarkRefundSubmitted(p)
  \/ MarkRefundSucceeded(p)
  \/ MarkRefundFailed(p)
  \/ ScheduleRefundRetry(p)

RunStep(p) == (\E o \in Order : ClaimPendingRefund(p, o)) \/ WorkStep(p) \/ CrashRun(p)

Next == (\E o \in Order : OrderStep(o)) \/ (\E p \in Run : RunStep(p))

Spec == Init /\ [][Next]_vars

\* The lease of the refund that process p works on has not run out.
InTime(p) == run[p].order \in Order /\ Fenced(p, run[p].order)

\* commerce:all runs after every batch and from the commerce worker: outcomes
\* are reconciled, the deadline is enforced and refunds are claimed.  A process
\* may die or outlive its lease of 120 seconds, but not each time.  The clock
\* moves, and the provider repeats a webhook until it is acknowledged.
Fairness ==
  /\ \A o \in Order : /\ WF_vars(RecordPaidJobOutcome(o))
                      /\ WF_vars(ExpirePaidOrderSla(o))
                      /\ WF_vars(DeadlinePasses(o))
                      /\ WF_vars(LeaseExpires(o))
                      /\ WF_vars(BackoffElapses(o))
                      /\ WF_vars(RefundEvent(o))
                      /\ \A p \in Run : SF_vars(ClaimPendingRefund(p, o))
  /\ \A p \in Run : /\ WF_vars(WorkStep(p))
                    /\ SF_vars(InTime(p) /\ RequestStep(p))
                    /\ SF_vars(InTime(p) /\ MarkRefundSubmitted(p))
                    /\ SF_vars(InTime(p) /\ MarkRefundFailed(p))

FairSpec == Spec /\ Fairness

-----------------------------------------------------------------------------
(* Properties.                                                              *)

TypeOK == /\ order \in [Order -> OrderRow]
          /\ job \in [Order -> JobState]
          /\ bound \in [Order -> BOOLEAN]
          /\ credit \in [Order -> CreditStatus]
          /\ key \in [Order -> 0 .. 1]
          /\ refund \in [Order -> RefundRow]
          /\ mail \in [Order -> MailState]
          /\ provider \in [Order -> ProviderState]
          /\ recovery \in [Order -> RecoveryState]
          /\ run \in [Run -> RunState]

\* A recovery reopened the order over a refund that was no longer pending.
Overlooked(o) == recovery[o] = "overtaken"

\* The two tables tell the same story of the refund: refund_status of the order
\* and state of the refund row are written by guards of their own, by webhooks,
\* processes, the deadline and the recovery.  Only of an order reopened over a
\* refund on its way they do not: that refund is still there.
Mirror(state) == CASE state = "none" -> "not_required"
                   [] state = "succeeded" -> "refunded"
                   [] OTHER -> state
OrderMirrorsRefund ==
  \A o \in Order : IF Overlooked(o) THEN refund[o].state \in {"submitted", "succeeded", "failed"}
                   ELSE order[o].refund = Mirror(refund[o].state)

\* docs/COMMERCIAL-OPERATIONS.md:7: a paid order that is over without a complete
\* report has a refund, and so has every order whose deadline was enforced.  (Of
\* a retired product a late event sets the same courtesy flag, and a recovery
\* may reopen that order: RetiredStartsNothing says what such orders keep.)
NoReportNoCharge ==
  \A o \in Order :
    (\/ order[o].fulfillment \in {"completed_limited", "failed"}
     \/ order[o].courtesy /\ o \notin Legacy)
      => order[o].refund # "not_required"

\* A complete report is charged, and what is charged is a complete report with
\* nothing returned for it, unless a recovery overlooked the refund: the deadline
\* cannot overtake a worker that finished its job and not yet its order (for a
\* retired product a late event can).
ReportIsCharged ==
  \A o \in Order \ Legacy :
    /\ job[o] = "completed" => credit[o] = "settled"
    /\ credit[o] = "settled" => /\ job[o] = "completed" /\ ~order[o].courtesy /\ mail[o] = "none"
                                /\ refund[o].state = "none" \/ Overlooked(o)

\* The ledger and the internal key agree: the credit is either held by the job,
\* spent, or back on the key, except where the deadline has voided it.
CreditAccounted ==
  \A o \in Order :
    /\ credit[o] \in {"reserved", "settled"} => key[o] = 0
    /\ credit[o] = "refunded" => (key[o] = 1 <=> bound[o])
    /\ job[o] = "open" => credit[o] = "reserved" /\ bound[o]

\* "Refunded" is said only of money the provider has accepted to return.
RefundedIsReturned == \A o \in Order : order[o].refund = "refunded" => provider[o] = "accepted"

\* Money that arrives for a retired order starts nothing and goes back.
RetiredStartsNothing ==
  \A o \in Order : order[o].retire = "retired" /\ order[o].payment = "paid"
    => job[o] = "none" /\ credit[o] = "none" /\ refund[o].state # "none"

\* What the order says of its refund is what the refund row and the provider say.
RefundsAgree == OrderMirrorsRefund /\ RefundedIsReturned

\* Money for which there is no complete report goes back, whether the report is late,
\* limited or failed or its product was retired before the money came.
MoneyGoesBack == NoReportNoCharge /\ RetiredStartsNothing

\* A decided refund is never decided again nor removed, and a job that is over changes
\* only by the recovery: the refund was pending when it looked, so it is called off
\* or, if it went on its way meanwhile, it stays as it is beside the reopened job.
DecidedIsFinal ==
  [][\A o \in Order :
       /\ refund[o].state \in {"succeeded", "failed"} => refund'[o].state = refund[o].state
       /\ (job[o] \in TerminalOutcome /\ job'[o] # job[o])
            => \/ refund[o].state = "pending" /\ refund'[o].state = "none"
               \/ /\ refund[o].state \in {"submitted", "succeeded", "failed"}
                  /\ refund'[o] = refund[o] /\ recovery'[o] = "overtaken"]_vars

\* Repeated, late and reordered webhooks take nothing back from an order whose
\* product is not retired: once paid it stays paid, its deadline is not extended,
\* and a fulfillment that is over is reopened with its job only
\* (2026-07-10-commercial-report-delivery-design.md:246).
WebhooksDoNotRewind ==
  [][\A o \in Order \ Legacy :
       /\ order[o].payment = "paid" => order'[o].payment = "paid"
       /\ order[o].deadline = "passed" => order'[o].deadline = "passed"
       /\ (order[o].fulfillment \in TerminalOutcome
            /\ order'[o].fulfillment # order[o].fulfillment) => job'[o] = "open"]_vars

\* A refund process that lost its lease decides nothing about the refund; only
\* the provider's acceptance moves it without the lease.
StaleRunDecidesNothing ==
  [][\A p \in Run :
       (run[p].pc \in {"answered", "failing"} /\ run'[p] # run[p]
         /\ (refund[run[p].order].owner # p \/ ~refund[run[p].order].live))
           => refund' = refund /\ order' = order]_vars

\* What the books say of the customer's money and report: the money is where the
\* refund is, which refund_status says too unless a recovery overlooked it.
Money(row, state) == IF row.payment # "paid" THEN "none"
                     ELSE CASE state = "none" -> "held"
                            [] state = "pending" -> "owed"
                            [] state = "submitted" -> "requested"
                            [] state = "succeeded" -> "returned"
                            [] state = "failed" -> "given_up"
Report(row, look) ==
  CASE row.fulfillment = "not_started" -> "none"
    [] row.fulfillment = "queued" -> IF look = "overtaken" THEN "due_anyway" ELSE "due"
    [] row.fulfillment = "completed" -> "complete"
    [] OTHER -> IF look = "waiting" THEN "reopening" ELSE "short"

Promise == INSTANCE OrderPromise WITH
  Order <- Order \ Legacy,
  money <- [o \in Order \ Legacy |-> Money(order[o], refund[o].state)],
  report <- [o \in Order \ Legacy |-> Report(order[o], recovery[o])]

\* docs/COMMERCIAL-OPERATIONS.md:7: whatever crashes and however late an event
\* comes, an order follows OrderPromise: the complete report or the money back,
\* and one of them in the end; both only if a refund went on its way while a
\* recovery that had found it pending waited for its locks.  (Of a retired product
\* a late event refunds a fulfilled order: such orders are left out.)
PromiseKept == Promise!Spec
=============================================================================
