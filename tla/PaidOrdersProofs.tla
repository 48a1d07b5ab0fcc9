-------------------------- MODULE PaidOrdersProofs --------------------------
(***************************************************************************)
(* Safety of PaidOrders for every set of orders, contracts and processes.  *)
(* The invariant relates, order by order, the rows that different          *)
(* transactions write: what a webhook, the deadline or a worker may find.  *)
(***************************************************************************)
EXTENDS PaidOrders, TLAPS

-----------------------------------------------------------------------------
(* The inductive invariant.                                                 *)

\* The two tables agree about the refund, and the refund about the provider, unless
\* a recovery overlooked that the refund was on its way.
RefundAgrees(o) ==
  /\ recovery[o] = "overtaken" => refund[o].state \in {"submitted", "succeeded", "failed"}
  /\ recovery[o] # "overtaken" => order[o].refund = Mirror(refund[o].state)
  /\ refund[o].state = "succeeded" => provider[o] = "accepted"
  /\ order[o].refund = "refunded" => provider[o] = "accepted"

\* No report, or a deadline enforced: a refund, in both tables.
FailureRefunded(o) ==
  /\ order[o].fulfillment \in {"completed_limited", "failed"} =>
       refund[o].state # "none" /\ order[o].refund # "not_required"
  /\ order[o].courtesy /\ o \notin Legacy =>
       refund[o].state # "none" /\ order[o].refund # "not_required"

\* What a recovery that has read the refund may count on while it waits for its locks.
RecoveryAgrees(o) ==
  /\ recovery[o] # "none" => order[o].payment = "paid"
  /\ recovery[o] = "waiting" =>
       /\ job[o] = "failed" /\ credit[o] = "refunded"
       /\ order[o].fulfillment = "failed"

\* Where the credit is, by the state of the job.
CreditAgrees(o) ==
  /\ job[o] = "none" <=> credit[o] = "none"
  /\ credit[o] = "none" => key[o] = 0 /\ ~bound[o]
  /\ credit[o] \in {"reserved", "settled"} => key[o] = 0
  /\ credit[o] = "refunded" => (key[o] = 1 <=> bound[o])
  /\ job[o] = "open" => credit[o] = "reserved" /\ bound[o]

\* Nothing was started for an order that is not paid, and something for one that is.
UnpaidIsFresh(o) ==
  /\ order[o].payment # "paid" =>
       /\ job[o] = "none"
       /\ order[o].fulfillment = "not_started"
       /\ order[o].deadline = "none" /\ ~order[o].courtesy
  /\ order[o].payment = "paid" => order[o].fulfillment # "not_started"

\* A retired order was cancelled; when it is paid nevertheless, nothing starts.
RetiredAgrees(o) ==
  /\ order[o].retire # "no" => o \in Legacy
  /\ order[o].retire = "retired" =>
       /\ order[o].payment \in {"cancelled", "paid"}
       /\ job[o] = "none"
       /\ order[o].payment = "paid" => refund[o].state # "none"

\* What an order keeps while its job is open, and after a complete report.
NothingReturned(o) == /\ recovery[o] # "overtaken" => refund[o].state = "none"
                      /\ mail[o] = "none" /\ ~order[o].courtesy
ReportAgrees(o) ==
  o \notin Legacy =>
    /\ order[o].courtesy => order[o].deadline = "passed"
    /\ job[o] \in {"none", "open"} =>
         NothingReturned(o) /\ order[o].fulfillment \in {"not_started", "queued"}
    /\ job[o] = "completed" => credit[o] = "settled"
    /\ credit[o] = "settled" => job[o] = "completed" /\ NothingReturned(o)

OrderInv(o) == /\ RefundAgrees(o)
               /\ FailureRefunded(o)
               /\ RecoveryAgrees(o)
               /\ CreditAgrees(o)
               /\ UnpaidIsFresh(o)
               /\ RetiredAgrees(o)
               /\ ReportAgrees(o)

\* A process that has an answer to mark has seen the refund accepted.
RunInv(p) == /\ run[p].pc # "idle" => run[p].order \in Order
             /\ run[p].pc \in {"answered", "marking"} => provider[run[p].order] = "accepted"

IInv == /\ TypeOK
        /\ \A o \in Order : OrderInv(o)
        /\ \A p \in Run : RunInv(p)

-----------------------------------------------------------------------------
(* Types of the rows, and how an action on one order leaves the others.      *)

LEMMA PaidOrderRow ==
  ASSUME NEW row \in OrderRow
  PROVE  /\ PaidOrder(row) \in OrderRow
         /\ PaidOrder(row).payment = "paid"
         /\ PaidOrder(row).fulfillment =
              IF row.fulfillment = "not_started" THEN "queued" ELSE row.fulfillment
         /\ PaidOrder(row).deadline = IF row.deadline = "none" THEN "ahead" ELSE row.deadline
         /\ PaidOrder(row).refund = row.refund /\ PaidOrder(row).courtesy = row.courtesy
         /\ PaidOrder(row).retire = row.retire
BY DEF PaidOrder, OrderRow, TerminalOutcome

LEMMA RetiredOrderRow ==
  ASSUME NEW row \in OrderRow
  PROVE  /\ RetiredOrder(row) \in OrderRow
         /\ RetiredOrder(row).payment = "paid"
         /\ RetiredOrder(row).fulfillment = "failed"
         /\ RetiredOrder(row).refund = RefundDue(row.refund)
         /\ RetiredOrder(row).deadline = row.deadline
         /\ RetiredOrder(row).retire = row.retire
BY DEF RetiredOrder, RefundDue, OrderRow, TerminalOutcome

LEMMA FulfilledOrderRow ==
  ASSUME NEW row \in OrderRow, NEW outcome \in TerminalOutcome
  PROVE  /\ FulfilledOrder(row, outcome) \in OrderRow
         /\ FulfilledOrder(row, outcome).payment = row.payment
         /\ FulfilledOrder(row, outcome).fulfillment = outcome
         /\ FulfilledOrder(row, outcome).refund =
              IF Refundable(outcome) THEN RefundDue(row.refund) ELSE row.refund
         /\ FulfilledOrder(row, outcome).courtesy = row.courtesy
         /\ FulfilledOrder(row, outcome).deadline = row.deadline
         /\ FulfilledOrder(row, outcome).retire = row.retire
BY DEF FulfilledOrder, RefundDue, OrderRow, TerminalOutcome

LEMMA LateOrderRow ==
  ASSUME NEW row \in OrderRow
  PROVE  /\ LateOrder(row) \in OrderRow
         /\ LateOrder(row).payment = row.payment
         /\ LateOrder(row).fulfillment = row.fulfillment
         /\ LateOrder(row).refund = RefundDue(row.refund)
         /\ LateOrder(row).deadline = row.deadline
         /\ LateOrder(row).retire = row.retire
BY DEF LateOrder, RefundDue, OrderRow, TerminalOutcome

LEMMA ReopenedOrderRow ==
  ASSUME NEW row \in OrderRow
  PROVE  /\ ReopenedOrder(row) \in OrderRow
         /\ ReopenedOrder(row).payment = row.payment
         /\ ReopenedOrder(row).fulfillment = "queued"
         /\ ReopenedOrder(row).refund = "not_required"
         /\ ReopenedOrder(row).courtesy = row.courtesy
         /\ ReopenedOrder(row).deadline = row.deadline
         /\ ReopenedOrder(row).retire = row.retire
BY DEF ReopenedOrder, OrderRow, TerminalOutcome

\* The rows of a refund: what each write does to its state.
LEMMA RefundRows ==
  /\ NoRefund \in RefundRow /\ NoRefund.state = "none"
  /\ \A row \in RefundRow :
       /\ WithRefund(row) \in RefundRow
       /\ WithRefund(row).state = IF row.state = "none" THEN "pending" ELSE row.state
       /\ \A p \in Run : /\ LeasedRefund(row, p) \in RefundRow
                         /\ LeasedRefund(row, p).state = row.state
       /\ SubmittedRefund(row) \in RefundRow /\ SubmittedRefund(row).state = "submitted"
       /\ FailedRefund(row) \in RefundRow /\ FailedRefund(row).state = "failed"
       /\ BackedOffRefund(row) \in RefundRow /\ BackedOffRefund(row).state = row.state
       /\ SucceededRefund(row) \in RefundRow
       /\ SucceededRefund(row).state =
            IF row.state \in {"pending", "submitted", "succeeded"} THEN "succeeded" ELSE row.state
<1>1. NoRefund \in RefundRow /\ NoRefund.state = "none"
  BY AttemptsAssumption DEF NoRefund, RefundRow
<1>2. NewRefund \in RefundRow /\ NewRefund.state = "pending"
  BY <1>1 DEF NewRefund, RefundRow
<1>3. ASSUME NEW row \in RefundRow
      PROVE  Released(row) \in RefundRow /\ Released(row).state = row.state
  BY DEF Released, RefundRow
<1>4. ASSUME NEW row \in RefundRow, NEW p \in Run
      PROVE  LeasedRefund(row, p) \in RefundRow /\ LeasedRefund(row, p).state = row.state
  <2>1. Attempted(row.attempts) \in 0 .. MaxAttempts
    BY AttemptsAssumption DEF Attempted, RefundRow
  <2> QED BY <2>1 DEF LeasedRefund, RefundRow
<1>5. ASSUME NEW row \in RefundRow
      PROVE  /\ SubmittedRefund(row) \in RefundRow /\ SubmittedRefund(row).state = "submitted"
             /\ FailedRefund(row) \in RefundRow /\ FailedRefund(row).state = "failed"
             /\ BackedOffRefund(row) \in RefundRow /\ BackedOffRefund(row).state = row.state
             /\ [Released(row) EXCEPT !.state = "succeeded"] \in RefundRow
             /\ [Released(row) EXCEPT !.state = "succeeded"].state = "succeeded"
  BY <1>3 DEF SubmittedRefund, FailedRefund, BackedOffRefund, RefundRow
<1> QED BY <1>1, <1>2, <1>4, <1>5 DEF WithRefund, SucceededRefund

\* What the invariant says of one order.
LEMMA OrderTypes ==
  ASSUME IInv, NEW o \in Order
  PROVE  /\ order[o] \in OrderRow /\ job[o] \in JobState /\ bound[o] \in BOOLEAN
         /\ credit[o] \in CreditStatus /\ key[o] \in 0 .. 1
         /\ refund[o] \in RefundRow /\ mail[o] \in MailState /\ provider[o] \in ProviderState
         /\ recovery[o] \in RecoveryState
         /\ OrderInv(o)
BY DEF IInv, TypeOK

\* An action that writes the rows of order o only.
Others(o) ==
  \A i \in Order \ {o} :
    /\ order'[i] = order[i] /\ job'[i] = job[i] /\ bound'[i] = bound[i]
    /\ credit'[i] = credit[i] /\ key'[i] = key[i]
    /\ refund'[i] = refund[i] /\ mail'[i] = mail[i] /\ provider'[i] = provider[i]
        /\ recovery'[i] = recovery[i]

LEMMA OrdersKept ==
  ASSUME IInv, NEW o \in Order, Others(o), OrderInv(o)'
  PROVE  \A i \in Order : OrderInv(i)'
<1>1. ASSUME NEW i \in Order, i # o PROVE OrderInv(i)'
  <2>1. /\ order'[i] = order[i] /\ job'[i] = job[i] /\ bound'[i] = bound[i]
        /\ credit'[i] = credit[i] /\ key'[i] = key[i]
        /\ refund'[i] = refund[i] /\ mail'[i] = mail[i] /\ provider'[i] = provider[i]
        /\ recovery'[i] = recovery[i]
    BY <1>1 DEF Others
  <2>2. OrderInv(i)
    BY DEF IInv
  <2>3. RefundAgrees(i)' /\ FailureRefunded(i)' /\ CreditAgrees(i)' /\ RecoveryAgrees(i)'
    BY <2>1, <2>2 DEF OrderInv, RefundAgrees, FailureRefunded, CreditAgrees, RecoveryAgrees, Mirror
  <2>4. UnpaidIsFresh(i)' /\ RetiredAgrees(i)' /\ ReportAgrees(i)'
    BY <2>1, <2>2 DEF OrderInv, UnpaidIsFresh, RetiredAgrees, ReportAgrees, NothingReturned
  <2> QED BY <2>3, <2>4 DEF OrderInv
<1> QED BY <1>1

LEMMA PaidEventKeeps ==
  ASSUME IInv, NEW o \in Order, NEW late \in BOOLEAN, ApplyPaidPaymentEvent(o, late)
  PROVE  IInv'
<1> USE DEF ApplyPaidPaymentEvent
<1>1. /\ order[o] \in OrderRow /\ job[o] \in JobState /\ bound[o] \in BOOLEAN
      /\ credit[o] \in CreditStatus /\ key[o] \in 0 .. 1
      /\ OrderInv(o)
  BY OrderTypes
<1>2. /\ order'[o] = PaidOrder(order[o])
      /\ job'[o] = (IF job[o] = "none" THEN "open" ELSE job[o])
      /\ bound'[o] <=> (job[o] = "none" \/ bound[o])
      /\ credit'[o] = (IF credit[o] = "none" THEN "reserved" ELSE credit[o])
      /\ UNCHANGED <<key, recovery, refund, mail, provider, run>>
  BY DEF IInv, TypeOK, refundVars
<1>3. Others(o)
  BY DEF IInv, TypeOK, Others, refundVars
<1>4. TypeOK'
  BY <1>1, PaidOrderRow DEF IInv, TypeOK, JobState, CreditStatus, refundVars
<1>5. OrderInv(o)'
  <2>1. RefundAgrees(o)' /\ FailureRefunded(o)'
    BY <1>1, <1>2, PaidOrderRow DEF OrderInv, RefundAgrees, FailureRefunded
  <2>2. CreditAgrees(o)' /\ RecoveryAgrees(o)'
    BY <1>1, <1>2, PaidOrderRow DEF OrderInv, CreditAgrees, RecoveryAgrees
  <2>3. UnpaidIsFresh(o)' /\ RetiredAgrees(o)'
    BY <1>1, <1>2, PaidOrderRow DEF OrderInv, UnpaidIsFresh, RetiredAgrees, Retired
  <2>4. ReportAgrees(o)'
    BY <1>1, <1>2, PaidOrderRow DEF OrderInv, ReportAgrees, NothingReturned, UnpaidIsFresh, CreditAgrees
  <2> QED BY <2>1, <2>2, <2>3, <2>4 DEF OrderInv
<1>6. \A p \in Run : RunInv(p)'
  BY <1>2 DEF IInv, RunInv
<1> QED BY <1>3, <1>4, <1>5, <1>6, OrdersKept DEF IInv

LEMMA RetiredEventKeeps ==
  ASSUME IInv, NEW o \in Order, NEW late \in BOOLEAN, ApplyRetiredPaymentEvent(o, late)
  PROVE  IInv'
<1> USE DEF ApplyRetiredPaymentEvent
<1>1. order[o] \in OrderRow /\ refund[o] \in RefundRow /\ OrderInv(o)
  BY OrderTypes
<1>2. /\ o \in Legacy
      /\ order'[o] = RetiredOrder(order[o])
      /\ refund'[o] = WithRefund(refund[o])
      /\ UNCHANGED <<job, bound, credit, key, recovery, mail, provider, run>>
  BY DEF IInv, TypeOK, Retired
<1>3. Others(o)
  BY DEF IInv, TypeOK, Others
<1>4. TypeOK'
  BY <1>1, RetiredOrderRow, RefundRows DEF IInv, TypeOK
<1>5. OrderInv(o)'
  <2>1. RefundAgrees(o)' /\ FailureRefunded(o)'
    BY <1>1, <1>2, RetiredOrderRow, RefundRows
    DEF OrderInv, RefundAgrees, FailureRefunded, RefundDue, Mirror, RefundRow
  <2>2. CreditAgrees(o)' /\ ReportAgrees(o)' /\ RecoveryAgrees(o)'
    BY <1>1, <1>2, RetiredOrderRow DEF OrderInv, CreditAgrees, ReportAgrees, RecoveryAgrees
  <2>3. UnpaidIsFresh(o)' /\ RetiredAgrees(o)'
    BY <1>1, <1>2, RetiredOrderRow, RefundRows
    DEF OrderInv, UnpaidIsFresh, RetiredAgrees, RefundRow
  <2> QED BY <2>1, <2>2, <2>3 DEF OrderInv
<1>6. \A p \in Run : RunInv(p)'
  BY <1>2 DEF IInv, RunInv
<1> QED BY <1>3, <1>4, <1>5, <1>6, OrdersKept DEF IInv

\* What a change of payment, retirement or deadline leaves alone.
DatesOrPayment(o) ==
  /\ order' \in [Order -> OrderRow]
  /\ \A i \in Order \ {o} : order'[i] = order[i]
  /\ order'[o].fulfillment = order[o].fulfillment
  /\ order'[o].refund = order[o].refund
  /\ order'[o].courtesy = order[o].courtesy
  /\ order[o].payment = "paid" <=> order'[o].payment = "paid"
  /\ order[o].deadline = "none" <=> order'[o].deadline = "none"
  /\ order[o].deadline = "passed" => order'[o].deadline = "passed"
  /\ order'[o].retire # order[o].retire => o \in Legacy /\ order[o].payment = "open"
  /\ order'[o].retire = "retired" => order'[o].payment \in {"cancelled", "paid"}

\* The writes that touch payment, retirement or deadline of an order only.
LEMMA OrderOnlyKeeps ==
  ASSUME IInv, NEW o \in Order,
         \/ PrepareRetirement(o) \/ FinalizeRetirement(o) \/ DeadlinePasses(o)
         \/ \E status \in {"failed", "cancelled"} : ApplyUnsuccessfulPaymentEvent(o, status)
  PROVE  IInv'
<1>1. order[o] \in OrderRow /\ OrderInv(o)
  BY OrderTypes
<1>2. UNCHANGED <<job, bound, credit, key, recovery, refund, mail, provider, run>>
  BY DEF PrepareRetirement, FinalizeRetirement, DeadlinePasses, ApplyUnsuccessfulPaymentEvent, refundVars
<1>3. DatesOrPayment(o)
  <2>1. CASE PrepareRetirement(o)
    BY <1>1, <2>1 DEF DatesOrPayment, PrepareRetirement, IInv, TypeOK, OrderRow
  <2>2. CASE FinalizeRetirement(o)
    BY <1>1, <2>2 DEF DatesOrPayment, FinalizeRetirement, IInv, TypeOK, OrderRow
  <2>3. CASE DeadlinePasses(o)
    BY <1>1, <2>3 DEF DatesOrPayment, DeadlinePasses, IInv, TypeOK, OrderRow, OrderInv, RetiredAgrees
  <2>4. ASSUME NEW status \in {"failed", "cancelled"}, ApplyUnsuccessfulPaymentEvent(o, status)
        PROVE  DatesOrPayment(o)
    <3>1. /\ order \in [Order -> OrderRow] /\ order[o].payment = "open"
          /\ order[o].retire # "retired"
      BY <1>1, <2>4 DEF ApplyUnsuccessfulPaymentEvent, IInv, TypeOK, OrderInv, RetiredAgrees
    <3>2. order' = [order EXCEPT ![o] = [order[o] EXCEPT !.payment = status]]
      BY <2>4 DEF ApplyUnsuccessfulPaymentEvent
    <3>3. /\ [order[o] EXCEPT !.payment = status] \in OrderRow
          /\ [order[o] EXCEPT !.payment = status].payment # "paid"
          /\ [order[o] EXCEPT !.payment = status].retire = order[o].retire
      BY <1>1, <2>4 DEF OrderRow
    <3> QED BY <1>1, <3>1, <3>2, <3>3 DEF DatesOrPayment, OrderRow
  <2> QED BY <2>1, <2>2, <2>3, <2>4
<1>4. Others(o)
  BY <1>2, <1>3 DEF Others, DatesOrPayment
<1>5. TypeOK'
  BY <1>2, <1>3 DEF IInv, TypeOK, DatesOrPayment
<1>6. OrderInv(o)'
  BY <1>1, <1>2, <1>3
  DEF DatesOrPayment, OrderInv, RefundAgrees, FailureRefunded, CreditAgrees, UnpaidIsFresh, RetiredAgrees,
      RecoveryAgrees, ReportAgrees, NothingReturned, Mirror
<1>7. \A p \in Run : RunInv(p)'
  BY <1>2 DEF IInv, RunInv
<1> QED BY <1>4, <1>5, <1>6, <1>7, OrdersKept DEF IInv

-----------------------------------------------------------------------------
(* The end of the job, the deadline and the recovery.                       *)

\* An open job holds its reservation: its end settles it, or returns it.
LEMMA SettleOpenJob ==
  ASSUME IInv, NEW o \in Order, NEW outcome \in TerminalOutcome,
         job[o] = "open", job' = [job EXCEPT ![o] = outcome], bound' = bound,
         SettleCredit(o, outcome)
  PROVE  /\ credit' \in [Order -> CreditStatus] /\ key' \in [Order -> 0 .. 1]
         /\ \A i \in Order \ {o} : credit'[i] = credit[i] /\ key'[i] = key[i]
         /\ credit'[o] = TerminalCredit(outcome)
         /\ CreditAgrees(o)'
<1>1. bound[o] /\ credit[o] = "reserved" /\ key[o] = 0
  BY OrderTypes DEF OrderInv, CreditAgrees
<1>2. /\ credit' = [credit EXCEPT ![o] = TerminalCredit(outcome)]
      /\ key' = [key EXCEPT ![o] = IF TerminalCredit(outcome) = "refunded" THEN 1 ELSE 0]
  BY <1>1 DEF SettleCredit, IInv, TypeOK
<1>3. TerminalCredit(outcome) \in {"settled", "refunded"}
  BY DEF TerminalCredit
<1>4. /\ credit' \in [Order -> CreditStatus] /\ key' \in [Order -> 0 .. 1]
      /\ \A i \in Order \ {o} : credit'[i] = credit[i] /\ key'[i] = key[i]
      /\ credit'[o] = TerminalCredit(outcome)
      /\ key'[o] = IF TerminalCredit(outcome) = "refunded" THEN 1 ELSE 0
  BY <1>2, <1>3 DEF IInv, TypeOK, CreditStatus
<1>5. job'[o] \in TerminalOutcome /\ bound'[o]
  BY <1>1 DEF IInv, TypeOK
<1>6. CreditAgrees(o)'
  BY <1>3, <1>4, <1>5 DEF CreditAgrees, TerminalOutcome
<1> QED BY <1>4, <1>6

LEMMA TerminalizeJobKeeps ==
  ASSUME IInv, NEW o \in Order, NEW outcome \in TerminalOutcome, TerminalizeJob(o, outcome)
  PROVE  IInv'
<1>1. OrderInv(o)
  BY OrderTypes
<1>2. /\ job[o] = "open" /\ job' = [job EXCEPT ![o] = outcome] /\ bound' = bound
      /\ SettleCredit(o, outcome)
      /\ UNCHANGED <<order, recovery, refund, mail, provider, run>>
  BY DEF TerminalizeJob, refundVars
<1>3. job'[o] = outcome
  BY <1>2 DEF IInv, TypeOK
<1>4. /\ credit' \in [Order -> CreditStatus] /\ key' \in [Order -> 0 .. 1]
      /\ \A i \in Order \ {o} : credit'[i] = credit[i] /\ key'[i] = key[i]
      /\ credit'[o] = TerminalCredit(outcome)
      /\ CreditAgrees(o)'
  BY <1>2, SettleOpenJob
<1>5. Others(o)
  BY <1>2, <1>4 DEF IInv, TypeOK, Others
<1>6. TypeOK'
  BY <1>2, <1>4 DEF IInv, TypeOK, JobState
<1>7. OrderInv(o)'
  <2>1. RefundAgrees(o)' /\ FailureRefunded(o)' /\ RecoveryAgrees(o)'
    BY <1>1, <1>2 DEF OrderInv, RefundAgrees, FailureRefunded, RecoveryAgrees, Mirror
  <2>2. UnpaidIsFresh(o)' /\ RetiredAgrees(o)'
    BY <1>1, <1>2 DEF OrderInv, UnpaidIsFresh, RetiredAgrees
  <2>3. ReportAgrees(o)'
    BY <1>1, <1>2, <1>3, <1>4
    DEF OrderInv, ReportAgrees, NothingReturned, TerminalCredit, TerminalOutcome
  <2> QED BY <1>4, <2>1, <2>2, <2>3 DEF OrderInv
<1>8. \A p \in Run : RunInv(p)'
  BY <1>2 DEF IInv, RunInv
<1> QED BY <1>5, <1>6, <1>7, <1>8, OrdersKept DEF IInv

\* The commercial outcome: the refund of an order that is over.
LEMMA FulfillOneOrder ==
  ASSUME IInv, NEW o \in Order, NEW outcome \in TerminalOutcome, FulfillOrder(o, outcome),
         recovery' = recovery
  PROVE  /\ order' \in [Order -> OrderRow] /\ refund' \in [Order -> RefundRow]
         /\ mail' \in [Order -> MailState]
         /\ \A i \in Order \ {o} : order'[i] = order[i] /\ refund'[i] = refund[i] /\ mail'[i] = mail[i]
         /\ UNCHANGED <<provider, run>>
         /\ order'[o] = FulfilledOrder(order[o], outcome)
         /\ outcome = "completed" => refund'[o] = refund[o] /\ mail'[o] = mail[o]
         /\ RefundAgrees(o)' /\ FailureRefunded(o)'
<1>1. order[o] \in OrderRow /\ refund[o] \in RefundRow /\ mail[o] \in MailState /\ OrderInv(o)
  BY OrderTypes
<1>2. /\ order' = [order EXCEPT ![o] = FulfilledOrder(order[o], outcome)]
      /\ refund' = [refund EXCEPT ![o] =
                      IF Refundable(outcome) THEN WithRefund(refund[o]) ELSE refund[o]]
      /\ mail' = [mail EXCEPT ![o] =
                    IF Refundable(outcome) /\ mail[o] = "none" THEN "queued" ELSE mail[o]]
      /\ UNCHANGED <<provider, run>>
  BY DEF FulfillOrder
<1>3. /\ FulfilledOrder(order[o], outcome) \in OrderRow
      /\ WithRefund(refund[o]) \in RefundRow
  BY <1>1, FulfilledOrderRow, RefundRows
<1>4. /\ order' \in [Order -> OrderRow] /\ refund' \in [Order -> RefundRow]
      /\ mail' \in [Order -> MailState]
      /\ \A i \in Order \ {o} : order'[i] = order[i] /\ refund'[i] = refund[i] /\ mail'[i] = mail[i]
      /\ order'[o] = FulfilledOrder(order[o], outcome)
      /\ refund'[o] = IF Refundable(outcome) THEN WithRefund(refund[o]) ELSE refund[o]
      /\ outcome = "completed" => mail'[o] = mail[o]
  BY <1>1, <1>2, <1>3 DEF IInv, TypeOK, MailState, Refundable
<1>5. /\ order'[o].fulfillment = outcome
      /\ order'[o].refund = IF Refundable(outcome) THEN RefundDue(order[o].refund) ELSE order[o].refund
      /\ order'[o].courtesy = order[o].courtesy
  BY <1>1, <1>4, FulfilledOrderRow
<1>6. refund[o].state \in {"none", "pending", "submitted", "succeeded", "failed"}
  BY <1>1 DEF RefundRow
<1>7. refund'[o].state = IF Refundable(outcome) /\ refund[o].state = "none" THEN "pending"
                         ELSE refund[o].state
  BY <1>1, <1>4, RefundRows
<1>8. RefundAgrees(o)'
  BY <1>1, <1>2, <1>5, <1>6, <1>7 DEF OrderInv, RefundAgrees, RefundDue, Mirror
<1>9. FailureRefunded(o)'
  <2>1. RefundDue(order[o].refund) # "not_required"
    BY DEF RefundDue
  <2> QED BY <1>1, <1>5, <1>6, <1>7, <2>1 DEF OrderInv, FailureRefunded, Refundable, TerminalOutcome
<1> QED BY <1>2, <1>4, <1>8, <1>9 DEF Refundable

LEMMA RecordOutcomeKeeps ==
  ASSUME IInv, NEW o \in Order, RecordPaidJobOutcome(o)
  PROVE  IInv'
<1>1. order[o] \in OrderRow /\ OrderInv(o)
  BY OrderTypes
<1>2. /\ order[o].payment = "paid" /\ job[o] \in TerminalOutcome
      /\ FulfillOrder(o, job[o])
      /\ UNCHANGED <<job, bound, credit, key, recovery>>
  BY DEF RecordPaidJobOutcome
<1>3. /\ order' \in [Order -> OrderRow] /\ refund' \in [Order -> RefundRow]
      /\ mail' \in [Order -> MailState]
      /\ \A i \in Order \ {o} : order'[i] = order[i] /\ refund'[i] = refund[i] /\ mail'[i] = mail[i]
      /\ UNCHANGED <<provider, run>>
      /\ order'[o] = FulfilledOrder(order[o], job[o])
      /\ job[o] = "completed" => refund'[o] = refund[o] /\ mail'[o] = mail[o]
      /\ RefundAgrees(o)' /\ FailureRefunded(o)'
  BY <1>2, FulfillOneOrder
<1>4. /\ order'[o].payment = "paid" /\ order'[o].courtesy = order[o].courtesy
      /\ order'[o].deadline = order[o].deadline /\ order'[o].retire = order[o].retire
      /\ order'[o].fulfillment = job[o]
  BY <1>1, <1>2, <1>3, FulfilledOrderRow
<1>5. Others(o)
  BY <1>2, <1>3 DEF Others
<1>6. TypeOK'
  BY <1>2, <1>3 DEF IInv, TypeOK
<1>7. OrderInv(o)'
  <2>1. CreditAgrees(o)' /\ RecoveryAgrees(o)'
    BY <1>1, <1>2, <1>4 DEF OrderInv, CreditAgrees, RecoveryAgrees
  <2>2. UnpaidIsFresh(o)' /\ RetiredAgrees(o)'
    BY <1>1, <1>2, <1>4 DEF OrderInv, UnpaidIsFresh, RetiredAgrees, TerminalOutcome
  <2>3. ReportAgrees(o)'
    BY <1>1, <1>2, <1>3, <1>4 DEF OrderInv, ReportAgrees, NothingReturned, TerminalOutcome
  <2> QED BY <1>3, <2>1, <2>2, <2>3 DEF OrderInv
<1>8. \A p \in Run : RunInv(p)'
  BY <1>3 DEF IInv, RunInv
<1> QED BY <1>5, <1>6, <1>7, <1>8, OrdersKept DEF IInv

LEMMA TerminalizeReportKeeps ==
  ASSUME IInv, NEW o \in Order, NEW outcome \in TerminalOutcome, TerminalizePaidReport(o, outcome)
  PROVE  IInv'
<1>1. order[o] \in OrderRow /\ OrderInv(o)
  BY OrderTypes
<1>2. /\ o \notin Legacy /\ job[o] = "open" /\ order[o].payment = "paid"
      /\ job' = [job EXCEPT ![o] = outcome] /\ UNCHANGED <<bound, recovery>>
      /\ SettleCredit(o, outcome) /\ FulfillOrder(o, outcome)
  BY DEF TerminalizePaidReport
<1>3. job'[o] = outcome
  BY <1>2 DEF IInv, TypeOK
<1>4. /\ credit' \in [Order -> CreditStatus] /\ key' \in [Order -> 0 .. 1]
      /\ \A i \in Order \ {o} : credit'[i] = credit[i] /\ key'[i] = key[i]
      /\ credit'[o] = TerminalCredit(outcome)
      /\ CreditAgrees(o)'
  BY <1>2, SettleOpenJob
<1>5. /\ order' \in [Order -> OrderRow] /\ refund' \in [Order -> RefundRow]
      /\ mail' \in [Order -> MailState]
      /\ \A i \in Order \ {o} : order'[i] = order[i] /\ refund'[i] = refund[i] /\ mail'[i] = mail[i]
      /\ UNCHANGED <<provider, run>>
      /\ order'[o] = FulfilledOrder(order[o], outcome)
      /\ outcome = "completed" => refund'[o] = refund[o] /\ mail'[o] = mail[o]
      /\ RefundAgrees(o)' /\ FailureRefunded(o)'
  BY <1>2, FulfillOneOrder
<1>6. /\ order'[o].payment = "paid" /\ order'[o].courtesy = order[o].courtesy
      /\ order'[o].deadline = order[o].deadline /\ order'[o].retire = order[o].retire
      /\ order'[o].fulfillment = outcome
  BY <1>1, <1>2, <1>5, FulfilledOrderRow
<1>7. Others(o)
  BY <1>2, <1>4, <1>5 DEF Others, IInv, TypeOK
<1>8. TypeOK'
  BY <1>2, <1>4, <1>5 DEF IInv, TypeOK, JobState
<1>9. OrderInv(o)'
  <2>1. UnpaidIsFresh(o)' /\ RetiredAgrees(o)' /\ RecoveryAgrees(o)'
    BY <1>1, <1>2, <1>6
    DEF OrderInv, UnpaidIsFresh, RetiredAgrees, RecoveryAgrees, TerminalOutcome
  <2>2. ReportAgrees(o)'
    BY <1>1, <1>2, <1>3, <1>4, <1>5, <1>6
    DEF OrderInv, ReportAgrees, NothingReturned, TerminalCredit, TerminalOutcome
  <2> QED BY <1>4, <1>5, <2>1, <2>2 DEF OrderInv
<1>10. \A p \in Run : RunInv(p)'
  BY <1>5 DEF IInv, RunInv
<1> QED BY <1>7, <1>8, <1>9, <1>10, OrdersKept DEF IInv

LEMMA DeadlineKeeps ==
  ASSUME IInv, NEW o \in Order, ExpirePaidOrderSla(o)
  PROVE  IInv'
<1>1. order[o] \in OrderRow /\ refund[o] \in RefundRow /\ OrderInv(o)
  BY OrderTypes
<1>2. /\ order[o].payment = "paid" /\ order[o].deadline = "passed"
      /\ job[o] = "open" /\ credit[o] = "reserved" /\ bound[o] /\ key[o] = 0
  BY <1>1 DEF ExpirePaidOrderSla, SlaMissed, OrderInv, CreditAgrees
<1>3. /\ refund' = [refund EXCEPT ![o] = WithRefund(refund[o])]
      /\ credit' = [credit EXCEPT ![o] = "refunded"]
      /\ job' = [job EXCEPT ![o] = "failed"]
      /\ bound' = [bound EXCEPT ![o] = FALSE]
      /\ order' = [order EXCEPT ![o] = LateOrder(order[o])]
      /\ UNCHANGED <<key, recovery, mail, provider, run>>
  BY <1>2 DEF ExpirePaidOrderSla
<1>4. /\ refund'[o] = WithRefund(refund[o]) /\ credit'[o] = "refunded"
      /\ job'[o] = "failed" /\ ~bound'[o] /\ order'[o] = LateOrder(order[o])
  BY <1>3 DEF IInv, TypeOK
<1>5. Others(o)
  BY <1>3 DEF Others, IInv, TypeOK
<1>6. TypeOK'
  BY <1>1, <1>3, LateOrderRow, RefundRows
  DEF IInv, TypeOK, JobState, TerminalOutcome, CreditStatus
<1>7. OrderInv(o)'
  <2>1. RefundAgrees(o)' /\ FailureRefunded(o)'
    BY <1>1, <1>3, <1>4, LateOrderRow, RefundRows
    DEF OrderInv, RefundAgrees, FailureRefunded, RefundDue, Mirror, RefundRow
  <2>2. CreditAgrees(o)' /\ RecoveryAgrees(o)'
    BY <1>1, <1>2, <1>3, <1>4, LateOrderRow DEF OrderInv, CreditAgrees, RecoveryAgrees
  <2>3. UnpaidIsFresh(o)' /\ RetiredAgrees(o)'
    BY <1>1, <1>2, <1>4, LateOrderRow DEF OrderInv, UnpaidIsFresh, RetiredAgrees
  <2>4. ReportAgrees(o)'
    BY <1>1, <1>2, <1>4, LateOrderRow DEF ReportAgrees
  <2> QED BY <2>1, <2>2, <2>3, <2>4 DEF OrderInv
<1>8. \A p \in Run : RunInv(p)'
  BY <1>3 DEF IInv, RunInv
<1> QED BY <1>5, <1>6, <1>7, <1>8, OrdersKept DEF IInv

\* A recovery that begins to wait, or gives up.
LEMMA LookKeeps ==
  ASSUME IInv, NEW o \in Order, ReadForRecovery(o) \/ RefuseRecovery(o)
  PROVE  IInv'
<1>1. OrderInv(o)
  BY OrderTypes
<1>2. UNCHANGED <<order, job, bound, credit, key, refund, mail, provider, run>>
  BY DEF ReadForRecovery, RefuseRecovery, refundVars
<1>3. /\ recovery' \in [Order -> RecoveryState]
      /\ \A i \in Order \ {o} : recovery'[i] = recovery[i]
      /\ recovery[o] # "overtaken" /\ recovery'[o] \in {"none", "waiting"}
      /\ recovery'[o] = "waiting" =>
           /\ job[o] = "failed" /\ credit[o] = "refunded"
           /\ order[o].payment = "paid" /\ order[o].fulfillment = "failed"
  BY DEF ReadForRecovery, RefuseRecovery, Recoverable, Undecided, IInv, TypeOK, RecoveryState
<1>4. Others(o)
  BY <1>2, <1>3 DEF Others
<1>5. TypeOK'
  BY <1>2, <1>3 DEF IInv, TypeOK
<1>6. OrderInv(o)'
  <2>1. RefundAgrees(o)' /\ FailureRefunded(o)' /\ RecoveryAgrees(o)' /\ CreditAgrees(o)'
    BY <1>1, <1>2, <1>3
    DEF OrderInv, RefundAgrees, FailureRefunded, RecoveryAgrees, CreditAgrees, Mirror
  <2>2. UnpaidIsFresh(o)' /\ RetiredAgrees(o)' /\ ReportAgrees(o)'
    BY <1>1, <1>2, <1>3 DEF OrderInv, UnpaidIsFresh, RetiredAgrees, ReportAgrees, NothingReturned
  <2> QED BY <2>1, <2>2 DEF OrderInv
<1>7. \A p \in Run : RunInv(p)'
  BY <1>2 DEF IInv, RunInv
<1> QED BY <1>4, <1>5, <1>6, <1>7, OrdersKept DEF IInv

\* The recovery with its locks: a pending refund is removed, any other stays.
LEMMA RecoveryKeeps ==
  ASSUME IInv, NEW o \in Order, RecoverHistoricalPaidJob(o)
  PROVE  IInv'
<1>1. /\ order[o] \in OrderRow /\ refund[o] \in RefundRow /\ key[o] \in 0 .. 1
      /\ recovery[o] = "waiting" /\ OrderInv(o)
  BY OrderTypes DEF RecoverHistoricalPaidJob
<1>2. /\ order[o].payment = "paid" /\ order[o].deadline = "ahead"
      /\ job[o] = "failed" /\ key[o] = 1 /\ credit[o] = "refunded"
      /\ refund[o].state \in {"pending", "submitted", "succeeded", "failed"}
  BY <1>1 DEF RecoverHistoricalPaidJob, Recoverable, OrderInv, RecoveryAgrees, FailureRefunded, RefundRow
<1> DEFINE look == IF refund[o].state = "pending" THEN "none" ELSE "overtaken"
<1>3. /\ key' = [key EXCEPT ![o] = 0]
      /\ mail' = [mail EXCEPT ![o] = "none"]
      /\ refund' = [refund EXCEPT ![o] = WithoutPending(refund[o])]
      /\ recovery' = [recovery EXCEPT ![o] = look]
      /\ credit' = [credit EXCEPT ![o] = "reserved"]
      /\ order' = [order EXCEPT ![o] = ReopenedOrder(order[o])]
      /\ job' = [job EXCEPT ![o] = "open"]
      /\ bound' = [bound EXCEPT ![o] = TRUE]
      /\ UNCHANGED <<provider, run>>
  BY <1>2 DEF RecoverHistoricalPaidJob, Debited
<1>4. /\ key'[o] = 0 /\ mail'[o] = "none" /\ refund'[o] = WithoutPending(refund[o])
      /\ recovery'[o] = look /\ credit'[o] = "reserved"
      /\ order'[o] = ReopenedOrder(order[o]) /\ job'[o] = "open" /\ bound'[o]
  BY <1>3 DEF IInv, TypeOK
<1>5. Others(o)
  BY <1>3 DEF Others, IInv, TypeOK
<1>6. /\ WithoutPending(refund[o]) \in RefundRow
      /\ look = "none" => WithoutPending(refund[o]).state = "none"
      /\ look = "overtaken" => /\ WithoutPending(refund[o]) = refund[o]
                               /\ refund[o].state \in {"submitted", "succeeded", "failed"}
      /\ look \in {"none", "overtaken"}
  BY <1>1, <1>2, RefundRows DEF WithoutPending
<1> HIDE DEF look
<1>7. TypeOK'
  BY <1>1, <1>3, <1>6, ReopenedOrderRow
  DEF IInv, TypeOK, JobState, CreditStatus, MailState, RecoveryState
<1>8. OrderInv(o)'
  <2>1. RefundAgrees(o)'
    BY <1>1, <1>3, <1>4, <1>6, ReopenedOrderRow DEF OrderInv, RefundAgrees, Mirror
  <2>2. ~order'[o].courtesy \/ o \in Legacy
    BY <1>1, <1>2, <1>4, ReopenedOrderRow DEF OrderInv, ReportAgrees
  <2>3. FailureRefunded(o)'
    BY <1>1, <1>4, <2>2, ReopenedOrderRow DEF FailureRefunded
  <2>4. CreditAgrees(o)' /\ RecoveryAgrees(o)'
    BY <1>1, <1>2, <1>4, <1>6, ReopenedOrderRow DEF CreditAgrees, RecoveryAgrees
  <2>5. UnpaidIsFresh(o)' /\ RetiredAgrees(o)'
    BY <1>1, <1>2, <1>4, ReopenedOrderRow DEF OrderInv, UnpaidIsFresh, RetiredAgrees
  <2>6. ReportAgrees(o)'
    BY <1>1, <1>4, <1>6, <2>2, ReopenedOrderRow DEF ReportAgrees, NothingReturned
  <2> QED BY <2>1, <2>3, <2>4, <2>5, <2>6 DEF OrderInv
<1>9. \A p \in Run : RunInv(p)'
  BY <1>3 DEF IInv, RunInv
<1> QED BY <1>5, <1>7, <1>8, <1>9, OrdersKept DEF IInv

-----------------------------------------------------------------------------
(* The refund and its processes.                                            *)

\* What a write to the refund leaves alone: the rest of the order, and whether
\* there is a refund at all.
RefundOnly(o) ==
  /\ order' \in [Order -> OrderRow] /\ refund' \in [Order -> RefundRow]
  /\ \A i \in Order \ {o} : order'[i] = order[i] /\ refund'[i] = refund[i]
  /\ order'[o].payment = order[o].payment /\ order'[o].fulfillment = order[o].fulfillment
  /\ order'[o].courtesy = order[o].courtesy /\ order'[o].deadline = order[o].deadline
  /\ order'[o].retire = order[o].retire
  /\ refund'[o].state = "none" <=> refund[o].state = "none"
  /\ order'[o].refund = "not_required" <=> order[o].refund = "not_required"
  /\ UNCHANGED <<job, bound, credit, key, recovery, mail>>

LEMMA RefundOnlyKeeps ==
  ASSUME IInv, NEW o \in Order, RefundOnly(o), RefundAgrees(o)', provider' = provider,
         run' \in [Run -> RunState], \A p \in Run : RunInv(p)'
  PROVE  IInv'
<1>1. OrderInv(o)
  BY OrderTypes
<1>2. Others(o)
  BY DEF RefundOnly, Others
<1>3. TypeOK'
  BY DEF RefundOnly, IInv, TypeOK
<1>4. OrderInv(o)'
  <2>1. FailureRefunded(o)' /\ CreditAgrees(o)' /\ RecoveryAgrees(o)'
    BY <1>1 DEF OrderInv, RefundOnly, FailureRefunded, CreditAgrees, RecoveryAgrees
  <2>2. UnpaidIsFresh(o)' /\ RetiredAgrees(o)'
    BY <1>1 DEF OrderInv, RefundOnly, UnpaidIsFresh, RetiredAgrees
  <2>3. ReportAgrees(o)'
    BY <1>1 DEF OrderInv, RefundOnly, ReportAgrees, NothingReturned
  <2> QED BY <2>1, <2>2, <2>3 DEF OrderInv
<1> QED BY <1>2, <1>3, <1>4, OrdersKept DEF IInv

LEMMA IdleRunType == IdleRun \in RunState /\ IdleRun.pc = "idle"
BY DEF IdleRun, RunState, Answer

\* What the invariant says of one process.
LEMMA RunTypes ==
  ASSUME IInv, NEW p \in Run
  PROVE  /\ run[p] \in RunState /\ RunInv(p)
         /\ run[p].pc # "idle" => run[p].order \in Order
BY DEF IInv, TypeOK, RunInv

\* A process that gives up its work.
LEMMA IdleKeepsRuns ==
  ASSUME IInv, NEW p \in Run, run' = [run EXCEPT ![p] = IdleRun], provider' = provider
  PROVE  run' \in [Run -> RunState] /\ \A q \in Run : RunInv(q)'
<1>1. \A q \in Run : run'[q] = IF q = p THEN IdleRun ELSE run[q]
  BY DEF IInv, TypeOK
<1>2. run' \in [Run -> RunState]
  BY IdleRunType DEF IInv, TypeOK
<1> QED BY <1>1, <1>2, IdleRunType DEF IInv, RunInv

\* markRefundSucceeded: whatever the refund was, an accepted one may succeed.
LEMMA SucceedIsRefundOnly ==
  ASSUME IInv, NEW o \in Order, Succeed(o), provider[o] = "accepted", provider' = provider,
         UNCHANGED <<job, bound, credit, key, recovery, mail>>
  PROVE  RefundOnly(o) /\ RefundAgrees(o)'
<1>1. order[o] \in OrderRow /\ refund[o] \in RefundRow /\ OrderInv(o)
  BY OrderTypes
<1> DEFINE after == IF /\ refund[o].state \in {"pending", "submitted", "succeeded"}
                       /\ order[o].refund \in {"pending", "submitted", "refunded"}
                    THEN "refunded" ELSE order[o].refund
<1>2. /\ refund' = [refund EXCEPT ![o] = SucceededRefund(refund[o])]
      /\ order' = [order EXCEPT ![o].refund = after]
  BY DEF Succeed
<1>3. /\ after \in {"not_required", "pending", "submitted", "refunded", "failed"}
      /\ after = "not_required" <=> order[o].refund = "not_required"
  BY <1>1 DEF OrderRow
<1>4. /\ refund' \in [Order -> RefundRow] /\ refund'[o] = SucceededRefund(refund[o])
      /\ \A i \in Order \ {o} : refund'[i] = refund[i]
  BY <1>1, <1>2, RefundRows DEF IInv, TypeOK
<1> HIDE DEF after
<1>5. /\ order' \in [Order -> OrderRow] /\ order'[o] = [order[o] EXCEPT !.refund = after]
      /\ \A i \in Order \ {o} : order'[i] = order[i]
  BY <1>1, <1>2, <1>3 DEF IInv, TypeOK, OrderRow
<1>6. /\ order'[o].payment = order[o].payment /\ order'[o].fulfillment = order[o].fulfillment
      /\ order'[o].courtesy = order[o].courtesy /\ order'[o].deadline = order[o].deadline
      /\ order'[o].retire = order[o].retire /\ order'[o].refund = after
  BY <1>1, <1>5 DEF OrderRow
<1>7. /\ refund'[o].state = IF refund[o].state \in {"pending", "submitted", "succeeded"}
                            THEN "succeeded" ELSE refund[o].state
      /\ refund[o].state \in {"none", "pending", "submitted", "succeeded", "failed"}
  BY <1>1, <1>4, RefundRows DEF RefundRow
<1>8. RefundAgrees(o)'
  BY <1>1, <1>6, <1>7 DEF OrderInv, RefundAgrees, Mirror, after
<1> QED BY <1>3, <1>4, <1>5, <1>6, <1>7, <1>8 DEF RefundOnly

LEMMA RefundEventKeeps ==
  ASSUME IInv, NEW o \in Order, RefundEvent(o)
  PROVE  IInv'
<1>1. /\ provider[o] = "accepted" /\ Succeed(o)
      /\ UNCHANGED <<job, bound, credit, key, recovery, mail, provider, run>>
  BY DEF RefundEvent
<1>2. RefundOnly(o) /\ RefundAgrees(o)'
  BY <1>1, SucceedIsRefundOnly
<1>3. run' \in [Run -> RunState] /\ \A p \in Run : RunInv(p)'
  BY <1>1 DEF IInv, TypeOK, RunInv
<1> QED BY <1>1, <1>2, <1>3, RefundOnlyKeeps

LEMMA MarkSucceededKeeps ==
  ASSUME IInv, NEW p \in Run, MarkRefundSucceeded(p)
  PROVE  IInv'
<1>1. run[p].pc = "marking"
  BY DEF MarkRefundSucceeded
<1>2. PICK o \in Order : o = run[p].order
  BY <1>1, RunTypes
<1>3. /\ Succeed(o) /\ run' = [run EXCEPT ![p] = IdleRun]
      /\ UNCHANGED <<job, bound, credit, key, recovery, mail, provider>>
  BY <1>2 DEF MarkRefundSucceeded
<1>4. provider[o] = "accepted"
  BY <1>1, <1>2, RunTypes DEF RunInv
<1>5. RefundOnly(o) /\ RefundAgrees(o)'
  BY <1>3, <1>4, SucceedIsRefundOnly
<1>6. run' \in [Run -> RunState] /\ \A q \in Run : RunInv(q)'
  BY <1>3, IdleKeepsRuns
<1> QED BY <1>3, <1>5, <1>6, RefundOnlyKeeps

LEMMA ClaimKeeps ==
  ASSUME IInv, NEW p \in Run, NEW o \in Order, ClaimPendingRefund(p, o)
  PROVE  IInv'
<1>1. order[o] \in OrderRow /\ refund[o] \in RefundRow /\ OrderInv(o)
  BY OrderTypes
<1> DEFINE final == Attempted(refund[o].attempts) >= MaxAttempts
           r == [pc |-> "calling", order |-> o, answer |-> "none", final |-> final]
<1>2. /\ refund' = [refund EXCEPT ![o] = LeasedRefund(refund[o], p)]
      /\ run' = [run EXCEPT ![p] = r]
      /\ UNCHANGED <<order, job, bound, credit, key, recovery, mail, provider>>
  BY DEF ClaimPendingRefund, orderVars
<1>3. /\ refund' \in [Order -> RefundRow] /\ refund'[o].state = refund[o].state
      /\ \A i \in Order \ {o} : refund'[i] = refund[i]
  BY <1>1, <1>2, RefundRows DEF IInv, TypeOK
<1>4. RefundOnly(o) /\ RefundAgrees(o)'
  BY <1>1, <1>2, <1>3 DEF RefundOnly, OrderInv, RefundAgrees, IInv, TypeOK, Mirror
<1>5. final \in BOOLEAN
  OBVIOUS
<1> HIDE DEF final
<1>6. r \in RunState /\ r.pc = "calling" /\ r.order = o
  BY <1>5 DEF RunState, Answer
<1> HIDE DEF r
<1>7. run' \in [Run -> RunState] /\ \A q \in Run : run'[q] = IF q = p THEN r ELSE run[q]
  BY <1>2, <1>6 DEF IInv, TypeOK
<1>8. \A q \in Run : RunInv(q)'
  BY <1>2, <1>6, <1>7 DEF IInv, RunInv
<1> QED BY <1>2, <1>4, <1>7, <1>8, RefundOnlyKeeps

\* The answer of the provider: acceptance is never taken back.
LEMMA RequestKeeps ==
  ASSUME IInv, NEW p \in Run, NEW answer \in Answer \ {"none"}, NEW permanent \in BOOLEAN,
         RequestRefund(p, answer, permanent)
  PROVE  IInv'
<1>0. run[p].pc = "calling"
  BY DEF RequestRefund
<1>1. PICK o \in Order : o = run[p].order
  BY <1>0, RunTypes
<1>2. /\ answer \in {"submitted", "succeeded"} => provider'[o] = "accepted"
      /\ run' = [run EXCEPT ![p] = AnsweredRun(run[p], answer, permanent)]
      /\ UNCHANGED <<order, job, bound, credit, key, recovery, mail, refund>>
      /\ \E s \in ProviderState :
           provider' = [provider EXCEPT ![o] = IF provider[o] = "none" THEN s ELSE provider[o]]
  BY <1>1 DEF RequestRefund, orderVars
<1>3. run[p] \in RunState
  BY RunTypes
<1>4. /\ AnsweredRun(run[p], answer, permanent) \in RunState
      /\ AnsweredRun(run[p], answer, permanent).pc = IF answer = "error" THEN "failing" ELSE "answered"
      /\ AnsweredRun(run[p], answer, permanent).order = o
  BY <1>1, <1>3 DEF AnsweredRun, RunState, Answer
<1>5. /\ provider' \in [Order -> ProviderState]
      /\ \A i \in Order : provider[i] = "accepted" => provider'[i] = "accepted"
      /\ \A i \in Order \ {o} : provider'[i] = provider[i]
  BY <1>2 DEF IInv, TypeOK, ProviderState
<1>6. /\ run' \in [Run -> RunState]
      /\ \A q \in Run : run'[q] = IF q = p THEN AnsweredRun(run[p], answer, permanent) ELSE run[q]
  BY <1>2, <1>4 DEF IInv, TypeOK
<1>7. TypeOK'
  BY <1>2, <1>5, <1>6 DEF IInv, TypeOK
<1>8. OrderInv(o)'
  <2>1. OrderInv(o)
    BY OrderTypes
  <2>2. RefundAgrees(o)'
    BY <1>2, <1>5, <2>1 DEF OrderInv, RefundAgrees, Mirror
  <2> QED
    BY <1>2, <2>1, <2>2 DEF OrderInv, FailureRefunded, RecoveryAgrees, CreditAgrees,
                            UnpaidIsFresh, RetiredAgrees, ReportAgrees, NothingReturned
<1>9. Others(o)
  BY <1>2, <1>5 DEF Others
<1>10. \A q \in Run : RunInv(q)'
  <2>1. ASSUME NEW q \in Run, q # p PROVE RunInv(q)'
    BY <2>1, <1>5, <1>6 DEF IInv, RunInv
  <2>2. RunInv(p)'
    BY <1>2, <1>4, <1>6 DEF RunInv, Answer
  <2> QED BY <2>1, <2>2
<1> QED BY <1>7, <1>8, <1>9, <1>10, OrdersKept DEF IInv

LEMMA MarkSubmittedKeeps ==
  ASSUME IInv, NEW p \in Run, MarkRefundSubmitted(p)
  PROVE  IInv'
<1>1. run[p].pc = "answered" /\ run[p] \in RunState
  BY RunTypes DEF MarkRefundSubmitted
<1>2. PICK o \in Order : o = run[p].order
  BY <1>1, RunTypes
<1>3. order[o] \in OrderRow /\ refund[o] \in RefundRow /\ OrderInv(o) /\ provider[o] = "accepted"
  BY <1>1, <1>2, OrderTypes, RunTypes DEF RunInv
<1>4. UNCHANGED <<job, bound, credit, key, recovery, mail, provider>>
  BY DEF MarkRefundSubmitted
<1>5. RefundOnly(o) /\ RefundAgrees(o)'
  <2>1. CASE UNCHANGED <<refund, order>>
    BY <1>3, <1>4, <2>1 DEF RefundOnly, OrderInv, RefundAgrees, Mirror, IInv, TypeOK
  <2>2. CASE /\ refund[o].state \in {"pending", "submitted"}
             /\ refund' = [refund EXCEPT ![o] = SubmittedRefund(refund[o])]
             /\ order' = [order EXCEPT ![o].refund =
                  IF order[o].refund \in {"pending", "submitted"} THEN "submitted" ELSE order[o].refund]
    <3>1. PICK status \in {"not_required", "pending", "submitted", "refunded", "failed"} :
            status = IF order[o].refund \in {"pending", "submitted"} THEN "submitted" ELSE order[o].refund
      BY <1>3 DEF OrderRow
    <3>2. /\ refund' \in [Order -> RefundRow] /\ refund'[o].state = "submitted"
          /\ \A i \in Order \ {o} : refund'[i] = refund[i]
      BY <1>3, <2>2, RefundRows DEF IInv, TypeOK
    <3>3. /\ order' \in [Order -> OrderRow] /\ order'[o] = [order[o] EXCEPT !.refund = status]
          /\ \A i \in Order \ {o} : order'[i] = order[i]
      BY <1>3, <2>2, <3>1 DEF IInv, TypeOK, OrderRow
    <3>4. RefundOnly(o)
      BY <1>3, <1>4, <2>2, <3>1, <3>2, <3>3 DEF RefundOnly, OrderRow
    <3>5. RefundAgrees(o)'
      BY <1>3, <1>4, <2>2, <3>1, <3>2, <3>3 DEF OrderInv, RefundAgrees, Mirror, OrderRow
    <3> QED BY <3>4, <3>5
  <2> QED BY <1>2, <2>1, <2>2 DEF MarkRefundSubmitted
<1>6. /\ run' \in [Run -> RunState]
      /\ \A q \in Run \ {p} : run'[q] = run[q]
      /\ run'[p].pc \in {"failing", "marking", "idle"}
      /\ run'[p].pc # "idle" => run'[p].order = o
  <2>1. CASE run' = [run EXCEPT ![p].pc = "failing"]
    BY <1>1, <1>2, <2>1 DEF IInv, TypeOK, RunState
  <2>2. CASE run' = [run EXCEPT ![p].pc = "marking"]
    BY <1>1, <1>2, <2>2 DEF IInv, TypeOK, RunState
  <2>3. CASE run' = [run EXCEPT ![p] = IdleRun]
    BY <2>3, IdleRunType DEF IInv, TypeOK
  <2> QED BY <2>1, <2>2, <2>3 DEF MarkRefundSubmitted
<1>7. \A q \in Run : RunInv(q)'
  BY <1>3, <1>4, <1>6 DEF IInv, RunInv
<1> QED BY <1>4, <1>5, <1>6, <1>7, RefundOnlyKeeps

LEMMA MarkFailedKeeps ==
  ASSUME IInv, NEW p \in Run, MarkRefundFailed(p)
  PROVE  IInv'
<1>1. PICK o \in Order : o = run[p].order
  BY RunTypes DEF MarkRefundFailed
<1>2. order[o] \in OrderRow /\ refund[o] \in RefundRow /\ OrderInv(o)
  BY OrderTypes
<1>3. /\ run' = [run EXCEPT ![p] = IdleRun]
      /\ UNCHANGED <<job, bound, credit, key, recovery, mail, provider>>
  BY DEF MarkRefundFailed
<1>4. RefundOnly(o) /\ RefundAgrees(o)'
  <2>1. CASE Fenced(p, o) /\ refund[o].state \in {"pending", "submitted"}
    <3>1. PICK status \in {"not_required", "pending", "submitted", "refunded", "failed"} :
            status = IF order[o].refund \in {"pending", "submitted"} THEN "failed" ELSE order[o].refund
      BY <1>2 DEF OrderRow
    <3>2. /\ refund' = [refund EXCEPT ![o] = FailedRefund(refund[o])]
          /\ order' = [order EXCEPT ![o].refund = status]
      BY <1>1, <2>1, <3>1 DEF MarkRefundFailed
    <3>3. /\ refund' \in [Order -> RefundRow] /\ refund'[o].state = "failed"
          /\ \A i \in Order \ {o} : refund'[i] = refund[i]
      BY <1>2, <3>2, RefundRows DEF IInv, TypeOK
    <3>4. /\ order' \in [Order -> OrderRow] /\ order'[o] = [order[o] EXCEPT !.refund = status]
          /\ \A i \in Order \ {o} : order'[i] = order[i]
      BY <1>2, <3>2 DEF IInv, TypeOK, OrderRow
    <3>5. RefundOnly(o)
      BY <1>2, <1>3, <2>1, <3>1, <3>3, <3>4 DEF RefundOnly, OrderRow
    <3>6. RefundAgrees(o)'
      BY <1>2, <1>3, <2>1, <3>1, <3>3, <3>4 DEF OrderInv, RefundAgrees, Mirror, OrderRow
    <3> QED BY <3>5, <3>6
  <2>2. CASE ~(Fenced(p, o) /\ refund[o].state \in {"pending", "submitted"})
    <3>1. refund' = [refund EXCEPT ![o] = refund[o]]
      BY <1>1, <2>2 DEF MarkRefundFailed
    <3>2. order' = [order EXCEPT ![o].refund = order[o].refund]
      BY <1>1, <2>2 DEF MarkRefundFailed
    <3>3. UNCHANGED <<refund, order>>
      BY <1>2, <3>1, <3>2 DEF IInv, TypeOK, OrderRow
    <3> QED BY <1>2, <1>3, <3>3 DEF RefundOnly, OrderInv, RefundAgrees, Mirror, IInv, TypeOK
  <2> QED BY <2>1, <2>2
<1>5. run' \in [Run -> RunState] /\ \A q \in Run : RunInv(q)'
  BY <1>3, IdleKeepsRuns
<1> QED BY <1>3, <1>4, <1>5, RefundOnlyKeeps

LEMMA RetryKeeps ==
  ASSUME IInv, NEW p \in Run, ScheduleRefundRetry(p)
  PROVE  IInv'
<1>1. PICK o \in Order : o = run[p].order
  BY RunTypes DEF ScheduleRefundRetry
<1>2. order[o] \in OrderRow /\ refund[o] \in RefundRow /\ OrderInv(o)
  BY OrderTypes
<1>3. /\ run' = [run EXCEPT ![p] = IdleRun]
      /\ UNCHANGED <<order, job, bound, credit, key, recovery, mail, provider>>
      /\ \/ refund' = [refund EXCEPT ![o] = BackedOffRefund(refund[o])]
         \/ refund' = [refund EXCEPT ![o] = refund[o]]
  BY <1>1 DEF ScheduleRefundRetry, orderVars
<1>4. /\ refund' \in [Order -> RefundRow] /\ refund'[o].state = refund[o].state
      /\ \A i \in Order \ {o} : refund'[i] = refund[i]
  BY <1>2, <1>3, RefundRows DEF IInv, TypeOK
<1>5. RefundOnly(o) /\ RefundAgrees(o)'
  BY <1>2, <1>3, <1>4 DEF RefundOnly, OrderInv, RefundAgrees, Mirror, IInv, TypeOK
<1>6. run' \in [Run -> RunState] /\ \A q \in Run : RunInv(q)'
  BY <1>3, IdleKeepsRuns
<1> QED BY <1>3, <1>5, <1>6, RefundOnlyKeeps

\* The clock and the e-mail: nothing but the lease, the backoff or the mail.
LEMMA TimeKeeps ==
  ASSUME IInv, NEW o \in Order, LeaseExpires(o) \/ BackoffElapses(o)
  PROVE  IInv'
<1>1. order[o] \in OrderRow /\ refund[o] \in RefundRow /\ OrderInv(o)
  BY OrderTypes
<1>2. UNCHANGED <<order, job, bound, credit, key, recovery, mail, provider, run>>
  BY DEF LeaseExpires, BackoffElapses, orderVars
<1>3. /\ refund' \in [Order -> RefundRow] /\ refund'[o].state = refund[o].state
      /\ \A i \in Order \ {o} : refund'[i] = refund[i]
  <2>1. CASE LeaseExpires(o)
    BY <1>1, <2>1 DEF LeaseExpires, IInv, TypeOK, RefundRow
  <2>2. CASE BackoffElapses(o)
    BY <1>1, <2>2 DEF BackoffElapses, IInv, TypeOK, RefundRow
  <2> QED BY <2>1, <2>2
<1>4. RefundOnly(o) /\ RefundAgrees(o)'
  BY <1>1, <1>2, <1>3 DEF RefundOnly, OrderInv, RefundAgrees, Mirror, IInv, TypeOK
<1>5. run' \in [Run -> RunState] /\ \A q \in Run : RunInv(q)'
  BY <1>2 DEF IInv, TypeOK, RunInv
<1> QED BY <1>2, <1>4, <1>5, RefundOnlyKeeps

LEMMA MailKeeps ==
  ASSUME IInv, NEW o \in Order, SendPromise(o) \/ MarkPromiseSent(o)
  PROVE  IInv'
<1>1. OrderInv(o)
  BY OrderTypes
<1>2. /\ UNCHANGED <<order, job, bound, credit, key, recovery, refund, provider, run>>
      /\ mail' \in [Order -> MailState] /\ mail[o] # "none"
      /\ \A i \in Order \ {o} : mail'[i] = mail[i]
  BY DEF SendPromise, MarkPromiseSent, orderVars, refundVars, IInv, TypeOK, MailState
<1>3. Others(o)
  BY <1>2 DEF Others
<1>4. TypeOK'
  BY <1>2 DEF IInv, TypeOK
<1>5. OrderInv(o)'
  <2>1. RefundAgrees(o)' /\ FailureRefunded(o)' /\ CreditAgrees(o)' /\ RecoveryAgrees(o)'
    BY <1>1, <1>2 DEF OrderInv, RefundAgrees, FailureRefunded, CreditAgrees, RecoveryAgrees, Mirror
  <2>2. UnpaidIsFresh(o)' /\ RetiredAgrees(o)' /\ ReportAgrees(o)'
    BY <1>1, <1>2 DEF OrderInv, UnpaidIsFresh, RetiredAgrees, ReportAgrees, NothingReturned
  <2> QED BY <2>1, <2>2 DEF OrderInv
<1>6. \A p \in Run : RunInv(p)'
  BY <1>2 DEF IInv, RunInv
<1> QED BY <1>3, <1>4, <1>5, <1>6, OrdersKept DEF IInv

LEMMA CrashKeeps ==
  ASSUME IInv, NEW p \in Run, CrashRun(p)
  PROVE  IInv'
<1>1. /\ run' = [run EXCEPT ![p] = IdleRun]
      /\ UNCHANGED <<order, job, bound, credit, key, recovery, mail, refund, provider>>
  BY DEF CrashRun, orderVars
<1>2. run' \in [Run -> RunState] /\ \A q \in Run : RunInv(q)'
  BY <1>1, IdleKeepsRuns
<1>3. TypeOK'
  BY <1>1, <1>2 DEF IInv, TypeOK
<1>4. \A o \in Order : OrderInv(o)'
  BY <1>1 DEF IInv, OrderInv, RefundAgrees, FailureRefunded, CreditAgrees, UnpaidIsFresh,
              RetiredAgrees, RecoveryAgrees, ReportAgrees, NothingReturned, Mirror
<1> QED BY <1>2, <1>3, <1>4 DEF IInv

-----------------------------------------------------------------------------
(* The invariant holds initially and in every step.                         *)

LEMMA InitEstablishes == Init => IInv
<1> SUFFICES ASSUME Init PROVE IInv
  OBVIOUS
<1> USE DEF Init
<1>1. TypeOK
  BY AttemptsAssumption
  DEF TypeOK, OrderRow, JobState, CreditStatus, RefundRow, NoRefund, MailState, ProviderState,
      RecoveryState, RunState, IdleRun, Answer
<1>2. ASSUME NEW o \in Order PROVE OrderInv(o)
  BY DEF OrderInv, RefundAgrees, FailureRefunded, RecoveryAgrees, CreditAgrees, UnpaidIsFresh,
         RetiredAgrees, ReportAgrees, NothingReturned, Mirror, NoRefund
<1>3. \A p \in Run : RunInv(p)
  BY DEF RunInv, IdleRun
<1> QED BY <1>1, <1>2, <1>3 DEF IInv

LEMMA StepPreserves == IInv /\ [Next]_vars => IInv'
<1> SUFFICES ASSUME IInv, [Next]_vars PROVE IInv'
  OBVIOUS
<1>1. ASSUME NEW o \in Order, OrderStep(o) PROVE IInv'
  BY <1>1, PaidEventKeeps, RetiredEventKeeps, OrderOnlyKeeps, TerminalizeJobKeeps,
     TerminalizeReportKeeps, RecordOutcomeKeeps, DeadlineKeeps, LookKeeps, RecoveryKeeps,
     RefundEventKeeps, TimeKeeps, MailKeeps
  DEF OrderStep
<1>2. ASSUME NEW p \in Run, RunStep(p) PROVE IInv'
  BY <1>2, ClaimKeeps, RequestKeeps, MarkSubmittedKeeps, MarkSucceededKeeps, MarkFailedKeeps,
     RetryKeeps, CrashKeeps
  DEF RunStep, WorkStep, RequestStep
<1>3. CASE UNCHANGED vars
  <2>1. UNCHANGED <<order, job, bound, credit, key, recovery, refund, mail, provider, run>>
    BY <1>3 DEF vars
  <2>2. TypeOK'
    BY <2>1 DEF IInv, TypeOK
  <2>3. \A o \in Order : OrderInv(o)'
    BY <2>1 DEF IInv, OrderInv, RefundAgrees, FailureRefunded, CreditAgrees, UnpaidIsFresh,
                RetiredAgrees, RecoveryAgrees, ReportAgrees, NothingReturned, Mirror
  <2>4. \A p \in Run : RunInv(p)'
    BY <2>1 DEF IInv, RunInv
  <2> QED BY <2>2, <2>3, <2>4 DEF IInv
<1> QED BY <1>1, <1>2, <1>3 DEF Next

\* The rows of an order agree with each other in every reachable state.
THEOREM OrdersAgree == Spec => []IInv
BY InitEstablishes, StepPreserves, PTL DEF Spec

\* Every variable keeps its type.
THEOREM OrderTypesHold == Spec => []TypeOK
<1>1. IInv => TypeOK
  BY DEF IInv
<1> QED BY <1>1, OrdersAgree, PTL

\* refund_status of the order and state of its refund disagree only of an order
\* that a recovery reopened over a refund on its way, and that refund is kept.
THEOREM OrdersMirrorRefunds == Spec => []OrderMirrorsRefund
<1>1. IInv => OrderMirrorsRefund
  BY DEF IInv, OrderInv, RefundAgrees, OrderMirrorsRefund, Overlooked
<1> QED BY <1>1, OrdersAgree, PTL

\* An order that failed, was limited or missed its deadline has a refund.
THEOREM FailuresAreRefunded == Spec => []NoReportNoCharge
<1>1. IInv => NoReportNoCharge
  BY DEF IInv, OrderInv, FailureRefunded, NoReportNoCharge
<1> QED BY <1>1, OrdersAgree, PTL

\* A complete report is charged, and nothing is returned for it unless a recovery
\* overlooked the refund.
THEOREM ReportsAreCharged == Spec => []ReportIsCharged
<1>1. IInv => ReportIsCharged
  BY DEF IInv, OrderInv, ReportAgrees, NothingReturned, ReportIsCharged, Overlooked
<1> QED BY <1>1, OrdersAgree, PTL

\* The ledger, the job and the internal key agree about the credit.
THEOREM CreditsAreAccounted == Spec => []CreditAccounted
<1>1. IInv => CreditAccounted
  BY DEF IInv, OrderInv, CreditAgrees, CreditAccounted
<1> QED BY <1>1, OrdersAgree, PTL

\* An order is called refunded only after the provider has accepted the refund.
THEOREM RefundsAreReturned == Spec => []RefundedIsReturned
<1>1. IInv => RefundedIsReturned
  BY DEF IInv, OrderInv, RefundAgrees, RefundedIsReturned
<1> QED BY <1>1, OrdersAgree, PTL

\* Money for a retired order starts nothing and goes back.
THEOREM RetiredOrdersStartNothing == Spec => []RetiredStartsNothing
<1>1. IInv => RetiredStartsNothing
  BY DEF IInv, OrderInv, CreditAgrees, RetiredAgrees, RetiredStartsNothing
<1> QED BY <1>1, OrdersAgree, PTL

\* Order, refund row and provider agree on the refund, a refund overlooked by a
\* recovery apart.
THEOREM RefundsAlwaysAgree == Spec => []RefundsAgree
BY OrdersMirrorRefunds, RefundsAreReturned, PTL DEF RefundsAgree

\* No money is kept without a complete report, of any contract.
THEOREM MoneyAlwaysGoesBack == Spec => []MoneyGoesBack
BY FailuresAreRefunded, RetiredOrdersStartNothing, PTL DEF MoneyGoesBack

-----------------------------------------------------------------------------
(* What no step of PaidOrders may do.                                       *)

-----------------------------------------------------------------------------
(* A decided refund and a job that is over.                                 *)

DecidedAt(o) ==
  /\ refund[o].state \in {"succeeded", "failed"} => refund'[o].state = refund[o].state
  /\ (job[o] \in TerminalOutcome /\ job'[o] # job[o])
       => \/ refund[o].state = "pending" /\ refund'[o].state = "none"
          \/ /\ refund[o].state \in {"submitted", "succeeded", "failed"}
             /\ refund'[o] = refund[o] /\ recovery'[o] = "overtaken"

LEMMA OrderStepDecides ==
  ASSUME IInv, NEW q \in Order, OrderStep(q), NEW o \in Order
  PROVE  DecidedAt(o)
<1>0. /\ refund[o] \in RefundRow /\ refund[q] \in RefundRow /\ job \in [Order -> JobState]
      /\ refund \in [Order -> RefundRow]
  BY DEF IInv, TypeOK
<1>1. ASSUME NEW late \in BOOLEAN, ApplyPaidPaymentEvent(q, late) PROVE DecidedAt(o)
  BY <1>0, <1>1 DEF ApplyPaidPaymentEvent, refundVars, DecidedAt, TerminalOutcome
<1>2. ASSUME NEW late \in BOOLEAN, ApplyRetiredPaymentEvent(q, late) PROVE DecidedAt(o)
  BY <1>0, <1>2, RefundRows DEF ApplyRetiredPaymentEvent, DecidedAt
<1>3. CASE \/ PrepareRetirement(q) \/ FinalizeRetirement(q) \/ DeadlinePasses(q)
           \/ \E status \in {"failed", "cancelled"} : ApplyUnsuccessfulPaymentEvent(q, status)
  BY <1>3 DEF PrepareRetirement, FinalizeRetirement, DeadlinePasses,
              ApplyUnsuccessfulPaymentEvent, refundVars, DecidedAt
<1>4. ASSUME NEW outcome \in TerminalOutcome, TerminalizeJob(q, outcome) PROVE DecidedAt(o)
  BY <1>0, <1>4 DEF TerminalizeJob, refundVars, DecidedAt, TerminalOutcome
<1>5. ASSUME NEW outcome \in TerminalOutcome, TerminalizePaidReport(q, outcome) PROVE DecidedAt(o)
  BY <1>0, <1>5, RefundRows DEF TerminalizePaidReport, FulfillOrder, DecidedAt, TerminalOutcome
<1>6. CASE RecordPaidJobOutcome(q)
  BY <1>0, <1>6, RefundRows DEF RecordPaidJobOutcome, FulfillOrder, DecidedAt
<1>7. CASE ExpirePaidOrderSla(q)
  BY <1>0, <1>7, RefundRows DEF ExpirePaidOrderSla, SlaMissed, DecidedAt, TerminalOutcome
<1>8. CASE RecoverHistoricalPaidJob(q)
  <2>1. /\ refund[q].state \in {"pending", "submitted", "succeeded", "failed"}
        /\ recovery \in [Order -> RecoveryState]
    BY <1>0, <1>8, OrderTypes
    DEF RecoverHistoricalPaidJob, Recoverable, OrderInv, FailureRefunded, RefundRow, IInv, TypeOK
  <2>2. CASE o = q
    <3>1. refund'[o] = WithoutPending(refund[o])
      BY <1>0, <1>8, <2>2 DEF RecoverHistoricalPaidJob
    <3>2. recovery'[o] = IF refund[o].state = "pending" THEN "none" ELSE "overtaken"
      BY <1>8, <2>1, <2>2 DEF RecoverHistoricalPaidJob
    <3> QED BY <2>1, <2>2, <3>1, <3>2, RefundRows DEF WithoutPending, DecidedAt
  <2>3. CASE o # q
    BY <1>0, <1>8, <2>3 DEF RecoverHistoricalPaidJob, DecidedAt
  <2> QED BY <2>2, <2>3
<1>13. CASE ReadForRecovery(q) \/ RefuseRecovery(q)
  BY <1>13 DEF ReadForRecovery, RefuseRecovery, refundVars, DecidedAt
<1>9. CASE RefundEvent(q)
  BY <1>0, <1>9, RefundRows DEF RefundEvent, Succeed, DecidedAt
<1>10. CASE LeaseExpires(q)
  BY <1>0, <1>10 DEF LeaseExpires, orderVars, DecidedAt, RefundRow
<1>11. CASE BackoffElapses(q)
  BY <1>0, <1>11 DEF BackoffElapses, orderVars, DecidedAt, RefundRow
<1>12. CASE SendPromise(q) \/ MarkPromiseSent(q)
  BY <1>12 DEF SendPromise, MarkPromiseSent, orderVars, refundVars, DecidedAt
<1> QED
  BY <1>1, <1>2, <1>3, <1>4, <1>5, <1>6, <1>7, <1>8, <1>9, <1>10, <1>11, <1>12, <1>13 DEF OrderStep

LEMMA RunStepDecides ==
  ASSUME IInv, NEW p \in Run, RunStep(p), NEW o \in Order
  PROVE  DecidedAt(o)
<1>0. refund \in [Order -> RefundRow] /\ refund[o] \in RefundRow
  BY DEF IInv, TypeOK
<1>1. ASSUME NEW q \in Order, ClaimPendingRefund(p, q) PROVE DecidedAt(o)
  <2>1. refund[o].state = "pending" \/ refund'[o] = refund[o]
    BY <1>0, <1>1 DEF ClaimPendingRefund, Claimable
  <2> QED BY <1>1, <2>1 DEF ClaimPendingRefund, orderVars, DecidedAt
<1>2. CASE RequestStep(p) \/ CrashRun(p)
  BY <1>2 DEF RequestStep, RequestRefund, CrashRun, orderVars, DecidedAt
<1>3. CASE MarkRefundSubmitted(p)
  <2>1. \/ refund[o].state \in {"pending", "submitted"}
        \/ refund'[o] = refund[o]
    BY <1>0, <1>3 DEF MarkRefundSubmitted
  <2> QED BY <1>3, <2>1 DEF MarkRefundSubmitted, DecidedAt
<1>4. CASE MarkRefundSucceeded(p)
  BY <1>0, <1>4, RefundRows DEF MarkRefundSucceeded, Succeed, DecidedAt
<1>5. CASE MarkRefundFailed(p)
  <2>1. \/ run[p].order = o /\ refund[o].state \in {"pending", "submitted"}
        \/ refund'[o] = refund[o]
    BY <1>0, <1>5 DEF MarkRefundFailed
  <2> QED BY <1>5, <2>1 DEF MarkRefundFailed, DecidedAt
<1>6. CASE ScheduleRefundRetry(p)
  BY <1>0, <1>6, RefundRows DEF ScheduleRefundRetry, orderVars, DecidedAt
<1> QED BY <1>1, <1>2, <1>3, <1>4, <1>5, <1>6 DEF RunStep, WorkStep

\* A refund is decided once; a job that is over is reopened by a recovery only, which
\* calls off a refund that is still pending and leaves any other as it is.
THEOREM RefundsAreDecidedOnce == Spec => DecidedIsFinal
<1>1. ASSUME IInv, Next, NEW o \in Order PROVE DecidedAt(o)
  BY <1>1, OrderStepDecides, RunStepDecides DEF Next
<1>2. ASSUME IInv, [Next]_vars
      PROVE  [\A o \in Order :
               /\ refund[o].state \in {"succeeded", "failed"} => refund'[o].state = refund[o].state
               /\ (job[o] \in TerminalOutcome /\ job'[o] # job[o])
                    => \/ refund[o].state = "pending" /\ refund'[o].state = "none"
                       \/ /\ refund[o].state \in {"submitted", "succeeded", "failed"}
                          /\ refund'[o] = refund[o] /\ recovery'[o] = "overtaken"]_vars
  BY <1>1, <1>2 DEF DecidedAt
<1> QED BY <1>2, OrdersAgree, PTL DEF Spec, DecidedIsFinal

-----------------------------------------------------------------------------
(* Webhooks and reopened orders.                                            *)

ForwardAt(o) ==
  /\ order[o].payment = "paid" => order'[o].payment = "paid"
  /\ order[o].deadline = "passed" => order'[o].deadline = "passed"
  /\ (order[o].fulfillment \in TerminalOutcome
       /\ order'[o].fulfillment # order[o].fulfillment) => job'[o] = "open"

LEMMA OrderStepForward ==
  ASSUME IInv, NEW q \in Order, OrderStep(q), NEW o \in Order \ Legacy
  PROVE  ForwardAt(o)
<1>0. /\ order[o] \in OrderRow /\ order[q] \in OrderRow /\ order \in [Order -> OrderRow]
      /\ job \in [Order -> JobState] /\ OrderInv(o)
  BY OrderTypes DEF IInv, TypeOK
<1> SUFFICES ASSUME q = o PROVE ForwardAt(o)
  <2>1. CASE q # o
    <3>1. order'[o] = order[o]
      BY <1>0, <2>1 DEF OrderStep, ApplyPaidPaymentEvent, ApplyRetiredPaymentEvent,
           PrepareRetirement, FinalizeRetirement, DeadlinePasses, ApplyUnsuccessfulPaymentEvent,
           TerminalizeJob, TerminalizePaidReport, FulfillOrder, RecordPaidJobOutcome,
           ExpirePaidOrderSla, ReadForRecovery, RefuseRecovery, RecoverHistoricalPaidJob, RefundEvent, Succeed, LeaseExpires,
           BackoffElapses, SendPromise, MarkPromiseSent, orderVars
    <3> QED BY <3>1 DEF ForwardAt
  <2> QED BY <2>1
<1>1. ASSUME NEW late \in BOOLEAN, ApplyPaidPaymentEvent(o, late) PROVE ForwardAt(o)
  BY <1>0, <1>1, PaidOrderRow DEF ApplyPaidPaymentEvent, ForwardAt, TerminalOutcome
<1>2. ASSUME NEW late \in BOOLEAN PROVE ~ApplyRetiredPaymentEvent(o, late)
  BY DEF ApplyRetiredPaymentEvent, Retired
<1>3. CASE PrepareRetirement(o) \/ FinalizeRetirement(o)
  BY <1>3 DEF PrepareRetirement, FinalizeRetirement
<1>4. CASE DeadlinePasses(o)
  BY <1>0, <1>4 DEF DeadlinePasses, ForwardAt, OrderRow
<1>5. ASSUME NEW status \in {"failed", "cancelled"}, ApplyUnsuccessfulPaymentEvent(o, status)
      PROVE  ForwardAt(o)
  BY <1>0, <1>5 DEF ApplyUnsuccessfulPaymentEvent, ForwardAt, OrderRow
<1>6. ASSUME NEW outcome \in TerminalOutcome, TerminalizeJob(o, outcome) PROVE ForwardAt(o)
  BY <1>6 DEF TerminalizeJob, ForwardAt
<1>7. ASSUME NEW outcome \in TerminalOutcome, TerminalizePaidReport(o, outcome) PROVE ForwardAt(o)
  \* While the job is open the order is not over.
  <2>1. order[o].fulfillment \notin TerminalOutcome
    BY <1>0, <1>7 DEF TerminalizePaidReport, OrderInv, ReportAgrees, TerminalOutcome
  <2>2. order'[o] = FulfilledOrder(order[o], outcome)
    BY <1>0, <1>7 DEF TerminalizePaidReport, FulfillOrder
  <2> QED BY <1>0, <2>1, <2>2, FulfilledOrderRow DEF ForwardAt
<1>8. CASE RecordPaidJobOutcome(o)
  <2>1. order'[o] = FulfilledOrder(order[o], job[o]) /\ job[o] \in TerminalOutcome
    BY <1>0, <1>8 DEF RecordPaidJobOutcome, FulfillOrder
  <2>2. order[o].fulfillment \in TerminalOutcome => order[o].fulfillment = job[o]
    BY <1>8 DEF RecordPaidJobOutcome, Over
  <2> QED BY <1>0, <2>1, <2>2, FulfilledOrderRow DEF ForwardAt
<1>9. CASE ExpirePaidOrderSla(o)
  BY <1>0, <1>9, LateOrderRow DEF ExpirePaidOrderSla, ForwardAt
<1>10. CASE RecoverHistoricalPaidJob(o)
  BY <1>0, <1>10, ReopenedOrderRow DEF RecoverHistoricalPaidJob, ForwardAt
<1>11. CASE RefundEvent(o)
  BY <1>0, <1>11 DEF RefundEvent, Succeed, ForwardAt, OrderRow
<1>12. CASE \/ LeaseExpires(o) \/ BackoffElapses(o) \/ SendPromise(o) \/ MarkPromiseSent(o)
            \/ ReadForRecovery(o) \/ RefuseRecovery(o)
  BY <1>12 DEF LeaseExpires, BackoffElapses, SendPromise, MarkPromiseSent, ReadForRecovery,
               RefuseRecovery, orderVars, ForwardAt
<1> QED BY <1>1, <1>2, <1>3, <1>4, <1>5, <1>6, <1>7, <1>8, <1>9, <1>10, <1>11, <1>12 DEF OrderStep

LEMMA RunStepForward ==
  ASSUME IInv, NEW p \in Run, RunStep(p), NEW o \in Order
  PROVE  ForwardAt(o)
<1>0. order \in [Order -> OrderRow] /\ order[o] \in OrderRow
  BY DEF IInv, TypeOK
<1>1. CASE \/ \E q \in Order : ClaimPendingRefund(p, q)
           \/ RequestStep(p) \/ CrashRun(p) \/ ScheduleRefundRetry(p)
  BY <1>1 DEF ClaimPendingRefund, RequestStep, RequestRefund, CrashRun, ScheduleRefundRetry,
              orderVars, ForwardAt
<1>2. CASE MarkRefundSubmitted(p)
  BY <1>0, <1>2 DEF MarkRefundSubmitted, ForwardAt, OrderRow
<1>3. CASE MarkRefundSucceeded(p)
  BY <1>0, <1>3 DEF MarkRefundSucceeded, Succeed, ForwardAt, OrderRow
<1>4. CASE MarkRefundFailed(p)
  BY <1>0, <1>4 DEF MarkRefundFailed, ForwardAt, OrderRow
<1> QED BY <1>1, <1>2, <1>3, <1>4 DEF RunStep, WorkStep

\* Whatever webhooks arrive, an order that is paid and over goes back only with
\* its job, unless its product is retired.
THEOREM WebhooksMoveForward == Spec => WebhooksDoNotRewind
<1>1. ASSUME IInv, Next, NEW o \in Order \ Legacy PROVE ForwardAt(o)
  BY <1>1, OrderStepForward, RunStepForward DEF Next
<1>2. ASSUME IInv, [Next]_vars
      PROVE  [\A o \in Order \ Legacy :
               /\ order[o].payment = "paid" => order'[o].payment = "paid"
               /\ order[o].deadline = "passed" => order'[o].deadline = "passed"
               /\ (order[o].fulfillment \in TerminalOutcome
                    /\ order'[o].fulfillment # order[o].fulfillment) => job'[o] = "open"]_vars
  BY <1>1, <1>2 DEF ForwardAt
<1> QED BY <1>2, OrdersAgree, PTL DEF Spec, WebhooksDoNotRewind

-----------------------------------------------------------------------------
(* The lease of a refund process.                                           *)

Stale(p) == /\ run[p].pc \in {"answered", "failing"} /\ run'[p] # run[p]
            /\ refund[run[p].order].owner # p \/ ~refund[run[p].order].live

\* Of a process whose lease is lost neither mark finds its row.
LEMMA StaleRunKeepsRefunds ==
  ASSUME IInv, Next, NEW p \in Run, Stale(p)
  PROVE  refund' = refund /\ order' = order
<1>0. /\ run \in [Run -> RunState] /\ order \in [Order -> OrderRow]
      /\ refund \in [Order -> RefundRow]
  BY DEF IInv, TypeOK
<1>1. PICK o \in Order : o = run[p].order
  BY RunTypes DEF Stale
<1>2. ~Fenced(p, o)
  BY <1>1 DEF Stale, Fenced
<1>3. ASSUME NEW q \in Order, OrderStep(q) PROVE FALSE
  BY <1>3 DEF Stale, OrderStep, ApplyPaidPaymentEvent, ApplyRetiredPaymentEvent,
       PrepareRetirement, FinalizeRetirement, DeadlinePasses, ApplyUnsuccessfulPaymentEvent,
       TerminalizeJob, TerminalizePaidReport, FulfillOrder, RecordPaidJobOutcome,
       ExpirePaidOrderSla, ReadForRecovery, RefuseRecovery, RecoverHistoricalPaidJob, RefundEvent, LeaseExpires,
       BackoffElapses, SendPromise, MarkPromiseSent, refundVars
<1>4. RunStep(p)
  <2>1. ASSUME NEW q \in Run, RunStep(q), q # p PROVE run'[p] = run[p]
    BY <1>0, <2>1 DEF RunStep, WorkStep, RequestStep, ClaimPendingRefund, RequestRefund,
         MarkRefundSubmitted, MarkRefundSucceeded, MarkRefundFailed, ScheduleRefundRetry, CrashRun
  <2> QED BY <1>3, <2>1 DEF Next, Stale
<1>5. CASE MarkRefundSubmitted(p)
  BY <1>1, <1>2, <1>5 DEF MarkRefundSubmitted
<1>6. CASE MarkRefundFailed(p)
  <2>1. refund' = [refund EXCEPT ![o] = refund[o]] /\ order' = [order EXCEPT ![o].refund = order[o].refund]
    BY <1>1, <1>2, <1>6 DEF MarkRefundFailed
  <2> QED BY <1>0, <2>1 DEF OrderRow
<1>7. CASE ScheduleRefundRetry(p)
  <2>1. refund' = [refund EXCEPT ![o] = refund[o]] /\ order' = order
    BY <1>1, <1>2, <1>7 DEF ScheduleRefundRetry, orderVars
  <2> QED BY <1>0, <2>1
<1>8. CASE CrashRun(p)
  BY <1>8 DEF CrashRun, orderVars
<1> QED BY <1>4, <1>5, <1>6, <1>7, <1>8
        DEF RunStep, WorkStep, RequestStep, ClaimPendingRefund, RequestRefund, MarkRefundSucceeded, Stale

\* A refund process without its lease decides nothing.
THEOREM LostLeaseDecidesNothing == Spec => StaleRunDecidesNothing
<1>1. ASSUME IInv, [Next]_vars
      PROVE  [\A p \in Run :
               (run[p].pc \in {"answered", "failing"} /\ run'[p] # run[p]
                 /\ (refund[run[p].order].owner # p \/ ~refund[run[p].order].live))
                   => refund' = refund /\ order' = order]_vars
  BY <1>1, StaleRunKeepsRefunds DEF Stale
<1> QED BY <1>1, OrdersAgree, PTL DEF Spec, StaleRunDecidesNothing

-----------------------------------------------------------------------------
(* The refinement: what the books of an order may do, as OrderPromise says.  *)

\* The pair of Money and Report before and after a step.
BooksMove(m, r, mm, rr) ==
  \/ mm = m /\ rr = r
  \/ m = "none" /\ r = "none" /\ mm = "held" /\ rr = "due"
  \/ m = "held" /\ r = "due" /\ mm = "held" /\ rr = "complete"
  \/ m = "held" /\ r = "due" /\ mm = "owed" /\ rr = "due"
  \/ /\ m # "none" /\ r = "due" /\ rr = "short"
     /\ mm = IF m = "held" THEN "owed" ELSE m
  \/ m \in {"owed", "requested"} /\ mm \in {"requested", "returned", "given_up"} /\ rr = r
  \/ m = "owed" /\ r = "short" /\ mm = "owed" /\ rr = "reopening"
  \/ /\ r = "reopening"
     /\ \/ m = "owed" /\ mm = "held" /\ rr = "due"
        \/ m # "owed" /\ mm = m /\ rr = "due_anyway"
        \/ mm = m /\ rr = "short"
  \/ r = "due_anyway" /\ mm = m /\ rr \in {"complete", "short"}

Book(o) == Money(order[o], refund[o].state)
ReportOf(o) == Report(order[o], recovery[o])
Moves(o) == BooksMove(Book(o), ReportOf(o), Book(o)', ReportOf(o)')
Stays(o) == order'[o] = order[o] /\ refund'[o].state = refund[o].state /\ recovery'[o] = recovery[o]

MoneyBook == [o \in Order \ Legacy |-> Money(order[o], refund[o].state)]
ReportBook == [o \in Order \ Legacy |-> Report(order[o], recovery[o])]

\* A step that moves the books of one order at most is a step of OrderPromise, or none.
LEMMA BooksMap ==
  ASSUME NEW o \in Order \ Legacy, Moves(o), \A q \in Order : q # o => Stays(q)
  PROVE  [Promise!Next]_(Promise!vars)
<1>0. PICK m, r, mm, rr : /\ m = Book(o) /\ r = ReportOf(o) /\ mm = Book(o)' /\ rr = ReportOf(o)'
                          /\ BooksMove(m, r, mm, rr)
  BY DEF Moves
<1>1. /\ MoneyBook' = [MoneyBook EXCEPT ![o] = mm]
      /\ ReportBook' = [ReportBook EXCEPT ![o] = rr]
  BY <1>0 DEF MoneyBook, ReportBook, Book, ReportOf, Stays
<1>2. MoneyBook[o] = m /\ ReportBook[o] = r
  BY <1>0 DEF MoneyBook, ReportBook, Book, ReportOf
<1>3. CASE mm = m /\ rr = r
  <2>1. MoneyBook' = MoneyBook /\ ReportBook' = ReportBook
    BY <1>1, <1>2, <1>3 DEF MoneyBook, ReportBook
  <2> QED BY <2>1 DEF Promise!vars, MoneyBook, ReportBook
<1>4. CASE ~(mm = m /\ rr = r)
  <2>1. \/ Promise!Pay(o) \/ Promise!Deliver(o) \/ Promise!Late(o) \/ Promise!FallShort(o)
        \/ Promise!Refund(o) \/ Promise!Look(o) \/ Promise!Reopen(o) \/ Promise!Refuse(o)
        \/ Promise!EndAnyway(o)
    BY <1>0, <1>1, <1>2, <1>4 DEF BooksMove, MoneyBook, ReportBook, Promise!Pay, Promise!Deliver,
       Promise!Late, Promise!FallShort, Promise!Refund, Promise!Look, Promise!Reopen,
       Promise!Refuse, Promise!EndAnyway, Promise!Books
  <2> QED BY <2>1 DEF Promise!Next
<1> QED BY <1>3, <1>4

RefundStates == {"none", "pending", "submitted", "succeeded", "failed"}

\* Money and Report, one status each.
LEMMA BooksOfRow ==
  ASSUME NEW row \in OrderRow, NEW state \in RefundStates, NEW look \in RecoveryState
  PROVE  /\ row.payment # "paid" => Money(row, state) = "none"
         /\ row.payment = "paid" =>
              /\ state = "none" <=> Money(row, state) = "held"
              /\ state = "pending" <=> Money(row, state) = "owed"
              /\ state = "submitted" <=> Money(row, state) = "requested"
              /\ state = "succeeded" <=> Money(row, state) = "returned"
              /\ state = "failed" <=> Money(row, state) = "given_up"
              /\ Money(row, state) # "none"
         /\ row.fulfillment = "not_started" => Report(row, look) = "none"
         /\ row.fulfillment = "queued" =>
              Report(row, look) = IF look = "overtaken" THEN "due_anyway" ELSE "due"
         /\ row.fulfillment = "completed" => Report(row, look) = "complete"
         /\ row.fulfillment \in {"completed_limited", "failed"} =>
              Report(row, look) = IF look = "waiting" THEN "reopening" ELSE "short"
<1>1. /\ row.payment # "paid" => Money(row, state) = "none"
      /\ row.payment = "paid" =>
           /\ state = "none" <=> Money(row, state) = "held"
           /\ state = "pending" <=> Money(row, state) = "owed"
           /\ state = "submitted" <=> Money(row, state) = "requested"
           /\ state = "succeeded" <=> Money(row, state) = "returned"
           /\ state = "failed" <=> Money(row, state) = "given_up"
           /\ Money(row, state) # "none"
  BY DEF Money, RefundStates
<1> QED BY <1>1 DEF Report

\* The books do not look at refund_status, courtesy, deadline and retirement.
LEMMA SameBooks ==
  ASSUME NEW before, NEW after, NEW state, NEW look, after.payment = before.payment,
         after.fulfillment = before.fulfillment
  PROVE  Money(after, state) = Money(before, state) /\ Report(after, look) = Report(before, look)
BY DEF Money, Report

LEMMA SameMoney ==
  ASSUME NEW before, NEW after, NEW state, after.payment = before.payment
  PROVE  Money(after, state) = Money(before, state)
BY DEF Money

\* Neither payment nor report, refund and recovery of order o change.
LEMMA NothingMoves ==
  ASSUME NEW o \in Order, order'[o].payment = order[o].payment,
         order'[o].fulfillment = order[o].fulfillment,
         refund'[o].state = refund[o].state, recovery'[o] = recovery[o]
  PROVE  Moves(o)
BY SameBooks DEF Moves, BooksMove, Book, ReportOf

\* A refund moves on, and neither payment nor report of its order change.
LEMMA RefundMoves ==
  ASSUME IInv, NEW o \in Order, order'[o].payment = order[o].payment,
         order'[o].fulfillment = order[o].fulfillment, recovery'[o] = recovery[o],
         \/ refund'[o].state = refund[o].state
         \/ /\ refund[o].state \in {"pending", "submitted"}
            /\ refund'[o].state \in {"submitted", "succeeded", "failed"}
  PROVE  Moves(o)
<1>1. CASE refund'[o].state = refund[o].state
  BY <1>1, NothingMoves
<1>2. CASE /\ refund[o].state \in {"pending", "submitted"}
           /\ refund'[o].state \in {"submitted", "succeeded", "failed"}
  <2>1. ReportOf(o)' = ReportOf(o)
    BY SameBooks DEF ReportOf
  <2>2. Book(o)' = Money(order[o], refund'[o].state)
    BY SameBooks DEF Book
  <2>3. order[o] \in OrderRow /\ recovery[o] \in RecoveryState
    BY OrderTypes
  <2>4. CASE order[o].payment # "paid"
    BY <2>1, <2>2, <2>4 DEF Moves, BooksMove, Book, Money
  <2>5. CASE order[o].payment = "paid"
    <3>1. Book(o) \in {"owed", "requested"} /\ Book(o)' \in {"requested", "returned", "given_up"}
      BY <1>2, <2>2, <2>5 DEF Book, Money
    <3> QED BY <2>1, <3>1 DEF Moves, BooksMove
  <2> QED BY <2>4, <2>5
<1> QED BY <1>1, <1>2

\* markRefundSucceeded.
LEMMA SucceedMoves ==
  ASSUME IInv, NEW o \in Order, Succeed(o), recovery' = recovery
  PROVE  Moves(o) /\ \A q \in Order : q # o => Stays(q)
<1>0. /\ order \in [Order -> OrderRow] /\ order[o] \in OrderRow
      /\ refund \in [Order -> RefundRow] /\ refund[o] \in RefundRow
  BY OrderTypes DEF IInv, TypeOK
<1>1. PICK status : order' = [order EXCEPT ![o].refund = status]
  BY DEF Succeed
<1>2. refund' = [refund EXCEPT ![o] = SucceededRefund(refund[o])]
  BY DEF Succeed
<1>3. /\ order'[o].payment = order[o].payment /\ order'[o].fulfillment = order[o].fulfillment
      /\ \A q \in Order : q # o => order'[q] = order[q]
  BY <1>0, <1>1 DEF OrderRow
<1>4. /\ refund'[o].state = IF refund[o].state \in {"pending", "submitted", "succeeded"}
                            THEN "succeeded" ELSE refund[o].state
      /\ \A q \in Order : q # o => refund'[q] = refund[q]
  BY <1>0, <1>2, RefundRows
<1>5. Moves(o)
  BY <1>3, <1>4, RefundMoves
<1> QED BY <1>3, <1>4, <1>5 DEF Stays

\* The outcome of a paid order.
LEMMA OutcomeMoves ==
  ASSUME IInv, NEW o \in Order, NEW outcome \in TerminalOutcome, order[o].payment = "paid",
         FulfillOrder(o, outcome), recovery' = recovery,
         order[o].fulfillment \in {"queued", outcome},
         outcome = "completed" => refund[o].state = "none" \/ recovery[o] = "overtaken"
  PROVE  Moves(o)
<1>0. /\ order[o] \in OrderRow /\ refund[o] \in RefundRow /\ recovery[o] \in RecoveryState
      /\ order \in [Order -> OrderRow] /\ refund \in [Order -> RefundRow] /\ OrderInv(o)
      /\ refund[o].state \in RefundStates
  BY OrderTypes DEF IInv, TypeOK, RefundStates, RefundRow
<1>1. /\ order'[o] = FulfilledOrder(order[o], outcome) /\ order'[o] \in OrderRow
      /\ order'[o].payment = "paid" /\ order'[o].fulfillment = outcome
      /\ refund'[o].state = IF Refundable(outcome) /\ refund[o].state = "none" THEN "pending"
                            ELSE refund[o].state
  BY <1>0, FulfilledOrderRow, RefundRows DEF FulfillOrder
<1>2. CASE order[o].fulfillment = outcome
  <2>1. outcome # "completed" => refund[o].state # "none"
    BY <1>0, <1>2 DEF OrderInv, FailureRefunded, TerminalOutcome
  <2>2. refund'[o].state = refund[o].state
    BY <1>1, <2>1 DEF Refundable
  <2> QED BY <1>1, <1>2, <2>2, NothingMoves
<1>3. CASE order[o].fulfillment = "queued"
  <2>1. recovery[o] # "waiting"
    BY <1>0, <1>3 DEF OrderInv, RecoveryAgrees
  <2>2. ReportOf(o) = IF recovery[o] = "overtaken" THEN "due_anyway" ELSE "due"
    BY <1>0, <1>3, BooksOfRow DEF ReportOf
  <2>3. /\ outcome = "completed" => ReportOf(o)' = "complete"
        /\ outcome # "completed" => ReportOf(o)' = "short"
    BY <1>0, <1>1, <2>1, BooksOfRow DEF ReportOf, TerminalOutcome
  <2>4. refund'[o].state \in RefundStates
    BY <1>0, <1>1 DEF RefundStates
  <2>5. CASE recovery[o] = "overtaken"
    <3>1. refund[o].state # "none"
      BY <1>0, <2>5 DEF OrderInv, RefundAgrees
    <3>2. Book(o)' = Book(o)
      <4>1. refund'[o].state = refund[o].state
        BY <1>1, <3>1
      <4> QED BY <1>1, <4>1, SameMoney DEF Book
    <3> QED BY <2>2, <2>3, <2>5, <3>2 DEF Moves, BooksMove
  <2>6. CASE recovery[o] # "overtaken" /\ outcome = "completed"
    <3>1. Book(o) = "held" /\ Book(o)' = "held"
      BY <1>0, <1>1, <2>6, BooksOfRow DEF Book, Refundable
    <3> QED BY <2>2, <2>3, <2>6, <3>1 DEF Moves, BooksMove
  <2>7. CASE recovery[o] # "overtaken" /\ outcome # "completed"
    <3>1. refund[o].state = "none" => Book(o) = "held" /\ Book(o)' = "owed"
      BY <1>0, <1>1, <2>4, <2>7, BooksOfRow DEF Book, Refundable
    <3>2. refund[o].state # "none" => Book(o) \notin {"none", "held"}
      BY <1>0, BooksOfRow DEF Book
    <3>3. refund[o].state # "none" => Book(o)' = Book(o)
      <4>1. refund[o].state # "none" => refund'[o].state = refund[o].state
        BY <1>1
      <4> QED BY <1>1, <4>1, SameMoney DEF Book
    <3> QED BY <2>2, <2>3, <2>7, <3>1, <3>2, <3>3 DEF Moves, BooksMove
  <2> QED BY <2>5, <2>6, <2>7
<1> QED BY <1>2, <1>3

\* A step of an order: its books move as promised, and those of the others stay.
LEMMA OrderStepBooks ==
  ASSUME IInv, NEW o \in Order \ Legacy, OrderStep(o)
  PROVE  Moves(o)
<1>0. /\ order[o] \in OrderRow /\ order \in [Order -> OrderRow] /\ job[o] \in JobState
      /\ job \in [Order -> JobState] /\ OrderInv(o)
      /\ refund[o] \in RefundRow /\ refund \in [Order -> RefundRow]
      /\ recovery[o] \in RecoveryState /\ recovery \in [Order -> RecoveryState]
      /\ refund[o].state \in RefundStates
  BY OrderTypes DEF IInv, TypeOK, RefundRow, RefundStates
<1>1. ASSUME NEW late \in BOOLEAN, ApplyPaidPaymentEvent(o, late)
      PROVE  Moves(o)
  <2>1. order'[o] = PaidOrder(order[o]) /\ refund' = refund /\ recovery' = recovery
    BY <1>0, <1>1 DEF ApplyPaidPaymentEvent, refundVars
  <2>2. CASE order[o].payment = "paid"
    <3>1. order[o].fulfillment # "not_started"
      BY <1>0, <2>2 DEF OrderInv, UnpaidIsFresh
    <3> QED BY <1>0, <2>1, <2>2, <3>1, PaidOrderRow, NothingMoves
  <2>3. CASE order[o].payment # "paid"
    <3>1. /\ order[o].fulfillment = "not_started" /\ recovery[o] = "none"
          /\ refund[o].state = "none"
      BY <1>0, <2>3
      DEF OrderInv, UnpaidIsFresh, RecoveryAgrees, ReportAgrees, NothingReturned
    <3>2. /\ Book(o) = "none" /\ ReportOf(o) = "none"
          /\ Book(o)' = "held" /\ ReportOf(o)' = "due"
      BY <1>0, <2>1, <2>3, <3>1, PaidOrderRow, BooksOfRow DEF Book, ReportOf
    <3> QED BY <3>2 DEF Moves, BooksMove
  <2> QED BY <2>2, <2>3
<1>2. ASSUME NEW late \in BOOLEAN PROVE ~ApplyRetiredPaymentEvent(o, late)
  BY DEF ApplyRetiredPaymentEvent, Retired
<1>3. ~PrepareRetirement(o) /\ ~FinalizeRetirement(o)
  BY DEF PrepareRetirement, FinalizeRetirement
<1>4. CASE DeadlinePasses(o)
  <2>1. /\ order'[o].payment = order[o].payment
        /\ order'[o].fulfillment = order[o].fulfillment
        /\ refund' = refund /\ recovery' = recovery
    BY <1>0, <1>4 DEF DeadlinePasses, OrderRow, refundVars
  <2> QED BY <2>1, NothingMoves
<1>5. ASSUME NEW status \in {"failed", "cancelled"}, ApplyUnsuccessfulPaymentEvent(o, status)
      PROVE  Moves(o)
  <2>1. /\ order[o].payment # "paid" /\ order'[o].payment # "paid"
        /\ order'[o].fulfillment = order[o].fulfillment
        /\ refund' = refund /\ recovery' = recovery
    BY <1>0, <1>5 DEF ApplyUnsuccessfulPaymentEvent, OrderRow, refundVars
  <2> QED BY <2>1 DEF Moves, BooksMove, Book, ReportOf, Money, Report
<1>6. ASSUME NEW outcome \in TerminalOutcome, TerminalizeJob(o, outcome)
      PROVE  Moves(o)
  BY <1>6, NothingMoves DEF TerminalizeJob, refundVars
<1>7. ASSUME NEW outcome \in TerminalOutcome, TerminalizePaidReport(o, outcome)
      PROVE  Moves(o)
  <2>1. /\ order[o].payment = "paid" /\ job[o] = "open"
        /\ FulfillOrder(o, outcome) /\ recovery' = recovery
    BY <1>7 DEF TerminalizePaidReport
  <2>2. /\ recovery[o] # "overtaken" => refund[o].state = "none"
        /\ order[o].fulfillment = "queued"
    BY <1>0, <2>1 DEF OrderInv, UnpaidIsFresh, ReportAgrees, NothingReturned
  <2> QED BY <1>7, <2>1, <2>2, OutcomeMoves
<1>8. CASE RecordPaidJobOutcome(o)
  <2>1. /\ order[o].payment = "paid" /\ job[o] \in TerminalOutcome
        /\ FulfillOrder(o, job[o]) /\ recovery' = recovery
        /\ order[o].fulfillment \in TerminalOutcome => order[o].fulfillment = job[o]
    BY <1>8 DEF RecordPaidJobOutcome, Over
  <2>2. job[o] = "completed" => refund[o].state = "none" \/ recovery[o] = "overtaken"
    BY <1>0 DEF OrderInv, ReportAgrees, NothingReturned
  <2>3. order[o].fulfillment \in {"queued", job[o]}
    BY <1>0, <2>1 DEF OrderInv, UnpaidIsFresh, OrderRow
  <2> QED BY <2>1, <2>2, <2>3, OutcomeMoves
<1>9. CASE ExpirePaidOrderSla(o)
  <2>1. /\ order'[o] = LateOrder(order[o]) /\ order[o].payment = "paid" /\ job[o] = "open"
        /\ refund'[o] = WithRefund(refund[o]) /\ recovery' = recovery
    BY <1>0, <1>9 DEF ExpirePaidOrderSla, SlaMissed
  <2>2. /\ recovery[o] # "overtaken" => refund[o].state = "none"
        /\ order[o].fulfillment = "queued" /\ recovery[o] # "waiting"
    BY <1>0, <2>1 DEF OrderInv, UnpaidIsFresh, RecoveryAgrees, ReportAgrees, NothingReturned
  <2>3. CASE recovery[o] = "overtaken"
    <3>1. refund[o].state # "none"
      BY <1>0, <2>3 DEF OrderInv, RefundAgrees
    <3> QED BY <1>0, <2>1, <3>1, LateOrderRow, RefundRows, NothingMoves
  <2>4. CASE recovery[o] # "overtaken"
    <3>1. refund'[o].state = "pending" /\ "pending" \in RefundStates
      BY <1>0, <2>1, <2>2, <2>4, RefundRows DEF RefundStates
    <3>2. /\ Book(o) = "held" /\ ReportOf(o) = "due"
          /\ Book(o)' = "owed" /\ ReportOf(o)' = "due"
      BY <1>0, <2>1, <2>2, <2>4, <3>1, LateOrderRow, BooksOfRow DEF Book, ReportOf
    <3> QED BY <3>2 DEF Moves, BooksMove
  <2> QED BY <2>3, <2>4
<1>10. CASE ReadForRecovery(o)
  <2>1. /\ order' = order /\ refund' = refund /\ recovery[o] = "none" /\ recovery'[o] = "waiting"
        /\ order[o].payment = "paid" /\ order[o].fulfillment = "failed"
        /\ refund[o].state = "pending"
    BY <1>0, <1>10 DEF ReadForRecovery, Recoverable, Undecided, refundVars
  <2>2. /\ Book(o) = "owed" /\ ReportOf(o) = "short"
        /\ Book(o)' = "owed" /\ ReportOf(o)' = "reopening"
    BY <2>1 DEF Book, ReportOf, Money, Report
  <2> QED BY <2>2 DEF Moves, BooksMove
<1>11. CASE RefuseRecovery(o)
  <2>1. /\ order' = order /\ refund' = refund /\ recovery[o] = "waiting" /\ recovery'[o] = "none"
        /\ order[o].fulfillment = "failed"
    BY <1>0, <1>11 DEF RefuseRecovery, OrderInv, RecoveryAgrees, refundVars
  <2>2. Book(o)' = Book(o) /\ ReportOf(o) = "reopening" /\ ReportOf(o)' = "short"
    BY <2>1 DEF Book, ReportOf, Report
  <2> QED BY <2>2 DEF Moves, BooksMove
<1>12. CASE RecoverHistoricalPaidJob(o)
  <2>1. /\ order'[o] = ReopenedOrder(order[o]) /\ order[o].payment = "paid"
        /\ order[o].fulfillment = "failed" /\ recovery[o] = "waiting"
        /\ refund'[o] = WithoutPending(refund[o])
        /\ recovery'[o] = IF refund[o].state = "pending" THEN "none" ELSE "overtaken"
    BY <1>0, <1>12 DEF RecoverHistoricalPaidJob, Recoverable
  <2>2. ReportOf(o) = "reopening"
    BY <2>1 DEF ReportOf, Report
  <2>3. order'[o].payment = "paid" /\ order'[o].fulfillment = "queued"
    BY <1>0, <2>1, ReopenedOrderRow
  <2>4. CASE refund[o].state = "pending"
    <3>1. refund'[o].state = "none" /\ recovery'[o] = "none"
      BY <2>1, <2>4, RefundRows DEF WithoutPending
    <3>2. Book(o) = "owed" /\ Book(o)' = "held" /\ ReportOf(o)' = "due"
      BY <2>1, <2>3, <2>4, <3>1 DEF Book, ReportOf, Money, Report
    <3> QED BY <2>2, <3>2 DEF Moves, BooksMove
  <2>5. CASE refund[o].state # "pending"
    <3>1. refund'[o].state = refund[o].state /\ recovery'[o] = "overtaken"
      BY <2>1, <2>5 DEF WithoutPending
    <3>2. Book(o) # "owed"
      BY <1>0, <2>1, <2>5, BooksOfRow DEF Book
    <3>3. Book(o)' = Book(o) /\ ReportOf(o)' = "due_anyway"
      BY <2>1, <2>3, <3>1 DEF Book, ReportOf, Money, Report
    <3> QED BY <2>2, <3>2, <3>3 DEF Moves, BooksMove
  <2> QED BY <2>4, <2>5
<1>13. CASE RefundEvent(o)
  BY <1>13, SucceedMoves DEF RefundEvent
<1>14. CASE LeaseExpires(o) \/ BackoffElapses(o)
  <2>1. order' = order /\ recovery' = recovery /\ refund'[o].state = refund[o].state
    BY <1>0, <1>14 DEF LeaseExpires, BackoffElapses, orderVars, RefundRow
  <2> QED BY <2>1, NothingMoves
<1>15. CASE SendPromise(o) \/ MarkPromiseSent(o)
  <2>1. order' = order /\ recovery' = recovery /\ refund' = refund
    BY <1>15 DEF SendPromise, MarkPromiseSent, orderVars, refundVars
  <2> QED BY <2>1, NothingMoves
<1> QED BY <1>1, <1>2, <1>3, <1>4, <1>5, <1>6, <1>7, <1>8, <1>9, <1>10, <1>11, <1>12, <1>13, <1>14, <1>15
        DEF OrderStep

\* A step of an order writes the rows of no other.
LEMMA OrderStepFrame ==
  ASSUME IInv, NEW o \in Order, OrderStep(o)
  PROVE  \A q \in Order : q # o => Stays(q)
<1>1. /\ order \in [Order -> OrderRow] /\ refund \in [Order -> RefundRow]
      /\ recovery \in [Order -> RecoveryState]
  BY DEF IInv, TypeOK
<1> SUFFICES ASSUME NEW q \in Order, q # o
             PROVE  order'[q] = order[q] /\ refund'[q] = refund[q] /\ recovery'[q] = recovery[q]
  BY DEF Stays
<1> QED BY <1>1 DEF OrderStep, ApplyPaidPaymentEvent, ApplyRetiredPaymentEvent,
     PrepareRetirement, FinalizeRetirement, DeadlinePasses, ApplyUnsuccessfulPaymentEvent,
     TerminalizeJob, TerminalizePaidReport, FulfillOrder, RecordPaidJobOutcome,
     ExpirePaidOrderSla, ReadForRecovery, RefuseRecovery, RecoverHistoricalPaidJob,
     RefundEvent, Succeed, LeaseExpires, BackoffElapses, SendPromise, MarkPromiseSent,
     orderVars, refundVars

\* A step of a refund process moves the books of one order at most.
LEMMA RunStepBooks ==
  ASSUME IInv, NEW p \in Run, RunStep(p)
  PROVE  \/ \A q \in Order : Stays(q)
         \/ \E o \in Order : Moves(o) /\ \A q \in Order : q # o => Stays(q)
<1>0. /\ order \in [Order -> OrderRow] /\ refund \in [Order -> RefundRow]
      /\ \A o \in Order : order[o] \in OrderRow /\ refund[o] \in RefundRow
  BY DEF IInv, TypeOK
<1>1. ASSUME NEW o \in Order, ClaimPendingRefund(p, o) PROVE \A q \in Order : Stays(q)
  <2>1. /\ refund' = [refund EXCEPT ![o] = LeasedRefund(refund[o], p)]
        /\ order' = order /\ recovery' = recovery
    BY <1>1 DEF ClaimPendingRefund, orderVars
  <2>2. LeasedRefund(refund[o], p).state = refund[o].state
    BY <1>0, RefundRows
  <2>3. \A q \in Order : refund'[q].state = refund[q].state
    BY <1>0, <2>1, <2>2
  <2> QED BY <2>1, <2>3 DEF Stays
<1>2. CASE RequestStep(p) \/ CrashRun(p)
  BY <1>2 DEF RequestStep, RequestRefund, CrashRun, orderVars, Stays
<1>3. CASE ScheduleRefundRetry(p)
  <2>1. PICK o \in Order : o = run[p].order
    BY <1>3, RunTypes DEF ScheduleRefundRetry
  <2>2. PICK row \in {refund[o], BackedOffRefund(refund[o])} : refund' = [refund EXCEPT ![o] = row]
    BY <1>3, <2>1 DEF ScheduleRefundRetry
  <2>3. order' = order /\ recovery' = recovery
    BY <1>3 DEF ScheduleRefundRetry, orderVars
  <2> QED BY <1>0, <2>2, <2>3, RefundRows DEF Stays
\* A mark writes the refund of the process and its order's refund_status.
<1>4. ASSUME NEW o \in Order, NEW row, NEW status,
             refund' = [refund EXCEPT ![o] = row], order' = [order EXCEPT ![o].refund = status],
             recovery' = recovery,
             \/ row.state = refund[o].state
             \/ /\ refund[o].state \in {"pending", "submitted"}
                /\ row.state \in {"submitted", "succeeded", "failed"}
      PROVE  Moves(o) /\ \A q \in Order : q # o => Stays(q)
  <2>1. /\ order'[o].payment = order[o].payment /\ order'[o].fulfillment = order[o].fulfillment
        /\ refund'[o] = row
        /\ \A q \in Order : q # o => order'[q] = order[q] /\ refund'[q] = refund[q]
    BY <1>0, <1>4 DEF OrderRow
  <2>2. Moves(o)
    BY <1>4, <2>1, RefundMoves
  <2> QED BY <1>4, <2>1, <2>2 DEF Stays
<1>5. CASE MarkRefundSubmitted(p)
  <2>1. PICK o \in Order : o = run[p].order
    BY <1>5, RunTypes DEF MarkRefundSubmitted
  <2>2. recovery' = recovery
    BY <1>5 DEF MarkRefundSubmitted
  <2>3. CASE UNCHANGED <<refund, order>>
    BY <2>2, <2>3 DEF Stays
  <2>4. CASE ~UNCHANGED <<refund, order>>
    <3>1. PICK status : order' = [order EXCEPT ![o].refund = status]
      BY <1>5, <2>1, <2>4 DEF MarkRefundSubmitted
    <3>2. /\ refund[o].state \in {"pending", "submitted"}
          /\ refund' = [refund EXCEPT ![o] = SubmittedRefund(refund[o])]
      BY <1>5, <2>1, <2>4 DEF MarkRefundSubmitted
    <3>3. SubmittedRefund(refund[o]).state = "submitted"
      BY <1>0, RefundRows
    <3> QED BY <1>4, <2>2, <3>1, <3>2, <3>3
  <2> QED BY <2>3, <2>4
<1>6. CASE MarkRefundSucceeded(p)
  <2>1. PICK o \in Order : o = run[p].order
    BY <1>6, RunTypes DEF MarkRefundSucceeded
  <2>2. Succeed(o) /\ recovery' = recovery
    BY <1>6, <2>1 DEF MarkRefundSucceeded
  <2> QED BY <2>2, SucceedMoves
<1>7. CASE MarkRefundFailed(p)
  <2>1. PICK o \in Order : o = run[p].order
    BY <1>7, RunTypes DEF MarkRefundFailed
  <2> DEFINE marked == Fenced(p, o) /\ refund[o].state \in {"pending", "submitted"}
  <2>2. PICK status : order' = [order EXCEPT ![o].refund = status]
    BY <1>7, <2>1 DEF MarkRefundFailed
  <2>3. PICK row : /\ refund' = [refund EXCEPT ![o] = row]
                   /\ row = IF marked THEN FailedRefund(refund[o]) ELSE refund[o]
    BY <1>7, <2>1 DEF MarkRefundFailed
  <2>4. \/ row.state = refund[o].state
        \/ refund[o].state \in {"pending", "submitted"} /\ row.state = "failed"
    BY <1>0, <2>3, RefundRows
  <2>5. recovery' = recovery
    BY <1>7 DEF MarkRefundFailed
  <2> QED BY <1>4, <2>2, <2>3, <2>4, <2>5
<1> QED BY <1>1, <1>2, <1>3, <1>5, <1>6, <1>7 DEF RunStep, WorkStep

\* At the start nothing is paid and nothing is due.
LEMMA InitPromise == Init => Promise!Init
<1> SUFFICES ASSUME Init PROVE Promise!Init
  OBVIOUS
<1>1. \A o \in Order : /\ Money(order[o], refund[o].state) = "none"
                       /\ Report(order[o], recovery[o]) = "none"
  BY DEF Init, Money, Report
<1> QED BY <1>1 DEF Promise!Init

\* For any orders, contracts and refund processes every step is a step of
\* OrderPromise or leaves all books alone: no order is over without the report or
\* the money being owed, and it is both delivered in full and refunded only if its
\* refund went on its way while a recovery that had found it pending waited.
THEOREM Implements == Spec => Promise!Safe
<1>1. ASSUME IInv, [Next]_vars PROVE [Promise!Next]_(Promise!vars)
  <2>1. CASE \A o \in Order \ Legacy : Stays(o)
    BY <2>1 DEF Promise!vars, Stays
  <2>2. ASSUME NEW o \in Order, \A q \in Order : q # o => Stays(q), o \notin Legacy => Moves(o)
        PROVE  [Promise!Next]_(Promise!vars)
    BY <2>1, <2>2, BooksMap
  <2>3. CASE UNCHANGED vars
    BY <2>1, <2>3 DEF vars, Stays
  <2>4. ASSUME NEW o \in Order, OrderStep(o) PROVE [Promise!Next]_(Promise!vars)
    BY <1>1, <2>2, <2>4, OrderStepBooks, OrderStepFrame
  <2>5. ASSUME NEW p \in Run, RunStep(p) PROVE [Promise!Next]_(Promise!vars)
    BY <1>1, <2>1, <2>2, <2>5, RunStepBooks
  <2> QED BY <1>1, <2>3, <2>4, <2>5 DEF Next
<1> QED BY <1>1, InitPromise, OrdersAgree, PTL DEF Spec, Promise!Safe
==============================================================================
