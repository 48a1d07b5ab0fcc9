----------------------------- MODULE OrderPromise -----------------------------
(***************************************************************************)
(* What a customer who paid is promised (docs/COMMERCIAL-OPERATIONS.md:7),  *)
(* whatever webhooks, workers, deadlines and refund processes do: the      *)
(* complete report or the money, and never neither.  An order without a    *)
(* complete report goes over to a refund in the step that finds it so.      *)
(*                                                                         *)
(* A recovery makes the report due again in two steps: it looks at a refund *)
(* that is not on its way, and then calls it off.  What happens to the      *)
(* refund in between it does not see: then the report is due although the   *)
(* money has left, and only then can a customer get both.                   *)
(* PaidOrders implements this.                                              *)
(***************************************************************************)

CONSTANT Order

VARIABLES
  money,   \* [Order -> {"none", "held", "owed", "requested", "returned", "given_up"}]
  report   \* [Order -> {"none", "due", "complete", "short", "reopening", "due_anyway"}]

vars == <<money, report>>

Init == /\ money = [o \in Order |-> "none"]
        /\ report = [o \in Order |-> "none"]

Books(o, m, r) == /\ money' = [money EXCEPT ![o] = m]
                  /\ report' = [report EXCEPT ![o] = r]

Pay(o) == /\ money[o] = "none" /\ report[o] = "none"
          /\ Books(o, "held", "due")

Deliver(o) == /\ money[o] = "held" /\ report[o] = "due"
              /\ Books(o, "held", "complete")

\* The deadline: the report may still be due when the money is owed.
Late(o) == /\ money[o] = "held" /\ report[o] = "due"
           /\ Books(o, "owed", "due")

\* The report is limited, or there is none.
FallShort(o) == /\ money[o] # "none" /\ report[o] = "due"
                /\ Books(o, IF money[o] = "held" THEN "owed" ELSE money[o], "short")

Refund(o) == /\ money[o] \in {"owed", "requested"}
             /\ \E m \in {"requested", "returned", "given_up"} : Books(o, m, report[o])

Look(o) == /\ money[o] = "owed" /\ report[o] = "short"
           /\ Books(o, "owed", "reopening")

Reopen(o) == /\ report[o] = "reopening"
             /\ IF money[o] = "owed" THEN Books(o, "held", "due")
                                     ELSE Books(o, money[o], "due_anyway")

Refuse(o) == report[o] = "reopening" /\ Books(o, money[o], "short")

\* The end of a report that is due although the money has left.
EndAnyway(o) == /\ report[o] = "due_anyway"
                /\ \E r \in {"complete", "short"} : Books(o, money[o], r)

\* The complete report, or a refund that is on its way or decided.
Decide(o) == Deliver(o) \/ (money[o] = "owed" /\ Refund(o))

Next == \E o \in Order : \/ Pay(o) \/ Deliver(o) \/ Late(o) \/ FallShort(o) \/ Refund(o)
                         \/ Look(o) \/ Reopen(o) \/ Refuse(o) \/ EndAnyway(o)

Safe == Init /\ [][Next]_vars
Spec == Safe /\ \A o \in Order : WF_vars(Decide(o))
===============================================================================
