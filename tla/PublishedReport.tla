--------------------------- MODULE PublishedReport ---------------------------
(***************************************************************************)
(* What a customer who paid for a V4 report is promised, whatever workers,  *)
(* leases and retries do: the order is decided once, a report is shown      *)
(* exactly when the decision was to deliver it, what is shown is never      *)
(* withdrawn, only replaced by its enhancement, and both the order and the   *)
(* enhancement come to an end.  ReportArtifacts implements it.               *)
(***************************************************************************)

VARIABLES
  shown,    \* what the report's page shows: "none", "core", "enhancement"
  outcome,  \* the order: "open", "completed", "completed_limited", "failed"
  extra     \* the enhancement of the report: "none", "due", "over"

vars == <<shown, outcome, extra>>

Init == shown = "none" /\ outcome = "open" /\ extra = "none"

\* The core report appears in the step that decides the order.
Deliver == /\ outcome = "open"
           /\ outcome' \in {"completed", "completed_limited"}
           /\ shown' = "core"
           /\ UNCHANGED extra

Fail == /\ outcome = "open"
        /\ outcome' = "failed"
        /\ UNCHANGED <<shown, extra>>

Offer == /\ extra = "none" /\ shown = "core"
         /\ extra' = "due"
         /\ UNCHANGED <<shown, outcome>>

\* The enhancement may appear after its job was given up for dead.
Enhance == /\ extra # "none" /\ shown = "core"
           /\ shown' = "enhancement"
           /\ UNCHANGED <<outcome, extra>>

End == /\ extra = "due"
       /\ extra' = "over"
       /\ UNCHANGED <<shown, outcome>>

Decide == Deliver \/ Fail
Next == Decide \/ Offer \/ Enhance \/ End

Safe == Init /\ [][Next]_vars
Spec == Safe /\ WF_vars(Decide) /\ WF_vars(End)
=============================================================================
