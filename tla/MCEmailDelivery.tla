--------------------------- MODULE MCEmailDelivery ---------------------------
(* A small instance of EmailDelivery for TLC.  One process: what several can   *)
(* do to each other is the matter of EmailDeliveryProofs.                    *)
EXTENDS EmailDelivery, TLC

CONSTANTS outcome, reissue, p1

\* Two events of the outcome e-mail: an end and, perhaps, a complaint.
OutcomeEvents == [n \in Event |-> outcome]
=============================================================================
