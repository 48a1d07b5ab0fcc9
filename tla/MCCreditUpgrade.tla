-------------------------- MODULE MCCreditUpgrade ---------------------------
(* Small instances of CreditUpgrade for TLC. *)
EXTENDS CreditUpgrade

CONSTANTS k1, k2, r1, r2, r3

MCReservations == {k1, k2}
MCRequests == {r1, r2, r3}

\* A request, its retry in the same language and in another, with one key.
MCKeyOf == [r \in MCRequests |-> IF r = r3 THEN k2 ELSE k1]
MCWants == [r \in MCRequests |-> IF r = r3 THEN "zh" ELSE "en"]
=============================================================================
