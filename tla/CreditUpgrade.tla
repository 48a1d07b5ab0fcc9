---------------------------- MODULE CreditUpgrade ---------------------------
(***************************************************************************)
(* POST /api/reports/:id/upgrade: a customer pays with a credit of an      *)
(* access key for the deep report of a site.  The route is a sequence of   *)
(* transactions and keeps what it read between them: the report's locale,  *)
(* the reservation row, the id of the job.  A request may end anywhere     *)
(* (the process dies, the database refuses) and be sent again with the     *)
(* same Idempotency-Key, even while the first one is still running.        *)
(***************************************************************************)
EXTENDS DeepLane

CONSTANTS
  Request,    \* HTTP requests for the one report
  KeyOf,      \* [Request -> Reservation]: the Idempotency-Key it carries
  WantsOf     \* [Request -> locale]: the locale it asks for

ASSUME RequestAssumption == /\ KeyOf \in [Request -> Reservation]
                            /\ None \notin {WantsOf[r] : r \in Request}

VARIABLES
  request,  \* [Request -> RequestState]: where the handler is, and what it read
  locale,   \* scan_reports.report_locale: a locale or None
  reports   \* SUBSET Job: the jobs that have stored a deep report

upgradeVars == <<request, locale, reports>>
vars == <<laneVars, upgradeVars>>

Locale == {WantsOf[r] : r \in Request} \cup {None}
Step == {"new", "reserve", "locale", "enqueue", "attach", "refund", "done"}

\* read: the locale the handler saw first; row: the reservation as returned by
\* reserveCredit; job: the job it enqueued.
RequestState == [at : Step, read : Locale, row : LedgerRow, job : Job \cup {None}]

\* The tables, what the requests remember, and the workers have their types.
TypeOK == /\ LaneTypeOK
          /\ request \in [Request -> RequestState]
          /\ locale \in Locale
          /\ reports \subseteq Job

Init ==
  /\ LaneInit
  /\ reports = {}
  /\ request = [r \in Request |-> [at |-> "new", read |-> None, job |-> None,
                                   row |-> [status |-> "none", job |-> None]]]
  /\ locale \in Locale

Goto(r, step) == request' = [request EXCEPT ![r].at = step]

\* getGeoReport and getAiReport: another locale is refused, a report that is
\* already there costs nothing (its job has settled the locale long ago).
ReadReport(r) ==
  /\ request[r].at = "new"
  /\ request' = [request EXCEPT
       ![r].read = locale,
       ![r].at = IF locale \notin {None, WantsOf[r]} \/ reports # {} THEN "done"
                 ELSE "reserve"]
  /\ UNCHANGED <<laneVars, locale, reports>>

\* Mutant of HasCredit: off by one.
HasCreditOrNone == balance >= 0

HasCredit == balance > 0

\* reserveCredit returns the row of a key it knows as it stands, refunded or
\* settled or not, and takes a credit for a key it does not know.
ReserveCredit(r) ==
  /\ request[r].at = "reserve"
  /\ LET k == KeyOf[r]
         fresh == [status |-> "reserved", job |-> None]
     IN \/ /\ ledger[k].status # "none"
           /\ request' = [request EXCEPT ![r].at = "locale", ![r].row = ledger[k]]
           /\ UNCHANGED creditVars
        \/ /\ ledger[k].status = "none"
           /\ HasCredit
           /\ balance' = balance - 1
           /\ ledger' = [ledger EXCEPT ![k] = fresh]
           /\ request' = [request EXCEPT ![r].at = "locale", ![r].row = fresh]
        \/ /\ ledger[k].status = "none"
           /\ ~HasCredit
           /\ Goto(r, "done")
           /\ UNCHANGED creditVars
  /\ UNCHANGED <<job, lane, locale, reports>>

\* persistLegacyReportLocale, only for a report that had none when it was read.
\* On a mismatch the credit goes back, if the row the handler remembers allows.
SettleLocale(r) ==
  /\ request[r].at = "locale"
  /\ LET kept == IF request[r].read # None THEN request[r].read
                 ELSE IF locale = None THEN WantsOf[r] ELSE locale
         row == request[r].row
     IN /\ locale' = IF request[r].read = None THEN kept ELSE locale
        /\ Goto(r, IF kept # WantsOf[r]
                   THEN IF row.job = None /\ row.status = "reserved" THEN "refund" ELSE "done"
                   ELSE IF row.job = None THEN "enqueue" ELSE "done")
  /\ UNCHANGED <<laneVars, reports>>

\* enqueueScanJob: the job names the reservation, and no outbox row names it.
EnqueueScanJob(r, j) ==
  /\ request[r].at = "enqueue"
  /\ NextJob(j)
  /\ job' = [job EXCEPT ![j] = QueuedJob(KeyOf[r])]
  /\ request' = [request EXCEPT ![r].at = "attach", ![r].job = j]
  /\ UNCHANGED <<creditVars, lane, locale, reports>>

\* attachReservationToJob: the first job a reservation is given to stays.
AttachReservationToJob(r) ==
  /\ request[r].at = "attach"
  /\ LET k == KeyOf[r] IN
       /\ ledger' = [ledger EXCEPT ![k].job = IF @ = None THEN request[r].job ELSE @]
       /\ job' = [job EXCEPT ![request[r].job].pays = k]
  /\ Goto(r, "done")
  /\ UNCHANGED <<balance, lane, locale, reports>>

\* The catch clause around the two: the database refused one of them.
WriteFails(r) ==
  /\ request[r].at \in {"enqueue", "attach"}
  /\ Goto(r, "refund")
  /\ UNCHANGED <<laneVars, locale, reports>>

\* Mutant of Refunded: a second refund pays again.
RefundedAgain(k) ==
  /\ ledger[k].status \in {"reserved", "refunded"}
  /\ ledger' = [ledger EXCEPT ![k].status = "refunded"]
  /\ balance' = balance + 1

Refunded(k) ==
  /\ ledger[k].status = "reserved"
  /\ ledger' = [ledger EXCEPT ![k].status = "refunded"]
  /\ balance' = balance + 1

\* refundCredit: a refunded row is returned as it is, a settled one refused.
RefundCredit(r) ==
  /\ request[r].at = "refund"
  /\ \/ Refunded(KeyOf[r])
     \/ ledger[KeyOf[r]].status \in {"refunded", "settled"} /\ UNCHANGED creditVars
  /\ Goto(r, "done")
  /\ UNCHANGED <<job, lane, locale, reports>>

\* The process of the handler dies between two transactions.
RequestDies(r) ==
  /\ request[r].at \notin {"new", "done"}
  /\ Goto(r, "done")
  /\ UNCHANGED <<laneVars, locale, reports>>

-----------------------------------------------------------------------------
(* The worker, as far as the route sees it: it stores the deep report, which *)
(* ends the need for an upgrade, and then ends the job.                      *)

\* saveAiReport asks for no lease.
PersistAiReport(w) ==
  /\ lane[w].job # None
  /\ ~job[lane[w].job].fresh
  /\ reports' = reports \cup {lane[w].job}
  /\ UNCHANGED <<laneVars, request, locale>>

Terminalize(w, outcome) ==
  /\ outcome # "failed" => lane[w].job \in reports
  /\ TerminalizeScanJob(w, outcome)
  /\ UNCHANGED upgradeVars

-----------------------------------------------------------------------------
RequestStep(r) == \/ ReadReport(r) \/ ReserveCredit(r) \/ SettleLocale(r)
                  \/ \E j \in Job : EnqueueScanJob(r, j)
                  \/ AttachReservationToJob(r) \/ WriteFails(r)
                  \/ RefundCredit(r) \/ RequestDies(r)

WorkerStep(w) == \/ LaneStep(w) /\ UNCHANGED upgradeVars
                 \/ PersistAiReport(w)
                 \/ \E outcome \in Outcome : Terminalize(w, outcome)

TimePasses(j) == TimeStep(j) /\ UNCHANGED upgradeVars

Next == \/ \E r \in Request : RequestStep(r)
        \/ \E w \in Lane : WorkerStep(w)
        \/ \E j \in Job : TimePasses(j)

Spec == Init /\ [][Next]_vars

-----------------------------------------------------------------------------
\* The reservations the key has paid for and not got back.
Held == {k \in Reservation : ledger[k].status \in {"reserved", "settled"}}

\* However requests of one key run into each other, die and are sent again, and
\* whichever of the route, the worker and the maintenance gives a credit back,
\* the key never has more credits than it was sold.
CreditBounded == balance + Cardinality(Held) <= Credits

\* A credit is spent exactly when a job that names it was completed: no refund
\* under a running job, retry of a refunded key or reservation shared by two jobs
\* completes a job unpaid, or charges for a limited or failed one.
PaidIffCompleted ==
  \A k \in Reservation :
    ledger[k].status = "settled"
      <=> \E j \in Job : job[j].pays = k /\ job[j].state = "completed"

\* The query of findReservedTerminalCommercialJobs (credits.ts:224) never has a
\* result: no reservation that a job names, or that names a job, is left
\* reserved when that job is over, even if the request died before the attach.
AuditFindsNothing ==
  \A k \in Reservation, j \in Job :
    Over(j) /\ (job[j].pays = k \/ ledger[k].job = j) => ledger[k].status # "reserved"
=============================================================================
