--------------------------- MODULE ReportArtifacts ---------------------------
(***************************************************************************)
(* One paid V4 report: its core revision and the enhancement revision that   *)
(* may replace it, the two jobs that make them, and the pointer that says    *)
(* which one the customer sees.  Workers claim a job under a lease, but the   *)
(* transactions on the revisions check no lease: a worker that lost its job   *)
(* goes on writing until it notices.                                         *)
(*                                                                         *)
(* Each step of a worker is one transaction.  Its reply may be lost and every  *)
(* call may fail or be aborted (Proceed, Throw), so what a step requires is   *)
(* its guard, and a refusal is a Throw.  retry_wait and repair_wait are one    *)
(* state with queued ("waiting"); their delays are the matter of ScanJobs.   *)
(***************************************************************************)
EXTENDS Naturals

CONSTANTS
  Worker,       \* worker processes
  None,         \* no worker
  MaxAttempts   \* claims of a job (scan_jobs.max_attempts)

ASSUME NobodyAssumption == None \notin Worker
ASSUME AttemptsAssumption == MaxAttempts \in Nat \ {0}

VARIABLES
  revision, \* [Kind -> Status]: the rows of report_artifact_revisions
  payload,  \* [Kind -> Nat]: combined_geo_reports, by the attempt that wrote it
  pointer,  \* scan_reports.active_artifact_revision_id
  verdict,  \* what the stored core report says of itself
  order,    \* payment_orders; "late": its deadline was enforced, a refund is due
  link,     \* the access tokens of the report
  job,      \* [Kind -> JobRow]: the table scan_jobs
  run       \* [Worker -> RunRow]: what a worker holds in memory

artifactVars == <<revision, payload, verdict>>
tableVars == <<revision, payload, pointer, verdict, order, link, job>>
vars == <<revision, payload, pointer, verdict, order, link, job, run>>

Kind == {"core", "enhancement"}
Status == {"absent", "pending", "ready", "active", "failed"}
\* answered: a complete report; limited: a limited one with all three questions
\* answered; unanswered: a limited one without.
Verdict == {"none", "answered", "limited", "unanswered"}
OrderState == {"open", "late", "completed", "completed_limited", "failed"}
Delivered == {"completed", "completed_limited"}
Over == {"completed", "failed"}

JobRow == [state : {"absent", "waiting", "running"} \cup Over,
           owner : Worker \cup {None},
           live : BOOLEAN,              \* lease_expires_at > now()
           attempts : 0 .. MaxAttempts]

RunRow == [pc : {"idle", "load", "prepare", "persist", "ready", "terminalize", "enqueue",
                 "activate", "failRevision", "giveUp", "conclude", "catch"},
           kind : Kind,
           version : 0 .. MaxAttempts]  \* the payload it would write: generatedAt differs

AbsentJob == [state |-> "absent", owner |-> None, live |-> FALSE, attempts |-> 0]
WaitingJob == [AbsentJob EXCEPT !.state = "waiting"]
IdleRun == [pc |-> "idle", kind |-> "core", version |-> 0]

Init == /\ revision = [k \in Kind |-> "absent"]
        /\ payload = [k \in Kind |-> 0]
        /\ pointer = "none" /\ verdict = "none" /\ order = "open" /\ link = "none"
        /\ job = [k \in Kind |-> IF k = "core" THEN WaitingJob ELSE AbsentJob]
        /\ run = [w \in Worker |-> IdleRun]

-----------------------------------------------------------------------------
(* A worker's run and its interruptions.                                    *)

Holds(w) == LET row == job[run[w].kind]
            IN row.state = "running" /\ row.owner = w /\ row.live
At(w, kind, pc) == run[w].kind = kind /\ run[w].pc = pc

\* Where an error of a step is caught.  After an activation that failed the stage
\* looks again, but at the pointer it read when it started: it always finds
\* the core, reports "core_active" and leaves the job to its lease.
Handler(kind, pc) == CASE kind = "enhancement" /\ pc = "prepare" -> "giveUp"
                       [] kind = "enhancement" /\ pc = "persist" -> "failRevision"
                       [] kind = "enhancement" /\ pc = "activate" -> "idle"
                       [] OTHER -> "catch"

\* An aborted run leaves every stage for the processor's own error path.
Interrupted(w) == {"catch", Handler(run[w].kind, run[w].pc)}
Moved(row, pc) == IF pc = "idle" THEN IdleRun ELSE [row EXCEPT !.pc = pc]
Goto(w, pcs) == \E pc \in pcs : run' = [run EXCEPT ![w] = Moved(@, pc)]
Proceed(w, pc) == Goto(w, {pc} \cup Interrupted(w))

Throw(w) == /\ run[w].pc \notin {"idle", "catch"}
            /\ Goto(w, Interrupted(w))
            /\ UNCHANGED tableVars

Crash(w) == /\ run[w].pc # "idle"
            /\ Goto(w, {"idle"})
            /\ UNCHANGED tableVars

\* Mutant of Claimable: the attempts are not counted.
ClaimableForever(row) == \/ row.state = "waiting"
                         \/ row.state = "running" /\ ~row.live

Claimable(row) == /\ \/ row.state = "waiting"
                     \/ row.state = "running" /\ ~row.live
                  /\ row.attempts < MaxAttempts
ClaimedRow(row, w) == [state |-> "running", owner |-> w, live |-> TRUE, attempts |-> row.attempts + 1]

Claim(w, k) ==
  /\ run[w].pc = "idle" /\ Claimable(job[k])
  /\ job' = [job EXCEPT ![k] = ClaimedRow(@, w)]
  /\ run' = [run EXCEPT ![w] = [pc |-> "load", kind |-> k, version |-> job[k].attempts + 1]]
  /\ UNCHANGED <<artifactVars, pointer, order, link>>

-----------------------------------------------------------------------------
(* The core stage: runReportV4CoreStage.                                    *)

\* A report that is stored is taken up again, otherwise it is made anew.
LoadCore(w) ==
  /\ At(w, "core", "load")
  /\ Holds(w) /\ order = "open"
  /\ IF payload["core"] = 0 THEN Proceed(w, "prepare")
     ELSE \E pc \in {"ready", "catch"} :
            run' = [run EXCEPT ![w].pc = pc, ![w].version = payload["core"]]
  /\ UNCHANGED tableVars

PrepareCore(w) ==
  /\ At(w, "core", "prepare")
  /\ revision["core"] # "failed"
  /\ revision' = [revision EXCEPT !["core"] = IF @ = "absent" THEN "pending" ELSE @]
  /\ Proceed(w, "persist")
  /\ UNCHANGED <<payload, pointer, verdict, order, link, job>>

\* A payload is stored once; the same one may be stored again, another may not.
Storable(w, k) == \/ payload[k] = 0 /\ revision[k] = "pending"
                  \/ payload[k] = run[w].version /\ revision[k] \in {"pending", "ready", "active"}

PersistCore(w) ==
  /\ At(w, "core", "persist")
  /\ Storable(w, "core") /\ order # "failed"
  /\ payload' = [payload EXCEPT !["core"] = run[w].version]
  /\ verdict' \in IF payload["core"] = 0 THEN Verdict \ {"none"} ELSE {verdict}
  /\ Proceed(w, "ready")
  /\ UNCHANGED <<revision, pointer, order, link, job>>

ReadyCore(w) ==
  /\ At(w, "core", "ready")
  /\ revision["core"] \in {"pending", "ready", "active"}
  /\ revision["core"] = "pending" => pointer = "none"
  /\ revision' = [revision EXCEPT !["core"] = IF @ = "pending" THEN "ready" ELSE @]
  /\ Proceed(w, "terminalize")
  /\ UNCHANGED <<payload, pointer, verdict, order, link, job>>

Outcome == IF verdict = "answered" THEN "completed" ELSE "completed_limited"
EndedRow(row, state) == [row EXCEPT !.state = state, !.owner = None, !.live = FALSE]

\* Mutant of DeliverCore: neither the lease nor the order is looked at.
DeliverCoreLate(w) ==
  /\ At(w, "core", "terminalize")
  /\ revision["core"] = "ready" /\ pointer = "none"
  /\ revision' = [revision EXCEPT !["core"] = "active"]
  /\ pointer' = "core" /\ order' = Outcome /\ link' = "live"
  /\ job' = [job EXCEPT !["core"] = EndedRow(@, "completed")]
  /\ Proceed(w, "enqueue")
  /\ UNCHANGED <<payload, verdict>>

\* terminalizePaidReportV4Core, the first time: one transaction publishes the
\* report, ends the job, decides the order and issues the link.
DeliverCore(w) ==
  /\ At(w, "core", "terminalize")
  /\ Holds(w) /\ order = "open"
  /\ revision["core"] = "ready" /\ pointer = "none"
  /\ revision' = [revision EXCEPT !["core"] = "active"]
  /\ pointer' = "core" /\ order' = Outcome /\ link' = "live"
  /\ job' = [job EXCEPT !["core"] = EndedRow(@, "completed")]
  /\ Proceed(w, "enqueue")
  /\ UNCHANGED <<payload, verdict>>

CoreShown == \/ revision["core"] = "active" /\ pointer = "core"
             \/ /\ revision["core"] = "ready" /\ pointer = "enhancement"
                /\ revision["enhancement"] = "active"
CoreSettled == job["core"].state = "completed" /\ order = Outcome /\ CoreShown

\* The same for a report that is delivered: the token's row is there, even revoked.
DeliverCoreAgain(w) ==
  /\ At(w, "core", "terminalize")
  /\ CoreSettled
  /\ Proceed(w, "enqueue")
  /\ UNCHANGED tableVars

\* enqueuePaidReportV4DiagnosisEnhancement: one job, if all questions are answered.
EnqueueEnhancement(w) ==
  /\ At(w, "core", "enqueue")
  /\ CoreSettled
  /\ job' = [job EXCEPT !["enhancement"] =
               IF verdict # "unanswered" /\ @.state = "absent" THEN WaitingJob ELSE @]
  /\ Goto(w, {"idle", "catch"})
  /\ UNCHANGED <<artifactVars, pointer, order, link>>

-----------------------------------------------------------------------------
(* The enhancement stage: runReportV4EnhancementStage.                      *)

\* A complete report needs a live link, a limited one must have none.
Accessible == IF order = "completed" THEN link = "live" ELSE link # "live"
Enhanceable == CoreSettled /\ Accessible

\* Once the enhancement is shown only the job is left to end; otherwise the
\* diagnosis ends, with at least one question diagnosed or none.
LoadEnhancement(w) ==
  /\ At(w, "enhancement", "load")
  /\ Holds(w) /\ Enhanceable
  /\ IF pointer = "enhancement" THEN Proceed(w, "conclude")
     ELSE \E pc \in {"prepare", "giveUp"} : Proceed(w, pc)
  /\ UNCHANGED tableVars

CoreIsCurrent == revision["core"] = "active" /\ pointer = "core"

\* The row that is there is returned whatever its status.
PrepareEnhancement(w) ==
  /\ At(w, "enhancement", "prepare")
  /\ revision["enhancement"] = "absent" => CoreIsCurrent
  /\ revision' = [revision EXCEPT !["enhancement"] = IF @ = "absent" THEN "pending" ELSE @]
  /\ Proceed(w, "persist")
  /\ UNCHANGED <<payload, pointer, verdict, order, link, job>>

PersistEnhancement(w) ==
  /\ At(w, "enhancement", "persist")
  /\ Storable(w, "enhancement")
  /\ payload' = [payload EXCEPT !["enhancement"] = run[w].version]
  /\ Proceed(w, "activate")
  /\ UNCHANGED <<revision, pointer, verdict, order, link, job>>

\* Mutant of ActivateEnhancement: the core is not taken back to ready.
ActivateEnhancementBeside(w) ==
  /\ At(w, "enhancement", "activate")
  /\ CoreIsCurrent /\ revision["enhancement"] = "pending"
  /\ revision' = [revision EXCEPT !["enhancement"] = "active"]
  /\ pointer' = "enhancement"
  /\ Proceed(w, "conclude")
  /\ UNCHANGED <<payload, verdict, order, link, job>>

\* pending becomes ready and active, the core ready again, and the pointer moves.
ActivateEnhancement(w) ==
  /\ At(w, "enhancement", "activate")
  /\ \/ /\ CoreIsCurrent /\ revision["enhancement"] = "pending"
        /\ revision' = [k \in Kind |-> IF k = "core" THEN "ready" ELSE "active"]
        /\ pointer' = "enhancement"
     \/ /\ revision["enhancement"] = "active" /\ pointer = "enhancement"
        /\ UNCHANGED <<revision, pointer>>
  /\ Proceed(w, "conclude")
  /\ UNCHANGED <<payload, verdict, order, link, job>>

FailRevision(w) ==
  /\ At(w, "enhancement", "failRevision")
  /\ revision["core"] = "active" /\ revision["enhancement"] \in {"pending", "failed"}
  /\ revision' = [revision EXCEPT !["enhancement"] = "failed"]
  /\ Proceed(w, "giveUp")
  /\ UNCHANGED <<payload, pointer, verdict, order, link, job>>

\* terminalizeReportV4EnhancementJob, failed: the job is over already, or ends.
GiveUp(w) ==
  /\ At(w, "enhancement", "giveUp")
  /\ Enhanceable /\ CoreIsCurrent /\ revision["enhancement"] \in {"absent", "failed"}
  /\ \/ Holds(w) /\ job' = [job EXCEPT !["enhancement"] = EndedRow(@, "failed")]
     \/ job["enhancement"].state = "failed" /\ UNCHANGED job
  /\ Goto(w, {"idle", "catch"})
  /\ UNCHANGED <<artifactVars, pointer, order, link>>

\* terminalizeReportV4EnhancementJob, completed.
Conclude(w) ==
  /\ At(w, "enhancement", "conclude")
  /\ Enhanceable /\ pointer = "enhancement"
  /\ \/ Holds(w) /\ job' = [job EXCEPT !["enhancement"] = EndedRow(@, "completed")]
     \/ job["enhancement"].state = "completed" /\ UNCHANGED job
  /\ Goto(w, {"idle", "catch"})
  /\ UNCHANGED <<artifactVars, pointer, order, link>>

-----------------------------------------------------------------------------
(* The processor's error path.                                              *)

\* terminalizeFailedPaidReportV4Core: only while nothing of a report exists.
FailCore(w) ==
  /\ At(w, "core", "catch")
  /\ Holds(w) /\ order = "open"
  /\ revision["core"] = "absent" /\ payload["core"] = 0 /\ pointer = "none" /\ link = "none"
  /\ order' = "failed"
  /\ job' = [job EXCEPT !["core"] = EndedRow(@, "failed")]
  /\ Goto(w, {"idle"})
  /\ UNCHANGED <<artifactVars, pointer, link>>

\* failScanJob, retryable.
Retry(w) ==
  /\ run[w].pc = "catch"
  /\ Holds(w) /\ job[run[w].kind].attempts < MaxAttempts
  /\ job' = [job EXCEPT ![run[w].kind] = EndedRow(@, "waiting")]
  /\ Goto(w, {"idle"})
  /\ UNCHANGED <<artifactVars, pointer, order, link>>

\* failScanJob of an enhancement, for good: the revision and the pointer stay.
FailEnhancement(w) ==
  /\ At(w, "enhancement", "catch")
  /\ Holds(w)
  /\ job' = [job EXCEPT !["enhancement"] = EndedRow(@, "failed")]
  /\ Goto(w, {"idle"})
  /\ UNCHANGED <<artifactVars, pointer, order, link>>

\* The job is over, or its last write is refused: the lease is left to lapse.
Leave(w) ==
  /\ run[w].pc = "catch"
  /\ Goto(w, {"idle"})
  /\ UNCHANGED tableVars

-----------------------------------------------------------------------------
(* Maintenance, the deadline, the links, and time.                          *)

ExhaustedRow(row) == EndedRow(row, "failed")

Exhaust(k) ==
  /\ job[k].state = "running" /\ ~job[k].live /\ job[k].attempts >= MaxAttempts
  /\ job' = [job EXCEPT ![k] = ExhaustedRow(@)]
  /\ UNCHANGED <<artifactVars, pointer, order, link, run>>

LeaseExpires(k) ==
  /\ job[k].live
  /\ job' = [job EXCEPT ![k].live = FALSE]
  /\ UNCHANGED <<artifactVars, pointer, order, link, run>>

\* expirePaidOrderSla fails the core job under its worker.
Deadline ==
  /\ order = "open" /\ job["core"].state \notin Over
  /\ order' = "late"
  /\ job' = [job EXCEPT !["core"] = EndedRow(@, "failed")]
  /\ UNCHANGED <<artifactVars, pointer, link, run>>

\* reconcilePaidJobOutcomes: the order follows a core job that failed.
RecordFailure ==
  /\ order \in {"open", "late"} /\ job["core"].state = "failed"
  /\ order' = "failed"
  /\ UNCHANGED <<artifactVars, pointer, link, job, run>>

\* A reissue revokes the old links before it issues the new one, in two
\* transactions; thirty days do the same.
RevokeLinks ==
  /\ link = "live"
  /\ link' = "revoked"
  /\ UNCHANGED <<artifactVars, pointer, order, job, run>>

\* Only for a complete report: of a limited one the second step always fails.
IssueLink ==
  /\ link = "revoked" /\ order = "completed"
  /\ link' = "live"
  /\ UNCHANGED <<artifactVars, pointer, order, job, run>>

-----------------------------------------------------------------------------
CoreStep(w) ==
  \/ LoadCore(w) \/ PrepareCore(w) \/ PersistCore(w) \/ ReadyCore(w)
  \/ DeliverCore(w) \/ DeliverCoreAgain(w) \/ EnqueueEnhancement(w)
EnhancementStep(w) ==
  \/ LoadEnhancement(w) \/ PrepareEnhancement(w) \/ PersistEnhancement(w)
  \/ ActivateEnhancement(w) \/ FailRevision(w) \/ GiveUp(w) \/ Conclude(w)
CatchStep(w) == FailCore(w) \/ Retry(w) \/ FailEnhancement(w) \/ Leave(w)
WorkStep(w) == CoreStep(w) \/ EnhancementStep(w) \/ CatchStep(w) \/ Throw(w)
JobStep(k) == Exhaust(k) \/ LeaseExpires(k)
OrderStep == Deadline \/ RecordFailure \/ RevokeLinks \/ IssueLink

Next == \/ \E w \in Worker : WorkStep(w) \/ Crash(w) \/ \E k \in Kind : Claim(w, k)
        \/ \E k \in Kind : JobStep(k)
        \/ OrderStep

\* A lease that nobody renews: its owner works on something else, or not at all.
Lapse(k) == /\ job[k].owner # None
            /\ LET row == run[job[k].owner] IN row.pc = "idle" \/ row.kind # k
            /\ LeaseExpires(k)

Fairness == /\ \A w \in Worker : WF_vars(WorkStep(w))
            /\ \A k \in Kind : /\ WF_vars(\E w \in Worker : Claim(w, k))
                               /\ WF_vars(Exhaust(k))
                               /\ WF_vars(Lapse(k))
            /\ WF_vars(RecordFailure)

Spec == Init /\ [][Next]_vars
FairSpec == Spec /\ Fairness

-----------------------------------------------------------------------------
(* Properties.                                                              *)

\* Every variable keeps its type.
TypeOK == /\ revision \in [Kind -> Status]
          /\ payload \in [Kind -> 0 .. MaxAttempts]
          /\ pointer \in {"none"} \cup Kind
          /\ verdict \in Verdict
          /\ order \in OrderState
          /\ link \in {"none", "live", "revoked"}
          /\ job \in [Kind -> JobRow]
          /\ run \in [Worker -> RunRow]

\* The pointer identifies the one active revision, its payload is stored, and the
\* core it replaced is kept; and there is one exactly when the order was
\* delivered.  No crash, lost reply, deadline or worker without a lease leaves
\* a delivered order without its report or shows a report nobody delivered.
PublishedIsActive ==
  /\ \A k \in Kind : revision[k] = "active" <=> pointer = k
  /\ pointer # "none" => payload[pointer] # 0
  /\ pointer = "enhancement" => revision["core"] = "ready"
  /\ pointer # "none" <=> order \in Delivered

Published == INSTANCE PublishedReport WITH
  shown <- pointer,
  outcome <- IF order = "late" THEN "open" ELSE order,
  extra <- CASE job["enhancement"].state = "absent" -> "none"
             [] job["enhancement"].state \in Over -> "over"
             [] OTHER -> "due"

\* What the customer sees follows PublishedReport: decided once, published with
\* the decision, never withdrawn, and the order and the enhancement both end.
KeepsItsPromise == Published!Spec
=============================================================================
