# Open GEO Console: a verification of its jobs, money, mail and reports

Open GEO Console scans web sites, produces reports and sells them. A customer
pays, a worker crawls and analyses for up to hours, and within 24 hours the
customer has a report by e-mail or the money back
(`docs/COMMERCIAL-OPERATIONS.md:7`). PostgreSQL is the only authority. Web
handlers, webhooks, workers and the commerce run are independent processes that
meet in its tables, hold leases there, and call a payment provider and an e-mail
provider between two transactions. These modules are about that: what any
interleaving, crash, lapse or repetition can do to the job, the credit, the
order, the refund, the e-mail, the shared searches and the report the customer
sees.

Paths below are relative to `src/`; `web/` stands for `apps/web/src/`.

## 1. Inventory

| Component | State it keeps | Operations | Talks to |
|---|---|---|---|
| Scan-job ledger (`web/db/jobs.ts`, `worker/job-transition-service.ts`) | `scan_jobs`: stage, execution state, lease, phase attempts, checkpoint and its revision; append-only transition events | enqueue, maintenance, claim, exact claim, heartbeat, checkpoint, terminalize, fail (retry, defer, repair), resume; the deadline and the recovery of a paid order write here too | credits; workers; orders read its outcome |
| Workers (`worker/drain.ts`, `job-execution.ts`, `processor.ts`) | in memory: the job claimed, the checkpoint revision last observed, a heartbeat timer and a hard deadline | poll, claim, load, execute, heartbeat, checkpoint, end | ledger; analysis code; `recordPaidJobOutcome` after the end |
| Credits (`web/db/credits.ts`) | `access_keys.credits_remaining`, `credit_ledger` | reserve, attach, settle, refund, revoke key | ledger, orders |
| Paid orders (`web/db/commercial-orders.ts`, `commercial-refunds.ts`, `public-source-commerce.ts`) | `payment_orders`: payment, fulfillment, refund and delivery status, deadline, retirement; `payment_refunds` with a lease | payment events, terminalization, outcome, deadline, recovery (read, then write), refund claim and marks | webhooks, workers, commerce run |
| Commerce run (`web/commerce/operations.ts`, `run-operations.ts`) | in memory: a batch of leased refunds or e-mails | reconcile, deadline, refunds, e-mail, in that order | payment and e-mail providers |
| E-mail and links (`web/db/commercial-delivery.ts`, `report-tokens.ts`) | `email_deliveries` with a lease, `email_delivery_events`, `report_access_tokens` | queue, reissue, claim, revoke, issue, send, mark, event, replay, redeem | e-mail provider and its webhook |
| Upgrade route (`app/api/reports/[id]/upgrade`) | none: reserve, enqueue, attach in separate transactions | one request | credits, ledger |
| Dispatch outbox and queue (`web/db/commercial-dispatch.ts`, `web/queue/`) | `job_dispatch_outbox` with a lease; hints in a queue | lease, publish, mark, retry, abandon, reconcile | hints wake workers, which still claim from PostgreSQL |
| Free-scan admission and trials (`web/db/scan-admission.ts`, `trials.ts`) | trials, rate buckets, daily budget, staging regenerations | admit in one transaction under advisory locks | ledger |
| Report V4 production (`web/worker/report-v4-*`, `web/db/report-v4-*`) | page, synthesis, question and diagnosis checkpoints, artifact revisions | analyze pages and synthesize the website beside answering the questions; phases of a core report and its enhancement | model providers, ledger, orders |
| Market snapshots (`web/db/market-snapshots.ts`) | leases with a generation, shared search results | acquire, heartbeat, complete, release, wait, bind | workers |
| Corrections and replacements (`web/db/combined-*`) | a correction or replacement job and its artifact | create, terminalize | orders, ledger |
| Payment adapters, packages, user interface, migrations | none of their own protocol | translation, analysis, presentation | |

How they interact: a payment webhook creates the internal key, the reservation
and the job in one transaction. A worker leases the job, checkpoints it, and ends
it together with the credit. The order learns of it in a second transaction
(`recordPaidJobOutcome`, or the reconciliation of the commerce run), or in the
same one for the newer contracts. A limited or failed outcome, or the deadline,
inserts a refund, which the commerce run submits; the provider's webhook or its
answer settles it. The outcome also queues an e-mail, whose link is a token
derived from the delivery's key; the e-mail provider reports what became of it.

### What is hard

* Leases lapse under a worker that is only slow, and the heartbeat revives a
  lease that has already run out. Writes of the old holder come late.
* Every external call sits between two transactions: an error does not say
  whether the provider acted, and a process can die on either side of it.
* One fact is kept in several columns by statements of their own: stage and
  execution state; refund status of the order and state of the refund; delivery
  status and delivery; the reservation, the key's balance and the job's pointer.
* Webhooks arrive early, late, twice and in another order.
* Attempts are counted by claims, reset by checkpoints, handed back by deferrals.
* The deadline and the recovery act under a worker or a sender at work.
* Two branches of an attempt run beside each other, and when one throws nothing stops
  the other: it calls providers and writes checkpoints beside the next attempt.

What makes each component right: one live holder per job, whose writes alone
count; a job that is over stays so; no credit made or lost; every job ends or
parks; every paid order has its report or its refund, and never both for a
complete report; a refund is decided once and is said to be made only if it is;
the delivery shown on the order is the delivery's; a queued e-mail is sent; a model
provider is called no more often than its budget allows, and a report says what the
checkpoints say.

## 2. Modules

Each module cuts the system at a table that two parts share. `ScanJobs` has the
inside of the lease and an abstract end; `PaidOrders` has a job that is open until its
terminal transaction, and the money behind it; `EmailDelivery` is the sending of what
`PaidOrders` queues; `ReportArtifacts` has the report, its two jobs and the order as the
report sees it; `CoreProduction` is what happens inside the core job before that report is
stored. `DeepLane` is the deep jobs before the money, shared by `CreditUpgrade`
and `DispatchOutbox`. `MarketSnapshots` stands alone: its lease is not the job's. Every
action is one transaction, one provider call, or the passing of time.

### `ScanJobs` (ledger, workers, credits)

| Definition | Code |
|---|---|
| `job[j]` | a row of `scan_jobs`; stages before the end are one value, `open`; `ledger` is the target of the last transition event; `envelope` is `checkpoint.recovery.revision` |
| `credit`, `balance` | `credit_ledger.status` of the job's reservation, `access_keys.credits_remaining` |
| `pc`, `claimed`, `seen` | a worker loop: between maintenance and claim, between claim and read, or executing; the job; the revision its checkpoint writer last observed |
| `ReserveCredit`, `EnqueueScanJob` | `reserveCredit`, `enqueueScanJob` |
| `MaintainLane`, `MaintainExact` | the maintenance transaction of `claimScanJob` (every tier) and of `claimExactScanJob` (its target): recover, exhaust, return credits |
| `Claim`, `ClaimNothing`, `Load` | `JobTransitionService.claim`/`claimExact`, and the `getScanJob` after it |
| `HeartbeatScanJob`, `CheckpointScanJob` | the same names; the compare-and-swap on the revision is a guard |
| `TerminalizeScanJob` | `terminalizeScanJob`, `finishScanJob`: job and credit in one transaction |
| `FailForRepair`, `FailForRetry` | the branches of `failScanJob`; out of attempts it goes on to `TerminalizeScanJob` |
| `ResumeAfterRepair` | `resumeScanJobAfterRepair` |
| `ExpirePaidOrderSla`, `RecoverHistoricalPaidJob` | the two writers of `web/db/commercial-refunds.ts` that ask for no lease, for the jobs of `Ordered`: what they do to the row and its credit; what they ask of the order is in `PaidOrders` |
| `Abandon`, `Crash`, `LeaseExpires`, `BackoffElapses` | a refused write, the death of a process, time |

Leases and back-offs are flags. A worker that crashes has a new identity in the
code; here the slot is used again, which is sound because a dead worker writes
nothing and a row can still carry the dead identity's lease.

### `PaidOrders` (orders, refunds, deadline)

| Definition | Code |
|---|---|
| `order`, `job`, `bound`, `credit`, `key` | `payment_orders`, the stage of its job, whether the job still names the reservation, the reservation, the balance of the order's own internal key |
| `refund`, `run`, `provider` | `payment_refunds`, a refund process's memory, and the refund at the provider |
| `mail` | the e-mail that promises the refund, as far as the recovery looks at it |
| `ApplyPaidPaymentEvent`, `ApplyRetiredPaymentEvent`, `ApplyUnsuccessfulPaymentEvent` | `applyPaidPaymentEventInternal` and its two branches, `applyUnsuccessfulPaymentEvent` |
| `PrepareRetirement`, `FinalizeRetirement` | withdrawal of the retired product `deep_report_v1` |
| `TerminalizeJob`, `RecordPaidJobOutcome` | the end in two transactions; the second by the worker or by `reconcilePaidJobOutcomes` |
| `TerminalizePaidReport` | the end in one: `terminalizePaidReportV4Core`, `terminalizeFailedPaidReportV4Core`, `terminalizePaidPublicSourceReport` |
| `ExpirePaidOrderSla` | the same name in the code |
| `ReadForRecovery`, `RecoverHistoricalPaidJob`, `RefuseRecovery`; `recovery` | `recoverHistoricalPaidJob`: its `SELECT`, whose snapshot is older than its locks; what it writes once it has them; its refusals. In between the refund may be marked, which it does not see (`overtaken`) |
| `ClaimPendingRefund`, `RequestRefund`, `MarkRefundSubmitted`, `MarkRefundSucceeded`, `MarkRefundFailed`, `ScheduleRefundRetry`, `RefundEvent` | `submitRefund` of `commerce/operations.ts` step by step, and the refund webhook |

The provider honours the idempotency key: a refund is requested once however
often it is sent. A timeout may hide an acceptance.

`OrderPromise` is what the customer is promised: of each order, where the money is
(held, owed, requested, returned, given up) and what became of the report (due, complete,
short). An order that falls short, or whose deadline passes, owes the money in that step;
a complete report is delivered only while the money is held; the report is due again only
after a look at a refund that was not on its way, and then the refund is called off, or it
has gone on its way since and the report is due although the money has left; and in the
end there is the complete report or a refund on its way. `PaidOrders` implements it for the
orders that are not of the retired product (section 5 says what happens to those). The
mapping is `Money` of the refund row and `Report` of the order and its recovery, so it is
about what the books say; `RefundsAgree` relates the books to the provider, and a pending
refund the recovery drops while a process is requesting it is the case of section 5 that
the books do not show.

### `EmailDelivery` (outcome and reissue e-mails)

| Definition | Code |
|---|---|
| `mail`, `status`, `token` | `email_deliveries` rows of one order, its `delivery_status`, the token of each e-mail |
| `accepted`, `event` | what the e-mail provider has taken and reports, and the event's ledger row |
| `ClaimEmailDelivery` | `claimEmailDeliveries` |
| `RevokeReportAccessTokens`, `IssueReportAccessToken`, `Send`, `MarkEmailSent`, `RecordSent`, `SelectIgnored`, `ReplayEvent` | `sendDelivery` and `markEmailSent`, one action per transaction |
| `PrepareFails`, `MarkEmailFailed`, `RecordFailed`, `ScheduleEmailRetry` | the error path of `processQueuedCommercialEmails` |
| `Report`, `ReceiveEvent`, `MissDelivery`, `CommitMissed` | a provider event; one that finds no delivery stays uncommitted for a while |

### `DeepLane`, `CreditUpgrade`, `DispatchOutbox` (producers of deep jobs)

`DeepLane` is the deep jobs of one report as producers and the queue see them: rows of
`scan_jobs`, the reservations of one key, and workers that drain the table when they
start and then wait. A claim with its maintenance is one step (`ClaimScanJob`; the
two steps are in `ScanJobs`) and a job has at most one checkpoint. `CreditUpgrade` and
`DispatchOutbox` extend it and add what runs beside the workers.

| Definition | Code |
|---|---|
| `request` (`CreditUpgrade`) | a request of `POST /api/reports/:id/upgrade`: where its handler is, and the locale, the reservation row and the job id it remembers |
| `ReadReport`, `ReserveCredit`, `SettleLocale`, `EnqueueScanJob`, `AttachReservationToJob`, `RefundCredit` | the transactions of the handler, in its order; `WriteFails` is its `catch`, `RequestDies` a process that ends between two of them |
| `PersistAiReport`, `Terminalize` | the worker stores the report (`saveAiReport`, which asks for no lease) and then ends the job |
| `outbox`, `ahead`, `hint`, `dispatcher` (`DispatchOutbox`) | `job_dispatch_outbox`, the order of its rows by `next_attempt_at`, whether the queue of the lane holds a message, and the rows a dispatcher run has leased |
| `AdmitPaidJob`, `EnqueueScanJob` | the producer that writes an outbox row with the job, and the one that does not |
| `Repair`, `LeaseJobDispatches`, `Publish`, `MarkJobDispatchPublished`, `MarkJobDispatchRetry` | `reconcileQueuedJobDispatches` and `dispatchJobNotifications`, one action per transaction or call. A lease takes the first `Batch` rows of both tiers; those of the free tier, whose hints wake another lane, are the places they take in a batch (`FreeRows`) |
| `HintClaim`, `HintExpires` | `runQueueHintCycle`, and the queue's retention |

### `MarketSnapshots` (shared searches)

| Definition | Code |
|---|---|
| `lease` | the row of `market_snapshot_leases`: owner, generation, state, whether it is alive |
| `snap[v]` | version `v` of the snapshots of one cache identity, with the ledger of its search attempts and what is stored of results and sources |
| `cutoff`, `run` | the snapshots a job may use, and a resolver's memory: generation, snapshot, calls in flight, sources planned for retrieval |
| `StartResolve`, `WaitServed`, `WaitRetry`, `WaitGivesUp` | the look-up and `waitForMarketSnapshot` |
| `AcquireLease`, `LeaseRefused` | `acquireMarketSnapshotLease`; a takeover marks the attempts the former owner left pending |
| `ResumeSnapshot`, `DropSnapshot`, `CreateRefresh`, `AppendQueries` | the start of a refresh |
| `BeginAttempt`, `CompleteAttempt`, `SearchDone`, `AppendObservations`, `AppendEvidence`, `SkipRetrieval`, `CompleteSnapshot` | search, results, sources (or none, when enough are available), completion |
| `FailRefresh`, `CrashWorker`, `LeaseExpires` | an error or an abort with `releaseFailedMarketSnapshotLease`, a death, time |

### `ReportArtifacts` and `PublishedReport` (what the customer sees)

`PublishedReport` is the promise: an order is decided once, a report appears in the step
that delivers the order, it is never withdrawn and only replaced by its enhancement, and
order and enhancement both come to an end. `ReportArtifacts` is how the code keeps it.

| Definition | Code |
|---|---|
| `revision`, `payload`, `pointer` | `report_artifact_revisions`, `combined_geo_reports` (by the attempt that wrote it), `scan_reports.active_artifact_revision_id` |
| `verdict`, `order`, `link`, `job`, `run` | what the stored core says of itself, the order, the access tokens, the core and the enhancement job, a worker's memory |
| `LoadCore` to `EnqueueEnhancement` | `runReportV4CoreStage`, one action per transaction: prepare, persist, ready, terminalize, enqueue |
| `LoadEnhancement` to `Conclude` | `runReportV4EnhancementStage`, with its failure paths `FailRevision` and `GiveUp` |
| `FailCore`, `Retry`, `FailEnhancement`, `Leave` | the error path of the processor |
| `Exhaust`, `LeaseExpires`, `Deadline`, `RecordFailure`, `RevokeLinks`, `IssueLink` | maintenance, time, `expirePaidOrderSla`, `reconcilePaidJobOutcomes`, reissue |

A step's guard is what the transaction requires; a refusal, an error or an abort is
`Throw`, and `Proceed` lets a step that was committed lose its reply. `Handler` says which
`catch` of the code takes over from where.

The refinement mapping is `shown <- pointer`; `outcome <- order`, with `late` (deadline
enforced, outcome not recorded yet) still open; and `extra <-` the state of the
enhancement job: none, due, over. The pointer alone is mapped, so the mapping says
nothing of revisions; that the pointer means anything is `PublishedIsActive`.

### `CoreProduction` (how a core report gets its content)

| Definition | Code |
|---|---|
| `job`, `report` | the row of the core job as a claim and a failure see it; the payload that `persistReportV4ArtifactPayload` stores |
| `summarized`, `website`, `question` | the pages with a row in `report_v4_page_summaries`, the one row of `report_v4_website_synthesis_checkpoints`, the rows of `report_v4_question_checkpoints` |
| `attempt[a]` | what claim `a` of the job holds in memory: where its two branches are, what it knows of pages and questions, and the process it runs in |
| `asked`, `synthesized` | calls the providers were sent; no table has them |
| `ClaimJob`, `StageFails`, `Crash` | claim, the `catch` of the processor, the death of a process with all branches it runs |
| `AnalyzePage`, `PersistSummary`, `SettlePages` | `createReportV4ProductionPageAnalysis`, `persistWithStore`, and `synthesizeWebsite` once all pages are settled |
| `InitializeSynthesis`, `ClaimSynthesis`, `BeginProviderCall`, `CompleteSynthesis`, `FailSynthesis` | the repository of the synthesis checkpoint, in the order of `createRunner` |
| `InitializeQuestions`, `ReuseAnswer`, `RecordProviderCall`, `RetryQuestion`, `SaveAnswered`, `MarkUnavailable` | `answerReportV4Questions`, `resolveQuestion` and the repository of the question checkpoints |
| `SiteThrows`, `QuestThrows` | a refused write, an error of the database, an aborted signal |
| `StoreReport` | `Promise.all` has both results, and the report is built and stored |

A branch that throws is `dead`; the stage is then over, and a branch that lives on takes
its steps all the same, until it ends or its process dies. Each write may succeed and its
reply be lost. A lease may run out at any time: another may then take the row, and a
refused holder throws, so no clock is needed. The deadline and the maintenance may end the
job under its attempts: no claim follows then and the report is refused, which a model
without fairness has anyway. The calls of the page provider are not
counted: the code bounds them per attempt only.

### MC modules

Each `MC` module gives names to the model values and the maps of the small
instances, and to the symmetry set of interchangeable processes or pages where there is one.
Symmetry is used in safety runs only. Mutants stand before the definition they vary;
nothing else refers to them.

## 3. Runs

| Run | Instance | States | What it shows |
|---|---|---|---|
| `scan_jobs` | a lane worker and a one-shot process of one lane, two jobs with a key each, one of them of a paid order | 661 k | types; `RowsAgree` (lease and state, stage and events, waiting and budget), `HolderIsFresh`, `CreditFollowsOutcome`; the steps `TerminalIsFinal`, `LostLeaseWritesNothing`, `OneShotKeepsToItsJob` |
| `scan_jobs_live` | a free and a deep lane worker, two deep jobs of one key | 38 k | `CreditBounded`; the liveness `NoJobIsForgotten` |
| `scan_jobs_credit` | two jobs of one key, exhausted together | | refutes `CreditConserved` |
| `paid_orders` | a recoverable V4 order and an order of the retired product, one refund process, one attempt | 2.1 M | `MoneyGoesBack` (of a failed, limited, late or retired order), `CreditAccounted` |
| `paid_orders_runs` | one recoverable order, two refund processes, two attempts | 72 k | types; `RefundsAgree` (order, refund and provider), `ReportIsCharged`; the steps `DecidedIsFinal`, `WebhooksDoNotRewind`, `StaleRunDecidesNothing`; `PromiseKept`, that is `OrderPromise!Spec` with its fairness |
| `email_delivery` | one sender, the outcome e-mail and a reissue, two events of the outcome e-mail, two attempts | 121 k | types; `OrderFollowsMail`, `EventsAgree`; the step `StaleRunMarksNothing`; the liveness `QueuedIsSent` |
| `market_snapshots` | two resolvers, two queries, two kinds of snapshot, two refreshes, forced or not | 751 k | types; `PendingIsNewest`; the step `StaleWorkerWritesNothing`; the liveness `ResolveEnds` |
| `market_snapshots_lost` | the same | | refutes `SuccessKeepsResults` |
| `credit_upgrade` | three requests (two share a key, the third asks for another language), one credit, two jobs, one worker | 1.9 M | types; `CreditBounded`, `PaidIffCompleted`, `AuditFindsNothing` |
| `dispatch_outbox` | a paid job behind an upgrade job without outbox row, a batch of two rows of which one may go to the free tier, one dispatcher, one worker | 444 k | types; the liveness `PaidJobEnds` |
| `artifacts` | two workers, three attempts per job | 205 k | types; `PublishedIsActive`; `KeepsItsPromise`, that is `Published!Spec` with its fairness |
| `core_production` | two processes, two attempts, two pages, one question | 1.4 M | types; `ProviderBudget`, `AttemptsAgree`, `ReportIsCheckpointed` |

Deadlock is checked in the runs of `ScanJobs`, whose lanes poll for ever. It is off
in the others: an order that is delivered or refunded, an e-mail that is sent, a search
that is stored, a request that is answered, a report that is complete and a job that is
over have nothing left to do.

### Bounds and why they are enough

* `MaxAttempts` is 2 for jobs: the first claim leaves an attempt, the second
  exhausts it, so the guards `<` and `>=` are met on both sides. For refunds and
  e-mails the counter saturates at the bound, since only "reached" is tested.
  It is 1 where the retries are not the question (`paid_orders`, `credit_upgrade`,
  `dispatch_outbox`), and 3 in `artifacts`: a worker that stored a payload, one that
  took over and was lost, and a third that still finds the first one writing.
* `MaxRevision = 1`: a checkpoint, with claims, lapses and repairs before and after. A
  stale writer differs from a fresh one by one revision. An execution at the bound can
  still end, so no run stops there. Deferrals are not bounded, as in the code.
* `Batch = 2`, `FreeRows = 1`: a batch that one row of the free tier leaves too small for
  both rows of the deep tier, so that the order of the rows decides.
* Two workers or processes are what a lease can confuse: the one that lost it
  and the one that has it. The run of the e-mails has one, which can lose its lease and
  claim again; that any number of senders do no harm is proved (section 4). Two jobs of one key are needed for the joint return
  of credits, and for a one-shot process to leave the other one alone.
* Two events: an end and a complaint, either of them early, late or repeated.
* `MaxRuns = 2` refreshes and two queries: the second refresh resumes, drops or follows
  the first, with one query answered and one left pending.
* Three requests: two that repeat one key, and a third that takes the locale or the
  credit from under them. A dispatcher is one, since a run that dies and the next run
  are told apart by the lease alone.
* `core_production`: the second attempt meets everything the first left behind, its
  branches included, in the same process or in the other one. Two pages: one summarized
  and one not, so that the input of the synthesis can change between two attempts. One
  question is asked while another attempt asks it; that the later questions of an attempt
  are known only from the start is covered by the proofs, for any number of them.
* The theorems of section 4 carry the safety of every component beyond these bounds.

### Fairness and what justifies it

* `ScanJobs`: a lane polls for ever (`runPostgresPollingLane` catches the errors of
  claim and of processing), so its maintenance is weakly fair. The claim is
  strongly fair: a process may die between maintenance and claim, but not each
  time. An execution ends or finds itself without a lease: `JobExecutionLease`
  aborts it at a hard deadline. Clocks move. Heartbeats, checkpoints, repairs,
  crashes and resumes are not fair. Maintenance of either lane covers every tier,
  which the run needs: a stuck claim of one lane is undone by the other too.
* `PaidOrders`, `EmailDelivery`: the commerce run is started again and again
  (`runCommercialOperations`, after each batch and from its own worker). A process
  may die or outlive its 120 seconds, but not each time: strong fairness on each
  step taken in time, weak fairness on the rest. The payment provider repeats
  an unacknowledged webhook. Nothing is assumed of the provider's answer.
* `MarketSnapshots`: a resolver that lives takes its next step, and its provider calls
  have timeouts. The lease of a holder that is gone runs out; that of a holder at work
  need not.
* `DispatchOutbox`: a worker is started again, and does not die before a claim for ever
  (strong fairness). The reconciliation is run again and again
  (`docs/superpowers/specs/2026-07-10-commercial-report-delivery-design.md:345`: every 30
  minutes), so its lease is strongly fair, and so is some publication after a lease; the
  mark is weakly fair, and a run may die or lose its lease anywhere. Fairness does not
  choose rows: a lease takes the first ones, and it is fair only while the rows of the
  free tier cannot fill a batch (`RoomForDeep`). A plain dispatch run is not fair. The
  queue may lose every hint but not each one before it is read.
* `CoreProduction` has none: what it claims is safety.
* `ReportArtifacts`: weak fairness of each worker's next step, of the claim of a job, of
  its exhaustion, of the record of a failed job, and of the lapse of a lease nobody
  renews. Crashes, throws that the code does not make, the deadline and the links are
  not fair. A checkpoint that resets the attempts is left out: it adds attempts.

`NoJobIsForgotten` says that no run lasts for ever and that a job with an attempt left runs
again, ends, or waits behind an older job of its lane. It does not say that a job ends: the
code limits neither deferrals, which hand the attempt back, nor checkpoints, which reset
the attempts, so a job may go round for ever. A job parked for a person, and one resumed
without an attempt left (see 5), may stay where they are. `PaidJobEnds` has the antecedent
`RoomForDeep` (see 5). `OrderPromise` counts a refund that was given up (`failed`) as
decided: the code then writes to the customer for help. `KeepsItsPromise` asks for an end
of an enhancement that was offered, not for the offer: it can be lost (see 5).

## 4. Proofs

`ScanJobsProofs` proves, for every finite set of jobs, every set of workers and keys and
every bound, each property of the run `scan_jobs`, and `CreditBounded`. Assumed are only the named `ASSUME`s of `ScanJobs`: jobs are naturals
(their order is the claim order) and finitely many, `None` is nobody, the maps have
their types, `MaxAttempts` is positive.

1. `TypeCorrect`. Type correctness is not inductive alone: a
   claiming, loading or working step reads `job[claimed[w]]`. `AimedAtJob` says that
   a worker past its claim is aimed at a job, and the pair is inductive.
2. `Invariant`. `IInv` joins six parts, and each is there because a
   statement relies on another:
   * `RowsInv`: of each row, that lease and running state go together and that stage,
     state, back-off and last event agree. The repair path tests only the lease;
     `LeaseMeansRunning` is what makes that sound. Each write is a row operator
     (`ClaimedRow`, `TerminalRow`, ...) and has one lemma that it keeps `RowInv`.
   * `HolderIsFresh`: it would break if a worker could be given a lease again
     that it holds in memory from before. A claim needs a row without a running
     owner, and a worker claims only when it is not working, so a revived lease is
     always the execution's own.
   * `CreditFollowsOutcome`, `PaidFor`: the transition of stage and credit is joint in
     every path, the deadline of an order and the recovery of its job included; an
     exhausted row with a reservation is open.
   * `CreditBounded`: the key's balance and the number of credits held move against
     each other. A maintenance gives a key one credit back (`Returned`) where it ends
     one job of it or several, and the deadline voids a credit without returning it, so the
     sum can fall and never rises; the recovery debits the key again. The lemmas about
     `Held` and `Cardinality` carry that sum.

   `RowsAlwaysAgree` (with its parts `LeaseSafe`, `StagesAgree` and `RetryBudget`),
   `HolderFresh`, `CreditOutcome` and `CreditNeverMade` are its projections on the
   properties of the run.
3. `TerminalFinal`, `BudgetGrows`, `LostLeaseIsHarmless` and `OneShotIsConfined` prove
   the action properties from `IInv`, an action at a time:
   a settled row has no lease, is not eligible, recoverable or exhausted, and the deadline
   asks for its state, so no guard but that of the recovery lets a write at it.

`PaidOrdersProofs` does the same for the safety properties of
`paid_orders` and `paid_orders_runs`, for every set of orders, every assignment of
contracts to them and every set of refund processes. Assumed are the named `ASSUME`s
of `PaidOrders`: V4 and retired orders are disjoint, `None` is nobody, and
`MaxAttempts` is positive.

4. `OrdersAgree`. Here `IInv` is a conjunction order by order, since
   no two orders share a row; `OrdersKept` is the frame lemma that a write to one
   order leaves the others' invariant alone. What each part is there for:
   * `RefundAgrees` joins order, refund row and provider. The guards of the two tables
     differ in the code (`markRefundSucceeded` asks for other states in each), and
     only their agreement before the write keeps them together after it. An order that a
     recovery reopened over a refund on its way is excepted: of it `RefundAgrees` says that
     the refund row is still there, and not pending, so no second refund begins.
   * `RecoveryAgrees`: while a recovery waits for its locks, job and order stay failed and
     the credit stays returned, so what it read of these three is still true when it
     writes. Of the refund nothing of the kind holds, which is the exception above.
   * `CreditAgrees`: an open job always names a reserved credit, so the end of a job
     settles exactly one; after the deadline the job names none, which is how the
     recovery tells a voided credit from a returned one.
   * `UnpaidIsFresh` and `RetiredAgrees`: a cancelled order has nothing started, so a
     payment that arrives late begins from nothing or is sent back; and a paid order has
     started, so a repeated event starts nothing.
   * `ReportAgrees`: while the job is open nothing is refunded or promised, so a
     complete report meets no refund but an overlooked one; and a courtesy flag means that the deadline is
     over, which is why the recovery cannot reopen such an order.
   * `RunInv`: an answer that a process is about to mark was an acceptance.

   `RefundsAlwaysAgree`, `MoneyAlwaysGoesBack`, `ReportsAreCharged` and
   `CreditsAreAccounted` are its projections on the properties of the runs, and
   `OrdersMirrorRefunds`, `RefundsAreReturned`, `FailuresAreRefunded` and
   `RetiredOrdersStartNothing` the parts of the first two.
5. `RefundsAreDecidedOnce`, `WebhooksMoveForward` and `LostLeaseDecidesNothing` prove
   the action properties from it.
6. `Implements`: `Spec => Promise!Safe`. `BooksMove` says what a step may do to the pair
   of money and report of one order; each action is shown to do that, with `IInv` for the
   guards the code does not test. That a worker's complete report finds the money held is
   `ReportAgrees`; that a late or failed order owes it from then on is `FailureRefunded`;
   that a decided refund stays decided is the agreement of the two tables; that the recovery
   reopens an order the abstract one has seen it look at is `RecoveryAgrees`. The fairness of
   `Promise!Spec` is model-checked (`PromiseKept`).

`ReportArtifactsProofs` proves, for every set of workers and every number of attempts,
that `None` being nobody and `MaxAttempts` being positive are enough for:

7. `TypeCorrect`, `ShownIsActive` and `Invariant`. `PublishedIsActive` is not inductive:
   that the pointer's payload is stored rests on what a worker did two transactions ago.
   `IInv` adds
   * `RunsInv`: a worker about to make a core ready, or to activate an enhancement, acts
     on a payload that is stored, and payloads are never removed (`Grows`). A worker
     without a lease is bound by the same, which is why it does no harm;
   * `CoreInv`: a ready or active core has its payload and a core never fails;
   * `JobsInv`: the core job is completed exactly when something is shown, and an
     enhancement exists only with its job. It forbids that the deadline or the
     exhaustion ends a core job whose report is out.
8. `Implements`: `Spec => Published!Safe`. Each action is a step of `PublishedReport` under
   the mapping or changes nothing of it; `IInv` gives the guards, since for the code a
   delivery asks for an open order and an empty pointer and the abstract one for an
   undecided outcome. The fairness of `Published!Spec` is model-checked
   (`KeepsItsPromise`).

`EmailDeliveryProofs` proves the safety of `email_delivery` for every set of e-mails,
senders and events:

9. `TypeCorrect`, `OrderFollows`, `EventsAgreeAlways`. The properties are inductive with
   `RunsInv` (a sender that still has to record an end on the order has marked its e-mail;
   without it the second of the two marks could write an end the e-mail does not have),
   `MailInv` (only an event sets `last_provider_event_at`, and it ends the delivery) and
   `EventInv` (an event reports an end of an e-mail the provider has taken).
10. `NothingRewinds`: no mark and no event takes a delivery back. It is proved in the same
   step as the invariant, since most actions change nothing it speaks of (`Quiet`).
   `StaleRunHarmless` follows from the fences of the two marks.

`CoreProductionProofs` proves every property of `core_production` for every finite set of
pages and any numbers of processes, questions and attempts:

11. `Invariant`. The properties speak of the tables, but a branch acts on what it holds in
    memory, which may be older than the table by many attempts. `IInv` says what stays
    true of such a memory, attempt by attempt:
    * `SiteInv`: pages it took for analyzed are summarized, and its input includes them;
      past the initialization its input is that of the row; an end of the synthesis it
      knows of is the end in the row;
    * `QuestInv`: a decided question it knows of is the decided row, and the questions it
      has passed are decided;
    * `CountsInv`: no more calls are made than counted, and a synthesis has ended only
      after its call. This rests on the order in the code, count first and call then.

    None of this can be undone, because checkpoints only move forward:
    `CheckpointsMoveForward` (no step takes back a summary, the input or the end of the
    synthesis, or a decided question). So one lemma (`StaysTrue`) carries the memory of
    all other attempts, left behind or not, over each step of one, and each action is left
    with its own attempt. `ReportIsCheckpointed` is kept the same way once it is stored.
12. `TypeCorrect`, `BudgetHolds`, `AttemptsAlwaysAgree` and `ReportAlwaysCheckpointed` are
    its projections.

`MarketSnapshotsProofs` proves the safety of `market_snapshots` for every set of workers,
queries and kinds (neither of the latter two empty) and every number of refreshes:

13. `Invariant`. The statements of a refresh test the generation of the lease and little
    else; that the snapshot they write is the right one rests on what happened since the
    lease was taken. `PendingIsNewest` is therefore not inductive. `IInv` adds
    * `RunsInv`: of a worker that still owns the generation, that no attempt is open when
      it plans a search or stores what was found, that it searches for the newest
      snapshot, that nothing is stored for that one before the search, and that the
      sources it has planned are of results that are stored. A takeover
      closes the attempts of the former owner in its transaction, which is what makes
      this true of the next one. A worker that lost the generation is bound by nothing;
    * `RowsInv`: a source is stored for a stored result and a result for an answer, and a
      completed snapshot has no attempt open;
    * `LeaseInv`: behind a completed lease there is a completed snapshot.

    `StoredOfAnswered` and `CompletedLeaseServes` state the last two.
14. `StaleWritesNothing`: only the owner writes, or one that becomes the owner by that
    step. Every write of a resolver, a source included, also moves what it remembers, and
    no step of another does (`OneMoves`), so the theorem speaks of all of them. `CompletedSnapshotStays`: no step writes a completed snapshot, which readers hold
    on to. It needs `RowsInv` for the takeover, which writes every row of the lease.

`CreditUpgradeProofs` proves the safety of `credit_upgrade` for every set of requests,
keys and jobs, and any assignment of keys to requests:

15. `Invariant`, with `CreditsBounded`, `CreditSpentIffCompleted` and `AuditEmpty` as its
    projections. The request writes reservation, job and attachment in three transactions,
    and worker and maintenance act between them. `KeyInv` says that an attached job names
    the key and that an unused key is named by no job; `RequestInv` says that a request
    past the reservation finds one, and that the job it is about to attach names its key
    already. So the attachment that comes last, or never, adds nothing that the end of the
    job did not know, which is why a job that ends before its attachment is still paid for.
    `LaneEffect` is all that is used of `DeepLane`: each of its steps is shown once to move
    jobs, reservations and balance together.
16. `EndsStayFinal`: a reservation that is settled or refunded and a job that is over stay
    as they are; the refund of the route's `catch` finds nothing to return by then.

`DispatchOutboxProofs` does the same for `DispatchOutbox`:

17. `Invariant`, `TypesKept` and `PaidJobKeepsRow`: a paid job has its outbox row from the
    transaction of the payment event on, for ever. A dispatcher goes on with the row
    ids it read before its lease ran out; `RunAtRow` says that these rows exist, so a late
    mark rewrites a row and never makes one.

Beyond the named `ASSUME`s of the modules nothing is assumed. Every `IInv` was checked by
TLC on the run's instance before it was proved. Out of the prover's reach, and left to
TLC: the liveness properties and the fairness of the two refined specifications
(`ENABLED`). Recursive definitions are absent from these modules. Every invariant and
every action property of the passing runs has a theorem.

## 5. Where code and documents disagree

Two of these have a run that ends in a counterexample:

1. `scan_jobs_credit`: two jobs of one key that one maintenance exhausts give one credit
   back (`web/db/jobs.ts:301`), while both reservations become `refunded`.
2. `market_snapshots_lost`: a refresh aborted between the answer of a search and the
   storage of its results is resumed from the attempts alone and completes without
   them (`web/worker/public-source-snapshot-resolver.ts:180`).

The others are described here and are behaviours of the models:

* Jobs. A job repaired on its last attempt is resumed to `queued` with its attempts used
  up (`web/db/jobs.ts:714`); no claim takes it and no exhaustion ends it (`Waiting` in
  `ScanJobs` leaves it out). Exhaustion (`web/db/jobs.ts:286`) and the deadline of an order
  (`web/db/commercial-refunds.ts:197`) fail a job without a transition event, and a job is
  enqueued without one (`web/db/jobs.ts:84`); `StageAgrees` (of `RowsAgree`) states exactly
  these exceptions. The terminalization of a V4 enhancement writes none either
  (`web/db/report-v4-enhancement-terminalization.ts:203`); such jobs are not in `ScanJobs`. A checkpoint without payload leaves the
  recovery envelope behind the revision (`web/worker/processor.ts:345`), so a job parked
  then cannot be resumed.
* Credits. Two upgrade requests with one Idempotency-Key can enqueue two jobs on one
  reservation (`web/app/api/reports/[id]/upgrade/route.ts:50`), and both can complete for
  one credit. A limited end of one returns the credit under the other, whose end is
  then refused although its lease is good.
* Dispatch. `enqueueScanJob` writes no outbox row for an upgrade, against
  `docs/superpowers/specs/2026-07-10-commercial-report-delivery-design.md:337`; the
  reconciliation adds it, but only while the stage is still `queued`. Published rows are
  never retired and keep their `next_attempt_at`, and a lease takes the 25 oldest of both
  tiers (`web/db/commercial-dispatch.ts:79`). Once 25 published rows of the free tier are
  older than the row of a paid job, every reconciliation publishes those and wakes the
  other lane, so a hint of the paid job that was lost is not repeated, against "Queue
  message expires | PostgreSQL job remains | Republish from Outbox/reconciliation" (same
  design, line 531). `PaidJobEnds` is claimed while the free rows leave room in a batch;
  without `RoomForDeep`, and with `FreeRows = Batch`, TLC shows the starvation. Older rows
  of the deep tier do no such harm: their hints wake the same lane.
* Orders. A second paid event of the retired product, dated after the cutoff, fails and
  refunds a fulfilled order (`web/db/commercial-orders.ts:762`), against the same design,
  line 246: "Provider event order cannot move a terminal state backward". A refund failed
  by an ambiguous last error ignores the webhook of its acceptance
  (`web/db/commercial-refunds.ts:584`; design, line 274). The recovery reopens an order while
  its refund is being requested or its e-mail was taken and not marked
  (`web/db/commercial-refunds.ts:380`). It reads the refund row without a lock, before it
  waits for those of job and order (line 374), does not test `refund_status`, and ignores
  whether its `DELETE` found the row (line 405): a refund marked submitted, succeeded or
  failed meanwhile stays, while the order says `not_required` again (line 407) and its job
  is reopened. Such an order can end with the complete report and the money returned,
  against `docs/COMMERCIAL-OPERATIONS.md:7`. `OrderMirrorsRefund`, `ReportIsCharged`,
  `DecidedIsFinal` and `OrderPromise` each name it as their exception (`Overlooked`,
  `overtaken`, `due_anyway`) and say what holds of it: the refund row is kept as it is, no
  second refund begins, the report is charged.
* Mail. The e-mail of a limited report asks for a link (`web/commerce/operations.ts:77`)
  that is refused to limited orders (`web/db/report-tokens.ts:44`; design, line 290). A
  reissue whose first attempt dies before the revocation leaves the older link valid
  (`web/commerce/operations.ts:86`). An event that misses its delivery and commits after
  the sender's replay stays ignored (`web/db/commercial-delivery.ts:343`). A sender that
  dies between its two marks leaves the order's delivery status behind
  (`web/db/commercial-delivery.ts:276`); `OrderFollowsMail` leaves room for a failure that
  is missing on the order, and for nothing else that has ended.
* Reports. A failed enhancement job can stand beside an active enhancement, or leave a
  pending revision behind, against the two messages in
  `web/db/report-v4-enhancement-terminalization.ts` that forbid it: maintenance and
  `failScanJob` end the job without a look at the revisions. An order can fail with its
  core report stored and ready, since `terminalizeFailedPaidReportV4Core` refuses as soon as
  any artifact exists and the deadline does not ask. A fully answered report whose worker
  dies before the enqueueing is never offered its enhancement
  (`web/worker/report-v4-orchestrator.ts:440`). A limited report whose link is alive, and a
  complete one within the window of a reissue, are refused theirs. A payload stored by one
  attempt condemns the next, which builds another `generatedAt`
  (`web/worker/report-v4-orchestrator.ts:605`). After an activation that failed the stage
  looks for its own success in the context it read when it started
  (`web/worker/report-v4-enhancement-production.ts:290`) and never finds it.
* Content. One synthesis checkpoint belongs to a core job, for the page summaries of
  whoever came first. A page that was unavailable to one attempt and is summarized by the
  next changes that input, and every later attempt is refused
  (`web/db/report-v4-website-synthesis-checkpoints.ts:233`), against
  `docs/superpowers/specs/2026-07-13-analysis-chain-recovery-design.md:185`, "website
  synthesis reuses validated crawl and analysis inputs". A call that was counted is never
  made again, and a row that is not completed with a call counted can not be claimed
  (line 261): an attempt that dies between the two, or whose call failed, leaves a job that
  no later attempt can complete, though the failure alone would have given a limited report.
  A page that is unavailable to an attempt, but summarized by a branch left behind before
  the summaries are loaded, is called `analysis_unavailable` in a report whose synthesis
  includes it (`web/worker/report-v4-core-production.ts:419`); `ReportIsCheckpointed`
  states the direction that holds.

## 6. What is not modelled

Within the modelled files: the life of an order before its payment and
the payment event ledger; the refund_assistance e-mail, the address and text of e-mails;
keys' expiry and revocation; the contents of checkpoints, payloads and search results,
and how they are produced. Amounts are one: every reservation and refund is for the
whole price. `activateReportV4CoreRevision` and `abandonJobDispatch` are called by nothing;
`recoverFailedPaidReportV4CoreForTerminalReplay` starts from states the current code does
not reach.

Writers of `scan_jobs` that `ScanJobs` leaves out: the terminal writes of the paid contracts,
of corrections and of replacements (`web/db/public-source-commerce.ts:71`, `219`, `743`,
`933`; `combined-correction-terminalization.ts:76`;
`combined-replacement-terminalization.ts:96`), each a transaction fenced like
`TerminalizeScanJob`, with its event and its effect on the credit, of which `PaidOrders`
and `ReportArtifacts` have the rest; the end of an enhancement job
(`report-v4-enhancement-terminalization.ts:203`), whose rows are in `ReportArtifacts`; the
operator's replay of a failed core (`public-source-commerce.ts:464`, see above) and the
clean-up script of the staging system (`web/scripts/staging-free-cleanup.ts:21`).
`retryScanJob` only throws.

Locks are not modelled, since an action is a transaction, with one exception:
`recoverHistoricalPaidJob` reads the refund before it has its locks, and is two steps
(section 2). Two pairs of transactions take the locks of order and job in opposite order, and
PostgreSQL aborts one of them. Of two recoveries of one order at once the second is left
out: it waits for the first one's locks and then finds no failed job.

Whole components, and why:

* Free-scan admission and trials: one transaction under advisory locks per admission;
  concurrency ends at the lock. Staging regenerations are an operator's tool.
* Admission and free teaser of V4, and the diagnosis checkpoints of an enhancement: the
  latter have rows and calls like those of the questions, and what an enhancement may do
  to the report is in `ReportArtifacts`.
* Corrections and replacements of the earlier contracts: kept for orders of that time.
* Evidence ledgers, forensics, reports, evidence assets: append-only or single-statement.
* Payment adapters, configuration, schema and migrations, the analysis packages and the
  user interface have no protocol of their own; their results are choices in the models.

## 7. What is left

In the order of what it would add: the diagnosis checkpoints; the rows of the free tier as
rows of their own in `DispatchOutbox`; and the resume phase and coverage of a checkpoint as functions against a reference definition.
