--------------------------- MODULE MarketSnapshots ---------------------------
(* The shared cache of public searches.                                     *)
(*                                                                          *)
(* One cache identity (a question on a search surface) has one lease row    *)
(* and a numbered list of snapshots, apps/web/src/db/market-snapshots.ts.   *)
(* A resolver of the worker, public-source-snapshot-resolver.ts, returns a  *)
(* completed snapshot or refreshes one: it takes the lease, sends each      *)
(* query to the search provider, stores the results, retrieves their        *)
(* sources and completes snapshot and lease together.  The lease names its  *)
(* owner and counts its generations; every write shows both.                *)
EXTENDS Naturals, FiniteSets

CONSTANTS
  Worker,  \* the resolvers: an owner of the lease is a job of a worker process
  Query,   \* the queries of the fanout
  None,    \* nobody
  Kind,    \* the metadata a snapshot is made for
  MaxRuns  \* bound: refreshes started in all, and so snapshots made

ASSUME ConstantAssumption == /\ None \notin Worker
                             /\ Query # {} /\ Kind # {}
                             /\ MaxRuns \in Nat

Version == 1..MaxRuns

VARIABLES
  lease,    \* the row of market_snapshot_leases
  snap,     \* the rows of market_snapshot_questions with what hangs on them
  cutoff,   \* the snapshots completed before the evidence cutoff of a job
  run,      \* what each resolver holds in memory
  started   \* refreshes started so far

vars == <<lease, snap, cutoff, run, started>>

\* A query row and its attempt: no query row, no attempt, sent, and two ends.
Terminal == {"succeeded", "failed"}
AttemptStatus == {"absent", "planned", "pending"} \cup Terminal
LeaseRow == [owner: Worker \cup {None}, generation: Nat, live: BOOLEAN,
             state: {"absent", "active", "completed", "failed"}]
SnapRow == [status: {"absent", "refreshing", "completed", "failed"}, kind: Kind,
            attempt: [Query -> AttemptStatus],
            observed: SUBSET Query,   \* the results of the query are stored
            evidence: SUBSET Query]   \* its source is stored
InTry == {"open", "plan", "search", "observe", "retrieve"}
RunRow == [pc: {"idle", "acquire", "wait"} \cup InTry, kind: Kind,
           force: BOOLEAN, generation: Nat, snapshot: Version \cup {0},
           sent: SUBSET Query,        \* provider calls in flight
           todo: SUBSET Query]        \* sources it has planned to retrieve

NewSnap(k) == [status |-> "refreshing", kind |-> k,
               attempt |-> [q \in Query |-> "absent"], observed |-> {}, evidence |-> {}]
IdleRun(k) == [pc |-> "idle", kind |-> k, force |-> FALSE, generation |-> 0,
               snapshot |-> 0, sent |-> {}, todo |-> {}]
AnyKind == CHOOSE k \in Kind : TRUE

Init == /\ lease = [owner |-> None, generation |-> 0, live |-> FALSE, state |-> "absent"]
        /\ snap = [v \in Version |-> [NewSnap(AnyKind) EXCEPT !.status = "absent"]]
        /\ run = [w \in Worker |-> IdleRun(AnyKind)]
        /\ cutoff = [w \in Worker |-> {}]
        /\ started = 0

Exists(v) == snap[v].status # "absent"
Completed == {v \in Version : snap[v].status = "completed"}
Refreshing == {v \in Version : snap[v].status = "refreshing"}
IsLast(v, S) == v \in S /\ \A u \in S : u <= v

\* To any place but the retrieval, where the plan of one is gone.
Goto(w, pc) == run' = [run EXCEPT ![w].pc = pc, ![w].todo = {}]

\* requireLeaseGenerationTx and, with the state and the clock, requireLeaseTx.
OwnsGeneration(w) == lease.owner = w /\ lease.generation = run[w].generation

\* Mutant of Holds: any lease that is alive will do.
HoldsAny(w) == lease.state = "active" /\ lease.live

Holds(w) == OwnsGeneration(w) /\ lease.state = "active" /\ lease.live

-----------------------------------------------------------------------------
(* Finding a snapshot and taking the lease.                                 *)

\* The last snapshot before the cutoff is of another kind: refresh it.
Mismatch(k, seen) == \E v \in seen : IsLast(v, seen) /\ snap[v].kind # k
Prior(k, seen) == \E v \in seen : IsLast(v, seen) /\ snap[v].kind = k

\* The cutoff of a job is the time of its first attempt.  With a prior snapshot
\* of its kind the resolver returns it and changes nothing, unless its caller
\* asked for a refresh (forced: forceRefresh, or a prior before forceRefreshAfter).
StartResolve(w, k, seen, forced) ==
  /\ run[w].pc = "idle" /\ started < MaxRuns
  /\ seen \in {cutoff[w], Completed}
  /\ forced \/ ~Prior(k, seen)
  /\ run' = [run EXCEPT ![w].pc = "acquire", ![w].kind = k,
                        ![w].force = forced \/ Mismatch(k, seen)]
  /\ cutoff' = [cutoff EXCEPT ![w] = seen]
  /\ started' = started + 1
  /\ UNCHANGED <<lease, snap>>

\* Mutant of Takeable: a lease that was released after a failure stays taken.
TakeableExpired(force) == \/ lease.state = "absent"
                          \/ lease.state = "active" /\ ~lease.live
                          \/ lease.state = "completed" /\ force

Takeable(force) == \/ lease.state \in {"absent", "failed"}
                   \/ lease.state = "active" /\ ~lease.live
                   \/ lease.state = "completed" /\ force

\* Mutants of Unfinished: a takeover leaves the attempts of the former owner, or
\* writes a status of its own.
UnfinishedLeft(row) == row
UnfinishedUncertain(row) ==
  [row EXCEPT !.attempt = [q \in Query |-> IF @[q] = "pending" THEN "uncertain" ELSE @[q]]]

\* markUnfinishedAttemptsUncertain
Unfinished(row) ==
  [row EXCEPT !.attempt = [q \in Query |-> IF @[q] = "pending" THEN "failed" ELSE @[q]]]

AcquireLease(w) ==
  /\ run[w].pc = "acquire" /\ Takeable(run[w].force)
  /\ lease' = [owner |-> w, generation |-> lease.generation + 1, live |-> TRUE,
               state |-> "active"]
  /\ snap' = [v \in Version |-> Unfinished(snap[v])]
  /\ run' = [run EXCEPT ![w].pc = "open", ![w].generation = lease.generation + 1,
                        ![w].snapshot = 0, ![w].sent = {}]
  /\ UNCHANGED <<cutoff, started>>

\* Completed after the cutoff: ask again, with force; held: wait.
LeaseRefused(w) ==
  /\ run[w].pc = "acquire" /\ ~Takeable(run[w].force)
  /\ IF lease.state = "completed" THEN run' = [run EXCEPT ![w].force = TRUE]
                                  ELSE Goto(w, "wait")
  /\ UNCHANGED <<lease, snap, cutoff, started>>

\* waitForMarketSnapshot looks at the snapshots, then at the lease, then at the
\* clock; the deadline lies after the expiry of the lease that was seen.
Served(w) == \E v \in Completed : IsLast(v, Completed) /\ snap[v].kind = run[w].kind
WaitServed(w) == /\ run[w].pc = "wait" /\ Served(w)
                 /\ Goto(w, "idle")
                 /\ UNCHANGED <<lease, snap, cutoff, started>>
WaitRetry(w) == /\ run[w].pc = "wait" /\ ~Served(w)
                /\ lease.state # "active" \/ ~lease.live
                /\ Goto(w, "acquire")
                /\ UNCHANGED <<lease, snap, cutoff, started>>
WaitGivesUp(w) == /\ run[w].pc = "wait" /\ ~Served(w)
                  /\ lease.state = "active" /\ lease.live
                  /\ Goto(w, "idle")
                  /\ UNCHANGED <<lease, snap, cutoff, started>>

-----------------------------------------------------------------------------
(* The refresh.                                                             *)

\* findResumableMarketSnapshot, and the kind the resolver asks of it.
Resumes(w, v) == /\ lease.generation > 1 /\ ~run[w].force
                 /\ IsLast(v, Refreshing) /\ snap[v].kind = run[w].kind
ResumableLedger(row) == /\ \A q \in Query : row.attempt[q] \in Terminal
                        /\ \E q \in Query : row.attempt[q] = "succeeded"

\* The rest of the work is planned, once, from the observations that are stored.
ResumeSnapshot(w, v) ==
  /\ run[w].pc = "open" /\ Resumes(w, v) /\ ResumableLedger(snap[v])
  /\ run' = [run EXCEPT ![w].pc = "retrieve", ![w].snapshot = v,
                        ![w].todo = snap[v].observed \ snap[v].evidence]
  /\ UNCHANGED <<lease, snap, cutoff, started>>

\* releaseFailedMarketSnapshotLease
ReleasedRow(w, v, preserve) ==
  IF v # 0 /\ ~preserve /\ snap[v].status = "refreshing"
  THEN [snap EXCEPT ![v].status = "failed"] ELSE snap
ReleaseFailed(w, v, preserve) ==
  IF Holds(w) THEN lease' = [lease EXCEPT !.state = "failed"] /\ snap' = ReleasedRow(w, v, preserve)
              ELSE UNCHANGED <<lease, snap>>

\* An incomplete ledger is given up and the resolver starts over.
DropSnapshot(w, v) ==
  /\ run[w].pc = "open" /\ Resumes(w, v) /\ ~ResumableLedger(snap[v]) /\ Holds(w)
  /\ ReleaseFailed(w, v, FALSE)
  /\ Goto(w, "acquire")
  /\ UNCHANGED <<cutoff, started>>

CreateRefresh(w, v) ==
  /\ run[w].pc = "open" /\ Holds(w)
  /\ \A u \in Version : ~Resumes(w, u)
  /\ \A u \in Version : u < v <=> Exists(u)
  /\ snap' = [snap EXCEPT ![v] = NewSnap(run[w].kind)]
  /\ run' = [run EXCEPT ![w].pc = "plan", ![w].snapshot = v]
  /\ UNCHANGED <<lease, cutoff, started>>

AppendQueries(w) ==
  LET v == run[w].snapshot IN
  /\ run[w].pc = "plan" /\ Holds(w) /\ snap[v].status = "refreshing"
  /\ snap' = [snap EXCEPT ![v].attempt = [q \in Query |-> "planned"]]
  /\ Goto(w, "search")
  /\ UNCHANGED <<lease, cutoff, started>>

\* The attempt row is written before the provider is called.
BeginAttempt(w, q) ==
  LET v == run[w].snapshot IN
  /\ run[w].pc = "search" /\ Holds(w) /\ snap[v].status = "refreshing"
  /\ snap[v].attempt[q] = "planned"
  /\ snap' = [snap EXCEPT ![v].attempt[q] = "pending"]
  /\ run' = [run EXCEPT ![w].sent = @ \cup {q}]
  /\ UNCHANGED <<lease, cutoff, started>>

\* The answer is stored under the generation alone, even of a lease that ran
\* out or was released: the calls still in flight outlive a failed refresh.
CompleteAttempt(w, q, status) ==
  LET v == run[w].snapshot IN
  /\ q \in run[w].sent
  /\ snap' = IF OwnsGeneration(w) /\ snap[v].attempt[q] = "pending"
             THEN [snap EXCEPT ![v].attempt[q] = status] ELSE snap
  /\ run' = [run EXCEPT ![w].sent = @ \ {q}]
  /\ UNCHANGED <<lease, cutoff, started>>

Succeeded(row) == {q \in Query : row.attempt[q] = "succeeded"}

\* With no answer at all only the verification of candidates goes on.  (Without
\* its generation one of the calls has failed, or the next write does.)
SearchDone(w) ==
  LET row == snap[run[w].snapshot] IN
  /\ run[w].pc = "search" /\ OwnsGeneration(w)
  /\ \A q \in Query : row.attempt[q] \in Terminal
  /\ Succeeded(row) # {} \/ row.kind = "candidate_verification"
  /\ Goto(w, "observe")
  /\ UNCHANGED <<lease, snap, cutoff, started>>

\* appendMarketSearchObservations; without a row there is no call.
AppendObservations(w) ==
  LET v == run[w].snapshot IN
  /\ run[w].pc = "observe"
  /\ Succeeded(snap[v]) = {} \/ (Holds(w) /\ snap[v].status = "refreshing")
  /\ snap' = [snap EXCEPT ![v].observed = Succeeded(snap[v])]
  /\ run' = [run EXCEPT ![w].pc = "retrieve",
                        ![w].todo = Succeeded(snap[v]) \ snap[v].evidence]
  /\ UNCHANGED <<lease, cutoff, started>>

\* appendMarketSourceEvidence, for a source that was planned.
AppendEvidence(w, q) ==
  LET v == run[w].snapshot IN
  /\ run[w].pc = "retrieve" /\ q \in run[w].todo
  /\ Holds(w) /\ snap[v].status = "refreshing"
  /\ snap' = [snap EXCEPT ![v].evidence = @ \cup {q}]
  /\ run' = [run EXCEPT ![w].todo = @ \ {q}]
  /\ UNCHANGED <<lease, cutoff, started>>

\* Enough sources are available, or the plan had no room for this one: it is left
\* without evidence, and nothing asks for the lease.
SkipRetrieval(w, q) ==
  /\ run[w].pc = "retrieve" /\ q \in run[w].todo
  /\ run' = [run EXCEPT ![w].todo = @ \ {q}]
  /\ UNCHANGED <<lease, snap, cutoff, started>>

LedgerComplete(row) == /\ \A q \in Query : row.attempt[q] \in Terminal
                       /\ Succeeded(row) # {} \/ row.kind = "candidate_verification"

CompleteSnapshot(w) ==
  LET v == run[w].snapshot IN
  /\ run[w].pc = "retrieve" /\ run[w].todo = {}
  /\ Holds(w) /\ snap[v].status = "refreshing" /\ LedgerComplete(snap[v])
  /\ snap' = [snap EXCEPT ![v].status = "completed"]
  /\ lease' = [lease EXCEPT !.state = "completed"]
  /\ Goto(w, "idle")
  /\ UNCHANGED <<cutoff, started>>

\* A failure, a lost lease or the abort signal of the job; the signal preserves
\* the snapshot.  A release that does not hold the lease changes nothing.
FailRefresh(w, aborted) ==
  /\ run[w].pc \in InTry
  /\ ReleaseFailed(w, run[w].snapshot, aborted)
  /\ Goto(w, "idle")
  /\ UNCHANGED <<cutoff, started>>

CrashWorker(w) ==
  /\ run[w].pc # "idle" \/ run[w].sent # {}
  /\ run' = [run EXCEPT ![w].pc = "idle", ![w].sent = {}, ![w].todo = {}]
  /\ UNCHANGED <<lease, snap, cutoff, started>>

\* The clock passes expires_at: the holder is dead, or late with its heartbeat.
LeaseExpires == /\ lease.state = "active" /\ lease.live
                /\ lease' = [lease EXCEPT !.live = FALSE]
                /\ UNCHANGED <<snap, run, cutoff, started>>

-----------------------------------------------------------------------------
WaitStep(w) == WaitServed(w) \/ WaitRetry(w) \/ WaitGivesUp(w)
OpenStep(w) == \E v \in Version : \/ ResumeSnapshot(w, v) \/ DropSnapshot(w, v)
                                  \/ CreateRefresh(w, v)
SearchStep(w) == \/ AppendQueries(w) \/ SearchDone(w)
                 \/ \E q \in Query : \/ BeginAttempt(w, q)
                                     \/ \E s \in Terminal : CompleteAttempt(w, q, s)
StoreStep(w) == \/ AppendObservations(w) \/ CompleteSnapshot(w)
                \/ \E q \in Query : AppendEvidence(w, q) \/ SkipRetrieval(w, q)
FailStep(w) == \E aborted \in BOOLEAN : FailRefresh(w, aborted)

\* What the process does once it has started to resolve.
ResolveStep(w) == \/ AcquireLease(w) \/ LeaseRefused(w) \/ WaitStep(w) \/ OpenStep(w)
                  \/ SearchStep(w) \/ StoreStep(w) \/ FailStep(w)

StartStep(w) == \E k \in Kind, seen \in SUBSET Version, forced \in BOOLEAN :
                  StartResolve(w, k, seen, forced)

Next == \/ \E w \in Worker : StartStep(w) \/ ResolveStep(w) \/ CrashWorker(w)
        \/ LeaseExpires

Spec == Init /\ [][Next]_vars

\* A process that lives goes on, the provider answers or times out, and the
\* lease of a process that is gone runs out.
Fairness == /\ \A w \in Worker : WF_vars(ResolveStep(w))
            /\ WF_vars(LeaseExpires /\ \A w \in Worker : ~(Holds(w) /\ run[w].pc \in InTry))

FairSpec == Spec /\ Fairness

-----------------------------------------------------------------------------
(* Properties.                                                              *)

TypeOK == /\ lease \in LeaseRow
          /\ snap \in [Version -> SnapRow]
          /\ cutoff \in [Worker -> SUBSET Version]
          /\ run \in [Worker -> RunRow]
          /\ started \in 0..MaxRuns

Pending(v) == \E q \in Query : snap[v].attempt[q] = "pending"

\* A call the provider may still answer belongs to the newest snapshot, and there
\* is none once the refresh is completed: a takeover leaves no attempt behind
\* whose cost nobody records.
PendingIsNewest == \A v \in Version : Pending(v) =>
                     /\ \A u \in Version : Exists(u) => u <= v
                     /\ lease.state # "completed"

\* A worker whose lease was taken over writes nothing, no attempt, no answer, no
\* observation, no source, no end: only the owner of the current generation, or
\* a worker that takes the lease, moves lease and rows.  (Each of these writes
\* also moves what its worker remembers, so its run tells whose step it is.)
StaleWorkerWritesNothing ==
  [][\A w \in Worker : run[w] # run'[w] /\ ~OwnsGeneration(w) /\ ~OwnsGeneration(w)'
                         => UNCHANGED <<lease, snap>>]_vars

\* Every resolve ends: behind a dead holder, a failed lease or a refresh of
\* another kind a worker neither waits nor asks for the lease for ever.
ResolveEnds == \A w \in Worker : run[w].pc # "idle" ~> run[w].pc = "idle"

\* "mixed search success/timeouts preserve successful observations and do not
\* recreate a full snapshot generation"
\* (docs/superpowers/specs/2026-07-14-v2-report-completion-recovery-design.md).
SuccessKeepsResults == \A v \in Completed : Succeeded(snap[v]) \subseteq snap[v].observed
=============================================================================
