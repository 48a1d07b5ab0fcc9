------------------------ MODULE MarketSnapshotsProofs ------------------------
(***************************************************************************)
(* For any number of workers, queries, kinds and refreshes: the types of   *)
(* MarketSnapshots, PendingIsNewest, what a worker without the lease may   *)
(* write, and what becomes of a completed snapshot.                        *)
(***************************************************************************)
EXTENDS MarketSnapshots, TLAPS

\* Nothing is asked of the provider under any snapshot.
NoPending == \A v \in Version : ~Pending(v)

Newest(v) == v \in Version /\ Exists(v) /\ \A u \in Version : Exists(u) => u <= v

\* A source is stored for a stored result, a result for an answer; a row that is
\* not there has no attempt, and none of a completed one is open.
RowInv(row) ==
  /\ row.evidence \subseteq row.observed
  /\ row.observed \subseteq Succeeded(row)
  /\ row.status = "absent" => \A q \in Query : row.attempt[q] = "absent"
  /\ row.status = "completed" => \A q \in Query : row.attempt[q] \in Terminal
RowsInv == \A v \in Version : RowInv(snap[v])

\* What a worker that still owns the generation relies on: until it searches, and
\* once it has, no attempt is open; it searches for the newest snapshot; and it
\* has planned sources for results that are stored.
RunInv(w) ==
  /\ run[w].pc \in {"plan", "search", "observe", "retrieve"} => run[w].snapshot # 0
  /\ OwnsGeneration(w) =>
       /\ run[w].pc \in {"open", "plan", "observe", "retrieve"} => NoPending
       /\ run[w].pc \in {"plan", "search"} => Newest(run[w].snapshot)
       /\ run[w].pc = "plan" => snap[run[w].snapshot].observed = {}
       /\ run[w].pc = "retrieve" => run[w].todo \subseteq snap[run[w].snapshot].observed
RunsInv == \A w \in Worker : RunInv(w)

\* A completed lease has a completed snapshot to show for it.
LeaseInv == lease.state = "completed" => Completed # {}

IInv == TypeOK /\ PendingIsNewest /\ RowsInv /\ RunsInv /\ LeaseInv

-----------------------------------------------------------------------------
(* Frames.                                                                  *)

\* A step of worker w leaves RunInv of the others alone: it writes neither lease
\* nor rows, or the lease is w's afterwards.
LEMMA OthersKept ==
  ASSUME IInv, NEW w \in Worker, NEW x \in Worker \ {w}, run'[x] = run[x],
         UNCHANGED <<lease, snap>> \/ lease'.owner = w
  PROVE  RunInv(x)'
<1>1. RunInv(x)
  BY DEF IInv, RunsInv
<1>2. CASE UNCHANGED <<lease, snap>>
  BY <1>1, <1>2 DEF RunInv, OwnsGeneration, NoPending, Newest, Pending, Exists
<1>3. CASE lease'.owner = w
  BY <1>1, <1>3 DEF RunInv, OwnsGeneration
<1> QED BY <1>2, <1>3

\* What is left to show of a step of worker w.
LEMMA StepKeeps ==
  ASSUME IInv, NEW w \in Worker, TypeOK',
         \A x \in Worker \ {w} : run'[x] = run[x],
         UNCHANGED <<lease, snap>> \/ lease'.owner = w,
         PendingIsNewest', RowsInv', RunInv(w)', LeaseInv'
  PROVE  IInv'
<1>1. ASSUME NEW x \in Worker PROVE RunInv(x)'
  BY <1>1, OthersKept
<1>2. RunsInv'
  BY <1>1 DEF RunsInv
<1> QED BY <1>2 DEF IInv

\* A step that writes only what its worker remembers.
LEMMA MoveKeeps ==
  ASSUME IInv, NEW w \in Worker, NEW row \in RunRow, run' = [run EXCEPT ![w] = row],
         UNCHANGED <<lease, snap>>,
         cutoff' \in [Worker -> SUBSET Version], started' \in 0..MaxRuns,
         RunInv(w)'
  PROVE  IInv'
<1>1. TypeOK' /\ \A x \in Worker \ {w} : run'[x] = run[x]
  BY DEF IInv, TypeOK
<1>2. PendingIsNewest' /\ RowsInv' /\ LeaseInv'
  BY DEF IInv, PendingIsNewest, Pending, Exists, RowsInv, RowInv, Succeeded, LeaseInv, Completed
<1> QED BY <1>1, <1>2, StepKeeps

\* Outside the refresh a worker relies on nothing.
LEMMA IdleKeeps ==
  ASSUME IInv, NEW w \in Worker, NEW row \in RunRow, run' = [run EXCEPT ![w] = row],
         row.pc \in {"idle", "acquire", "wait"},
         UNCHANGED <<lease, snap>>,
         cutoff' \in [Worker -> SUBSET Version], started' \in 0..MaxRuns
  PROVE  IInv'
<1>1. RunInv(w)'
  BY DEF IInv, TypeOK, RunInv
<1> QED BY <1>1, MoveKeeps

-----------------------------------------------------------------------------
(* Finding a snapshot and taking the lease.                                 *)

\* Goto writes one row: the place, and nothing planned.
LEMMA GotoRow ==
  ASSUME TypeOK, NEW w \in Worker, NEW pc \in {"idle", "acquire", "wait"} \cup InTry, Goto(w, pc)
  PROVE  \E row \in RunRow : /\ run' = [run EXCEPT ![w] = row] /\ row.pc = pc
                             /\ row.generation = run[w].generation
                             /\ row.snapshot = run[w].snapshot
<1>1. run[w] \in RunRow
  BY DEF TypeOK
<1>2. [run[w] EXCEPT !.pc = pc, !.todo = {}] \in RunRow
  BY <1>1 DEF RunRow, InTry
<1>3. run' = [run EXCEPT ![w] = [run[w] EXCEPT !.pc = pc, !.todo = {}]]
  BY DEF Goto
<1> QED BY <1>1, <1>2, <1>3 DEF RunRow

\* The steps outside the refresh: the worker starts, is refused, waits, or dies.
LEMMA OutsideKeeps ==
  ASSUME IInv, NEW w \in Worker,
         StartStep(w) \/ LeaseRefused(w) \/ WaitStep(w) \/ CrashWorker(w)
  PROVE  IInv'
<1>0. TypeOK /\ run[w] \in RunRow
  BY DEF IInv, TypeOK
<1>1. ASSUME NEW k \in Kind, NEW seen \in SUBSET Version, NEW forced \in BOOLEAN,
             StartResolve(w, k, seen, forced)
      PROVE  IInv'
  <2> DEFINE row == [run[w] EXCEPT !.pc = "acquire", !.kind = k,
                                   !.force = forced \/ Mismatch(k, seen)]
  <2>1. Mismatch(k, seen) \in BOOLEAN
    BY DEF Mismatch
  <2>2. row \in RunRow /\ row.pc = "acquire"
    BY <1>0, <2>1 DEF RunRow
  <2>3. run' = [run EXCEPT ![w] = row]
    BY <1>1 DEF StartResolve
  <2>4. cutoff' \in [Worker -> SUBSET Version]
    BY <1>0, <1>1 DEF StartResolve, TypeOK
  <2>6. started' \in 0..MaxRuns
    <3>1. started \in 0..MaxRuns /\ started < MaxRuns /\ started' = started + 1
      BY <1>0, <1>1 DEF StartResolve, TypeOK
    <3> QED BY <3>1, ConstantAssumption
  <2>5. UNCHANGED <<lease, snap>>
    BY <1>1 DEF StartResolve
  <2> HIDE DEF row
  <2> QED BY <2>2, <2>3, <2>4, <2>5, <2>6, IdleKeeps
<1>2. CASE LeaseRefused(w) /\ lease.state = "completed"
  <2> DEFINE row == [run[w] EXCEPT !.force = TRUE]
  <2>1. row \in RunRow /\ row.pc = "acquire"
    BY <1>0, <1>2 DEF RunRow, LeaseRefused
  <2>2. run' = [run EXCEPT ![w] = row] /\ UNCHANGED <<lease, snap, cutoff, started>>
    BY <1>2 DEF LeaseRefused
  <2> HIDE DEF row
  <2> QED BY <1>0, <2>1, <2>2, IdleKeeps DEF TypeOK
<1>3. CASE CrashWorker(w)
  <2> DEFINE row == [run[w] EXCEPT !.pc = "idle", !.sent = {}, !.todo = {}]
  <2>1. row \in RunRow /\ row.pc = "idle"
    BY <1>0 DEF RunRow
  <2>2. run' = [run EXCEPT ![w] = row] /\ UNCHANGED <<lease, snap, cutoff, started>>
    BY <1>3 DEF CrashWorker
  <2> HIDE DEF row
  <2> QED BY <1>0, <2>1, <2>2, IdleKeeps DEF TypeOK
<1>4. CASE WaitStep(w) \/ (LeaseRefused(w) /\ lease.state # "completed")
  <2>1. PICK pc \in {"idle", "acquire", "wait"} : Goto(w, pc)
    BY <1>4 DEF WaitStep, WaitServed, WaitRetry, WaitGivesUp, LeaseRefused
  <2>2. UNCHANGED <<lease, snap, cutoff, started>>
    BY <1>4 DEF WaitStep, WaitServed, WaitRetry, WaitGivesUp, LeaseRefused
  <2>3. PICK row \in RunRow : run' = [run EXCEPT ![w] = row] /\ row.pc = pc
    BY <1>0, <2>1, GotoRow
  <2> QED BY <1>0, <2>1, <2>2, <2>3, IdleKeeps DEF TypeOK
<1> QED BY <1>1, <1>2, <1>3, <1>4 DEF StartStep

\* The time passes: nobody's knowledge of the lease asks for the clock.
LEMMA ExpiryKeeps == ASSUME IInv, LeaseExpires PROVE IInv'
<1>1. /\ lease' = [lease EXCEPT !.live = FALSE] /\ lease \in LeaseRow
      /\ UNCHANGED <<snap, run, cutoff, started>>
  BY DEF LeaseExpires, IInv, TypeOK
<1>2. lease' \in LeaseRow /\ lease'.owner = lease.owner
      /\ lease'.generation = lease.generation /\ lease'.state = lease.state
  BY <1>1 DEF LeaseRow
<1>3. TypeOK' /\ PendingIsNewest' /\ RowsInv' /\ LeaseInv'
  BY <1>1, <1>2 DEF IInv, TypeOK, PendingIsNewest, Pending, Exists, RowsInv, RowInv, Succeeded,
                    LeaseInv, Completed
<1>4. ASSUME NEW w \in Worker PROVE RunInv(w)'
  BY <1>1, <1>2 DEF IInv, RunsInv, RunInv, OwnsGeneration, NoPending, Newest, Pending, Exists
<1> QED BY <1>3, <1>4 DEF IInv, RunsInv

\* A takeover closes the attempts of the former owner.
LEMMA AcquireKeeps == ASSUME IInv, NEW w \in Worker, AcquireLease(w) PROVE IInv'
<1> DEFINE row == [run[w] EXCEPT !.pc = "open", !.generation = lease.generation + 1,
                                 !.snapshot = 0, !.sent = {}]
<1>0. TypeOK /\ run[w] \in RunRow /\ lease.generation \in Nat /\ snap \in [Version -> SnapRow]
  BY DEF IInv, TypeOK, LeaseRow
<1>1. /\ lease' = [owner |-> w, generation |-> lease.generation + 1, live |-> TRUE,
                   state |-> "active"]
      /\ run' = [run EXCEPT ![w] = row]
      /\ snap' = [v \in Version |-> Unfinished(snap[v])]
      /\ UNCHANGED <<cutoff, started>>
  BY DEF AcquireLease
<1>2. lease' \in LeaseRow /\ lease'.owner = w /\ lease'.state = "active"
  BY <1>0, <1>1 DEF LeaseRow
<1>3. row \in RunRow /\ row.pc = "open"
  <2>1. lease.generation + 1 \in Nat
    BY <1>0
  <2> QED BY <1>0, <2>1 DEF RunRow, InTry
<1> HIDE DEF row
<1>4. ASSUME NEW v \in Version
      PROVE  /\ snap'[v] \in SnapRow /\ snap'[v].status = snap[v].status
             /\ \A q \in Query : snap'[v].attempt[q] # "pending"
             /\ RowInv(snap'[v])
  <2>1. snap[v] \in SnapRow /\ RowInv(snap[v]) /\ snap'[v] = Unfinished(snap[v])
    BY <1>0, <1>1 DEF IInv, RowsInv
  <2>2. /\ snap'[v].observed = snap[v].observed /\ snap'[v].evidence = snap[v].evidence
        /\ snap'[v].status = snap[v].status /\ snap'[v].kind = snap[v].kind
        /\ snap'[v].attempt = [q \in Query |-> IF snap[v].attempt[q] = "pending"
                                               THEN "failed" ELSE snap[v].attempt[q]]
        /\ snap'[v] \in SnapRow
    BY <2>1 DEF Unfinished, SnapRow, AttemptStatus, Terminal
  <2>3. Succeeded(snap'[v]) = Succeeded(snap[v])
    BY <2>2 DEF Succeeded
  <2> QED BY <2>1, <2>2, <2>3 DEF RowInv, Terminal
<1>5. TypeOK'
  BY <1>0, <1>1, <1>2, <1>3, <1>4 DEF TypeOK
<1>6. PendingIsNewest' /\ RowsInv' /\ LeaseInv' /\ NoPending'
  BY <1>2, <1>4 DEF PendingIsNewest, Pending, RowsInv, LeaseInv, NoPending
<1>7. RunInv(w)'
  BY <1>0, <1>1, <1>3, <1>6 DEF RunInv, TypeOK
<1> QED BY <1>0, <1>1, <1>2, <1>5, <1>6, <1>7, StepKeeps DEF TypeOK

-----------------------------------------------------------------------------
(* The refresh: writes of one row by the owner of the generation.           *)

\* A worker in its refresh, open aside, has a snapshot.
LEMMA OwnSnapshot ==
  ASSUME IInv, NEW w \in Worker, run[w].pc \in {"plan", "search", "observe", "retrieve"}
  PROVE  run[w].snapshot \in Version
<1>1. run[w].snapshot # 0 /\ run[w].snapshot \in Version \cup {0}
  BY DEF IInv, RunsInv, RunInv, TypeOK, RunRow
<1> QED BY <1>1

\* What is left to show when the owner writes one row.
LEMMA WriteKeeps ==
  ASSUME IInv, NEW w \in Worker, OwnsGeneration(w), UNCHANGED <<lease, cutoff, started>>,
         NEW mine \in RunRow, run' = [run EXCEPT ![w] = mine],
         NEW v \in Version, NEW row \in SnapRow, snap' = [snap EXCEPT ![v] = row],
         RowInv(row), snap[v].status = "completed" => row.status = "completed",
         PendingIsNewest', RunInv(w)'
  PROVE  IInv'
<1>1. TypeOK' /\ \A x \in Worker \ {w} : run'[x] = run[x]
  BY DEF IInv, TypeOK
<1>2. \A u \in Version : snap'[u] = IF u = v THEN row ELSE snap[u]
  BY DEF IInv, TypeOK
<1>3. RowsInv'
  BY <1>2 DEF IInv, RowsInv, RowInv, Succeeded
<1>4. LeaseInv'
  <2>1. Completed \subseteq Completed'
    BY <1>2 DEF Completed
  <2> QED BY <2>1 DEF IInv, LeaseInv
<1>5. lease'.owner = w
  BY DEF OwnsGeneration
<1> QED BY <1>1, <1>3, <1>4, <1>5, StepKeeps

\* An attempt begins under the newest snapshot and no other.
LEMMA BeginKeeps ==
  ASSUME IInv, NEW w \in Worker, NEW q \in Query, BeginAttempt(w, q)
  PROVE  IInv'
<1>0. run[w].pc = "search"
  BY DEF BeginAttempt
<1> PICK v \in Version : v = run[w].snapshot
  BY <1>0, OwnSnapshot
<1> DEFINE row == [snap[v] EXCEPT !.attempt = [snap[v].attempt EXCEPT ![q] = "pending"]]
           mine == [run[w] EXCEPT !.sent = run[w].sent \cup {q}]
<1>1. /\ OwnsGeneration(w) /\ lease.state = "active"
      /\ snap[v].status = "refreshing" /\ snap[v].attempt[q] = "planned"
      /\ UNCHANGED <<lease, cutoff, started>>
  BY DEF BeginAttempt, Holds
<1>2. Newest(v) /\ RowInv(snap[v]) /\ snap[v] \in SnapRow
      /\ run[w] \in RunRow
  BY <1>0, <1>1 DEF IInv, RunsInv, RunInv, RowsInv, TypeOK
<1>3. snap' = [snap EXCEPT ![v] = row] /\ run' = [run EXCEPT ![w] = mine]
  BY DEF BeginAttempt
<1>4. mine \in RunRow /\ mine.pc = "search" /\ mine.snapshot = v
      /\ mine.generation = run[w].generation
  BY <1>0, <1>2 DEF RunRow
<1>5. /\ row \in SnapRow /\ row.status = "refreshing"
      /\ row.observed = snap[v].observed /\ row.evidence = snap[v].evidence
      /\ row.attempt = [snap[v].attempt EXCEPT ![q] = "pending"]
  BY <1>1, <1>2 DEF SnapRow, AttemptStatus
<1> HIDE DEF row, mine
<1>6. RowInv(row)
  <2>1. Succeeded(snap[v]) \subseteq Succeeded(row)
    BY <1>1, <1>2, <1>5 DEF Succeeded, SnapRow
  <2> QED BY <1>2, <1>5, <2>1 DEF RowInv
<1>7. \A u \in Version : snap'[u] = IF u = v THEN row ELSE snap[u]
  BY <1>2, <1>3 DEF IInv, TypeOK
<1>8. \A u \in Version : Exists(u)' <=> Exists(u)
  BY <1>1, <1>5, <1>7 DEF Exists
<1>9. PendingIsNewest'
  <2> SUFFICES ASSUME NEW u \in Version, Pending(u)'
               PROVE  (\A x \in Version : Exists(x) => x <= u) /\ lease.state # "completed"
    BY <1>1, <1>8 DEF PendingIsNewest
  <2>1. CASE u = v
    BY <1>1, <1>2, <2>1 DEF Newest
  <2>2. CASE u # v
    <3>1. Pending(u)
      BY <1>7, <2>2 DEF Pending
    <3> QED BY <3>1 DEF IInv, PendingIsNewest
  <2> QED BY <2>1, <2>2
<1>10. RunInv(w)'
  <2>1. run'[w] = mine
    BY <1>3 DEF IInv, TypeOK
  <2>2. Newest(v)'
    BY <1>2, <1>8 DEF Newest
  <2>3. v # 0
    BY <1>2 DEF Version
  <2> QED BY <1>4, <2>1, <2>2, <2>3 DEF RunInv
<1> QED BY <1>1, <1>2, <1>3, <1>4, <1>5, <1>6, <1>9, <1>10, WriteKeeps

\* The queries of a new snapshot are planned before any is asked.
LEMMA AppendQueriesKeeps ==
  ASSUME IInv, NEW w \in Worker, AppendQueries(w)
  PROVE  IInv'
<1>0. run[w].pc = "plan" /\ Goto(w, "search")
  BY DEF AppendQueries
<1> PICK v \in Version : v = run[w].snapshot
  BY <1>0, OwnSnapshot
<1> PICK mine \in RunRow : /\ run' = [run EXCEPT ![w] = mine] /\ mine.pc = "search"
                           /\ mine.generation = run[w].generation /\ mine.snapshot = v
  BY <1>0, GotoRow DEF IInv, InTry
<1> DEFINE row == [snap[v] EXCEPT !.attempt = [q \in Query |-> "planned"]]
<1>1. /\ OwnsGeneration(w) /\ snap[v].status = "refreshing"
      /\ UNCHANGED <<lease, cutoff, started>> /\ snap' = [snap EXCEPT ![v] = row]
  BY DEF AppendQueries, Holds
<1>2. /\ NoPending /\ Newest(v) /\ snap[v].observed = {} /\ RowInv(snap[v])
      /\ snap[v] \in SnapRow
  BY <1>0, <1>1 DEF IInv, RunsInv, RunInv, RowsInv, TypeOK
<1>3. /\ row \in SnapRow /\ row.status = "refreshing" /\ row.observed = {} /\ row.evidence = {}
      /\ \A q \in Query : row.attempt[q] = "planned"
  BY <1>1, <1>2 DEF SnapRow, AttemptStatus, RowInv
<1> HIDE DEF row
<1>4. RowInv(row)
  BY <1>3 DEF RowInv
<1>5. \A u \in Version : snap'[u] = IF u = v THEN row ELSE snap[u]
  BY <1>1 DEF IInv, TypeOK
<1>6. NoPending' /\ PendingIsNewest'
  BY <1>2, <1>3, <1>5 DEF NoPending, Pending, PendingIsNewest
<1>7. RunInv(w)'
  <2>1. run'[w] = mine
    BY DEF IInv, TypeOK
  <2>2. Newest(v)'
    BY <1>1, <1>2, <1>3, <1>5 DEF Newest, Exists
  <2> QED BY <2>1, <2>2 DEF RunInv, Version
<1> QED BY <1>1, <1>3, <1>4, <1>6, <1>7, WriteKeeps

\* An answer closes an attempt and opens none; without the generation it is dropped.
LEMMA CompleteAttemptKeeps ==
  ASSUME IInv, NEW w \in Worker, NEW q \in Query, NEW status \in Terminal,
         CompleteAttempt(w, q, status)
  PROVE  IInv'
<1> PICK v \in Version \cup {0} : v = run[w].snapshot
  BY DEF IInv, TypeOK, RunRow
<1> DEFINE mine == [run[w] EXCEPT !.sent = run[w].sent \ {q}]
           row == [snap[v] EXCEPT !.attempt = [snap[v].attempt EXCEPT ![q] = status]]
<1>1. UNCHANGED <<lease, cutoff, started>> /\ run' = [run EXCEPT ![w] = mine]
  BY DEF CompleteAttempt
<1>2. snap' = IF OwnsGeneration(w) /\ snap[v].attempt[q] = "pending"
              THEN [snap EXCEPT ![v] = row] ELSE snap
  BY DEF CompleteAttempt
<1>3. /\ mine \in RunRow /\ mine.pc = run[w].pc /\ mine.snapshot = v
      /\ mine.generation = run[w].generation /\ mine.todo = run[w].todo /\ run'[w] = mine
  BY <1>1 DEF IInv, TypeOK, RunRow
<1> HIDE DEF mine
<1>4. RunInv(w) /\ snap \in [Version -> SnapRow]
  BY DEF IInv, RunsInv, TypeOK
<1>5. CASE snap' = snap
  <2>1. RunInv(w)'
    BY <1>1, <1>3, <1>4, <1>5 DEF RunInv, OwnsGeneration, NoPending, Newest, Pending, Exists
  <2> QED BY <1>1, <1>3, <1>5, <2>1, MoveKeeps DEF IInv, TypeOK
<1>6. CASE v = 0
  <2>1. snap' = snap
    BY <1>2, <1>4, <1>6 DEF Version
  <2> QED BY <1>5, <2>1
<1>7. CASE v \in Version /\ OwnsGeneration(w) /\ snap[v].attempt[q] = "pending"
  <2>1. snap' = [snap EXCEPT ![v] = row]
    BY <1>2, <1>7
  <2>2. snap[v] \in SnapRow /\ RowInv(snap[v])
    BY <1>7 DEF IInv, RowsInv, TypeOK
  <2>3. /\ row \in SnapRow /\ row.status = snap[v].status
        /\ row.observed = snap[v].observed /\ row.evidence = snap[v].evidence
        /\ row.attempt = [snap[v].attempt EXCEPT ![q] = status]
    BY <2>2 DEF SnapRow, AttemptStatus
  <2> HIDE DEF row
  <2>4. \A p \in Query : row.attempt[p] = IF p = q THEN status ELSE snap[v].attempt[p]
    BY <2>2, <2>3 DEF SnapRow
  <2>5. RowInv(row)
    <3>1. Succeeded(snap[v]) \subseteq Succeeded(row)
      BY <1>7, <2>4 DEF Succeeded
    <3> QED BY <1>7, <2>2, <2>3, <2>4, <3>1 DEF RowInv
  <2>6. \A u \in Version : snap'[u] = IF u = v THEN row ELSE snap[u]
    BY <1>4, <1>7, <2>1
  <2>7. \A u \in Version : (Exists(u)' <=> Exists(u)) /\ (Pending(u)' => Pending(u))
    <3> SUFFICES ASSUME NEW u \in Version
                 PROVE  (Exists(u)' <=> Exists(u)) /\ (Pending(u)' => Pending(u))
      OBVIOUS
    <3>1. CASE u # v
      BY <2>6, <3>1 DEF Exists, Pending
    <3>2. CASE u = v
      <4>1. snap'[u] = row /\ status # "pending"
        BY <2>6, <3>2 DEF Terminal
      <4> QED BY <1>7, <2>3, <2>4, <3>2, <4>1 DEF Exists, Pending
    <3> QED BY <3>1, <3>2
  <2>8. PendingIsNewest'
    BY <1>1, <2>7 DEF IInv, PendingIsNewest
  <2>9. RunInv(w)'
    <3>1. OwnsGeneration(w)' <=> OwnsGeneration(w)
      BY <1>1, <1>3 DEF OwnsGeneration
    <3>2. NoPending => NoPending'
      BY <2>7 DEF NoPending
    <3>3. Newest(run[w].snapshot) => Newest(run[w].snapshot)'
      BY <1>3, <2>7 DEF Newest
    <3>4. snap'[v].observed = snap[v].observed
      BY <1>7, <2>3, <2>6
    <3> QED BY <1>3, <1>4, <3>1, <3>2, <3>3, <3>4 DEF RunInv
  <2> QED BY <1>1, <1>3, <1>7, <2>1, <2>3, <2>5, <2>8, <2>9, WriteKeeps
<1> QED BY <1>2, <1>5, <1>6, <1>7

\* The two steps of the refresh that write nothing: a snapshot of a former owner
\* is taken up when it has no attempt open, and a search ends when it has none.
LEMMA TurnKeeps ==
  ASSUME IInv, NEW w \in Worker,
         SearchDone(w) \/ \E v \in Version : ResumeSnapshot(w, v)
  PROVE  IInv'
<1>1. CASE SearchDone(w)
  <2>0. /\ run[w].pc = "search" /\ Goto(w, "observe") /\ OwnsGeneration(w)
        /\ UNCHANGED <<lease, snap, cutoff, started>>
    BY <1>1 DEF SearchDone
  <2> PICK v \in Version : v = run[w].snapshot
    BY <2>0, OwnSnapshot
  <2> PICK mine \in RunRow : /\ run' = [run EXCEPT ![w] = mine] /\ mine.pc = "observe"
                             /\ mine.generation = run[w].generation /\ mine.snapshot = v
    BY <2>0, GotoRow DEF IInv, InTry
  <2>1. Newest(v) /\ \A q \in Query : snap[v].attempt[q] \in Terminal
    BY <1>1, <2>0 DEF IInv, RunsInv, RunInv, SearchDone
  <2>2. ASSUME NEW u \in Version, Pending(u) PROVE FALSE
    <3>1. Exists(u)
      BY <2>2 DEF IInv, RowsInv, RowInv, Pending, Exists
    <3>2. \A x \in Version : Exists(x) => x <= u
      BY <2>2 DEF IInv, PendingIsNewest
    <3>3. u \in Nat /\ v \in Nat /\ u <= v /\ v <= u
      BY <2>1, <3>1, <3>2, ConstantAssumption DEF Newest, Version
    <3>4. u = v
      BY <3>3
    <3> QED BY <2>1, <2>2, <3>4 DEF Pending, Terminal
  <2>3. NoPending'
    BY <2>0, <2>2 DEF NoPending, Pending
  <2>4. run'[w] = mine /\ v # 0
    BY DEF IInv, TypeOK, Version
  <2>5. RunInv(w)'
    BY <2>3, <2>4 DEF RunInv
  <2> QED BY <2>0, <2>5, MoveKeeps DEF IInv, TypeOK
<1>2. ASSUME NEW v \in Version, ResumeSnapshot(w, v) PROVE IInv'
  <2> DEFINE todo == snap[v].observed \ snap[v].evidence
             mine == [run[w] EXCEPT !.pc = "retrieve", !.snapshot = v, !.todo = todo]
  <2>0. /\ run[w].pc = "open" /\ run' = [run EXCEPT ![w] = mine] /\ run[w] \in RunRow
        /\ UNCHANGED <<lease, snap, cutoff, started>>
    BY <1>2 DEF ResumeSnapshot, IInv, TypeOK
  <2>6. todo \in SUBSET Query
    BY DEF IInv, TypeOK, SnapRow
  <2>1. /\ mine \in RunRow /\ mine.pc = "retrieve" /\ mine.snapshot = v
        /\ mine.generation = run[w].generation /\ mine.todo \subseteq snap[v].observed
    BY <2>0, <2>6 DEF RunRow, InTry
  <2> HIDE DEF mine
  <2>5. v # 0
    BY DEF Version
  <2>2. run'[w] = mine
    BY <2>0 DEF IInv, TypeOK
  <2>3. OwnsGeneration(w)' => NoPending'
    BY <2>0, <2>1, <2>2 DEF IInv, RunsInv, RunInv, OwnsGeneration, NoPending, Pending
  <2>4. RunInv(w)'
    BY <2>0, <2>1, <2>2, <2>3, <2>5 DEF RunInv
  <2> QED BY <2>0, <2>1, <2>4, MoveKeeps DEF IInv, TypeOK
<1> QED BY <1>1, <1>2

\* Without an answer in the ledger there is nothing stored to overwrite.
LEMMA NoResults ==
  ASSUME IInv, NEW v \in Version, Succeeded(snap[v]) = {}
  PROVE  snap = [snap EXCEPT ![v].observed = Succeeded(snap[v])]
<1>1. snap[v] \in SnapRow /\ snap[v].observed = {} /\ snap \in [Version -> SnapRow]
  BY DEF IInv, RowsInv, RowInv, TypeOK
<1>2. snap[v] = [snap[v] EXCEPT !.observed = {}]
  BY <1>1 DEF SnapRow
<1> QED BY <1>1, <1>2

\* The results of every answer are stored, and nothing but answers has results.
LEMMA AppendObservationsKeeps ==
  ASSUME IInv, NEW w \in Worker, AppendObservations(w)
  PROVE  IInv'
<1>0. run[w].pc = "observe" /\ UNCHANGED <<lease, cutoff, started>>
  BY DEF AppendObservations
<1> PICK v \in Version : v = run[w].snapshot
  BY <1>0, OwnSnapshot
<1> DEFINE mine == [run[w] EXCEPT !.pc = "retrieve",
                                  !.todo = Succeeded(snap[v]) \ snap[v].evidence]
<1>5. /\ run' = [run EXCEPT ![w] = mine] /\ mine \in RunRow /\ mine.pc = "retrieve"
      /\ mine.generation = run[w].generation /\ mine.snapshot = v
      /\ mine.todo \subseteq Succeeded(snap[v])
  <2>1. run[w] \in RunRow /\ Succeeded(snap[v]) \ snap[v].evidence \in SUBSET Query
    BY DEF IInv, TypeOK, Succeeded
  <2> QED BY <2>1 DEF AppendObservations, RunRow, InTry
<1> HIDE DEF mine
<1>1. run'[w] = mine /\ v # 0 /\ RunInv(w)
  BY <1>5 DEF IInv, RunsInv, TypeOK, Version
<1> DEFINE row == [snap[v] EXCEPT !.observed = Succeeded(snap[v])]
<1>2. snap' = [snap EXCEPT ![v] = row] /\ snap \in [Version -> SnapRow]
  BY DEF AppendObservations, IInv, TypeOK
<1>3. CASE Succeeded(snap[v]) = {}
  <2>1. snap' = snap
    BY <1>3, NoResults DEF AppendObservations
  <2>2. RunInv(w)'
    BY <1>0, <1>1, <1>3, <1>5, <2>1 DEF RunInv, OwnsGeneration, NoPending, Pending
  <2> QED BY <1>0, <1>5, <2>1, <2>2, MoveKeeps DEF IInv, TypeOK
<1>4. CASE OwnsGeneration(w) /\ snap[v].status = "refreshing"
  <2>1. RowInv(snap[v]) /\ snap[v] \in SnapRow /\ NoPending
    BY <1>0, <1>1, <1>4 DEF IInv, RowsInv, TypeOK, RunInv
  <2>2. /\ row \in SnapRow /\ row.status = "refreshing" /\ row.attempt = snap[v].attempt
        /\ row.observed = Succeeded(snap[v]) /\ row.evidence = snap[v].evidence
    BY <1>4, <2>1 DEF SnapRow, Succeeded
  <2> HIDE DEF row
  <2>3. RowInv(row)
    BY <2>1, <2>2 DEF RowInv, Succeeded
  <2>4. \A u \in Version : snap'[u] = IF u = v THEN row ELSE snap[u]
    BY <1>2
  <2>5. NoPending' /\ PendingIsNewest'
    BY <2>1, <2>2, <2>4 DEF NoPending, Pending, PendingIsNewest
  <2>6. RunInv(w)'
    BY <1>1, <1>5, <2>2, <2>4, <2>5 DEF RunInv
  <2> QED BY <1>0, <1>2, <1>4, <1>5, <2>2, <2>3, <2>5, <2>6, WriteKeeps
<1> QED BY <1>3, <1>4 DEF AppendObservations, Holds

\* A source is stored for a result of the own snapshot.
LEMMA AppendEvidenceKeeps ==
  ASSUME IInv, NEW w \in Worker, NEW q \in Query, AppendEvidence(w, q)
  PROVE  IInv'
<1>0. /\ run[w].pc = "retrieve" /\ OwnsGeneration(w)
      /\ q \in run[w].todo /\ UNCHANGED <<lease, cutoff, started>>
  BY DEF AppendEvidence, Holds
<1> PICK v \in Version : v = run[w].snapshot
  BY <1>0, OwnSnapshot
<1> DEFINE row == [snap[v] EXCEPT !.evidence = snap[v].evidence \cup {q}]
           mine == [run[w] EXCEPT !.todo = run[w].todo \ {q}]
<1>2. /\ RowInv(snap[v]) /\ snap[v] \in SnapRow /\ NoPending /\ RunInv(w)
      /\ snap \in [Version -> SnapRow] /\ run[w] \in RunRow
      /\ run[w].todo \subseteq snap[v].observed
  BY <1>0 DEF IInv, RowsInv, TypeOK, RunsInv, RunInv
<1>1. /\ snap' = [snap EXCEPT ![v] = row] /\ run' = [run EXCEPT ![w] = mine]
      /\ snap[v].status = "refreshing" /\ q \in snap[v].observed
  BY <1>0, <1>2 DEF AppendEvidence
<1>8. /\ mine \in RunRow /\ mine.pc = "retrieve" /\ mine.snapshot = v
      /\ mine.generation = run[w].generation /\ mine.todo \subseteq run[w].todo
      /\ v # 0
  BY <1>0, <1>2 DEF RunRow, Version
<1>3. /\ row \in SnapRow /\ row.status = "refreshing" /\ row.attempt = snap[v].attempt
      /\ row.observed = snap[v].observed /\ row.evidence = snap[v].evidence \cup {q}
  BY <1>1, <1>2 DEF SnapRow
<1> HIDE DEF row, mine
<1>4. RowInv(row)
  BY <1>1, <1>2, <1>3 DEF RowInv, Succeeded
<1>5. \A u \in Version : snap'[u] = IF u = v THEN row ELSE snap[u]
  BY <1>1, <1>2
<1>6. NoPending' /\ PendingIsNewest'
  BY <1>2, <1>3, <1>5 DEF NoPending, Pending, PendingIsNewest
<1>7. RunInv(w)'
  <2>1. run'[w] = mine
    BY <1>1 DEF IInv, TypeOK
  <2> QED BY <1>2, <1>3, <1>5, <1>6, <1>8, <2>1 DEF RunInv
<1> QED BY <1>0, <1>1, <1>2, <1>3, <1>4, <1>6, <1>7, <1>8, WriteKeeps

\* A source that is not retrieved is planned no longer, and nothing is written.
LEMMA SkipRetrievalKeeps ==
  ASSUME IInv, NEW w \in Worker, NEW q \in Query, SkipRetrieval(w, q)
  PROVE  IInv'
<1> DEFINE mine == [run[w] EXCEPT !.todo = run[w].todo \ {q}]
<1>1. /\ run[w].pc = "retrieve" /\ run' = [run EXCEPT ![w] = mine]
      /\ UNCHANGED <<lease, snap, cutoff, started>>
  BY DEF SkipRetrieval
<1>2. run[w] \in RunRow /\ RunInv(w)
  BY DEF IInv, TypeOK, RunsInv
<1>3. /\ mine \in RunRow /\ mine.pc = "retrieve" /\ mine.snapshot = run[w].snapshot
      /\ mine.generation = run[w].generation /\ mine.todo \subseteq run[w].todo
  BY <1>1, <1>2 DEF RunRow
<1>4. run'[w] = mine
  BY <1>1 DEF IInv, TypeOK
<1> HIDE DEF mine
<1>5. RunInv(w)'
  BY <1>1, <1>2, <1>3, <1>4 DEF RunInv, OwnsGeneration, NoPending, Pending
<1> QED BY <1>1, <1>3, <1>5, MoveKeeps DEF IInv, TypeOK

\* A new snapshot is the newest, and is made when no attempt is open.
LEMMA CreateKeeps ==
  ASSUME IInv, NEW w \in Worker, NEW v \in Version, CreateRefresh(w, v)
  PROVE  IInv'
<1> DEFINE mine == [run[w] EXCEPT !.pc = "plan", !.snapshot = v]
           row == NewSnap(run[w].kind)
<1>1. /\ run[w].pc = "open" /\ OwnsGeneration(w) /\ UNCHANGED <<lease, cutoff, started>>
      /\ run' = [run EXCEPT ![w] = mine] /\ snap' = [snap EXCEPT ![v] = row]
      /\ \A u \in Version : u < v <=> Exists(u)
  BY DEF CreateRefresh, Holds
<1>2. run[w] \in RunRow /\ NoPending /\ v # 0
  BY <1>1 DEF IInv, TypeOK, RunsInv, RunInv, Version
<1>3. /\ mine \in RunRow /\ mine.pc = "plan" /\ mine.snapshot = v
      /\ mine.generation = run[w].generation
  BY <1>2 DEF RunRow, InTry
<1>4. /\ row \in SnapRow /\ row.status = "refreshing" /\ row.observed = {} /\ row.evidence = {}
      /\ \A q \in Query : row.attempt[q] = "absent"
  BY <1>2 DEF NewSnap, SnapRow, AttemptStatus, RunRow
<1> HIDE DEF mine, row
<1>5. RowInv(row)
  BY <1>4 DEF RowInv
<1>6. \A u \in Version : snap'[u] = IF u = v THEN row ELSE snap[u]
  BY <1>1 DEF IInv, TypeOK
<1>7. NoPending' /\ PendingIsNewest'
  BY <1>2, <1>4, <1>6 DEF NoPending, Pending, PendingIsNewest
<1>8. snap[v].status # "completed"
  <2>1. ~(v < v)
    BY DEF Version
  <2> QED BY <1>1, <2>1 DEF Exists
<1>9. Newest(v)'
  <2>1. Exists(v)'
    BY <1>4, <1>6 DEF Exists
  <2>2. ASSUME NEW u \in Version, Exists(u)' PROVE u <= v
    <3>1. CASE u = v
      BY <3>1 DEF Version
    <3>2. CASE u # v
      <4>1. Exists(u)
        BY <1>6, <2>2, <3>2 DEF Exists
      <4> QED BY <1>1, <4>1 DEF Version
    <3> QED BY <3>1, <3>2
  <2> QED BY <2>1, <2>2 DEF Newest
<1>10. RunInv(w)'
  <2>1. run'[w] = mine
    BY <1>1 DEF IInv, TypeOK
  <2> QED BY <1>2, <1>3, <1>4, <1>6, <1>7, <1>9, <2>1 DEF RunInv
<1> QED BY <1>1, <1>3, <1>4, <1>5, <1>7, <1>8, <1>10, WriteKeeps

\* A refresh that failed gives the lease back and, if it holds it, its snapshot.
LEMMA ReleaseKeeps ==
  ASSUME IInv, NEW w \in Worker, NEW v \in Version \cup {0}, NEW preserve \in BOOLEAN,
         NEW pc \in {"idle", "acquire"},
         ReleaseFailed(w, v, preserve), Goto(w, pc), UNCHANGED <<cutoff, started>>
  PROVE  IInv'
<1> PICK mine \in RunRow : run' = [run EXCEPT ![w] = mine] /\ mine.pc = pc
  BY GotoRow DEF IInv
<1>1. CASE ~Holds(w)
  <2>1. UNCHANGED <<lease, snap>>
    BY <1>1 DEF ReleaseFailed
  <2> QED BY <2>1, IdleKeeps DEF IInv, TypeOK
<1>2. CASE Holds(w)
  <2>1. /\ lease' = [lease EXCEPT !.state = "failed"] /\ lease \in LeaseRow /\ lease.owner = w
        /\ snap \in [Version -> SnapRow] /\ snap' = ReleasedRow(w, v, preserve)
    BY <1>2 DEF ReleaseFailed, Holds, OwnsGeneration, IInv, TypeOK
  <2>2. lease' \in LeaseRow /\ lease'.owner = w /\ lease'.state = "failed"
    BY <2>1 DEF LeaseRow
  <2>3. /\ snap' \in [Version -> SnapRow]
        /\ \A u \in Version :
             /\ snap'[u].attempt = snap[u].attempt /\ snap'[u].observed = snap[u].observed
             /\ snap'[u].evidence = snap[u].evidence
             /\ \/ snap'[u].status = snap[u].status
                \/ snap[u].status = "refreshing" /\ snap'[u].status = "failed"
    <3>1. CASE snap' = snap
      BY <2>1, <3>1
    <3>2. CASE v \in Version /\ snap[v].status = "refreshing"
               /\ snap' = [snap EXCEPT ![v].status = "failed"]
      <4>1. [snap[v] EXCEPT !.status = "failed"] \in SnapRow
        BY <2>1, <3>2 DEF SnapRow
      <4> QED BY <2>1, <3>2, <4>1 DEF SnapRow
    <3> QED BY <2>1, <3>1, <3>2 DEF ReleasedRow
  <2>4. TypeOK' /\ \A x \in Worker \ {w} : run'[x] = run[x]
    BY <2>2, <2>3 DEF IInv, TypeOK
  <2>5. PendingIsNewest'
    BY <2>2, <2>3 DEF IInv, PendingIsNewest, Pending, Exists
  <2>6. RowsInv'
    BY <2>3 DEF IInv, RowsInv, RowInv, Succeeded
  <2>7. LeaseInv' /\ RunInv(w)'
    BY <2>2 DEF LeaseInv, RunInv, IInv, TypeOK
  <2> QED BY <2>2, <2>4, <2>5, <2>6, <2>7, StepKeeps
<1> QED BY <1>1, <1>2

\* Snapshot and lease are completed together, with no attempt open.
LEMMA CompleteKeeps ==
  ASSUME IInv, NEW w \in Worker, CompleteSnapshot(w)
  PROVE  IInv'
<1>0. run[w].pc = "retrieve" /\ Goto(w, "idle") /\ UNCHANGED <<cutoff, started>>
  BY DEF CompleteSnapshot
<1> PICK v \in Version : v = run[w].snapshot
  BY <1>0, OwnSnapshot
<1> PICK mine \in RunRow : run' = [run EXCEPT ![w] = mine] /\ mine.pc = "idle"
  BY <1>0, GotoRow DEF IInv
<1> DEFINE row == [snap[v] EXCEPT !.status = "completed"]
<1>1. /\ OwnsGeneration(w) /\ LedgerComplete(snap[v])
      /\ snap' = [snap EXCEPT ![v] = row] /\ lease' = [lease EXCEPT !.state = "completed"]
  BY DEF CompleteSnapshot, Holds
<1>2. /\ RowInv(snap[v]) /\ snap[v] \in SnapRow /\ snap \in [Version -> SnapRow]
      /\ lease \in LeaseRow /\ lease.owner = w /\ NoPending
  BY <1>0, <1>1 DEF IInv, RowsInv, TypeOK, OwnsGeneration, RunsInv, RunInv
<1>3. /\ row \in SnapRow /\ row.status = "completed" /\ row.attempt = snap[v].attempt
      /\ row.observed = snap[v].observed /\ row.evidence = snap[v].evidence
  BY <1>2 DEF SnapRow
<1> HIDE DEF row
<1>4. RowInv(row)
  BY <1>1, <1>2, <1>3 DEF RowInv, LedgerComplete, Succeeded
<1>5. \A u \in Version : snap'[u] = IF u = v THEN row ELSE snap[u]
  BY <1>1, <1>2
<1>6. lease' \in LeaseRow /\ lease'.owner = w
  BY <1>1, <1>2 DEF LeaseRow
<1>7. TypeOK' /\ \A x \in Worker \ {w} : run'[x] = run[x]
  BY <1>0, <1>1, <1>3, <1>6 DEF IInv, TypeOK
<1>8. PendingIsNewest'
  BY <1>2, <1>3, <1>5 DEF NoPending, Pending, PendingIsNewest
<1>9. RowsInv'
  BY <1>4, <1>5 DEF IInv, RowsInv, RowInv, Succeeded
<1>10. LeaseInv' /\ RunInv(w)'
  BY <1>3, <1>5 DEF LeaseInv, Completed, RunInv, IInv, TypeOK
<1> QED BY <1>6, <1>7, <1>8, <1>9, <1>10, StepKeeps

-----------------------------------------------------------------------------
(* The theorems.                                                            *)

LEMMA StepOfWorkerKeeps ==
  ASSUME IInv, NEW w \in Worker, ResolveStep(w)
  PROVE  IInv'
<1>1. CASE AcquireLease(w)
  BY <1>1, AcquireKeeps
<1>2. CASE LeaseRefused(w) \/ WaitStep(w)
  BY <1>2, OutsideKeeps
<1>3. CASE OpenStep(w)
  <2>1. ASSUME NEW v \in Version, DropSnapshot(w, v) PROVE IInv'
    BY <2>1, ReleaseKeeps DEF DropSnapshot
  <2> QED BY <1>3, <2>1, TurnKeeps, CreateKeeps DEF OpenStep
<1>4. CASE SearchStep(w)
  BY <1>4, AppendQueriesKeeps, TurnKeeps, BeginKeeps, CompleteAttemptKeeps DEF SearchStep
<1>5. CASE StoreStep(w)
  BY <1>5, AppendObservationsKeeps, CompleteKeeps, AppendEvidenceKeeps,
     SkipRetrievalKeeps DEF StoreStep
<1>6. CASE FailStep(w)
  <2>1. PICK aborted \in BOOLEAN : FailRefresh(w, aborted)
    BY <1>6 DEF FailStep
  <2>2. run[w].snapshot \in Version \cup {0}
    BY DEF IInv, TypeOK, RunRow
  <2> QED BY <2>1, <2>2, ReleaseKeeps DEF FailRefresh
<1> QED BY <1>1, <1>2, <1>3, <1>4, <1>5, <1>6 DEF ResolveStep

\* The first state has no lease, no snapshot and no run.
LEMMA InitIInv == Init => IInv
<1> SUFFICES ASSUME Init PROVE IInv
  OBVIOUS
<1>1. AnyKind \in Kind
  BY ConstantAssumption DEF AnyKind
<1>2. lease \in LeaseRow /\ lease.state = "absent" /\ lease.owner = None
  BY DEF Init, LeaseRow
<1>3. /\ snap \in [Version -> SnapRow]
      /\ \A v \in Version : /\ snap[v].status = "absent"
                            /\ snap[v].observed = {} /\ snap[v].evidence = {}
                            /\ \A q \in Query : snap[v].attempt[q] = "absent"
  BY <1>1 DEF Init, NewSnap, SnapRow, AttemptStatus
<1>4. IdleRun(AnyKind) \in RunRow
  BY <1>1 DEF IdleRun, RunRow
<1>5. run \in [Worker -> RunRow] /\ \A w \in Worker : run[w].pc = "idle"
  BY <1>4 DEF Init, IdleRun
<1>6. started \in 0..MaxRuns /\ cutoff \in [Worker -> SUBSET Version]
  BY ConstantAssumption DEF Init
<1>7. TypeOK
  BY <1>2, <1>3, <1>5, <1>6 DEF TypeOK
<1>8. PendingIsNewest /\ RowsInv
  BY <1>3 DEF PendingIsNewest, Pending, RowsInv, RowInv
<1>9. RunsInv /\ LeaseInv
  BY <1>2, <1>5 DEF RunsInv, RunInv, OwnsGeneration, LeaseInv, ConstantAssumption
<1> QED BY <1>7, <1>8, <1>9 DEF IInv

\* The inductive invariant: what the owner of the generation may rely on at each
\* place of its refresh, which the guards of the statements never test.
THEOREM Invariant == Spec => []IInv
<1>1. ASSUME IInv, [Next]_vars PROVE IInv'
  <2>1. CASE UNCHANGED vars
    BY <1>1, <2>1 DEF vars, IInv, TypeOK, PendingIsNewest, Pending, Exists, RowsInv, RowInv,
       Succeeded, RunsInv, RunInv, OwnsGeneration, NoPending, Newest, LeaseInv, Completed
  <2>2. CASE LeaseExpires
    BY <1>1, <2>2, ExpiryKeeps
  <2>3. CASE Next /\ ~LeaseExpires
    BY <1>1, <2>3, OutsideKeeps, StepOfWorkerKeeps DEF Next
  <2> QED BY <1>1, <2>1, <2>2, <2>3
<1> QED BY <1>1, InitIInv, PTL DEF Spec

\* Lease, rows and what the workers remember have their types.
THEOREM TypesKept == Spec => []TypeOK
BY Invariant, PTL DEF IInv

\* A call the provider may still answer belongs to the newest snapshot of a lease
\* that is not completed.
THEOREM PendingNewest == Spec => []PendingIsNewest
BY Invariant, PTL DEF IInv

\* Nobody stores a source that was not found or a result that was not answered,
\* and a completed snapshot has no attempt open.
THEOREM StoredOfAnswered == Spec => []RowsInv
BY Invariant, PTL DEF IInv

\* Behind a completed lease there is a completed snapshot to serve.
THEOREM CompletedLeaseServes == Spec => []LeaseInv
BY Invariant, PTL DEF IInv

-----------------------------------------------------------------------------
(* What a step may not do.                                                  *)

\* A step of a worker changes what that worker remembers and nothing of others.
LEMMA OneMoves ==
  ASSUME IInv, NEW w \in Worker, NEW x \in Worker \ {w},
         StartStep(w) \/ ResolveStep(w) \/ CrashWorker(w)
  PROVE  run'[x] = run[x]
<1>1. run \in [Worker -> RunRow]
  BY DEF IInv, TypeOK
<1>2. CASE OpenStep(w) \/ AcquireLease(w) \/ LeaseRefused(w) \/ WaitStep(w) \/ CrashWorker(w)
  BY <1>1, <1>2 DEF OpenStep, ResumeSnapshot, DropSnapshot, CreateRefresh, AcquireLease,
     LeaseRefused, WaitStep, WaitServed, WaitRetry, WaitGivesUp, CrashWorker, Goto
<1>3. CASE SearchStep(w) \/ StoreStep(w) \/ FailStep(w)
  BY <1>1, <1>3 DEF SearchStep, AppendQueries, SearchDone, BeginAttempt, CompleteAttempt,
     StoreStep, AppendObservations, CompleteSnapshot, AppendEvidence, SkipRetrieval,
     FailStep, FailRefresh, Goto
<1>4. CASE StartStep(w)
  BY <1>1, <1>4 DEF StartStep, StartResolve
<1> QED BY <1>2, <1>3, <1>4 DEF ResolveStep

\* A worker writes as the owner of the generation, or becomes the owner, or
\* writes nothing: an append without results would write what is there.
LEMMA WritesAsOwner ==
  ASSUME IInv, NEW w \in Worker,
         StartStep(w) \/ ResolveStep(w) \/ CrashWorker(w)
  PROVE  OwnsGeneration(w) \/ OwnsGeneration(w)' \/ UNCHANGED <<lease, snap>>
<1>1. CASE AcquireLease(w)
  BY <1>1 DEF AcquireLease, OwnsGeneration, IInv, TypeOK, RunRow
<1>2. CASE LeaseRefused(w) \/ WaitStep(w) \/ CrashWorker(w)
  BY <1>2 DEF LeaseRefused, WaitStep, WaitServed, WaitRetry, WaitGivesUp, CrashWorker
<1>3. CASE OpenStep(w)
  BY <1>3 DEF OpenStep, ResumeSnapshot, DropSnapshot, CreateRefresh, Holds
<1>4. CASE SearchStep(w)
  BY <1>4 DEF SearchStep, AppendQueries, SearchDone, BeginAttempt, CompleteAttempt, Holds
<1>5. CASE AppendObservations(w)
  <2>1. run[w].snapshot \in Version
    BY <1>5, OwnSnapshot DEF AppendObservations
  <2>2. CASE Succeeded(snap[run[w].snapshot]) = {}
    BY <1>5, <2>1, <2>2, NoResults DEF AppendObservations
  <2>3. CASE Holds(w)
    BY <2>3 DEF Holds
  <2> QED BY <1>5, <2>2, <2>3 DEF AppendObservations
<1>6. CASE \/ CompleteSnapshot(w) \/ FailStep(w)
           \/ \E q \in Query : AppendEvidence(w, q) \/ SkipRetrieval(w, q)
  BY <1>6 DEF CompleteSnapshot, AppendEvidence, SkipRetrieval, FailStep, FailRefresh,
     ReleaseFailed, Holds
<1>7. CASE StartStep(w)
  BY <1>7 DEF StartStep, StartResolve
<1> QED BY <1>1, <1>2, <1>3, <1>4, <1>5, <1>6, <1>7 DEF ResolveStep, StoreStep

\* A worker whose lease was taken over writes neither lease nor rows, those of the
\* sources included: a write of its own shows in what it remembers, and no step
\* of another shows there.
THEOREM StaleWritesNothing == Spec => StaleWorkerWritesNothing
<1>1. ASSUME IInv, [Next]_vars, NEW w \in Worker,
             run[w] # run'[w], ~OwnsGeneration(w), ~OwnsGeneration(w)'
      PROVE  UNCHANGED <<lease, snap>>
  <2>1. Next /\ ~LeaseExpires
    BY <1>1 DEF vars, LeaseExpires
  <2>2. PICK x \in Worker : StartStep(x) \/ ResolveStep(x) \/ CrashWorker(x)
    BY <2>1 DEF Next
  <2>3. x = w
    BY <1>1, <2>2, OneMoves
  <2> QED BY <1>1, <2>2, <2>3, WritesAsOwner
<1>2. ASSUME IInv, [Next]_vars
      PROVE  \A w \in Worker : run[w] # run'[w] /\ ~OwnsGeneration(w) /\ ~OwnsGeneration(w)'
                                 => UNCHANGED <<lease, snap>>
  BY <1>1, <1>2
<1> QED BY <1>2, Invariant, PTL DEF Spec, StaleWorkerWritesNothing

\* What a reader was given stays what it is: a completed snapshot is not written
\* again, by a takeover, a late answer or a worker that still thinks it its own.
CompletedStays ==
  [][\A v \in Version : snap[v].status = "completed" => snap'[v] = snap[v]]_vars

\* A takeover finds no attempt open in a completed row.
LEMMA UnfinishedCompleted ==
  ASSUME NEW row \in SnapRow, RowInv(row), row.status = "completed"
  PROVE  Unfinished(row) = row
<1>1. \A q \in Query : row.attempt[q] # "pending"
  BY DEF RowInv, Terminal
<1>2. row.attempt = [q \in Query |-> IF row.attempt[q] = "pending" THEN "failed"
                                                                  ELSE row.attempt[q]]
  BY <1>1 DEF SnapRow
<1>3. row = [row EXCEPT !.attempt = row.attempt]
  BY DEF SnapRow
<1> QED BY <1>2, <1>3 DEF Unfinished

\* The theorem that no step writes a completed snapshot.
THEOREM CompletedSnapshotStays == Spec => CompletedStays
<1>1. ASSUME IInv, [Next]_vars, NEW v \in Version, snap[v].status = "completed"
      PROVE  snap'[v] = snap[v]
  <2>0. /\ snap \in [Version -> SnapRow] /\ snap[v] \in SnapRow /\ RowInv(snap[v])
        /\ \A q \in Query : snap[v].attempt[q] \in Terminal
    BY <1>1 DEF IInv, TypeOK, RowsInv, RowInv
  <2>1. CASE UNCHANGED vars \/ LeaseExpires
    BY <2>1 DEF vars, LeaseExpires
  <2>2. ASSUME NEW w \in Worker, AcquireLease(w) PROVE snap'[v] = snap[v]
    BY <1>1, <2>0, <2>2, UnfinishedCompleted DEF AcquireLease
  <2>3. ASSUME NEW w \in Worker, LeaseRefused(w) \/ WaitStep(w) \/ CrashWorker(w)
        PROVE  snap'[v] = snap[v]
    BY <2>3 DEF LeaseRefused, WaitStep, WaitServed, WaitRetry, WaitGivesUp, CrashWorker
  <2>4. ASSUME NEW w \in Worker, NEW preserve \in BOOLEAN, NEW u, ReleaseFailed(w, u, preserve)
        PROVE  snap'[v] = snap[v]
    BY <1>1, <2>0, <2>4 DEF ReleaseFailed, ReleasedRow
  <2>5. ASSUME NEW w \in Worker, OpenStep(w) PROVE snap'[v] = snap[v]
    <3>1. PICK u \in Version : ResumeSnapshot(w, u) \/ DropSnapshot(w, u) \/ CreateRefresh(w, u)
      BY <2>5 DEF OpenStep
    <3>2. CASE ResumeSnapshot(w, u) \/ DropSnapshot(w, u)
      BY <2>4, <3>2 DEF ResumeSnapshot, DropSnapshot
    <3>3. CASE CreateRefresh(w, u)
      <4>1. v < u
        BY <1>1, <3>3 DEF CreateRefresh, Exists
      <4>2. v # u
        BY <4>1 DEF Version
      <4> QED BY <2>0, <3>3, <4>2 DEF CreateRefresh
    <3> QED BY <3>1, <3>2, <3>3
  <2>6. ASSUME NEW w \in Worker, SearchStep(w) PROVE snap'[v] = snap[v]
    BY <1>1, <2>0, <2>6 DEF SearchStep, AppendQueries, SearchDone, BeginAttempt,
       CompleteAttempt, Terminal
  <2>7. ASSUME NEW w \in Worker, AppendObservations(w) PROVE snap'[v] = snap[v]
    <3>1. run[w].snapshot \in Version
      BY <1>1, <2>7, OwnSnapshot DEF AppendObservations
    <3>2. CASE Succeeded(snap[run[w].snapshot]) = {}
      BY <1>1, <2>7, <3>1, <3>2, NoResults DEF AppendObservations
    <3>3. CASE snap[run[w].snapshot].status = "refreshing"
      BY <1>1, <2>0, <2>7, <3>3 DEF AppendObservations
    <3> QED BY <2>7, <3>2, <3>3 DEF AppendObservations
  <2>8. ASSUME NEW w \in Worker,
               \/ CompleteSnapshot(w)
               \/ \E q \in Query : AppendEvidence(w, q) \/ SkipRetrieval(w, q)
        PROVE  snap'[v] = snap[v]
    BY <1>1, <2>0, <2>8 DEF CompleteSnapshot, AppendEvidence, SkipRetrieval
  <2>9. ASSUME NEW w \in Worker, FailStep(w) PROVE snap'[v] = snap[v]
    BY <2>4, <2>9 DEF FailStep, FailRefresh
  <2>10. ASSUME NEW w \in Worker, StartStep(w) PROVE snap'[v] = snap[v]
    BY <2>10 DEF StartStep, StartResolve
  <2> QED BY <1>1, <2>1, <2>2, <2>3, <2>5, <2>6, <2>7, <2>8, <2>9, <2>10
          DEF Next, ResolveStep, StoreStep
<1>2. ASSUME IInv, [Next]_vars
      PROVE  \A v \in Version : snap[v].status = "completed" => snap'[v] = snap[v]
  BY <1>1, <1>2
<1> QED BY <1>2, Invariant, PTL DEF Spec, CompletedStays
==============================================================================
