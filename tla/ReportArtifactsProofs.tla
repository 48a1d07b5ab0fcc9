------------------------ MODULE ReportArtifactsProofs ------------------------
(***************************************************************************)
(* For any number of workers and attempts: ReportArtifacts keeps its types,  *)
(* PublishedIsActive, and implements the steps of PublishedReport.           *)
(***************************************************************************)
EXTENDS ReportArtifacts, TLAPS

\* A core that is ready has its payload and never fails.
CoreInv == /\ revision["core"] \in {"ready", "active"} => payload["core"] # 0
           /\ revision["core"] # "failed"

\* The core job is completed with the publication, and an enhancement needs its
\* job, which needs a report that is shown.
JobsInv == /\ job["core"].state = "completed" <=> pointer # "none"
           /\ job["core"].state # "absent"
           /\ pointer = "none" => job["enhancement"].state = "absent"
           /\ job["enhancement"].state = "absent" => revision["enhancement"] = "absent"

\* A run of the enhancement stage has its job; whoever is about to announce a
\* revision has stored its payload.
RunInv(row) ==
  row.pc # "idle" =>
    /\ row.version # 0
    /\ row.kind = "enhancement" => job["enhancement"].state # "absent"
    /\ row.kind = "core" /\ row.pc \in {"ready", "terminalize"} => payload["core"] # 0
    /\ row.kind = "enhancement" /\ row.pc = "activate" => payload["enhancement"] # 0
RunsInv == \A w \in Worker : RunInv(run[w])

IInv == TypeOK /\ PublishedIsActive /\ CoreInv /\ JobsInv /\ RunsInv

Pc == {"idle", "load", "prepare", "persist", "ready", "terminalize", "enqueue",
       "activate", "failRevision", "giveUp", "conclude", "catch"}

\* What Goto does to the table of runs.
Moves(w, pcs) ==
  /\ run' \in [Worker -> RunRow]
  /\ \A v \in Worker \ {w} : run'[v] = run[v]
  /\ run'[w].pc \in pcs
  /\ run'[w].pc # "idle" => run'[w].kind = run[w].kind /\ run'[w].version = run[w].version

\* Payloads are never removed and the enhancement's job never disappears.
Grows == /\ \A k \in Kind : payload[k] # 0 => payload'[k] # 0
         /\ job["enhancement"].state # "absent" => job'["enhancement"].state # "absent"

-----------------------------------------------------------------------------
\* A run moves to one of the places Goto names, and no other run moves.
LEMMA GotoMoves == ASSUME TypeOK, NEW w \in Worker, NEW pcs \in SUBSET Pc, Goto(w, pcs)
                   PROVE Moves(w, pcs)
<1>1. PICK pc \in pcs : run' = [run EXCEPT ![w] = Moved(run[w], pc)]
  BY DEF Goto
<1>2. run[w] \in RunRow /\ pc \in Pc
  BY DEF TypeOK
<1>3. /\ Moved(run[w], pc) \in RunRow /\ Moved(run[w], pc).pc = pc
      /\ pc # "idle" => /\ Moved(run[w], pc).kind = run[w].kind
                        /\ Moved(run[w], pc).version = run[w].version
  <2>1. CASE pc = "idle"
    BY <1>2, <2>1, AttemptsAssumption DEF Moved, IdleRun, RunRow, Kind, Pc
  <2>2. CASE pc # "idle"
    BY <1>2, <2>2 DEF Moved, RunRow, Pc
  <2> QED BY <2>1, <2>2
<1>4. run \in [Worker -> RunRow]
  BY DEF TypeOK
<1> QED BY <1>1, <1>3, <1>4 DEF Moves

\* A step goes on, or is interrupted towards one of the error paths.
LEMMA ProceedMoves == ASSUME TypeOK, NEW w \in Worker, NEW pc \in Pc, Proceed(w, pc)
                      PROVE Moves(w, {pc, "idle", "catch", "giveUp", "failRevision"})
<1>1. Interrupted(w) \subseteq {"idle", "catch", "giveUp", "failRevision"}
  BY DEF Interrupted, Handler
<1>2. Goto(w, {pc, "idle", "catch", "giveUp", "failRevision"})
  BY <1>1 DEF Proceed, Goto
<1> QED BY <1>2, GotoMoves DEF Pc

\* RunsInv survives a move whose destination has what it needs.
LEMMA RunsKept ==
  ASSUME IInv, Grows, NEW w \in Worker, NEW pcs, Moves(w, pcs),
         run[w].pc # "idle",
         "ready" \in pcs \/ "terminalize" \in pcs => payload'["core"] # 0 \/ run[w].kind # "core",
         "activate" \in pcs => payload'["enhancement"] # 0
  PROVE  RunsInv'
<1> SUFFICES ASSUME NEW v \in Worker PROVE RunInv(run[v])'
  BY DEF RunsInv
<1>1. RunInv(run[v]) /\ RunInv(run[w])
  BY DEF IInv, RunsInv
<1>2. CASE v = w
  BY <1>1, <1>2 DEF RunInv, Moves, Grows, Kind
<1>3. CASE v # w
  <2>1. run'[v] = run[v]
    BY <1>3 DEF Moves
  <2> QED BY <1>1, <2>1 DEF RunInv, Grows, Kind
<1> QED BY <1>2, <1>3

\* RunsInv survives a step that moves no run.
LEMMA RunsStay == ASSUME IInv, Grows, UNCHANGED run PROVE RunsInv'
BY DEF IInv, RunsInv, RunInv, Grows, Kind

\* The ways to write a row of scan_jobs keep it one.
LEMMA EndedIsRow ==
  ASSUME NEW row \in JobRow, NEW state \in {"waiting", "completed", "failed"}
  PROVE  EndedRow(row, state) \in JobRow /\ EndedRow(row, state).state = state
BY DEF JobRow, EndedRow, Over

\* A claimed row is one.
LEMMA ClaimedIsRow ==
  ASSUME NEW row \in JobRow, NEW w \in Worker, row.attempts < MaxAttempts
  PROVE  ClaimedRow(row, w) \in JobRow /\ ClaimedRow(row, w).state = "running"
BY AttemptsAssumption DEF JobRow, ClaimedRow, Over

\* So are the rows a job starts with.
LEMMA FirstRows == /\ WaitingJob \in JobRow /\ WaitingJob.state = "waiting"
                   /\ AbsentJob \in JobRow /\ AbsentJob.state = "absent"
<1>1. AbsentJob \in JobRow /\ AbsentJob.state = "absent"
  BY AttemptsAssumption DEF JobRow, AbsentJob
<1>2. WaitingJob \in JobRow /\ WaitingJob.state = "waiting"
  BY <1>1 DEF JobRow, WaitingJob
<1> QED BY <1>1, <1>2

\* And a row whose lease lapsed.
LEMMA LapsedIsRow == ASSUME NEW row \in JobRow
                     PROVE  [row EXCEPT !.live = FALSE] \in JobRow
BY DEF JobRow

-----------------------------------------------------------------------------
(* The steps that write nothing but memory.                                 *)

StateInv == PublishedIsActive /\ CoreInv /\ JobsInv

\* The invariant holds at first.
LEMMA InitInv == Init => IInv
<1> SUFFICES ASSUME Init PROVE IInv
  OBVIOUS
<1>1. TypeOK
  <2>1. job \in [Kind -> JobRow]
    BY FirstRows DEF Init
  <2>2. run \in [Worker -> RunRow]
    BY AttemptsAssumption DEF Init, IdleRun, RunRow, Kind
  <2> QED BY <2>1, <2>2, AttemptsAssumption DEF Init, TypeOK, Kind, Status, Verdict, OrderState
<1>2. PublishedIsActive /\ CoreInv
  BY DEF Init, PublishedIsActive, CoreInv, Kind, Delivered
<1>3. JobsInv
  BY FirstRows DEF Init, JobsInv, Kind
<1>4. RunsInv
  BY DEF Init, RunsInv, RunInv, IdleRun
<1> QED BY <1>1, <1>2, <1>3, <1>4 DEF IInv

\* Memory moves, the tables stay, and nobody gets to announce anything.
LEMMA MemoryMoves ==
  ASSUME IInv, UNCHANGED tableVars, NEW w \in Worker, NEW pcs, Moves(w, pcs), run[w].pc # "idle",
         "ready" \in pcs \/ "terminalize" \in pcs => payload["core"] # 0 \/ run[w].kind # "core",
         "activate" \in pcs => payload["enhancement"] # 0
  PROVE  IInv'
<1>1. TypeOK' /\ StateInv'
  BY DEF IInv, TypeOK, Moves, tableVars, StateInv, PublishedIsActive, CoreInv, JobsInv
<1>2. Grows /\ payload' = payload
  BY DEF Grows, tableVars
<1>3. RunsInv'
  BY <1>2, RunsKept
<1> QED BY <1>1, <1>3 DEF IInv, StateInv

\* Errors, crashes and a run that leaves its job keep the invariant.
LEMMA ThrowKeeps == ASSUME IInv, NEW w \in Worker, Throw(w) \/ Crash(w) \/ Leave(w)
                    PROVE  IInv'
<1>1. /\ run[w].pc # "idle" /\ UNCHANGED tableVars
      /\ Goto(w, {"idle", "catch", "giveUp", "failRevision"})
  BY DEF Throw, Crash, Leave, Goto, Interrupted, Handler
<1>2. Moves(w, {"idle", "catch", "giveUp", "failRevision"})
  BY <1>1, GotoMoves DEF IInv, Pc
<1> QED BY <1>1, <1>2, MemoryMoves

\* LoadCore keeps the invariant.
LEMMA LoadCoreKeeps == ASSUME IInv, NEW w \in Worker, LoadCore(w) PROVE IInv'
<1>1. run[w].pc = "load" /\ UNCHANGED tableVars
  BY DEF LoadCore, At
<1>2. CASE payload["core"] = 0
  <2>1. Proceed(w, "prepare")
    BY <1>2 DEF LoadCore
  <2>2. Moves(w, {"prepare", "idle", "catch", "giveUp", "failRevision"})
    BY <2>1, ProceedMoves DEF IInv, Pc
  <2> QED BY <1>1, <2>2, MemoryMoves
<1>3. CASE payload["core"] # 0
  <2>1. PICK pc \in {"ready", "catch"} :
          run' = [run EXCEPT ![w].pc = pc, ![w].version = payload["core"]]
    BY <1>3 DEF LoadCore
  <2>2. run \in [Worker -> RunRow] /\ payload["core"] \in 0 .. MaxAttempts
    BY DEF IInv, TypeOK, Kind
  <2>3. /\ run' \in [Worker -> RunRow] /\ \A v \in Worker \ {w} : run'[v] = run[v]
        /\ run'[w].kind = run[w].kind /\ run'[w].version = payload["core"]
        /\ run'[w].pc \in {"ready", "catch"}
    BY <2>1, <2>2 DEF RunRow
  <2>4. TypeOK' /\ StateInv'
    BY <1>1, <2>3 DEF IInv, TypeOK, tableVars, StateInv, PublishedIsActive, CoreInv, JobsInv
  <2>5. run[w].kind = "core"
    BY DEF LoadCore, At
  <2>6. RunsInv'
    <3> SUFFICES ASSUME NEW v \in Worker PROVE RunInv(run[v])'
      BY DEF RunsInv
    <3>1. CASE v = w
      BY <1>1, <1>3, <2>3, <2>5, <3>1 DEF RunInv, tableVars
    <3>2. CASE v # w
      <4>1. run'[v] = run[v] /\ RunInv(run[v])
        BY <2>3, <3>2 DEF IInv, RunsInv
      <4> QED BY <1>1, <4>1 DEF RunInv, tableVars
    <3> QED BY <3>1, <3>2
  <2> QED BY <2>4, <2>6 DEF IInv, StateInv
<1> QED BY <1>2, <1>3

\* DeliverCoreAgain keeps the invariant.
LEMMA DeliverCoreAgainKeeps == ASSUME IInv, NEW w \in Worker, DeliverCoreAgain(w) PROVE IInv'
<1>1. run[w].pc = "terminalize" /\ UNCHANGED tableVars /\ Proceed(w, "enqueue")
  BY DEF DeliverCoreAgain, At
<1>2. Moves(w, {"enqueue", "idle", "catch", "giveUp", "failRevision"})
  BY <1>1, ProceedMoves DEF IInv, Pc
<1> QED BY <1>1, <1>2, MemoryMoves

\* LoadEnhancement keeps the invariant.
LEMMA LoadEnhancementKeeps == ASSUME IInv, NEW w \in Worker, LoadEnhancement(w) PROVE IInv'
<1>1. run[w].pc = "load" /\ UNCHANGED tableVars
  BY DEF LoadEnhancement, At
<1>2. PICK pc \in {"conclude", "prepare", "giveUp"} : Proceed(w, pc)
  BY DEF LoadEnhancement
<1>3. Moves(w, {pc, "idle", "catch", "giveUp", "failRevision"})
  BY <1>2, ProceedMoves DEF IInv, Pc
<1> QED BY <1>1, <1>3, MemoryMoves

-----------------------------------------------------------------------------
(* The steps of the core stage that write.                                  *)

\* PrepareCore keeps the invariant.
LEMMA PrepareCoreKeeps == ASSUME IInv, NEW w \in Worker, PrepareCore(w) PROVE IInv'
<1>1. run[w].pc = "prepare" /\ run[w] \in RunRow /\ RunInv(run[w])
  BY DEF PrepareCore, At, IInv, TypeOK, RunsInv
<1>2. Moves(w, {"persist", "idle", "catch", "giveUp", "failRevision"})
  BY ProceedMoves DEF PrepareCore, IInv, Pc
<1>3. TypeOK'
  BY <1>1, <1>2 DEF PrepareCore, IInv, TypeOK, Moves, Kind, Status
<1>4. StateInv'
  BY <1>1 DEF PrepareCore, IInv, TypeOK, StateInv, PublishedIsActive, CoreInv, JobsInv, Kind, Status
<1>5. Grows
  BY <1>1 DEF PrepareCore, Grows, Kind
<1>6. RunsInv'
  BY <1>1, <1>2, <1>4, <1>5, RunsKept
<1> QED BY <1>3, <1>4, <1>6 DEF IInv, StateInv

\* PersistCore keeps the invariant.
LEMMA PersistCoreKeeps == ASSUME IInv, NEW w \in Worker, PersistCore(w) PROVE IInv'
<1>1. run[w].pc = "persist" /\ run[w] \in RunRow /\ RunInv(run[w])
  BY DEF PersistCore, At, IInv, TypeOK, RunsInv
<1>2. Moves(w, {"ready", "idle", "catch", "giveUp", "failRevision"})
  BY ProceedMoves DEF PersistCore, IInv, Pc
<1>3. TypeOK'
  BY <1>1, <1>2 DEF PersistCore, IInv, TypeOK, Moves, Kind, Verdict, RunRow
<1>4. StateInv'
  BY <1>1 DEF PersistCore, IInv, TypeOK, StateInv, PublishedIsActive, CoreInv, JobsInv, Kind, At, RunInv
<1>5. Grows
  BY <1>1 DEF PersistCore, Grows, Kind, RunInv
<1>6. RunsInv'
  BY <1>1, <1>2, <1>4, <1>5, RunsKept DEF PersistCore, RunInv, At, IInv, TypeOK, Kind
<1> QED BY <1>3, <1>4, <1>6 DEF IInv, StateInv

\* ReadyCore keeps the invariant.
LEMMA ReadyCoreKeeps == ASSUME IInv, NEW w \in Worker, ReadyCore(w) PROVE IInv'
<1>1. run[w].pc = "ready" /\ run[w] \in RunRow /\ RunInv(run[w])
  BY DEF ReadyCore, At, IInv, TypeOK, RunsInv
<1>2. Moves(w, {"terminalize", "idle", "catch", "giveUp", "failRevision"})
  BY ProceedMoves DEF ReadyCore, IInv, Pc
<1>3. TypeOK'
  BY <1>1, <1>2 DEF ReadyCore, IInv, TypeOK, Moves, Kind, Status
<1>4. StateInv'
  BY <1>1 DEF ReadyCore, IInv, TypeOK, StateInv, PublishedIsActive, CoreInv, JobsInv, Kind, Status, At, RunInv
<1>5. Grows
  BY <1>1 DEF ReadyCore, Grows, Kind
<1>6. RunsInv'
  BY <1>1, <1>2, <1>4, <1>5, RunsKept DEF ReadyCore, RunInv, At
<1> QED BY <1>3, <1>4, <1>6 DEF IInv, StateInv

\* DeliverCore keeps the invariant.
LEMMA DeliverCoreKeeps == ASSUME IInv, NEW w \in Worker, DeliverCore(w) PROVE IInv'
<1>1. run[w].pc = "terminalize" /\ run[w] \in RunRow /\ RunInv(run[w])
  BY DEF DeliverCore, At, IInv, TypeOK, RunsInv
<1>2. Moves(w, {"enqueue", "idle", "catch", "giveUp", "failRevision"})
  BY ProceedMoves DEF DeliverCore, IInv, Pc
<1>3. TypeOK'
  BY <1>1, <1>2, EndedIsRow DEF DeliverCore, IInv, TypeOK, Moves, Kind, Status, Outcome, OrderState
<1>4. StateInv'
  BY <1>1, EndedIsRow DEF DeliverCore, IInv, TypeOK, StateInv, PublishedIsActive, CoreInv, JobsInv, Kind, At, RunInv, Outcome, Delivered, EndedRow
<1>5. Grows
  BY <1>1 DEF DeliverCore, Grows, Kind
<1>6. RunsInv'
  BY <1>1, <1>2, <1>4, <1>5, RunsKept DEF DeliverCore
<1> QED BY <1>3, <1>4, <1>6 DEF IInv, StateInv

\* EnqueueEnhancement keeps the invariant.
LEMMA EnqueueEnhancementKeeps == ASSUME IInv, NEW w \in Worker, EnqueueEnhancement(w) PROVE IInv'
<1>1. run[w].pc = "enqueue" /\ job["enhancement"] \in JobRow
  BY DEF EnqueueEnhancement, At, IInv, TypeOK, Kind
<1>2. Moves(w, {"idle", "catch"})
  BY GotoMoves DEF EnqueueEnhancement, IInv, Pc
<1>3. TypeOK'
  BY <1>1, <1>2, FirstRows DEF EnqueueEnhancement, IInv, TypeOK, Moves, Kind, artifactVars
<1>4. StateInv'
  BY <1>1, FirstRows DEF EnqueueEnhancement, CoreSettled, CoreShown, artifactVars, IInv, TypeOK,
                         StateInv, PublishedIsActive, CoreInv, JobsInv, Kind
<1>5. Grows
  BY <1>1, FirstRows DEF EnqueueEnhancement, Grows, Kind, artifactVars, IInv, TypeOK
<1>6. RunsInv'
  BY <1>1, <1>2, <1>5, RunsKept
<1> QED BY <1>3, <1>4, <1>6 DEF IInv, StateInv

-----------------------------------------------------------------------------
(* The steps of the enhancement stage that write.                           *)

\* PrepareEnhancement keeps the invariant.
LEMMA PrepareEnhancementKeeps == ASSUME IInv, NEW w \in Worker, PrepareEnhancement(w) PROVE IInv'
<1>1. run[w].pc = "prepare" /\ run[w] \in RunRow /\ RunInv(run[w])
  BY DEF PrepareEnhancement, At, IInv, TypeOK, RunsInv
<1>2. Moves(w, {"persist", "idle", "catch", "giveUp", "failRevision"})
  BY ProceedMoves DEF PrepareEnhancement, IInv, Pc
<1>3. TypeOK'
  BY <1>1, <1>2 DEF PrepareEnhancement, IInv, TypeOK, Moves, Kind, Status
<1>4. StateInv'
  BY <1>1 DEF PrepareEnhancement, IInv, TypeOK, StateInv, PublishedIsActive, CoreInv, JobsInv, Kind, Status, CoreIsCurrent, At, RunInv
<1>5. Grows
  BY <1>1 DEF PrepareEnhancement, Grows, Kind
<1>6. RunsInv'
  BY <1>1, <1>2, <1>4, <1>5, RunsKept
<1> QED BY <1>3, <1>4, <1>6 DEF IInv, StateInv

\* PersistEnhancement keeps the invariant.
LEMMA PersistEnhancementKeeps == ASSUME IInv, NEW w \in Worker, PersistEnhancement(w) PROVE IInv'
<1>1. run[w].pc = "persist" /\ run[w] \in RunRow /\ RunInv(run[w])
  BY DEF PersistEnhancement, At, IInv, TypeOK, RunsInv
<1>2. Moves(w, {"activate", "idle", "catch", "giveUp", "failRevision"})
  BY ProceedMoves DEF PersistEnhancement, IInv, Pc
<1>3. TypeOK'
  BY <1>1, <1>2 DEF PersistEnhancement, IInv, TypeOK, Moves, Kind, RunRow
<1>4. StateInv'
  BY <1>1 DEF PersistEnhancement, IInv, TypeOK, StateInv, PublishedIsActive, CoreInv, JobsInv, Kind, At, RunInv
<1>5. Grows
  BY <1>1 DEF PersistEnhancement, Grows, Kind, RunInv
<1>6. RunsInv'
  BY <1>1, <1>2, <1>4, <1>5, RunsKept DEF PersistEnhancement, RunInv, At, IInv, TypeOK, Kind
<1> QED BY <1>3, <1>4, <1>6 DEF IInv, StateInv

\* ActivateEnhancement keeps the invariant.
LEMMA ActivateEnhancementKeeps == ASSUME IInv, NEW w \in Worker, ActivateEnhancement(w) PROVE IInv'
<1>1. run[w].pc = "activate" /\ run[w] \in RunRow /\ RunInv(run[w])
  BY DEF ActivateEnhancement, At, IInv, TypeOK, RunsInv
<1>2. Moves(w, {"conclude", "idle", "catch", "giveUp", "failRevision"})
  BY ProceedMoves DEF ActivateEnhancement, IInv, Pc
<1>3. TypeOK'
  BY <1>1, <1>2 DEF ActivateEnhancement, IInv, TypeOK, Moves, Kind, Status, CoreIsCurrent
<1>4. StateInv'
  BY <1>1 DEF ActivateEnhancement, IInv, TypeOK, StateInv, PublishedIsActive, CoreInv, JobsInv, Kind, CoreIsCurrent, At, RunInv, Delivered
<1>5. Grows
  BY <1>1 DEF ActivateEnhancement, Grows, Kind
<1>6. RunsInv'
  BY <1>1, <1>2, <1>4, <1>5, RunsKept
<1> QED BY <1>3, <1>4, <1>6 DEF IInv, StateInv

\* FailRevision keeps the invariant.
LEMMA FailRevisionKeeps == ASSUME IInv, NEW w \in Worker, FailRevision(w) PROVE IInv'
<1>1. run[w].pc = "failRevision" /\ run[w] \in RunRow /\ RunInv(run[w])
  BY DEF FailRevision, At, IInv, TypeOK, RunsInv
<1>2. Moves(w, {"giveUp", "idle", "catch", "giveUp", "failRevision"})
  BY ProceedMoves DEF FailRevision, IInv, Pc
<1>3. TypeOK'
  BY <1>1, <1>2 DEF FailRevision, IInv, TypeOK, Moves, Kind, Status
<1>4. StateInv'
  BY <1>1 DEF FailRevision, IInv, TypeOK, StateInv, PublishedIsActive, CoreInv, JobsInv, Kind, At, RunInv
<1>5. Grows
  BY <1>1 DEF FailRevision, Grows, Kind
<1>6. RunsInv'
  BY <1>1, <1>2, <1>4, <1>5, RunsKept
<1> QED BY <1>3, <1>4, <1>6 DEF IInv, StateInv

\* GiveUp keeps the invariant.
LEMMA GiveUpKeeps == ASSUME IInv, NEW w \in Worker, GiveUp(w) PROVE IInv'
<1>1. run[w].pc = "giveUp" /\ run[w] \in RunRow /\ \A k \in Kind : job[k] \in JobRow
  BY DEF GiveUp, At, IInv, TypeOK
<1>2. Moves(w, {"idle", "catch"})
  BY GotoMoves DEF GiveUp, IInv, Pc
<1>3. TypeOK'
  BY <1>1, <1>2, EndedIsRow DEF GiveUp, IInv, TypeOK, Moves, Kind, artifactVars, OrderState, RunRow
<1>4. StateInv'
  BY <1>1, EndedIsRow DEF GiveUp, Holds, At, artifactVars, Delivered, RunRow, IInv, TypeOK, StateInv, PublishedIsActive, CoreInv, JobsInv, Kind, CoreIsCurrent
<1>5. Grows
  BY <1>1, EndedIsRow DEF GiveUp, Grows, Kind, artifactVars, RunRow, IInv, TypeOK
<1>6. RunsInv'
  BY <1>1, <1>2, <1>5, RunsKept
<1> QED BY <1>3, <1>4, <1>6 DEF IInv, StateInv

\* Conclude keeps the invariant.
LEMMA ConcludeKeeps == ASSUME IInv, NEW w \in Worker, Conclude(w) PROVE IInv'
<1>1. run[w].pc = "conclude" /\ run[w] \in RunRow /\ \A k \in Kind : job[k] \in JobRow
  BY DEF Conclude, At, IInv, TypeOK
<1>2. Moves(w, {"idle", "catch"})
  BY GotoMoves DEF Conclude, IInv, Pc
<1>3. TypeOK'
  BY <1>1, <1>2, EndedIsRow DEF Conclude, IInv, TypeOK, Moves, Kind, artifactVars, OrderState, RunRow
<1>4. StateInv'
  BY <1>1, EndedIsRow DEF Conclude, Holds, At, artifactVars, Delivered, RunRow, IInv, TypeOK, StateInv, PublishedIsActive, CoreInv, JobsInv, Kind
<1>5. Grows
  BY <1>1, EndedIsRow DEF Conclude, Grows, Kind, artifactVars, RunRow, IInv, TypeOK
<1>6. RunsInv'
  BY <1>1, <1>2, <1>5, RunsKept
<1> QED BY <1>3, <1>4, <1>6 DEF IInv, StateInv

-----------------------------------------------------------------------------
(* The error path, the claim, and the steps of nobody's run.                *)

\* FailCore keeps the invariant.
LEMMA FailCoreKeeps == ASSUME IInv, NEW w \in Worker, FailCore(w) PROVE IInv'
<1>1. run[w].pc = "catch" /\ run[w] \in RunRow /\ \A k \in Kind : job[k] \in JobRow
  BY DEF FailCore, At, IInv, TypeOK
<1>2. Moves(w, {"idle"})
  BY GotoMoves DEF FailCore, IInv, Pc
<1>3. TypeOK'
  BY <1>1, <1>2, EndedIsRow DEF FailCore, IInv, TypeOK, Moves, Kind, artifactVars, OrderState, RunRow
<1>4. StateInv'
  BY <1>1, EndedIsRow DEF FailCore, Holds, At, artifactVars, Delivered, RunRow, IInv, TypeOK, StateInv, PublishedIsActive, CoreInv, JobsInv, Kind
<1>5. Grows
  BY <1>1, EndedIsRow DEF FailCore, Grows, Kind, artifactVars, RunRow, IInv, TypeOK
<1>6. RunsInv'
  BY <1>1, <1>2, <1>5, RunsKept
<1> QED BY <1>3, <1>4, <1>6 DEF IInv, StateInv

\* Retry keeps the invariant.
LEMMA RetryKeeps == ASSUME IInv, NEW w \in Worker, Retry(w) PROVE IInv'
<1>1. run[w].pc = "catch" /\ run[w] \in RunRow /\ \A k \in Kind : job[k] \in JobRow
  BY DEF Retry, At, IInv, TypeOK
<1>2. Moves(w, {"idle"})
  BY GotoMoves DEF Retry, IInv, Pc
<1>3. TypeOK'
  BY <1>1, <1>2, EndedIsRow DEF Retry, IInv, TypeOK, Moves, Kind, artifactVars, OrderState, RunRow
<1>4. StateInv'
  BY <1>1, EndedIsRow DEF Retry, Holds, At, artifactVars, Delivered, RunRow, IInv, TypeOK, StateInv, PublishedIsActive, CoreInv, JobsInv, Kind
<1>5. Grows
  BY <1>1, EndedIsRow DEF Retry, Grows, Kind, artifactVars, RunRow, IInv, TypeOK
<1>6. RunsInv'
  BY <1>1, <1>2, <1>5, RunsKept
<1> QED BY <1>3, <1>4, <1>6 DEF IInv, StateInv

\* FailEnhancement keeps the invariant.
LEMMA FailEnhancementKeeps == ASSUME IInv, NEW w \in Worker, FailEnhancement(w) PROVE IInv'
<1>1. run[w].pc = "catch" /\ run[w] \in RunRow /\ \A k \in Kind : job[k] \in JobRow
  BY DEF FailEnhancement, At, IInv, TypeOK
<1>2. Moves(w, {"idle"})
  BY GotoMoves DEF FailEnhancement, IInv, Pc
<1>3. TypeOK'
  BY <1>1, <1>2, EndedIsRow DEF FailEnhancement, IInv, TypeOK, Moves, Kind, artifactVars, OrderState, RunRow
<1>4. StateInv'
  BY <1>1, EndedIsRow DEF FailEnhancement, Holds, At, artifactVars, Delivered, RunRow, IInv, TypeOK, StateInv, PublishedIsActive, CoreInv, JobsInv, Kind
<1>5. Grows
  BY <1>1, EndedIsRow DEF FailEnhancement, Grows, Kind, artifactVars, RunRow, IInv, TypeOK
<1>6. RunsInv'
  BY <1>1, <1>2, <1>5, RunsKept
<1> QED BY <1>3, <1>4, <1>6 DEF IInv, StateInv

\* Claim keeps the invariant.
LEMMA ClaimKeeps == ASSUME IInv, NEW w \in Worker, NEW k \in Kind, Claim(w, k) PROVE IInv'
<1>1. /\ job[k] \in JobRow /\ job[k].attempts < MaxAttempts
      /\ job[k].state \in {"waiting", "running"}
  BY DEF Claim, Claimable, IInv, TypeOK
<1>2. ClaimedRow(job[k], w) \in JobRow /\ ClaimedRow(job[k], w).state = "running"
  BY <1>1, ClaimedIsRow
<1>3. job' = [job EXCEPT ![k] = ClaimedRow(job[k], w)]
  BY DEF Claim
<1>4. job[k].attempts + 1 \in 0 .. MaxAttempts /\ job[k].attempts + 1 # 0
  BY <1>1, AttemptsAssumption DEF JobRow
<1>5. /\ run' \in [Worker -> RunRow] /\ \A v \in Worker \ {w} : run'[v] = run[v]
      /\ run'[w] = [pc |-> "load", kind |-> k, version |-> job[k].attempts + 1]
  BY <1>4 DEF Claim, RunRow, IInv, TypeOK
<1>6. TypeOK'
  BY <1>2, <1>3, <1>5 DEF Claim, IInv, TypeOK, artifactVars
<1>7. StateInv'
  BY <1>1, <1>2, <1>3 DEF Claim, artifactVars, IInv, TypeOK, StateInv, PublishedIsActive,
                          CoreInv, JobsInv, Kind
<1>8. RunsInv'
  <2> SUFFICES ASSUME NEW v \in Worker PROVE RunInv(run[v])'
    BY DEF RunsInv
  <2>1. /\ payload' = payload
        /\ job["enhancement"].state # "absent" => job'["enhancement"].state # "absent"
        /\ k = "enhancement" => job'["enhancement"].state # "absent"
    BY <1>2, <1>3 DEF Claim, artifactVars, IInv, TypeOK, Kind
  <2>2. CASE v = w
    BY <1>4, <1>5, <2>1, <2>2 DEF RunInv
  <2>3. CASE v # w
    <3>1. run'[v] = run[v] /\ RunInv(run[v])
      BY <1>5, <2>3 DEF IInv, RunsInv
    <3> QED BY <2>1, <3>1 DEF RunInv
  <2> QED BY <2>2, <2>3
<1> QED BY <1>6, <1>7, <1>8 DEF IInv, StateInv

\* Maintenance and time on a job keep the invariant.
LEMMA JobStepKeeps == ASSUME IInv, NEW k \in Kind, JobStep(k) PROVE IInv'
<1>1. job[k] \in JobRow
  BY DEF IInv, TypeOK
<1>2. PICK row \in JobRow : /\ job' = [job EXCEPT ![k] = row]
                            /\ \/ row.state = job[k].state
                               \/ row.state = "failed" /\ job[k].state = "running"
  <2>1. CASE Exhaust(k)
    BY <1>1, <2>1, EndedIsRow DEF Exhaust, ExhaustedRow
  <2>2. CASE LeaseExpires(k)
    BY <1>1, <2>2, LapsedIsRow DEF LeaseExpires, JobRow
  <2> QED BY <2>1, <2>2 DEF JobStep
<1>3. UNCHANGED <<artifactVars, pointer, order, link, run>>
  BY DEF JobStep, Exhaust, LeaseExpires
<1>4. TypeOK' /\ StateInv' /\ Grows
  BY <1>1, <1>2, <1>3 DEF IInv, TypeOK, artifactVars, StateInv, PublishedIsActive, CoreInv,
                          JobsInv, Kind, Grows
<1>5. RunsInv'
  BY <1>3, <1>4, RunsStay
<1> QED BY <1>4, <1>5 DEF IInv, StateInv

\* The deadline, the failed order and the links keep the invariant.
LEMMA OrderStepKeeps == ASSUME IInv, OrderStep PROVE IInv'
<1>1. job["core"] \in JobRow /\ job["enhancement"] \in JobRow
  BY DEF IInv, TypeOK, Kind
<1>2. TypeOK' /\ StateInv' /\ Grows
  <2>1. CASE Deadline
    BY <1>1, <2>1, EndedIsRow DEF Deadline, IInv, TypeOK, OrderState, artifactVars, StateInv,
         PublishedIsActive, CoreInv, JobsInv, Kind, Grows, Delivered, Over
  <2>2. CASE RecordFailure
    BY <2>2 DEF RecordFailure, IInv, TypeOK, OrderState, artifactVars, StateInv,
         PublishedIsActive, CoreInv, JobsInv, Kind, Grows, Delivered
  <2>3. CASE RevokeLinks \/ IssueLink
    BY <2>3 DEF RevokeLinks, IssueLink, IInv, TypeOK, artifactVars, StateInv,
         PublishedIsActive, CoreInv, JobsInv, Kind, Grows
  <2> QED BY <2>1, <2>2, <2>3 DEF OrderStep
<1>3. UNCHANGED run
  BY DEF OrderStep, Deadline, RecordFailure, RevokeLinks, IssueLink
<1>4. RunsInv'
  BY <1>2, <1>3, RunsStay
<1> QED BY <1>2, <1>4 DEF IInv, StateInv

\* Every step keeps the invariant.
LEMMA StepInv == IInv /\ [Next]_vars => IInv'
<1> SUFFICES ASSUME IInv, [Next]_vars PROVE IInv'
  OBVIOUS
<1>1. CASE UNCHANGED vars
  BY <1>1 DEF vars, IInv, TypeOK, PublishedIsActive, CoreInv, JobsInv, RunsInv, RunInv
<1>2. ASSUME NEW w \in Worker, CoreStep(w) PROVE IInv'
  BY <1>2, LoadCoreKeeps, PrepareCoreKeeps, PersistCoreKeeps, ReadyCoreKeeps, DeliverCoreKeeps,
     DeliverCoreAgainKeeps, EnqueueEnhancementKeeps DEF CoreStep
<1>3. ASSUME NEW w \in Worker, EnhancementStep(w) PROVE IInv'
  BY <1>3, LoadEnhancementKeeps, PrepareEnhancementKeeps, PersistEnhancementKeeps,
     ActivateEnhancementKeeps, FailRevisionKeeps, GiveUpKeeps, ConcludeKeeps DEF EnhancementStep
<1>4. ASSUME NEW w \in Worker, CatchStep(w) \/ Throw(w) \/ Crash(w) PROVE IInv'
  BY <1>4, FailCoreKeeps, RetryKeeps, FailEnhancementKeeps, ThrowKeeps DEF CatchStep
<1>5. ASSUME NEW w \in Worker, NEW k \in Kind, Claim(w, k) PROVE IInv'
  BY <1>5, ClaimKeeps
<1>6. ASSUME NEW k \in Kind, JobStep(k) PROVE IInv'
  BY <1>6, JobStepKeeps
<1>7. CASE OrderStep
  BY <1>7, OrderStepKeeps
<1> QED BY <1>1, <1>2, <1>3, <1>4, <1>5, <1>6, <1>7 DEF Next, WorkStep

\* The inductive invariant holds in every reachable state.
THEOREM Invariant == Spec => []IInv
BY InitInv, StepInv, PTL DEF Spec

\* Every variable of the report keeps its type.
THEOREM TypeCorrect == Spec => []TypeOK
<1>1. IInv => TypeOK
  BY DEF IInv
<1> QED BY <1>1, Invariant, PTL

\* The customer is shown exactly the active revision, with its payload, and
\* exactly when the order was delivered.
THEOREM ShownIsActive == Spec => []PublishedIsActive
<1>1. IInv => PublishedIsActive
  BY DEF IInv
<1> QED BY <1>1, Invariant, PTL

-----------------------------------------------------------------------------
(* The refinement: what a step of ReportArtifacts is to PublishedReport.     *)

\* Where the job of the enhancement counts as due or over.
Stage(state) == CASE state = "absent" -> "none"
                  [] state \in Over -> "over"
                  [] OTHER -> "due"
Extra == Stage(job["enhancement"].state)
OutcomeOf(state) == IF state = "late" THEN "open" ELSE state

\* What a step may do to the abstract report.
Step == \/ /\ OutcomeOf(order) = "open" /\ order' \in Delivered
           /\ pointer' = "core" /\ Extra' = Extra
        \/ /\ OutcomeOf(order) = "open" /\ order' = "failed"
           /\ pointer' = pointer /\ Extra' = Extra
        \/ /\ Extra = "none" /\ pointer = "core" /\ Extra' = "due"
           /\ pointer' = pointer /\ order' = order
        \/ /\ Extra # "none" /\ pointer = "core" /\ pointer' = "enhancement"
           /\ order' = order /\ Extra' = Extra
        \/ /\ Extra = "due" /\ Extra' = "over"
           /\ pointer' = pointer /\ order' = order
        \/ /\ OutcomeOf(order)' = OutcomeOf(order)
           /\ pointer' = pointer /\ Extra' = Extra

\* Such a step is one of PublishedReport, or none.
LEMMA StepMaps == Step => [Published!Next]_(Published!vars)
BY DEF Step, Extra, Stage, OutcomeOf, Delivered, Published!Next, Published!Decide, Published!Deliver,
       Published!Fail, Published!Offer, Published!Enhance, Published!End, Published!vars

\* The steps of the core stage.
LEMMA CoreMaps == ASSUME IInv, NEW w \in Worker, CoreStep(w) PROVE Step
<1>1. CASE LoadCore(w) \/ DeliverCoreAgain(w)
  BY <1>1 DEF LoadCore, DeliverCoreAgain, tableVars, Step, Extra
<1>2. CASE PrepareCore(w) \/ PersistCore(w) \/ ReadyCore(w)
  BY <1>2 DEF PrepareCore, PersistCore, ReadyCore, Step, Extra
<1>3. CASE DeliverCore(w)
  <2>1. job'["enhancement"] = job["enhancement"]
    BY <1>3 DEF DeliverCore, IInv, TypeOK, Kind
  <2>2. order = "open" /\ order' \in Delivered /\ pointer' = "core"
    BY <1>3 DEF DeliverCore, Outcome, Delivered
  <2> QED BY <2>1, <2>2 DEF Step, Extra, OutcomeOf
<1>4. CASE EnqueueEnhancement(w)
  <2>1. UNCHANGED <<pointer, order>> /\ (pointer = "core" \/ revision["enhancement"] = "active")
    BY <1>4 DEF EnqueueEnhancement, CoreSettled, CoreShown
  <2>2. CASE job'["enhancement"] = job["enhancement"]
    BY <2>1, <2>2 DEF Step, Extra
  <2>3. CASE job'["enhancement"] # job["enhancement"]
    <3>1. job["enhancement"].state = "absent" /\ job'["enhancement"].state = "waiting"
      BY <1>4, <2>3, FirstRows DEF EnqueueEnhancement, IInv, TypeOK, Kind
    <3>2. pointer = "core"
      BY <2>1, <3>1 DEF IInv, JobsInv
    <3> QED BY <2>1, <3>1, <3>2 DEF Step, Extra, Stage, Over
  <2> QED BY <2>2, <2>3
<1> QED BY <1>1, <1>2, <1>3, <1>4 DEF CoreStep

\* A job that runs or waits is due, one that ended is over.
LEMMA Stages == /\ \A state \in {"waiting", "running"} : Stage(state) = "due"
                /\ \A state \in Over : Stage(state) = "over"
BY DEF Stage, Over

\* A job that its worker holds is due, and its end is the end.
LEMMA EndMaps ==
  ASSUME IInv, UNCHANGED <<pointer, order>>, NEW k \in Kind, NEW state \in {"waiting", "completed", "failed"},
         job[k].state = "running", job' = [job EXCEPT ![k] = EndedRow(@, state)]
  PROVE  Step
<1>1. CASE k = "core"
  <2>1. job'["enhancement"] = job["enhancement"]
    BY <1>1 DEF IInv, TypeOK, Kind
  <2> QED BY <2>1 DEF Step, Extra
<1>2. CASE k = "enhancement"
  <2>1. job["enhancement"].state = "running" /\ job'["enhancement"].state = state
    BY <1>2, EndedIsRow DEF IInv, TypeOK, Kind
  <2>2. Extra = "due" /\ Extra' \in {"due", "over"}
    BY <2>1, Stages DEF Extra, Over
  <2> QED BY <2>2 DEF Step
<1> QED BY <1>1, <1>2 DEF Kind

\* The steps of the enhancement stage.
LEMMA EnhancementMaps == ASSUME IInv, NEW w \in Worker, EnhancementStep(w) PROVE Step
<1>1. CASE LoadEnhancement(w)
  BY <1>1 DEF LoadEnhancement, tableVars, Step, Extra
<1>2. CASE PrepareEnhancement(w) \/ PersistEnhancement(w) \/ FailRevision(w)
  BY <1>2 DEF PrepareEnhancement, PersistEnhancement, FailRevision, Step, Extra
<1>3. CASE ActivateEnhancement(w)
  <2>1. UNCHANGED <<order, job>>
    BY <1>3 DEF ActivateEnhancement
  <2>2. CASE pointer' = pointer
    BY <2>1, <2>2 DEF Step, Extra
  <2>3. CASE pointer' # pointer
    <3>1. pointer = "core" /\ pointer' = "enhancement"
      BY <1>3, <2>3 DEF ActivateEnhancement, CoreIsCurrent
    <3>2. job["enhancement"].state # "absent"
      BY <1>3 DEF ActivateEnhancement, At, IInv, RunsInv, RunInv
    <3>3. Extra # "none"
      BY <3>2 DEF Extra, Stage
    <3> QED BY <2>1, <3>1, <3>3 DEF Step, Extra
  <2> QED BY <2>2, <2>3
<1>4. CASE GiveUp(w)
  <2>1. CASE UNCHANGED job
    BY <1>4, <2>1 DEF GiveUp, Step, Extra
  <2>2. CASE Holds(w) /\ job' = [job EXCEPT !["enhancement"] = EndedRow(@, "failed")]
    BY <1>4, <2>2, EndMaps DEF GiveUp, At, Holds, Kind
  <2> QED BY <1>4, <2>1, <2>2 DEF GiveUp
<1>5. CASE Conclude(w)
  <2>1. CASE UNCHANGED job
    BY <1>5, <2>1 DEF Conclude, Step, Extra
  <2>2. CASE Holds(w) /\ job' = [job EXCEPT !["enhancement"] = EndedRow(@, "completed")]
    BY <1>5, <2>2, EndMaps DEF Conclude, At, Holds, Kind
  <2> QED BY <1>5, <2>1, <2>2 DEF Conclude
<1> QED BY <1>1, <1>2, <1>3, <1>4, <1>5 DEF EnhancementStep

\* The error path.
LEMMA CatchMaps == ASSUME IInv, NEW w \in Worker, CatchStep(w) PROVE Step
<1>1. CASE FailCore(w)
  <2>1. job'["enhancement"] = job["enhancement"]
    BY <1>1 DEF FailCore, IInv, TypeOK, Kind
  <2> QED BY <1>1, <2>1 DEF FailCore, Step, Extra, OutcomeOf
<1>2. CASE Retry(w)
  <2>1. run[w].kind \in Kind
    BY DEF IInv, TypeOK, RunRow
  <2> QED BY <1>2, <2>1, EndMaps DEF Retry, Holds
<1>3. CASE FailEnhancement(w)
  BY <1>3, EndMaps DEF FailEnhancement, At, Holds, Kind
<1>4. CASE Leave(w)
  BY <1>4 DEF Leave, tableVars, Step, Extra
<1> QED BY <1>1, <1>2, <1>3, <1>4 DEF CatchStep

\* A claim, maintenance, time, the deadline and the links.
LEMMA OthersMap ==
  ASSUME IInv,
         \/ \E w \in Worker, k \in Kind : Claim(w, k)
         \/ \E k \in Kind : JobStep(k)
         \/ OrderStep
  PROVE  Step
<1>1. ASSUME NEW w \in Worker, NEW k \in Kind, Claim(w, k) PROVE Step
  <2>1. /\ job[k] \in JobRow /\ job[k].attempts < MaxAttempts
        /\ job[k].state \in {"waiting", "running"}
    BY <1>1 DEF Claim, Claimable, IInv, TypeOK
  <2>2. ClaimedRow(job[k], w).state = "running"
    BY <2>1, ClaimedIsRow
  <2>3. UNCHANGED <<pointer, order>> /\ job' = [job EXCEPT ![k] = ClaimedRow(job[k], w)]
    BY <1>1 DEF Claim
  <2>4. Extra' = Extra
    <3>1. CASE k = "core"
      BY <2>3, <3>1 DEF Extra, IInv, TypeOK, Kind
    <3>2. CASE k = "enhancement"
      <4>1. job'["enhancement"].state = "running"
        BY <2>2, <2>3, <3>2 DEF IInv, TypeOK, Kind
      <4> QED BY <2>1, <3>2, <4>1, Stages DEF Extra
    <3> QED BY <3>1, <3>2 DEF Kind
  <2> QED BY <2>3, <2>4 DEF Step
<1>2. ASSUME NEW k \in Kind, Exhaust(k) PROVE Step
  BY <1>2, EndMaps DEF Exhaust, ExhaustedRow
<1>3. ASSUME NEW k \in Kind, LeaseExpires(k) PROVE Step
  <2>1. UNCHANGED <<pointer, order>> /\ job' = [job EXCEPT ![k].live = FALSE]
    BY <1>3 DEF LeaseExpires
  <2>2. job'["enhancement"].state = job["enhancement"].state
    BY <2>1 DEF IInv, TypeOK, JobRow, Kind
  <2> QED BY <2>1, <2>2 DEF Step, Extra
<1>4. CASE Deadline
  <2>1. job'["enhancement"] = job["enhancement"]
    BY <1>4 DEF Deadline, IInv, TypeOK, Kind
  <2> QED BY <1>4, <2>1 DEF Deadline, Step, Extra, OutcomeOf
<1>5. CASE RecordFailure
  BY <1>5 DEF RecordFailure, Step, Extra, OutcomeOf
<1>6. CASE RevokeLinks \/ IssueLink
  BY <1>6 DEF RevokeLinks, IssueLink, Step, Extra
<1> QED BY <1>1, <1>2, <1>3, <1>4, <1>5, <1>6 DEF JobStep, OrderStep

\* With any number of workers and attempts, every step of workers, maintenance
\* and time is a step of PublishedReport or leaves what the customer sees.
THEOREM Implements == Spec => Published!Safe
<1>1. Init => Published!Init
  <2> SUFFICES ASSUME Init PROVE Published!Init
    OBVIOUS
  <2>1. job["enhancement"] = AbsentJob
    BY DEF Init, Kind
  <2>2. job["enhancement"].state = "absent"
    BY <2>1, FirstRows
  <2>3. pointer = "none" /\ order = "open"
    BY DEF Init
  <2>4. Extra = "none" /\ OutcomeOf(order) = "open"
    BY <2>2, <2>3 DEF Extra, Stage, Over, OutcomeOf
  <2> QED BY <2>3, <2>4 DEF Published!Init, Extra, Stage, OutcomeOf
<1>2. IInv /\ [Next]_vars => [Published!Next]_(Published!vars)
  <2> SUFFICES ASSUME IInv, [Next]_vars PROVE Step
    BY StepMaps
  <2>1. CASE UNCHANGED vars
    BY <2>1 DEF vars, Step, Extra
  <2>2. ASSUME NEW w \in Worker, WorkStep(w) \/ Crash(w) PROVE Step
    <3>1. CASE Throw(w) \/ Crash(w)
      BY <3>1 DEF Throw, Crash, tableVars, Step, Extra
    <3> QED BY <2>2, <3>1, CoreMaps, EnhancementMaps, CatchMaps DEF WorkStep
  <2> QED BY <2>1, <2>2, OthersMap DEF Next
<1> QED BY <1>1, <1>2, Invariant, PTL DEF Spec, Published!Safe
=============================================================================
