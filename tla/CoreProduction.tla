--------------------------- MODULE CoreProduction ---------------------------
(***************************************************************************)
(* How a paid V4 core report gets its content.  Every attempt on the job     *)
(* runs two branches beside each other: one analyzes the pages and calls for  *)
(* the synthesis of the website, the other answers the questions.  What they  *)
(* pay a provider for is kept in checkpoints, so that a later attempt takes    *)
(* it up.  When one branch throws, the stage and the attempt are over, but    *)
(* nothing stops the other branch: it goes on writing beside the next attempt.  *)
(*                                                                         *)
(* Each step is one transaction or the end of one call.  Any of them may      *)
(* throw: a refused write, an error of the database, an aborted signal; a      *)
(* write whose reply is lost is made and throws.  A lease may run out at any    *)
(* time: then another may take the row, and what its holder asks is refused,    *)
(* which is again a throw, so the clock itself is not a variable.  The rows of  *)
(* the questions are there from the start: their insertion is idempotent.  The  *)
(* token budget of a question is a choice.  The deadline and the maintenance     *)
(* may end the job under its attempts: then no claim follows and no report is    *)
(* stored, and no claim has to follow and any attempt may fail here anyway.      *)
(* Once a report is stored a further attempt only delivers it, which is the       *)
(* matter of ReportArtifacts.                                               *)
(***************************************************************************)
EXTENDS Naturals, FiniteSets

CONSTANTS
  Worker,      \* worker processes
  None,        \* no worker, no report
  Page,        \* analyzable pages of the snapshot
  Questions,   \* the questions are 1 .. Questions
  MaxAttempts  \* claims of the job (scan_jobs.max_attempts)

ASSUME NoneAssumption == None \notin Worker
ASSUME PageAssumption == IsFiniteSet(Page)
ASSUME QuestionsAssumption == Questions \in Nat \ {0}
ASSUME AttemptsAssumption == MaxAttempts \in Nat \ {0}

VARIABLES
  job,         \* the row of scan_jobs
  summarized,  \* the pages with a row in report_v4_page_summaries
  website,     \* the row of report_v4_website_synthesis_checkpoints
  question,    \* [Question -> QuestionRow]: report_v4_question_checkpoints
  report,      \* the stored core report
  attempt,     \* [Attempt -> AttemptRow]: what an attempt holds in memory
  asked,       \* [Question -> Nat]: calls the question provider was sent
  synthesized  \* calls the synthesis provider was sent

tableVars == <<job, summarized, website, question, report>>
spent == <<asked, synthesized>>
vars == <<tableVars, attempt, spent>>

Attempt == 1 .. MaxAttempts
Question == 1 .. Questions
MaxCalls == 2  \* provider calls of a question

JobRow == [state : {"waiting", "running", "failed"},
           attempts : 0 .. MaxAttempts]

WebsiteRow == [state : {"absent", "queued", "running", "completed", "failed"},
               input : SUBSET Page,  \* page_summary_identity_set_hash
               worker : Worker \cup {None},
               calls : {0, 1}]

\* open: queued, answering and retrying, which are open with 0, 1 and 2 calls.
QuestionRow == [state : {"open", "answered", "unavailable"},
                calls : 0 .. MaxCalls,
                answer : 0 .. MaxAttempts]  \* the attempt that wrote it

PageState == {"todo", "persist", "analyzed", "unavailable", "error"}
SiteResult == {"none", "available", "unavailable"}

AttemptRow == [stage : {"none", "running", "over"},
               by : Worker \cup {None},
               site : {"pages", "initialize", "claim", "begin", "call", "done", "dead"},
               page : [Page -> PageState],
               input : SUBSET Page,
               result : SiteResult,
               quest : {"initialize", "turn", "call", "done", "dead"},
               at : Question,
               known : [Question -> QuestionRow]]

ReportRow == [result : SiteResult, analyzed : SUBSET Page, known : [Question -> QuestionRow]]

OpenQuestion == [state |-> "open", calls |-> 0, answer |-> 0]
Unasked == [q \in Question |-> OpenQuestion]
NewAttempt == [stage |-> "none", by |-> None,
               site |-> "pages", page |-> [p \in Page |-> "todo"], input |-> {}, result |-> "none",
               quest |-> "initialize", at |-> 1, known |-> Unasked]
OverAttempt == [NewAttempt EXCEPT !.stage = "over", !.site = "dead", !.quest = "dead"]

Init == /\ job = [state |-> "waiting", attempts |-> 0]
        /\ summarized = {}
        /\ website = [state |-> "absent", input |-> {}, worker |-> None, calls |-> 0]
        /\ question = Unasked
        /\ report = None
        /\ attempt = [a \in Attempt |-> NewAttempt]
        /\ asked = [q \in Question |-> 0] /\ synthesized = 0

-----------------------------------------------------------------------------
(* The attempts.                                                            *)

Settled(branch) == branch \in {"done", "dead"}

\* What a branch held in memory is gone once it has thrown, or nobody waits for it.
Gone(row, branch) == branch = "dead" \/ (branch = "done" /\ row.stage = "over")
SiteLeft(row) == IF Gone(row, row.site) THEN [NewAttempt EXCEPT !.site = "dead"] ELSE row
QuestLeft(row) == IF Gone(row, row.quest) THEN [NewAttempt EXCEPT !.quest = "dead"] ELSE row

Left(row) == [stage |-> row.stage,
              by |-> IF Gone(row, row.site) /\ Gone(row, row.quest) /\ row.stage = "over"
                     THEN None ELSE row.by,
              site |-> SiteLeft(row).site, page |-> SiteLeft(row).page,
              input |-> SiteLeft(row).input, result |-> SiteLeft(row).result,
              quest |-> QuestLeft(row).quest, at |-> QuestLeft(row).at, known |-> QuestLeft(row).known]
Put(a, row) == attempt' = [attempt EXCEPT ![a] = Left(row)]

Free(w) == \A a \in Attempt : attempt[a].by = w => attempt[a].stage # "running"

\* A running job is claimed when its lease has run out.
ClaimJob(w) ==
  LET a == job.attempts + 1 IN
  /\ job.state \in {"waiting", "running"}
  /\ a <= MaxAttempts /\ report = None /\ Free(w)
  /\ job' = [state |-> "running", attempts |-> a]
  /\ Put(a, [NewAttempt EXCEPT !.stage = "running", !.by = w])
  /\ UNCHANGED <<summarized, website, question, report, spent>>

Holds(a) == job.state = "running" /\ job.attempts = a

\* The stage throws, and the processor retries or fails the job if it can.
StageFails(a) ==
  LET row == attempt[a] IN
  /\ row.stage = "running"
  /\ "dead" \in {row.site, row.quest} \/ {row.site, row.quest} = {"done"}
  /\ Put(a, [row EXCEPT !.stage = "over"])
  /\ \/ UNCHANGED job
     \/ /\ Holds(a)
        /\ \E state \in {"waiting", "failed"} : /\ state = "waiting" => a < MaxAttempts
                                                /\ job' = [job EXCEPT !.state = state]
  /\ UNCHANGED <<summarized, website, question, report, spent>>

\* buildReport and persistReportV4ArtifactPayload, once both branches are done: the
\* lease is not looked at, and a report that is stored is not replaced.
StoreReport(a) ==
  LET row == attempt[a] IN
  /\ row.stage = "running" /\ row.site = "done" /\ row.quest = "done"
  /\ report = None /\ job.state # "failed"
  /\ report' = [result |-> row.result, known |-> row.known,
                analyzed |-> {p \in Page : row.page[p] = "analyzed"}]
  /\ Put(a, [row EXCEPT !.stage = "over"])
  /\ UNCHANGED <<job, summarized, website, question, spent>>

\* A process dies with everything it runs, the branches left behind included.
Crash(w) ==
  /\ \E a \in Attempt : attempt[a].by = w
  /\ attempt' = [a \in Attempt |-> IF attempt[a].by = w THEN OverAttempt ELSE attempt[a]]
  /\ UNCHANGED <<tableVars, spent>>

-----------------------------------------------------------------------------
(* The website branch: synthesizeWebsite.                                   *)

Site(a, pc) == attempt[a].stage # "none" /\ attempt[a].site = pc

\* A step of the branch succeeds, or succeeds and its reply is lost.
SiteTo(a, pc, row) == \E end \in {pc, "dead"} : Put(a, [row EXCEPT !.site = end])
SiteDone(a, result) == SiteTo(a, "done", [attempt[a] EXCEPT !.result = result])

PageTo(a, p, states) == \E s \in states : Put(a, [attempt[a] EXCEPT !.page[p] = s])

\* loadExactSummary, and when there is none one or two calls: an analysis, a page
\* that is unavailable, or another error.
AnalyzePage(a, p) ==
  /\ Site(a, "pages") /\ attempt[a].page[p] = "todo"
  /\ PageTo(a, p, IF p \in summarized THEN {"analyzed", "error"}
                  ELSE {"persist", "unavailable", "error"})
  /\ UNCHANGED <<tableVars, spent>>

\* persistReportV4PageSummary: a row that is there is accepted if the analysis is
\* the same one, and is an error otherwise.
PersistSummary(a, p) ==
  /\ Site(a, "pages") /\ attempt[a].page[p] = "persist"
  /\ summarized' = summarized \cup {p}
  /\ PageTo(a, p, {"analyzed", "error"})
  /\ UNCHANGED <<job, website, question, report, spent>>

\* All pages are settled: an error of one is thrown; with no page analyzed there is
\* nothing to synthesize; otherwise all summaries of the snapshot are loaded, those
\* of other attempts included.
SettlePages(a) ==
  LET states == {attempt[a].page[p] : p \in Page} IN
  /\ Site(a, "pages") /\ {"todo", "persist"} \cap states = {}
  /\ IF "error" \in states THEN Put(a, [attempt[a] EXCEPT !.site = "dead"])
     ELSE IF "analyzed" \in states
          THEN SiteTo(a, "initialize", [attempt[a] EXCEPT !.input = summarized])
          ELSE SiteDone(a, "unavailable")
  /\ UNCHANGED <<tableVars, spent>>

\* A mutant: the row of a core job serves any input.
InitializeAnyInput(a) ==
  /\ Site(a, "initialize")
  /\ \/ /\ website.state = "absent"
        /\ website' = [website EXCEPT !.state = "queued", !.input = attempt[a].input]
        /\ SiteTo(a, "claim", attempt[a])
     \/ /\ website.state # "absent"
        /\ IF website.state = "completed" THEN SiteDone(a, "available")
                                          ELSE SiteTo(a, "claim", attempt[a])
        /\ UNCHANGED website
  /\ UNCHANGED <<job, summarized, question, report, spent>>

\* One row per core job, for the summaries of whoever comes first: other ones are
\* "input authority or lineage drift".
InitializeSynthesis(a) ==
  /\ Site(a, "initialize")
  /\ \/ /\ website.state = "absent"
        /\ website' = [website EXCEPT !.state = "queued", !.input = attempt[a].input]
        /\ SiteTo(a, "claim", attempt[a])
     \/ /\ website.state # "absent" /\ website.input = attempt[a].input
        /\ IF website.state = "completed" THEN SiteDone(a, "available")
                                          ELSE SiteTo(a, "claim", attempt[a])
        /\ UNCHANGED website
  /\ UNCHANGED <<job, summarized, question, report, spent>>

\* A row that is running is taken over when its lease has run out, which no heartbeat
\* prevents.  A call that was made is never made again, whatever became of it.
ClaimSynthesis(a) ==
  /\ Site(a, "claim")
  /\ \/ /\ website.calls = 0
        /\ website' = [website EXCEPT !.state = "running", !.worker = attempt[a].by]
        /\ SiteTo(a, "begin", attempt[a])
     \/ /\ website.state = "completed"
        /\ SiteDone(a, "available")
        /\ UNCHANGED website
  /\ UNCHANGED <<job, summarized, question, report, spent>>

\* The lease names the process, not the attempt.
OwnsSynthesis(a) == website.state = "running" /\ website.worker = attempt[a].by

\* A mutant: the call is authorized without a look at the count.
BeginAgain(a) ==
  /\ Site(a, "begin")
  /\ OwnsSynthesis(a)
  /\ website' = [website EXCEPT !.calls = 1]
  /\ \/ Put(a, [attempt[a] EXCEPT !.site = "call"]) /\ synthesized' = synthesized + 1
     \/ Put(a, [attempt[a] EXCEPT !.site = "dead"]) /\ UNCHANGED synthesized
  /\ UNCHANGED <<job, summarized, question, report, asked>>

BeginProviderCall(a) ==
  /\ Site(a, "begin")
  /\ OwnsSynthesis(a) /\ website.calls = 0
  /\ website' = [website EXCEPT !.calls = 1]
  /\ \/ Put(a, [attempt[a] EXCEPT !.site = "call"]) /\ synthesized' = synthesized + 1
     \/ Put(a, [attempt[a] EXCEPT !.site = "dead"]) /\ UNCHANGED synthesized
  /\ UNCHANGED <<job, summarized, question, report, asked>>

EndedSynthesis(state) == [website EXCEPT !.state = state, !.worker = None]

CompleteSynthesis(a) ==
  /\ Site(a, "call")
  /\ OwnsSynthesis(a) /\ website.calls = 1
  /\ website' = EndedSynthesis("completed")
  /\ SiteDone(a, "available")
  /\ UNCHANGED <<job, summarized, question, report, spent>>

\* A failure of the provider is recorded, and the report goes without a synthesis.
FailSynthesis(a) ==
  /\ Site(a, "call")
  /\ OwnsSynthesis(a) /\ website.calls = 1
  /\ website' = EndedSynthesis("failed")
  /\ SiteDone(a, "unavailable")
  /\ UNCHANGED <<job, summarized, question, report, spent>>

SiteThrows(a) ==
  /\ attempt[a].stage # "none" /\ attempt[a].site \in {"initialize", "claim", "begin", "call"}
  /\ Put(a, [attempt[a] EXCEPT !.site = "dead"])
  /\ UNCHANGED <<tableVars, spent>>

-----------------------------------------------------------------------------
(* The question branch: answerReportV4Questions, one question after another. *)

Quest(a, pc) == attempt[a].stage # "none" /\ attempt[a].quest = pc
Current(a) == attempt[a].known[attempt[a].at]
QuestTo(a, row) == Put(a, row) \/ Put(a, [row EXCEPT !.quest = "dead"])

\* On to the next question with what is known of this one.
Advanced(a, known) ==
  LET row == [attempt[a] EXCEPT !.known[attempt[a].at] = known]
  IN IF row.at < Questions THEN [row EXCEPT !.quest = "turn", !.at = row.at + 1]
                           ELSE [row EXCEPT !.quest = "done"]

\* All rows are read at once: those of the later questions are old when their turn
\* comes.
InitializeQuestions(a) ==
  /\ Quest(a, "initialize")
  /\ Put(a, [attempt[a] EXCEPT !.quest = "turn", !.known = question])
  /\ UNCHANGED <<tableVars, spent>>

ReuseAnswer(a) ==
  /\ Quest(a, "turn") /\ Current(a).state # "open"
  /\ Put(a, Advanced(a, Current(a)))
  /\ UNCHANGED <<tableVars, spent>>

\* A mutant: the count alone is compared.
SameCount(a) == question[attempt[a].at].calls = Current(a).calls

\* Every write asks for an open row with the calls the attempt knows of.
Unchanged(a) == /\ question[attempt[a].at].state = "open"
                /\ question[attempt[a].at].calls = Current(a).calls

Write(a, row) == question' = [question EXCEPT ![attempt[a].at] = row]

\* A mutant: the calls have no limit.
RecordAnyCall(a) ==
  LET row == [Current(a) EXCEPT !.calls = @ + 1] IN
  /\ Quest(a, "turn") /\ Current(a).state = "open"
  /\ Unchanged(a)
  /\ Write(a, row)
  /\ \/ /\ Put(a, [attempt[a] EXCEPT !.quest = "call", !.known[attempt[a].at] = row])
        /\ asked' = [asked EXCEPT ![attempt[a].at] = @ + 1]
     \/ /\ Put(a, [attempt[a] EXCEPT !.quest = "dead"])
        /\ UNCHANGED asked
  /\ UNCHANGED <<job, summarized, website, report, synthesized>>

RecordProviderCall(a) ==
  LET row == [Current(a) EXCEPT !.calls = @ + 1] IN
  /\ Quest(a, "turn") /\ Current(a).state = "open"
  /\ Current(a).calls < MaxCalls
  /\ Unchanged(a)
  /\ Write(a, row)
  /\ \/ /\ Put(a, [attempt[a] EXCEPT !.quest = "call", !.known[attempt[a].at] = row])
        /\ asked' = [asked EXCEPT ![attempt[a].at] = @ + 1]
     \/ /\ Put(a, [attempt[a] EXCEPT !.quest = "dead"])
        /\ UNCHANGED asked
  /\ UNCHANGED <<job, summarized, website, report, synthesized>>

\* The provider failed in passing, or its answer does not parse.
RetryQuestion(a) ==
  /\ Quest(a, "call") /\ Current(a).calls < MaxCalls
  /\ Put(a, [attempt[a] EXCEPT !.quest = "turn"])
  /\ UNCHANGED <<tableVars, spent>>

SaveAnswered(a) ==
  LET row == [Current(a) EXCEPT !.state = "answered", !.answer = a] IN
  /\ Quest(a, "call")
  /\ Unchanged(a)
  /\ Write(a, row)
  /\ QuestTo(a, Advanced(a, row))
  /\ UNCHANGED <<job, summarized, website, report, spent>>

\* At its turn: the calls are used up, or the question is over the token budget.  After
\* a call: the provider refuses it, fails for good, or fails at the last call.
GivesUp(a) == Quest(a, "call") \/ (Quest(a, "turn") /\ Current(a).state = "open")

MarkUnavailable(a) ==
  LET row == [Current(a) EXCEPT !.state = "unavailable"] IN
  /\ GivesUp(a)
  /\ Unchanged(a)
  /\ Write(a, row)
  /\ QuestTo(a, Advanced(a, row))
  /\ UNCHANGED <<job, summarized, website, report, spent>>

QuestThrows(a) ==
  /\ attempt[a].stage # "none" /\ ~Settled(attempt[a].quest)
  /\ Put(a, [attempt[a] EXCEPT !.quest = "dead"])
  /\ UNCHANGED <<tableVars, spent>>

-----------------------------------------------------------------------------
SiteStep(a) == \/ \E p \in Page : AnalyzePage(a, p) \/ PersistSummary(a, p)
               \/ SettlePages(a) \/ InitializeSynthesis(a) \/ ClaimSynthesis(a)
               \/ BeginProviderCall(a) \/ CompleteSynthesis(a) \/ FailSynthesis(a) \/ SiteThrows(a)

QuestStep(a) == \/ InitializeQuestions(a) \/ ReuseAnswer(a) \/ RecordProviderCall(a)
                \/ RetryQuestion(a) \/ SaveAnswered(a) \/ MarkUnavailable(a) \/ QuestThrows(a)

Next == \/ \E w \in Worker : ClaimJob(w) \/ Crash(w)
        \/ \E a \in Attempt : SiteStep(a) \/ QuestStep(a) \/ StoreReport(a) \/ StageFails(a)

Spec == Init /\ [][Next]_vars

-----------------------------------------------------------------------------
(* Properties.                                                              *)

TypeOK == /\ job \in JobRow
          /\ summarized \subseteq Page
          /\ website \in WebsiteRow
          /\ question \in [Question -> QuestionRow]
          /\ report \in ReportRow \cup {None}
          /\ attempt \in [Attempt -> AttemptRow]
          /\ asked \in [Question -> Nat] /\ synthesized \in Nat

\* However many attempts and branches left behind there are, the providers are paid
\* for at most two answers of a question and one synthesis of the website
\* (REPORT-V4-COVERAGE-MATRIX.md:17, "at most one local retry").
ProviderBudget == /\ \A q \in Question : asked[q] <= MaxCalls
                  /\ synthesized <= 1

\* What any attempt has taken for the result of a question is what its checkpoint
\* says for ever: no two attempts can tell the customer different answers.
AttemptsAgree ==
  \A a \in Attempt, q \in Question :
    attempt[a].known[q].state # "open" => attempt[a].known[q] = question[q]

\* The stored report is what the checkpoints hold: every question is decided as
\* there, a synthesis is the one that was completed, from all the pages the report
\* calls analyzed, and it is missing only after the one call for it failed.
ReportIsCheckpointed ==
  report # None =>
    /\ \A q \in Question : report.known[q] = question[q] /\ question[q].state # "open"
    /\ report.result = "available" => website.state = "completed" /\ report.analyzed \subseteq website.input
    /\ report.result = "unavailable" /\ report.analyzed # {} => website.state = "failed"
=============================================================================
