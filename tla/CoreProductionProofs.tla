------------------------ MODULE CoreProductionProofs ------------------------
(***************************************************************************)
(* For any number of attempts, processes, pages and questions: the providers  *)
(* are never called beyond the budget, all attempts hold the same answers,   *)
(* and the report that is stored is what the checkpoints hold.               *)
(***************************************************************************)
EXTENDS CoreProduction, TLAPS

Analyzed(row) == {p \in Page : row.page[p] = "analyzed"}

\* What the website branch of an attempt knows of the summaries s and of the row w of
\* the synthesis: it synthesizes from all the pages it calls analyzed, and what it
\* has as its result the row says too.
SiteInv(row, s, w) ==
  /\ row.site = "pages" => Analyzed(row) \subseteq s
  /\ row.site \in {"initialize", "claim", "begin", "call"} => Analyzed(row) \subseteq row.input
  /\ row.site \in {"claim", "begin", "call"} => w.state # "absent" /\ row.input = w.input
  /\ row.site = "done" /\ row.result = "available" =>
       w.state = "completed" /\ Analyzed(row) \subseteq w.input
  /\ row.site = "done" /\ row.result = "unavailable" /\ Analyzed(row) # {} => w.state = "failed"

\* What the question branch knows of the rows qs: the questions behind it are decided.
QuestInv(row, qs) ==
  /\ \A q \in Question : row.known[q].state # "open" => row.known[q] = qs[q]
  /\ row.quest = "initialize" => row.at = 1
  /\ row.quest = "call" => row.known[row.at].state = "open"
  /\ row.quest \in {"turn", "call"} => \A q \in Question : q < row.at => row.known[q].state # "open"
  /\ row.quest = "done" => \A q \in Question : row.known[q].state # "open"

RowsInv == \A a \in Attempt : /\ SiteInv(attempt[a], summarized, website)
                              /\ QuestInv(attempt[a], question)

\* A call is counted in its checkpoint before it is made.
CountsInv == /\ website.state \in {"completed", "failed"} => website.calls = 1
             /\ synthesized <= website.calls
             /\ \A q \in Question : asked[q] <= question[q].calls

IInv == TypeOK /\ RowsInv /\ CountsInv /\ ReportIsCheckpointed

\* No step takes back a summary, the input of the synthesis or its end, or what was
\* decided of a question.
Forward ==
  /\ summarized \subseteq summarized'
  /\ website.state # "absent" => website'.state # "absent" /\ website'.input = website.input
  /\ website.state \in {"completed", "failed"} => website'.state = website.state
  /\ \A q \in Question : question[q].state # "open" => question'[q] = question[q]

-----------------------------------------------------------------------------
\* The first question exists.
LEMMA FirstQuestion == 1 \in Question /\ Questions \in Nat
BY QuestionsAssumption DEF Question

\* The rows that an attempt begins and ends with.
LEMMA FreshRows == /\ NewAttempt \in AttemptRow /\ OverAttempt \in AttemptRow
                   /\ \A s, w : SiteInv(NewAttempt, s, w) /\ SiteInv(OverAttempt, s, w)
                   /\ \A qs : QuestInv(NewAttempt, qs) /\ QuestInv(OverAttempt, qs)
<1>1. OpenQuestion \in QuestionRow /\ Unasked \in [Question -> QuestionRow]
  BY AttemptsAssumption DEF OpenQuestion, QuestionRow, Unasked, MaxCalls
<1>2. NewAttempt \in AttemptRow
  BY <1>1, FirstQuestion DEF NewAttempt, AttemptRow, PageState, SiteResult
<1>3. OverAttempt \in AttemptRow
  BY <1>2 DEF OverAttempt, AttemptRow
<1>4. /\ NewAttempt.site = "pages" /\ OverAttempt.site = "dead" /\ Analyzed(NewAttempt) = {}
      /\ NewAttempt.quest = "initialize" /\ NewAttempt.at = 1 /\ OverAttempt.quest = "dead"
      /\ NewAttempt.known = Unasked /\ OverAttempt.known = Unasked
  BY DEF NewAttempt, OverAttempt, Analyzed
<1>5. \A q \in Question : Unasked[q].state = "open"
  BY DEF Unasked, OpenQuestion
<1>6. \A s, w : SiteInv(NewAttempt, s, w) /\ SiteInv(OverAttempt, s, w)
  BY <1>4 DEF SiteInv
<1>7. \A qs : QuestInv(NewAttempt, qs) /\ QuestInv(OverAttempt, qs)
  BY <1>4, <1>5 DEF QuestInv
<1> QED BY <1>2, <1>3, <1>6, <1>7

\* Forgetting what a branch held breaks nothing.
LEMMA LeftKeeps == ASSUME NEW row \in AttemptRow
                   PROVE  /\ Left(row) \in AttemptRow /\ Left(row).stage = row.stage
                          /\ \A s, w : SiteInv(row, s, w) => SiteInv(Left(row), s, w)
                          /\ \A qs : QuestInv(row, qs) => QuestInv(Left(row), qs)
<1>1. NewAttempt \in AttemptRow
  BY FreshRows
<1> DEFINE dead == [NewAttempt EXCEPT !.site = "dead"]
           mute == [NewAttempt EXCEPT !.quest = "dead"]
<1>2. dead \in AttemptRow /\ dead.site = "dead" /\ mute \in AttemptRow /\ mute.quest = "dead"
  BY <1>1 DEF AttemptRow
<1>3. /\ SiteLeft(row) \in AttemptRow /\ (SiteLeft(row) = row \/ SiteLeft(row).site = "dead")
      /\ QuestLeft(row) \in AttemptRow /\ (QuestLeft(row) = row \/ QuestLeft(row) = mute)
  BY <1>2 DEF SiteLeft, QuestLeft
<1>4. /\ Left(row) \in AttemptRow /\ Left(row).stage = row.stage
      /\ Left(row).site = SiteLeft(row).site /\ Left(row).page = SiteLeft(row).page
      /\ Left(row).input = SiteLeft(row).input /\ Left(row).result = SiteLeft(row).result
      /\ Left(row).quest = QuestLeft(row).quest /\ Left(row).at = QuestLeft(row).at
      /\ Left(row).known = QuestLeft(row).known
  BY <1>3 DEF Left, AttemptRow
<1>5. ASSUME NEW s, NEW w, SiteInv(row, s, w) PROVE SiteInv(Left(row), s, w)
  BY <1>3, <1>4, <1>5 DEF SiteInv, Analyzed
<1>6. mute.known = Unasked /\ \A q \in Question : Unasked[q].state = "open"
  BY DEF NewAttempt, Unasked, OpenQuestion
<1>7. ASSUME NEW qs, QuestInv(row, qs) PROVE QuestInv(Left(row), qs)
  <2>1. CASE QuestLeft(row) = row
    BY <2>1, <1>4, <1>7 DEF QuestInv
  <2>2. CASE QuestLeft(row) = mute
    <3>1. Left(row).quest = "dead" /\ Left(row).known = Unasked
      BY <2>2, <1>2, <1>4, <1>6
    <3> QED BY <3>1, <1>6 DEF QuestInv
  <2> QED BY <2>1, <2>2, <1>3
<1> QED BY <1>4, <1>5, <1>7

\* What an attempt knows stays true while others move forward.
LEMMA StaysTrue == ASSUME IInv, Forward, NEW a \in Attempt
                   PROVE  /\ SiteInv(attempt[a], summarized', website')
                          /\ QuestInv(attempt[a], question')
<1>1. /\ SiteInv(attempt[a], summarized, website) /\ QuestInv(attempt[a], question)
      /\ attempt[a].known \in [Question -> QuestionRow] /\ attempt[a].at \in Question
  BY DEF IInv, RowsInv, TypeOK, AttemptRow
<1>2. SiteInv(attempt[a], summarized', website')
  BY <1>1 DEF SiteInv, Forward
<1>3. QuestInv(attempt[a], question')
  BY <1>1 DEF QuestInv, Forward
<1> QED BY <1>2, <1>3

\* Hence a step has to show that only of the row it puts.
LEMMA PutKeeps == ASSUME IInv, Forward, NEW a \in Attempt, NEW row \in AttemptRow, Put(a, row),
                         SiteInv(row, summarized', website'), QuestInv(row, question')
                  PROVE  attempt' \in [Attempt -> AttemptRow] /\ RowsInv'
<1>1. /\ Left(row) \in AttemptRow
      /\ SiteInv(Left(row), summarized', website') /\ QuestInv(Left(row), question')
  BY LeftKeeps
<1>2. /\ attempt' \in [Attempt -> AttemptRow] /\ attempt'[a] = Left(row)
      /\ \A b \in Attempt \ {a} : attempt'[b] = attempt[b]
  BY <1>1 DEF Put, IInv, TypeOK
<1>3. ASSUME NEW b \in Attempt
      PROVE  SiteInv(attempt'[b], summarized', website') /\ QuestInv(attempt'[b], question')
  BY <1>1, <1>2, StaysTrue
<1> QED BY <1>2, <1>3 DEF RowsInv

\* A branch that is not the one that moves has nothing to show either.
LEMMA SiteMoves == ASSUME IInv, Forward, NEW a \in Attempt, NEW row \in AttemptRow, Put(a, row),
                          row.quest = attempt[a].quest, row.at = attempt[a].at,
                          row.known = attempt[a].known, SiteInv(row, summarized', website')
                   PROVE  attempt' \in [Attempt -> AttemptRow] /\ RowsInv'
<1>1. QuestInv(row, question')
  BY StaysTrue DEF QuestInv
<1> QED BY <1>1, PutKeeps

\* The same for the question branch.
LEMMA QuestMoves == ASSUME IInv, Forward, NEW a \in Attempt, NEW row \in AttemptRow, Put(a, row),
                           row.site = attempt[a].site, row.page = attempt[a].page,
                           row.input = attempt[a].input, row.result = attempt[a].result,
                           QuestInv(row, question')
                    PROVE  attempt' \in [Attempt -> AttemptRow] /\ RowsInv'
<1>1. SiteInv(row, summarized', website')
  BY StaysTrue DEF SiteInv, Analyzed
<1> QED BY <1>1, PutKeeps

\* A report that is stored stays what the checkpoints hold.
LEMMA ReportKeeps == ASSUME IInv, Forward, report' = report
                     PROVE  ReportIsCheckpointed'
<1>1. report # None => \A q \in Question : report.known[q] = question'[q] /\ question'[q].state # "open"
  BY DEF IInv, ReportIsCheckpointed, Forward
<1>2. report # None /\ report.result = "available" =>
        website'.state = "completed" /\ report.analyzed \subseteq website'.input
  BY DEF IInv, ReportIsCheckpointed, Forward
<1>3. report # None /\ report.result = "unavailable" /\ report.analyzed # {} => website'.state = "failed"
  BY DEF IInv, ReportIsCheckpointed, Forward
<1> QED BY <1>1, <1>2, <1>3 DEF ReportIsCheckpointed

-----------------------------------------------------------------------------
(* One lemma for the steps of each kind.                                    *)

\* A claim, the end of a stage and a crash leave every checkpoint alone.
LEMMA QuietSteps ==
  ASSUME IInv, UNCHANGED <<summarized, website, question>>
  PROVE  /\ Forward
         /\ (asked' = asked /\ synthesized' = synthesized) => CountsInv'
BY DEF Forward, IInv, CountsInv

\* A new attempt knows nothing yet.
LEMMA ClaimJobKeeps == ASSUME IInv, NEW w \in Worker, ClaimJob(w) PROVE IInv' /\ Forward
<1> DEFINE a == job.attempts + 1
           row == [NewAttempt EXCEPT !.stage = "running", !.by = w]
<1>1. /\ a \in Attempt /\ Put(a, row) /\ job' = [state |-> "running", attempts |-> a]
      /\ UNCHANGED <<summarized, website, question, report, spent>>
  BY AttemptsAssumption DEF ClaimJob, IInv, TypeOK, JobRow, Attempt
<1>2. Forward /\ CountsInv' /\ ReportIsCheckpointed'
  BY <1>1, QuietSteps, ReportKeeps DEF spent
<1>3. row \in AttemptRow /\ SiteInv(row, summarized', website') /\ QuestInv(row, question')
  <2>1. /\ row \in AttemptRow /\ row.site = NewAttempt.site /\ row.page = NewAttempt.page
        /\ row.input = NewAttempt.input /\ row.result = NewAttempt.result
        /\ row.quest = NewAttempt.quest /\ row.at = NewAttempt.at /\ row.known = NewAttempt.known
    BY FreshRows DEF AttemptRow
  <2>2. SiteInv(NewAttempt, summarized', website') /\ QuestInv(NewAttempt, question')
    BY FreshRows
  <2> QED BY <2>1, <2>2 DEF SiteInv, QuestInv, Analyzed
<1>4. attempt' \in [Attempt -> AttemptRow] /\ RowsInv'
  <2> HIDE DEF row, a
  <2> QED BY <1>1, <1>2, <1>3, PutKeeps
<1>5. job' \in JobRow
  BY <1>1 DEF JobRow, Attempt
<1>6. TypeOK'
  BY <1>1, <1>4, <1>5 DEF TypeOK, IInv, spent
<1> QED BY <1>2, <1>4, <1>6 DEF IInv

\* A stage that throws leaves its branches where they are.
LEMMA StageFailsKeeps == ASSUME IInv, NEW a \in Attempt, StageFails(a) PROVE IInv' /\ Forward
<1> DEFINE row == [attempt[a] EXCEPT !.stage = "over"]
<1>1. Put(a, row) /\ UNCHANGED <<summarized, website, question, report, spent>>
  BY DEF StageFails
<1>2. Forward /\ CountsInv' /\ ReportIsCheckpointed'
  BY <1>1, QuietSteps, ReportKeeps DEF spent
<1>3. attempt' \in [Attempt -> AttemptRow] /\ RowsInv'
  <2>1. /\ row \in AttemptRow /\ row.site = attempt[a].site /\ row.page = attempt[a].page
        /\ row.input = attempt[a].input /\ row.result = attempt[a].result
        /\ row.quest = attempt[a].quest /\ row.at = attempt[a].at /\ row.known = attempt[a].known
    BY DEF IInv, TypeOK, AttemptRow
  <2>2. QuestInv(row, question')
    BY <2>1, <1>2, StaysTrue DEF QuestInv
  <2> HIDE DEF row
  <2> QED BY <2>1, <2>2, <1>1, <1>2, QuestMoves
<1>4. job' \in JobRow
  BY DEF StageFails, IInv, TypeOK, JobRow
<1>5. TypeOK'
  BY <1>1, <1>3, <1>4 DEF TypeOK, IInv, spent
<1> QED BY <1>2, <1>3, <1>5 DEF IInv

\* What both branches have is what the checkpoints hold when the report is stored.
LEMMA StoreReportKeeps == ASSUME IInv, NEW a \in Attempt, StoreReport(a) PROVE IInv' /\ Forward
<1> DEFINE row == [attempt[a] EXCEPT !.stage = "over"]
<1>1. /\ Put(a, row) /\ UNCHANGED <<job, summarized, website, question, spent>>
      /\ attempt[a].site = "done" /\ attempt[a].quest = "done"
      /\ report' = [result |-> attempt[a].result, known |-> attempt[a].known,
                    analyzed |-> Analyzed(attempt[a])]
  BY DEF StoreReport, Analyzed
<1>2. Forward /\ CountsInv'
  BY <1>1, QuietSteps DEF spent
<1>3. attempt' \in [Attempt -> AttemptRow] /\ RowsInv'
  <2>1. /\ row \in AttemptRow /\ row.site = attempt[a].site /\ row.page = attempt[a].page
        /\ row.input = attempt[a].input /\ row.result = attempt[a].result
        /\ row.quest = attempt[a].quest /\ row.at = attempt[a].at /\ row.known = attempt[a].known
    BY DEF IInv, TypeOK, AttemptRow
  <2>2. QuestInv(row, question')
    BY <2>1, <1>2, StaysTrue DEF QuestInv
  <2> HIDE DEF row
  <2> QED BY <2>1, <2>2, <1>1, <1>2, QuestMoves
<1>4. SiteInv(attempt[a], summarized', website') /\ QuestInv(attempt[a], question')
  BY <1>2, StaysTrue
<1>5. ReportIsCheckpointed'
  <2>1. /\ report'.known = attempt[a].known /\ report'.result = attempt[a].result
        /\ report'.analyzed = Analyzed(attempt[a])
    BY <1>1
  <2>2. \A q \in Question : report'.known[q] = question'[q] /\ question'[q].state # "open"
    BY <1>1, <1>4, <2>1 DEF QuestInv
  <2>3. report'.result = "available" =>
          website'.state = "completed" /\ report'.analyzed \subseteq website'.input
    BY <1>1, <1>4, <2>1 DEF SiteInv
  <2>4. report'.result = "unavailable" /\ report'.analyzed # {} => website'.state = "failed"
    BY <1>1, <1>4, <2>1 DEF SiteInv
  <2> QED BY <2>2, <2>3, <2>4 DEF ReportIsCheckpointed
<1>6. report' \in ReportRow
  <2>1. attempt[a] \in AttemptRow /\ Analyzed(attempt[a]) \subseteq Page
    BY DEF IInv, TypeOK, Analyzed
  <2> QED BY <1>1, <2>1 DEF AttemptRow, ReportRow
<1>7. TypeOK'
  BY <1>1, <1>3, <1>6 DEF TypeOK, IInv, spent
<1> QED BY <1>2, <1>3, <1>5, <1>7 DEF IInv

\* A process that dies forgets everything.
LEMMA CrashKeeps == ASSUME IInv, NEW w \in Worker, Crash(w) PROVE IInv' /\ Forward
<1>1. Forward /\ CountsInv' /\ ReportIsCheckpointed'
  BY QuietSteps, ReportKeeps DEF Crash, tableVars, spent
<1>2. attempt' = [a \in Attempt |-> IF attempt[a].by = w THEN OverAttempt ELSE attempt[a]]
  BY DEF Crash
<1>3. RowsInv'
  <2>1. ASSUME NEW a \in Attempt
        PROVE  SiteInv(attempt'[a], summarized', website') /\ QuestInv(attempt'[a], question')
    <3>1. attempt'[a] = OverAttempt \/ attempt'[a] = attempt[a]
      BY <1>2
    <3> QED BY <3>1, <1>1, FreshRows, StaysTrue
  <2> QED BY <2>1 DEF RowsInv
<1>4. TypeOK'
  <2>1. attempt' \in [Attempt -> AttemptRow]
    BY <1>2, FreshRows DEF IInv, TypeOK
  <2> QED BY <2>1 DEF Crash, IInv, TypeOK, tableVars, spent
<1> QED BY <1>1, <1>3, <1>4 DEF IInv

-----------------------------------------------------------------------------
(* The website branch.                                                      *)

\* The row of a branch that moves on, with the memory it had: it is typed, and its
\* question branch is untouched.
LEMMA SiteRow == ASSUME IInv, NEW a \in Attempt,
                        NEW pc \in {"pages", "initialize", "claim", "begin", "call", "done", "dead"}
                 PROVE  LET row == [attempt[a] EXCEPT !.site = pc] IN
                        /\ row \in AttemptRow /\ row.site = pc
                        /\ row.page = attempt[a].page /\ row.input = attempt[a].input
                        /\ row.result = attempt[a].result /\ row.quest = attempt[a].quest
                        /\ row.at = attempt[a].at /\ row.known = attempt[a].known
BY DEF IInv, TypeOK, AttemptRow

\* A step of the website branch that touches neither questions nor report.
LEMMA SiteStepKeeps ==
  ASSUME IInv, Forward, UNCHANGED <<job, question, report, asked>>,
         summarized' \subseteq Page, website' \in WebsiteRow, synthesized' \in Nat,
         website'.state \in {"completed", "failed"} => website'.calls = 1,
         synthesized' <= website'.calls,
         attempt' \in [Attempt -> AttemptRow], RowsInv'
  PROVE  IInv' /\ Forward
<1>1. ReportIsCheckpointed'
  BY ReportKeeps
<1>2. CountsInv'
  BY DEF IInv, CountsInv
<1>3. TypeOK'
  BY DEF IInv, TypeOK
<1> QED BY <1>1, <1>2, <1>3 DEF IInv

\* A step of it that writes nothing.
LEMMA SiteReadKeeps ==
  ASSUME IInv, UNCHANGED <<tableVars, spent>>, attempt' \in [Attempt -> AttemptRow], RowsInv'
  PROVE  IInv' /\ Forward
<1>1. Forward
  BY QuietSteps DEF tableVars
<1> QED BY <1>1, SiteStepKeeps DEF IInv, TypeOK, CountsInv, tableVars, spent

\* A page is called analyzed only with its summary stored.
LEMMA PageMoves ==
  ASSUME IInv, Forward, NEW a \in Attempt, NEW p \in Page, NEW s \in PageState,
         Site(a, "pages"), Put(a, [attempt[a] EXCEPT !.page[p] = s]),
         s = "analyzed" => p \in summarized', question' = question
  PROVE  attempt' \in [Attempt -> AttemptRow] /\ RowsInv'
<1> DEFINE page == [attempt[a].page EXCEPT ![p] = s]
           row == [attempt[a] EXCEPT !.page = page]
<1>1. attempt[a] \in AttemptRow /\ attempt[a].page \in [Page -> PageState]
  BY DEF IInv, TypeOK, AttemptRow
<1>2. Put(a, row) /\ page \in [Page -> PageState]
  BY <1>1
<1>3. /\ row \in AttemptRow /\ row.page = page /\ row.site = "pages"
      /\ row.quest = attempt[a].quest /\ row.at = attempt[a].at /\ row.known = attempt[a].known
  BY <1>1, <1>2 DEF AttemptRow, Site
<1>4. Analyzed(attempt[a]) \subseteq summarized'
  BY StaysTrue DEF SiteInv, Site
<1>5. Analyzed(row) \subseteq Analyzed(attempt[a]) \cup (IF s = "analyzed" THEN {p} ELSE {})
  BY <1>1, <1>3 DEF Analyzed
<1>6. SiteInv(row, summarized', website')
  BY <1>3, <1>4, <1>5 DEF SiteInv
<1> HIDE DEF row
<1> QED BY <1>2, <1>3, <1>6, SiteMoves

\* An analysis or its failure.
LEMMA AnalyzePageKeeps == ASSUME IInv, NEW a \in Attempt, NEW p \in Page, AnalyzePage(a, p)
                          PROVE  IInv' /\ Forward
<1>1. Site(a, "pages") /\ UNCHANGED <<tableVars, spent>>
  BY DEF AnalyzePage
<1>2. PICK s \in PageState : /\ Put(a, [attempt[a] EXCEPT !.page[p] = s])
                             /\ s = "analyzed" => p \in summarized
  BY DEF AnalyzePage, PageTo, PageState
<1>3. Forward
  BY <1>1, QuietSteps DEF tableVars
<1> QED BY <1>1, <1>2, <1>3, PageMoves, SiteReadKeeps DEF tableVars

\* A summary is stored, and the page analyzed or its write in doubt.
LEMMA PersistSummaryKeeps == ASSUME IInv, NEW a \in Attempt, NEW p \in Page, PersistSummary(a, p)
                             PROVE  IInv' /\ Forward
<1>1. /\ Site(a, "pages") /\ summarized' = summarized \cup {p}
      /\ UNCHANGED <<job, website, question, report, spent>>
  BY DEF PersistSummary
<1>2. PICK s \in PageState : Put(a, [attempt[a] EXCEPT !.page[p] = s])
  BY DEF PersistSummary, PageTo, PageState
<1>3. Forward
  BY <1>1 DEF Forward
<1>4. attempt' \in [Attempt -> AttemptRow] /\ RowsInv'
  BY <1>1, <1>2, <1>3, PageMoves
<1> QED BY <1>1, <1>3, <1>4, SiteStepKeeps DEF IInv, TypeOK, CountsInv, spent

\* The branch takes all the summaries there are, or goes without a synthesis, or throws.
LEMMA SettlePagesKeeps == ASSUME IInv, NEW a \in Attempt, SettlePages(a)
                          PROVE  IInv' /\ Forward
<1> DEFINE states == {attempt[a].page[p] : p \in Page}
<1>1. Site(a, "pages") /\ UNCHANGED <<tableVars, spent>> /\ attempt[a] \in AttemptRow
  BY DEF SettlePages, IInv, TypeOK
<1>2. Forward
  BY <1>1, QuietSteps DEF tableVars
<1>3. Analyzed(attempt[a]) \subseteq summarized /\ summarized \subseteq Page
  BY <1>1 DEF IInv, RowsInv, SiteInv, Site, TypeOK
<1>4. CASE Put(a, [attempt[a] EXCEPT !.site = "dead"])
  <2> DEFINE row == [attempt[a] EXCEPT !.site = "dead"]
  <2>1. /\ row \in AttemptRow /\ row.site = "dead" /\ row.quest = attempt[a].quest
        /\ row.at = attempt[a].at /\ row.known = attempt[a].known
    BY SiteRow
  <2>2. Put(a, row) /\ SiteInv(row, summarized', website')
    BY <1>4, <2>1 DEF SiteInv
  <2> HIDE DEF row
  <2> QED BY <2>1, <2>2, <1>1, <1>2, SiteMoves, SiteReadKeeps DEF tableVars
<1>5. CASE SiteTo(a, "initialize", [attempt[a] EXCEPT !.input = summarized])
  <2>1. PICK end \in {"initialize", "dead"} :
          Put(a, [[attempt[a] EXCEPT !.input = summarized] EXCEPT !.site = end])
    BY <1>5 DEF SiteTo
  <2> DEFINE row == [[attempt[a] EXCEPT !.input = summarized] EXCEPT !.site = end]
  <2>2. /\ row \in AttemptRow /\ row.site = end /\ row.page = attempt[a].page
        /\ row.input = summarized /\ row.quest = attempt[a].quest
        /\ row.at = attempt[a].at /\ row.known = attempt[a].known
    BY <1>1, <1>3 DEF AttemptRow
  <2>3. Put(a, row) /\ SiteInv(row, summarized', website')
    BY <2>1, <2>2, <1>3 DEF SiteInv, Analyzed
  <2> HIDE DEF row
  <2> QED BY <2>2, <2>3, <1>1, <1>2, SiteMoves, SiteReadKeeps DEF tableVars
<1>6. CASE "analyzed" \notin states /\ SiteDone(a, "unavailable")
  <2>1. PICK end \in {"done", "dead"} :
          Put(a, [[attempt[a] EXCEPT !.result = "unavailable"] EXCEPT !.site = end])
    BY <1>6 DEF SiteTo, SiteDone
  <2> DEFINE row == [[attempt[a] EXCEPT !.result = "unavailable"] EXCEPT !.site = end]
  <2>2. /\ row \in AttemptRow /\ row.site = end /\ row.page = attempt[a].page
        /\ row.result = "unavailable" /\ row.quest = attempt[a].quest
        /\ row.at = attempt[a].at /\ row.known = attempt[a].known
    BY <1>1 DEF AttemptRow, SiteResult
  <2>3. Analyzed(row) = {}
    BY <1>6, <2>2 DEF Analyzed
  <2>4. Put(a, row) /\ SiteInv(row, summarized', website')
    BY <2>1, <2>2, <2>3 DEF SiteInv
  <2> HIDE DEF row
  <2> QED BY <2>2, <2>4, <1>1, <1>2, SiteMoves, SiteReadKeeps DEF tableVars
<1> QED BY <1>4, <1>5, <1>6 DEF SettlePages

\* The branch throws.
LEMMA ThrowMoves == ASSUME IInv, Forward, NEW a \in Attempt, question' = question,
                           Put(a, [attempt[a] EXCEPT !.site = "dead"])
                    PROVE  attempt' \in [Attempt -> AttemptRow] /\ RowsInv'
<1> DEFINE row == [attempt[a] EXCEPT !.site = "dead"]
<1>1. /\ row \in AttemptRow /\ row.site = "dead" /\ row.quest = attempt[a].quest
      /\ row.at = attempt[a].at /\ row.known = attempt[a].known
  BY SiteRow
<1>2. Put(a, row) /\ SiteInv(row, summarized', website')
  BY <1>1 DEF SiteInv
<1> HIDE DEF row
<1> QED BY <1>1, <1>2, SiteMoves

\* It goes on with the input that the row has.
LEMMA GoesOn == ASSUME IInv, Forward, NEW a \in Attempt, question' = question,
                       NEW pc \in {"claim", "begin", "call"},
                       Put(a, [attempt[a] EXCEPT !.site = pc]),
                       attempt[a].site \in {"initialize", "claim", "begin", "call"},
                       website'.state # "absent", attempt[a].input = website'.input
                PROVE  attempt' \in [Attempt -> AttemptRow] /\ RowsInv'
<1> DEFINE row == [attempt[a] EXCEPT !.site = pc]
<1>1. /\ row \in AttemptRow /\ row.site = pc /\ row.page = attempt[a].page
      /\ row.input = attempt[a].input /\ row.quest = attempt[a].quest
      /\ row.at = attempt[a].at /\ row.known = attempt[a].known
  BY DEF IInv, TypeOK, AttemptRow
<1>2. Put(a, row) /\ SiteInv(row, summarized', website')
  BY <1>1, StaysTrue DEF SiteInv, Analyzed
<1> HIDE DEF row
<1> QED BY <1>1, <1>2, SiteMoves

\* It ends with what the row says.
LEMMA DoneMoves == ASSUME IInv, Forward, NEW a \in Attempt, question' = question,
                          NEW result \in {"available", "unavailable"}, SiteDone(a, result),
                          attempt[a].site \in {"initialize", "claim", "begin", "call"},
                          attempt[a].input = website'.input,
                          result = "available" => website'.state = "completed",
                          result = "unavailable" => website'.state = "failed"
                   PROVE  attempt' \in [Attempt -> AttemptRow] /\ RowsInv'
<1>1. PICK end \in {"done", "dead"} :
        Put(a, [[attempt[a] EXCEPT !.result = result] EXCEPT !.site = end])
  BY DEF SiteTo, SiteDone
<1> DEFINE row == [[attempt[a] EXCEPT !.result = result] EXCEPT !.site = end]
<1>2. /\ row \in AttemptRow /\ row.site = end /\ row.page = attempt[a].page
      /\ row.result = result /\ row.quest = attempt[a].quest
      /\ row.at = attempt[a].at /\ row.known = attempt[a].known
  BY DEF IInv, TypeOK, AttemptRow, SiteResult
<1>3. Put(a, row) /\ SiteInv(row, summarized', website')
  BY <1>1, <1>2, StaysTrue DEF SiteInv, Analyzed
<1> HIDE DEF row
<1> QED BY <1>2, <1>3, SiteMoves

\* SiteTo without a new result goes on or throws.
LEMMA GoesOnOrThrows == ASSUME IInv, Forward, NEW a \in Attempt, question' = question,
                               NEW pc \in {"claim", "begin"}, SiteTo(a, pc, attempt[a]),
                               attempt[a].site \in {"initialize", "claim"},
                               website'.state # "absent", attempt[a].input = website'.input
                        PROVE  attempt' \in [Attempt -> AttemptRow] /\ RowsInv'
<1>1. PICK end \in {pc, "dead"} : Put(a, [attempt[a] EXCEPT !.site = end])
  BY DEF SiteTo
<1>2. CASE end = pc
  BY <1>1, <1>2, GoesOn
<1>3. CASE end = "dead"
  BY <1>1, <1>3, ThrowMoves
<1> QED BY <1>2, <1>3

\* The first one to come fixes the input, and the others find it or throw.
LEMMA InitializeSynthesisKeeps == ASSUME IInv, NEW a \in Attempt, InitializeSynthesis(a)
                                  PROVE  IInv' /\ Forward
<1>1. /\ attempt[a].site = "initialize" /\ UNCHANGED <<job, summarized, question, report, spent>>
      /\ website \in WebsiteRow /\ attempt[a].input \subseteq Page
  BY DEF InitializeSynthesis, Site, IInv, TypeOK, AttemptRow
<1>2. CASE /\ website.state = "absent"
           /\ website' = [website EXCEPT !.state = "queued", !.input = attempt[a].input]
           /\ SiteTo(a, "claim", attempt[a])
  <2>1. /\ website' \in WebsiteRow /\ website'.state = "queued"
        /\ website'.input = attempt[a].input /\ website'.calls = website.calls
    BY <1>1, <1>2 DEF WebsiteRow
  <2>2. Forward
    BY <1>1, <1>2 DEF Forward
  <2>3. attempt' \in [Attempt -> AttemptRow] /\ RowsInv'
    BY <1>1, <1>2, <2>1, <2>2, GoesOnOrThrows
  <2> QED BY <1>1, <2>1, <2>2, <2>3, SiteStepKeeps DEF IInv, TypeOK, CountsInv, spent
<1>3. CASE /\ website.state # "absent" /\ website.input = attempt[a].input
           /\ website.state # "completed" /\ SiteTo(a, "claim", attempt[a])
           /\ UNCHANGED website
  <2>1. Forward
    BY <1>1, <1>3 DEF Forward
  <2>2. attempt' \in [Attempt -> AttemptRow] /\ RowsInv'
    BY <1>1, <1>3, <2>1, GoesOnOrThrows
  <2> QED BY <1>1, <1>3, <2>2, SiteReadKeeps DEF tableVars, spent
<1>4. CASE /\ website.state # "absent" /\ website.input = attempt[a].input
           /\ website.state = "completed" /\ SiteDone(a, "available")
           /\ UNCHANGED website
  <2>1. Forward
    BY <1>1, <1>4 DEF Forward
  <2>2. attempt' \in [Attempt -> AttemptRow] /\ RowsInv'
    BY <1>1, <1>4, <2>1, DoneMoves
  <2> QED BY <1>1, <1>4, <2>2, SiteReadKeeps DEF tableVars, spent
<1> QED BY <1>2, <1>3, <1>4 DEF InitializeSynthesis

\* A row whose call was made is not claimed.
LEMMA ClaimSynthesisKeeps == ASSUME IInv, NEW a \in Attempt, ClaimSynthesis(a)
                             PROVE  IInv' /\ Forward
<1>1. /\ attempt[a].site = "claim" /\ UNCHANGED <<job, summarized, question, report, spent>>
      /\ website \in WebsiteRow /\ attempt[a].by \in Worker \cup {None}
      /\ website.state # "absent" /\ attempt[a].input = website.input
  BY DEF ClaimSynthesis, Site, IInv, TypeOK, AttemptRow, RowsInv, SiteInv
<1>2. CASE /\ website.calls = 0
           /\ website' = [website EXCEPT !.state = "running", !.worker = attempt[a].by]
           /\ SiteTo(a, "begin", attempt[a])
  <2>1. /\ website' \in WebsiteRow /\ website'.state = "running"
        /\ website'.input = website.input /\ website'.calls = website.calls
    BY <1>1, <1>2 DEF WebsiteRow
  <2>2. Forward
    BY <1>1, <1>2, <2>1 DEF Forward, IInv, CountsInv
  <2>3. attempt' \in [Attempt -> AttemptRow] /\ RowsInv'
    BY <1>1, <1>2, <2>1, <2>2, GoesOnOrThrows
  <2> QED BY <1>1, <2>1, <2>2, <2>3, SiteStepKeeps DEF IInv, TypeOK, CountsInv, spent
<1>3. CASE website.state = "completed" /\ SiteDone(a, "available") /\ UNCHANGED website
  <2>1. Forward
    BY <1>1, <1>3 DEF Forward
  <2>2. attempt' \in [Attempt -> AttemptRow] /\ RowsInv'
    BY <1>1, <1>3, <2>1, DoneMoves
  <2> QED BY <1>1, <1>3, <2>2, SiteReadKeeps DEF tableVars, spent
<1> QED BY <1>2, <1>3 DEF ClaimSynthesis

\* The call is counted before it is made, and nothing uncounts it.
LEMMA BeginProviderCallKeeps == ASSUME IInv, NEW a \in Attempt, BeginProviderCall(a)
                                PROVE  IInv' /\ Forward
<1>1. /\ attempt[a].site = "begin" /\ UNCHANGED <<job, summarized, question, report, asked>>
      /\ website \in WebsiteRow /\ website.state = "running" /\ website.calls = 0
      /\ website' = [website EXCEPT !.calls = 1] /\ attempt[a].input = website.input
  BY DEF BeginProviderCall, OwnsSynthesis, Site, IInv, TypeOK, RowsInv, SiteInv
<1>2. /\ website' \in WebsiteRow /\ website'.state = "running"
      /\ website'.input = website.input /\ website'.calls = 1
  BY <1>1 DEF WebsiteRow
<1>3. Forward
  BY <1>1, <1>2 DEF Forward
<1>4. synthesized \in Nat /\ synthesized <= 0 /\ synthesized' \in {synthesized, synthesized + 1}
  BY <1>1 DEF BeginProviderCall, IInv, TypeOK, CountsInv
<1>5. attempt' \in [Attempt -> AttemptRow] /\ RowsInv'
  <2>1. CASE Put(a, [attempt[a] EXCEPT !.site = "call"])
    BY <2>1, <1>1, <1>2, <1>3, GoesOn
  <2>2. CASE Put(a, [attempt[a] EXCEPT !.site = "dead"])
    BY <2>2, <1>1, <1>3, ThrowMoves
  <2> QED BY <2>1, <2>2 DEF BeginProviderCall
<1>6. summarized' \subseteq Page /\ synthesized' \in Nat /\ synthesized' <= website'.calls
  BY <1>1, <1>2, <1>4 DEF IInv, TypeOK
<1> QED BY <1>1, <1>2, <1>3, <1>5, <1>6, SiteStepKeeps

\* The end of the call is recorded while its row is the process's own.
LEMMA EndSynthesisKeeps ==
  ASSUME IInv, NEW a \in Attempt, Site(a, "call"), OwnsSynthesis(a), website.calls = 1,
         NEW state \in {"completed", "failed"}, website' = EndedSynthesis(state),
         SiteDone(a, IF state = "completed" THEN "available" ELSE "unavailable"),
         UNCHANGED <<job, summarized, question, report, spent>>
  PROVE  IInv' /\ Forward
<1>1. /\ website \in WebsiteRow /\ website.state = "running" /\ attempt[a].site = "call"
      /\ attempt[a].input = website.input
  BY DEF OwnsSynthesis, Site, IInv, TypeOK, RowsInv, SiteInv
<1>2. /\ website' \in WebsiteRow /\ website'.state = state
      /\ website'.input = website.input /\ website'.calls = 1
  BY <1>1 DEF WebsiteRow, EndedSynthesis
<1>3. Forward
  BY <1>1, <1>2 DEF Forward
<1>4. attempt' \in [Attempt -> AttemptRow] /\ RowsInv'
  <2>1. CASE state = "completed"
    BY <2>1, <1>1, <1>2, <1>3, DoneMoves
  <2>2. CASE state = "failed"
    BY <2>2, <1>1, <1>2, <1>3, DoneMoves
  <2> QED BY <2>1, <2>2
<1> QED BY <1>2, <1>3, <1>4, SiteStepKeeps DEF IInv, TypeOK, CountsInv, spent

\* Every step of the website branch.
LEMMA SiteKeeps == ASSUME IInv, NEW a \in Attempt, SiteStep(a) PROVE IInv' /\ Forward
<1>1. ASSUME NEW p \in Page, AnalyzePage(a, p) \/ PersistSummary(a, p) PROVE IInv' /\ Forward
  BY <1>1, AnalyzePageKeeps, PersistSummaryKeeps
<1>2. CASE CompleteSynthesis(a)
  BY <1>2, EndSynthesisKeeps DEF CompleteSynthesis
<1>3. CASE FailSynthesis(a)
  BY <1>3, EndSynthesisKeeps DEF FailSynthesis
<1>4. CASE SiteThrows(a)
  <2>1. Forward /\ UNCHANGED <<tableVars, spent>>
    BY <1>4, QuietSteps DEF SiteThrows, tableVars
  <2> QED BY <1>4, <2>1, ThrowMoves, SiteReadKeeps DEF SiteThrows, tableVars
<1> QED BY <1>1, <1>2, <1>3, <1>4, SettlePagesKeeps, InitializeSynthesisKeeps,
           ClaimSynthesisKeeps, BeginProviderCallKeeps DEF SiteStep

-----------------------------------------------------------------------------
(* The question branch.                                                     *)

\* What is known of the current question, and what Advanced makes of it.
LEMMA AdvancedKnows ==
  ASSUME IInv, NEW a \in Attempt, attempt[a].quest \in {"turn", "call"},
         NEW known \in QuestionRow, NEW qs, known.state # "open", qs[attempt[a].at] = known,
         QuestInv(attempt[a], qs)
  PROVE  /\ Advanced(a, known) \in AttemptRow /\ QuestInv(Advanced(a, known), qs)
         /\ Advanced(a, known).site = attempt[a].site /\ Advanced(a, known).page = attempt[a].page
         /\ Advanced(a, known).input = attempt[a].input
         /\ Advanced(a, known).result = attempt[a].result
<1> DEFINE at == attempt[a].at
           all == [attempt[a].known EXCEPT ![at] = known]
           row == [attempt[a] EXCEPT !.known = all]
<1>1. /\ attempt[a] \in AttemptRow /\ at \in Question /\ Questions \in Nat
      /\ attempt[a].known \in [Question -> QuestionRow]
  BY FirstQuestion DEF IInv, TypeOK, AttemptRow
<1>2. /\ all \in [Question -> QuestionRow] /\ all[at] = known
      /\ \A q \in Question \ {at} : all[q] = attempt[a].known[q]
  BY <1>1
<1>3. /\ row \in AttemptRow /\ row.known = all /\ row.at = at
      /\ row.site = attempt[a].site /\ row.page = attempt[a].page
      /\ row.input = attempt[a].input /\ row.result = attempt[a].result
  BY <1>1, <1>2 DEF AttemptRow
<1>4. Advanced(a, known) = IF at < Questions THEN [row EXCEPT !.quest = "turn", !.at = at + 1]
                                             ELSE [row EXCEPT !.quest = "done"]
  BY <1>1 DEF Advanced, AttemptRow
<1>5. \A q \in Question : all[q].state # "open" => all[q] = qs[q]
  BY <1>2 DEF QuestInv
<1>6. \A q \in Question : q <= at => all[q].state # "open"
  BY <1>1, <1>2 DEF QuestInv, Question
<1> DEFINE new == Advanced(a, known)
<1>7. CASE at < Questions
  <2>1. at + 1 \in Question
    BY <1>1, <1>7 DEF Question
  <2>2. /\ new \in AttemptRow /\ new.quest = "turn" /\ new.at = at + 1 /\ new.known = all
        /\ new.site = row.site /\ new.page = row.page /\ new.input = row.input
        /\ new.result = row.result
    <3> HIDE DEF row, all
    <3> QED BY <1>3, <1>4, <1>7, <2>1 DEF AttemptRow
  <2>3. \A q \in Question : q < new.at => all[q].state # "open"
    BY <1>1, <1>6, <2>2 DEF Question
  <2>4. QuestInv(new, qs)
    <3> HIDE DEF new, all
    <3> QED BY <1>5, <2>2, <2>3 DEF QuestInv
  <2> QED BY <1>3, <2>2, <2>4
<1>8. CASE ~(at < Questions)
  <2>1. /\ new \in AttemptRow /\ new.quest = "done" /\ new.known = all
        /\ new.site = row.site /\ new.page = row.page /\ new.input = row.input
        /\ new.result = row.result
    <3> HIDE DEF row, all
    <3> QED BY <1>3, <1>4, <1>8 DEF AttemptRow
  <2>2. \A q \in Question : all[q].state # "open"
    BY <1>1, <1>6, <1>8 DEF Question
  <2>3. QuestInv(new, qs)
    <3> HIDE DEF new, all
    <3> QED BY <1>5, <2>1, <2>2 DEF QuestInv
  <2> QED BY <1>3, <2>1, <2>3
<1> QED BY <1>7, <1>8

\* The branch throws.
LEMMA MuteMoves == ASSUME IInv, Forward, NEW a \in Attempt, NEW row \in AttemptRow,
                          Put(a, [row EXCEPT !.quest = "dead"]), QuestInv(row, question'),
                          row.site = attempt[a].site, row.page = attempt[a].page,
                          row.input = attempt[a].input, row.result = attempt[a].result
                   PROVE  attempt' \in [Attempt -> AttemptRow] /\ RowsInv'
<1> DEFINE new == [row EXCEPT !.quest = "dead"]
<1>1. /\ new \in AttemptRow /\ new.quest = "dead" /\ new.known = row.known
      /\ new.site = attempt[a].site /\ new.page = attempt[a].page
      /\ new.input = attempt[a].input /\ new.result = attempt[a].result
  BY DEF AttemptRow
<1>2. QuestInv(new, question')
  BY <1>1 DEF QuestInv
<1>3. Put(a, new)
  OBVIOUS
<1> HIDE DEF new
<1> QED BY <1>1, <1>2, <1>3, QuestMoves

\* A step of the branch that writes nothing.
LEMMA QuestReadKeeps ==
  ASSUME IInv, UNCHANGED <<tableVars, spent>>, attempt' \in [Attempt -> AttemptRow], RowsInv'
  PROVE  IInv' /\ Forward
BY SiteReadKeeps

\* A write of an open row that has the calls the attempt knows of.
LEMMA WriteKeeps ==
  ASSUME IInv, NEW a \in Attempt, NEW row \in QuestionRow, Unchanged(a), Write(a, row),
         row.calls >= question[attempt[a].at].calls, synthesized' = synthesized,
         UNCHANGED <<job, summarized, website, report>>, asked' \in [Question -> Nat],
         \A q \in Question : asked'[q] = asked[q] \/ (q = attempt[a].at /\ asked'[q] <= row.calls)
  PROVE  /\ Forward /\ question' \in [Question -> QuestionRow]
         /\ question'[attempt[a].at] = row
         /\ \A q \in Question \ {attempt[a].at} : question'[q] = question[q]
         /\ (attempt' \in [Attempt -> AttemptRow] /\ RowsInv' => IInv')
<1>1. /\ attempt[a].at \in Question /\ question \in [Question -> QuestionRow]
      /\ question[attempt[a].at].state = "open"
  BY DEF IInv, TypeOK, AttemptRow, Unchanged
<1>2. /\ question' \in [Question -> QuestionRow] /\ question'[attempt[a].at] = row
      /\ \A q \in Question \ {attempt[a].at} : question'[q] = question[q]
  BY <1>1 DEF Write
<1>3. Forward
  BY <1>1, <1>2 DEF Forward
<1>4. ReportIsCheckpointed'
  BY <1>3, ReportKeeps
<1>5. CountsInv'
  <2>1. ASSUME NEW q \in Question PROVE asked'[q] <= question'[q].calls
    <3>1. /\ asked[q] \in Nat /\ asked[q] <= question[q].calls /\ question[q].calls \in Nat
          /\ row.calls \in Nat
      BY <1>1 DEF IInv, TypeOK, CountsInv, QuestionRow, MaxCalls
    <3> QED BY <3>1, <1>1, <1>2
  <2> QED BY <2>1 DEF IInv, CountsInv
<1>6. attempt' \in [Attempt -> AttemptRow] => TypeOK'
  BY <1>2 DEF IInv, TypeOK
<1> QED BY <1>2, <1>3, <1>4, <1>5, <1>6 DEF IInv

\* The rows are read as they are.
LEMMA InitializeQuestionsKeeps == ASSUME IInv, NEW a \in Attempt, InitializeQuestions(a)
                                  PROVE  IInv' /\ Forward
<1> DEFINE row == [attempt[a] EXCEPT !.quest = "turn", !.known = question]
<1>1. Put(a, row) /\ UNCHANGED <<tableVars, spent>> /\ attempt[a].quest = "initialize"
  BY DEF InitializeQuestions, Quest
<1>2. Forward
  BY <1>1, QuietSteps DEF tableVars
<1>3. /\ row \in AttemptRow /\ row.quest = "turn" /\ row.known = question
      /\ row.at = attempt[a].at /\ row.site = attempt[a].site /\ row.page = attempt[a].page
      /\ row.input = attempt[a].input /\ row.result = attempt[a].result
  BY DEF IInv, TypeOK, AttemptRow
<1>4. attempt[a].at = 1
  BY <1>1 DEF IInv, RowsInv, QuestInv
<1>5. QuestInv(row, question')
  BY <1>1, <1>3, <1>4 DEF QuestInv, Question, tableVars
<1> HIDE DEF row
<1> QED BY <1>1, <1>2, <1>3, <1>5, QuestMoves, QuestReadKeeps

\* A question decided before is taken over as it is.
LEMMA ReuseAnswerKeeps == ASSUME IInv, NEW a \in Attempt, ReuseAnswer(a) PROVE IInv' /\ Forward
<1> DEFINE known == Current(a)
<1>1. /\ Put(a, Advanced(a, known)) /\ UNCHANGED <<tableVars, spent>> /\ attempt[a].quest = "turn"
      /\ known.state # "open"
  BY DEF ReuseAnswer, Quest
<1>2. Forward
  BY <1>1, QuietSteps DEF tableVars
<1>3. QuestInv(attempt[a], question')
  BY <1>2, StaysTrue
<1>4. known \in QuestionRow /\ question'[attempt[a].at] = known
  BY <1>1, <1>3 DEF Current, QuestInv, IInv, TypeOK, AttemptRow
<1> HIDE DEF known
<1> QED BY <1>1, <1>2, <1>3, <1>4, AdvancedKnows, QuestMoves, QuestReadKeeps

\* The call is counted, and then made or not.
LEMMA RecordProviderCallKeeps == ASSUME IInv, NEW a \in Attempt, RecordProviderCall(a)
                                 PROVE  IInv' /\ Forward
<1> DEFINE at == attempt[a].at
           row == [Current(a) EXCEPT !.calls = @ + 1]
           known == [attempt[a].known EXCEPT ![at] = row]
           new == [attempt[a] EXCEPT !.quest = "call", !.known = known]
<1>1. /\ attempt[a].quest = "turn" /\ Current(a).state = "open" /\ Current(a).calls < MaxCalls
      /\ Unchanged(a) /\ Write(a, row)
      /\ UNCHANGED <<job, summarized, website, report, synthesized>>
  BY DEF RecordProviderCall, Quest
<1>2. /\ at \in Question /\ Current(a) \in QuestionRow /\ attempt[a] \in AttemptRow
      /\ attempt[a].known \in [Question -> QuestionRow] /\ Current(a) = attempt[a].known[at]
      /\ asked \in [Question -> Nat] /\ asked[at] <= question[at].calls
  BY DEF Current, IInv, TypeOK, AttemptRow, CountsInv
<1>3. /\ row \in QuestionRow /\ row.state = "open" /\ row.calls = Current(a).calls + 1
      /\ Current(a).calls \in 0 .. MaxCalls /\ question[at].calls = Current(a).calls
  BY <1>1, <1>2 DEF QuestionRow, MaxCalls, Unchanged
<1>4. /\ asked' \in [Question -> Nat]
      /\ \A q \in Question : asked'[q] = asked[q] \/ (q = at /\ asked'[q] <= row.calls)
  <2>1. asked' = asked \/ asked' = [asked EXCEPT ![at] = @ + 1]
    BY DEF RecordProviderCall
  <2> HIDE DEF row
  <2> QED BY <2>1, <1>2, <1>3 DEF MaxCalls
<1>5. /\ Forward /\ question'[at] = row
      /\ (attempt' \in [Attempt -> AttemptRow] /\ RowsInv' => IInv')
  <2>1. row.calls >= question[at].calls
    BY <1>3 DEF MaxCalls
  <2> HIDE DEF row
  <2> QED BY <1>1, <1>3, <1>4, <2>1, WriteKeeps
<1>6. QuestInv(attempt[a], question')
  BY <1>5, StaysTrue
<1>7. /\ known \in [Question -> QuestionRow] /\ known[at] = row
      /\ \A q \in Question \ {at} : known[q] = attempt[a].known[q]
  BY <1>2, <1>3
<1>8. /\ new \in AttemptRow /\ new.quest = "call" /\ new.known = known /\ new.at = at
      /\ new.site = attempt[a].site /\ new.page = attempt[a].page
      /\ new.input = attempt[a].input /\ new.result = attempt[a].result
  <2> HIDE DEF known
  <2> QED BY <1>2, <1>7 DEF AttemptRow
<1>9. QuestInv(new, question')
  <2>1. \A q \in Question : q < at => q # at
    BY <1>2 DEF Question
  <2> HIDE DEF new, known, row
  <2> QED BY <1>1, <1>3, <1>6, <1>7, <1>8, <2>1 DEF QuestInv
<1>10. CASE Put(a, [attempt[a] EXCEPT !.quest = "call", !.known[at] = row])
  <2>1. Put(a, new)
    BY <1>10
  <2> HIDE DEF new
  <2> QED BY <2>1, <1>5, <1>8, <1>9, QuestMoves
<1>11. CASE Put(a, [attempt[a] EXCEPT !.quest = "dead"])
  BY <1>2, <1>5, <1>6, <1>11, MuteMoves
<1> QED BY <1>10, <1>11 DEF RecordProviderCall

\* A decision of the current question, with the calls as they are.
LEMMA DecideKeeps ==
  ASSUME IInv, NEW a \in Attempt, attempt[a].quest \in {"turn", "call"}, Unchanged(a),
         NEW row \in QuestionRow, row.state # "open", row.calls = Current(a).calls,
         Write(a, row), QuestTo(a, Advanced(a, row)),
         UNCHANGED <<job, summarized, website, report, spent>>
  PROVE  IInv' /\ Forward
<1>1. asked \in [Question -> Nat] /\ row.calls \in Nat
  BY DEF IInv, TypeOK, QuestionRow, MaxCalls
<1>2. /\ Forward /\ question'[attempt[a].at] = row
      /\ (attempt' \in [Attempt -> AttemptRow] /\ RowsInv' => IInv')
  BY <1>1, WriteKeeps DEF Unchanged, spent
<1>3. QuestInv(attempt[a], question')
  BY <1>2, StaysTrue
<1> DEFINE new == Advanced(a, row)
<1>4. /\ new \in AttemptRow /\ QuestInv(new, question')
      /\ new.site = attempt[a].site /\ new.page = attempt[a].page
      /\ new.input = attempt[a].input /\ new.result = attempt[a].result
  BY <1>2, <1>3, AdvancedKnows
<1>5. Put(a, new) \/ Put(a, [new EXCEPT !.quest = "dead"])
  BY DEF QuestTo
<1> HIDE DEF new
<1>6. CASE Put(a, new)
  BY <1>6, <1>2, <1>4, QuestMoves
<1>7. CASE Put(a, [new EXCEPT !.quest = "dead"])
  BY <1>7, <1>2, <1>4, MuteMoves
<1> QED BY <1>5, <1>6, <1>7

\* An answer is saved.
LEMMA SaveAnsweredKeeps == ASSUME IInv, NEW a \in Attempt, SaveAnswered(a) PROVE IInv' /\ Forward
<1> DEFINE row == [Current(a) EXCEPT !.state = "answered", !.answer = a]
<1>1. /\ attempt[a].quest = "call" /\ Unchanged(a) /\ Write(a, row)
      /\ QuestTo(a, Advanced(a, row)) /\ UNCHANGED <<job, summarized, website, report, spent>>
  BY DEF SaveAnswered, Quest
<1>2. Current(a) \in QuestionRow
  BY DEF Current, IInv, TypeOK, AttemptRow
<1>3. row \in QuestionRow /\ row.state = "answered" /\ row.calls = Current(a).calls
  <2>1. a \in 0 .. MaxAttempts
    BY AttemptsAssumption DEF Attempt
  <2> QED BY <1>2, <2>1 DEF QuestionRow
<1> HIDE DEF row
<1> QED BY <1>1, <1>3, DecideKeeps

\* A question goes without an answer.
LEMMA MarkUnavailableKeeps == ASSUME IInv, NEW a \in Attempt, MarkUnavailable(a)
                              PROVE  IInv' /\ Forward
<1> DEFINE row == [Current(a) EXCEPT !.state = "unavailable"]
<1>1. /\ attempt[a].quest \in {"turn", "call"} /\ Unchanged(a) /\ Write(a, row)
      /\ QuestTo(a, Advanced(a, row)) /\ UNCHANGED <<job, summarized, website, report, spent>>
  BY DEF MarkUnavailable, GivesUp, Quest
<1>2. Current(a) \in QuestionRow
  BY DEF Current, IInv, TypeOK, AttemptRow
<1>3. row \in QuestionRow /\ row.state = "unavailable" /\ row.calls = Current(a).calls
  BY <1>2 DEF QuestionRow
<1> HIDE DEF row
<1> QED BY <1>1, <1>3, DecideKeeps

\* Every step of the question branch.
LEMMA QuestKeeps == ASSUME IInv, NEW a \in Attempt, QuestStep(a) PROVE IInv' /\ Forward
<1>1. CASE RetryQuestion(a)
  <2> DEFINE row == [attempt[a] EXCEPT !.quest = "turn"]
  <2>1. Put(a, row) /\ UNCHANGED <<tableVars, spent>> /\ attempt[a].quest = "call"
    BY <1>1 DEF RetryQuestion, Quest
  <2>2. Forward
    BY <2>1, QuietSteps DEF tableVars
  <2>3. /\ row \in AttemptRow /\ row.quest = "turn" /\ row.known = attempt[a].known
        /\ row.at = attempt[a].at /\ row.site = attempt[a].site /\ row.page = attempt[a].page
        /\ row.input = attempt[a].input /\ row.result = attempt[a].result
    BY DEF IInv, TypeOK, AttemptRow
  <2>4. QuestInv(row, question')
    BY <2>1, <2>2, <2>3, StaysTrue DEF QuestInv
  <2> HIDE DEF row
  <2> QED BY <2>1, <2>2, <2>3, <2>4, QuestMoves, QuestReadKeeps
<1>2. CASE QuestThrows(a)
  <2>1. Put(a, [attempt[a] EXCEPT !.quest = "dead"]) /\ UNCHANGED <<tableVars, spent>>
    BY <1>2 DEF QuestThrows
  <2>2. Forward
    BY <2>1, QuietSteps DEF tableVars
  <2>3. attempt[a] \in AttemptRow /\ QuestInv(attempt[a], question')
    BY <2>2, StaysTrue DEF IInv, TypeOK
  <2> QED BY <2>1, <2>2, <2>3, MuteMoves, QuestReadKeeps
<1> QED BY <1>1, <1>2, InitializeQuestionsKeeps, ReuseAnswerKeeps, RecordProviderCallKeeps,
           SaveAnsweredKeeps, MarkUnavailableKeeps DEF QuestStep

-----------------------------------------------------------------------------
(* The theorems.                                                            *)

\* Nothing is claimed, asked or stored in the beginning.
LEMMA InitHolds == Init => IInv
<1> SUFFICES ASSUME Init PROVE IInv
  OBVIOUS
<1>1. OpenQuestion \in QuestionRow /\ Unasked \in [Question -> QuestionRow]
  BY AttemptsAssumption DEF OpenQuestion, QuestionRow, Unasked, MaxCalls
<1>2. TypeOK
  <2>1. job \in JobRow
    BY AttemptsAssumption DEF Init, JobRow
  <2>2. website \in WebsiteRow
    BY DEF Init, WebsiteRow
  <2>3. attempt \in [Attempt -> AttemptRow]
    BY FreshRows DEF Init
  <2> QED BY <1>1, <2>1, <2>2, <2>3 DEF Init, TypeOK
<1>3. RowsInv
  <2>1. \A a \in Attempt : attempt[a] = NewAttempt
    BY DEF Init
  <2> QED BY <2>1, FreshRows DEF RowsInv
<1>4. CountsInv
  <2>1. website.state = "absent" /\ website.calls = 0 /\ synthesized = 0
    BY DEF Init
  <2>2. \A q \in Question : asked[q] = 0 /\ question[q].calls = 0
    BY DEF Init, Unasked, OpenQuestion
  <2> QED BY <2>1, <2>2 DEF CountsInv
<1>5. ReportIsCheckpointed
  BY DEF Init, ReportIsCheckpointed
<1> QED BY <1>2, <1>3, <1>4, <1>5 DEF IInv

\* Every step keeps the invariant and moves the checkpoints forward.
LEMMA StepKeeps == IInv /\ [Next]_vars => IInv' /\ [Forward]_vars
<1> SUFFICES ASSUME IInv, [Next]_vars PROVE IInv' /\ [Forward]_vars
  OBVIOUS
<1>1. ASSUME NEW w \in Worker, ClaimJob(w) \/ Crash(w) PROVE IInv' /\ Forward
  BY <1>1, ClaimJobKeeps, CrashKeeps
<1>2. ASSUME NEW a \in Attempt, SiteStep(a) \/ QuestStep(a) \/ StoreReport(a) \/ StageFails(a)
      PROVE  IInv' /\ Forward
  BY <1>2, SiteKeeps, QuestKeeps, StoreReportKeeps, StageFailsKeeps
<1>3. CASE UNCHANGED vars
  BY <1>3 DEF vars, tableVars, spent, IInv, TypeOK, RowsInv, CountsInv, ReportIsCheckpointed
<1> QED BY <1>1, <1>2, <1>3 DEF Next

\* The inductive invariant: what every attempt, whether it leads the job or was left
\* behind, knows of pages, synthesis and questions is what the checkpoints say, and
\* no call was made that is not counted there.
THEOREM Invariant == Spec => []IInv
<1>1. Init => IInv
  BY InitHolds
<1>2. IInv /\ [Next]_vars => IInv'
  BY StepKeeps
<1> QED BY <1>1, <1>2, PTL DEF Spec

\* Every variable keeps its type, for any number of attempts, processes, pages and
\* questions.
THEOREM TypeCorrect == Spec => []TypeOK
<1>1. IInv => TypeOK
  BY DEF IInv
<1> QED BY <1>1, Invariant, PTL

\* A question is asked at most twice and the synthesis called for at most once,
\* whatever attempts die, lapse or are left behind.
THEOREM BudgetHolds == Spec => []ProviderBudget
<1>1. IInv => ProviderBudget
  <2> SUFFICES ASSUME IInv PROVE ProviderBudget
    OBVIOUS
  <2>1. ASSUME NEW q \in Question PROVE asked[q] <= MaxCalls
    <3>1. asked[q] \in Nat /\ asked[q] <= question[q].calls /\ question[q].calls \in 0 .. MaxCalls
      BY DEF IInv, TypeOK, CountsInv, QuestionRow
    <3> QED BY <3>1 DEF MaxCalls
  <2>2. synthesized <= 1
    BY DEF IInv, TypeOK, CountsInv, WebsiteRow
  <2> QED BY <2>1, <2>2 DEF ProviderBudget
<1> QED BY <1>1, Invariant, PTL

\* No two attempts hold different results of a question.
THEOREM AttemptsAlwaysAgree == Spec => []AttemptsAgree
<1>1. IInv => AttemptsAgree
  BY DEF IInv, RowsInv, QuestInv, AttemptsAgree
<1> QED BY <1>1, Invariant, PTL

\* The stored report is what the checkpoints hold.
THEOREM ReportAlwaysCheckpointed == Spec => []ReportIsCheckpointed
<1>1. IInv => ReportIsCheckpointed
  BY DEF IInv
<1> QED BY <1>1, Invariant, PTL

\* No step of any attempt takes back what a checkpoint has decided.
THEOREM CheckpointsMoveForward == Spec => [][Forward]_vars
<1>1. IInv /\ [Next]_vars => [Forward]_vars
  BY StepKeeps
<1> QED BY <1>1, Invariant, PTL DEF Spec
=============================================================================
