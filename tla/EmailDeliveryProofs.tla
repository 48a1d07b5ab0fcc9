------------------------ MODULE EmailDeliveryProofs ------------------------
(***************************************************************************)
(* For any number of e-mails, processes and events: EmailDelivery keeps its  *)
(* types, the order's delivery status agrees with the delivery, an event is  *)
(* applied exactly when the delivery says what it says, and a process        *)
(* without its lease writes nothing.                                         *)
(***************************************************************************)
EXTENDS EmailDelivery, TLAPS

\* A process at work has an e-mail that exists; the second statement of a mark
\* is still true when it is run, whatever came in between.
RunInv(row) ==
  /\ row.pc # "idle" => row.mail \in Email /\ mail[row.mail].state # "absent"
  /\ row.pc = "replaying" => row.todo # {}
  /\ row.pc = "recordingSent" => row.mail = Outcome /\ mail[Outcome].state # "queued"
  /\ row.pc = "recordingFailed" => mail[Outcome].state = "failed"
RunsInv == \A p \in Run : RunInv(run[p])

\* Only an event of the provider sets lastAt, and it ends the delivery.
MailInv == \A e \in Email : /\ accepted[e] => mail[e].state # "absent"
                            /\ mail[e].lastAt # 0 => mail[e].state \in Ended

\* The provider reports an end, and only of an e-mail it has taken.
EventInv == \A n \in Event : event[n].status # "unborn" =>
                               event[n].target \in Ended /\ accepted[EventOf[n]]

IInv == TypeOK /\ OrderFollowsMail /\ EventsAgree /\ RunsInv /\ MailInv /\ EventInv

\* No step rewinds a delivery.
Forward ==
  \A e \in Email : /\ mail[e].state # "absent" => mail'[e].state # "absent"
                   /\ mail[e].state \notin {"absent", "queued"} => mail'[e].state # "queued"
                   /\ mail[e].state \in Ended => mail'[e].state = mail[e].state

\* No delivery changes its state, and no event its row.
Quiet ==
  /\ \A e \in Email : /\ mail'[e].state = mail[e].state /\ mail'[e].lastAt = mail[e].lastAt
                      /\ accepted'[e] = accepted[e]
  /\ status' = status /\ event' = event

-----------------------------------------------------------------------------
\* A step that leaves every delivery's state and every event alone rewinds
\* nothing and keeps whatever is said of the tables.
LEMMA QuietKeeps == ASSUME IInv, Quiet
                    PROVE  Forward /\ OrderFollowsMail' /\ EventsAgree' /\ MailInv' /\ EventInv'
<1>1. Outcome \in Email /\ \A n \in Event : EventOf[n] \in Email
  BY OutcomeAssumption, EventAssumption
<1>2. Forward
  BY DEF Quiet, Forward
<1>3. OrderFollowsMail'
  BY <1>1 DEF IInv, OrderFollowsMail, Quiet
<1>4. EventsAgree'
  BY <1>1 DEF IInv, EventsAgree, Quiet
<1>5. MailInv'
  BY DEF IInv, MailInv, Quiet
<1>6. EventInv'
  BY <1>1 DEF IInv, EventInv, Quiet
<1> QED BY <1>2, <1>3, <1>4, <1>5, <1>6

\* What is said of a process stays true while others move, since no delivery is
\* rewound.
LEMMA OthersKeep == ASSUME IInv, Forward, NEW p \in Run, run'[p] = run[p]
                    PROVE  RunInv(run[p])'
<1>1. RunInv(run[p]) /\ Outcome \in Email
  BY OutcomeAssumption DEF IInv, RunsInv
<1>2. "failed" \in Ended
  BY DEF Ended
<1> QED BY <1>1, <1>2 DEF RunInv, Forward

\* Hence only the process that moves has something to show.
LEMMA RunsKeep == ASSUME IInv, Forward, NEW p \in Run, \A q \in Run \ {p} : run'[q] = run[q],
                         RunInv(run[p])'
                  PROVE  RunsInv'
<1>1. ASSUME NEW q \in Run PROVE RunInv(run[q])'
  BY OthersKeep
<1> QED BY <1>1 DEF RunsInv

\* And in a step of no process nothing is left to show.
LEMMA NoRunMoves == ASSUME IInv, Forward, run' = run
                    PROVE  RunsInv'
<1>1. ASSUME NEW q \in Run PROVE RunInv(run[q])'
  BY OthersKeep
<1> QED BY <1>1 DEF RunsInv

\* A process that is idle promises nothing.
LEMMA IdlePromises == ASSUME NEW p \in Run, run'[p] = IdleRun
                      PROVE  RunInv(run[p])'
BY DEF RunInv, IdleRun

\* Goto moves one process and changes its place alone.
LEMMA GotoMoves == ASSUME TypeOK, NEW p \in Run, NEW pc,
                          pc \in {"issuing", "sending", "marking", "recordingSent", "selecting",
                                  "failing", "recordingFailed"},
                          Goto(p, pc)
                   PROVE  /\ run' \in [Run -> RunRow]
                          /\ \A q \in Run \ {p} : run'[q] = run[q]
                          /\ run'[p].pc = pc /\ run'[p].mail = run[p].mail
<1>1. run \in [Run -> RunRow] /\ run[p] \in RunRow
  BY DEF TypeOK
<1>2. run' = [run EXCEPT ![p] = [run[p] EXCEPT !.pc = pc]]
  BY DEF Goto
<1>3. [run[p] EXCEPT !.pc = pc] \in RunRow
  BY <1>1 DEF RunRow
<1> QED BY <1>1, <1>2, <1>3 DEF RunRow

\* Finish makes one process idle.
LEMMA FinishMoves == ASSUME TypeOK, NEW p \in Run, Finish(p)
                     PROVE  /\ run' \in [Run -> RunRow]
                            /\ \A q \in Run \ {p} : run'[q] = run[q]
                            /\ run'[p] = IdleRun
<1>1. IdleRun \in RunRow
  BY DEF IdleRun, RunRow
<1> QED BY <1>1 DEF TypeOK, Finish

\* Taking the lease off a row, with or without a new state.
LEMMA UnleasedRow == ASSUME NEW row \in MailRow, NEW state \in MailState, NEW n \in Event \cup {0}
                     PROVE  /\ Unleased(row) \in MailRow
                            /\ Unleased(row).state = row.state
                            /\ Unleased(row).lastAt = row.lastAt
                            /\ Unleased(row).known = row.known
                            /\ [Unleased(row) EXCEPT !.state = state] \in MailRow
                            /\ [Unleased(row) EXCEPT !.state = state].state = state
                            /\ [Unleased(row) EXCEPT !.state = state].lastAt = row.lastAt
                            /\ [Unleased(row) EXCEPT !.state = state, !.known = TRUE] \in MailRow
                            /\ [Unleased(row) EXCEPT !.state = state, !.known = TRUE].state = state
                            /\ [Unleased(row) EXCEPT !.state = state, !.known = TRUE].lastAt
                                 = row.lastAt
                            /\ [Unleased(row) EXCEPT !.state = state, !.lastAt = n] \in MailRow
                            /\ [Unleased(row) EXCEPT !.state = state, !.lastAt = n].state = state
                            /\ [Unleased(row) EXCEPT !.state = state, !.lastAt = n].lastAt = n
BY DEF Unleased, MailRow

-----------------------------------------------------------------------------
\* An event, from the webhook or replayed, is recorded: the delivery it is
\* applied to had not ended, or had ended as the event says.
LEMMA RecordKeeps ==
  ASSUME IInv, NEW n \in Event, event[n].status # "unborn", RecordEvent(n), accepted' = accepted
  PROVE  /\ mail' \in [Email -> MailRow] /\ event' \in [Event -> EventRow]
         /\ status' \in {"queued", "sent"} \cup Ended
         /\ Forward /\ OrderFollowsMail' /\ EventsAgree' /\ MailInv' /\ EventInv'
<1> DEFINE e == EventOf[n]
           target == event[n].target
           row == [Unleased(mail[e]) EXCEPT !.state = target, !.lastAt = n]
<1>1. /\ e \in Email /\ Outcome \in Email /\ \A i \in Event : EventOf[i] \in Email
      /\ Event \subseteq Nat \ {0}
  BY OutcomeAssumption, EventAssumption
<1>2. /\ TypeOK /\ OrderFollowsMail /\ EventsAgree /\ MailInv /\ EventInv
      /\ mail \in [Email -> MailRow] /\ event \in [Event -> EventRow]
      /\ mail[e] \in MailRow /\ event[n] \in EventRow
      /\ target \in Ended /\ accepted[e] /\ mail[e].state # "absent"
  BY <1>1 DEF IInv, TypeOK, EventInv, MailInv
<1>3. /\ target \in MailState /\ Ended \subseteq MailState
      /\ "absent" \notin Ended /\ "queued" \notin Ended /\ "sent" \notin Ended
  BY <1>2 DEF MailState, Ended
<1>4. row \in MailRow /\ row.state = target /\ row.lastAt = n
  BY <1>1, <1>2, <1>3 DEF Unleased, MailRow
<1>5. CASE ShouldApply(n)
  <2>1. /\ event' = [event EXCEPT ![n].status = "applied"]
        /\ mail' = [mail EXCEPT ![e] = row]
        /\ status' = IF e = Outcome THEN Recorded(status, target) ELSE status
        /\ mail[e].state \in {"queued", "sent", target}
    BY <1>5 DEF RecordEvent, ShouldApply
  <2>2. /\ mail' \in [Email -> MailRow] /\ mail'[e].state = target /\ mail'[e].lastAt = n
        /\ \A d \in Email \ {e} : mail'[d] = mail[d]
    BY <1>1, <1>2, <1>4, <2>1
  <2>3. /\ event' \in [Event -> EventRow]
        /\ event'[n].status = "applied" /\ event'[n].target = target
        /\ \A i \in Event \ {n} : event'[i] = event[i]
    BY <1>2, <2>1 DEF EventRow, EventStatus
  <2>4. status' \in {"queued", "sent"} \cup Ended
    BY <1>2, <2>1 DEF TypeOK, Recorded
  <2>5. Forward
    BY <1>3, <1>2, <2>1, <2>2 DEF Forward
  <2>6. OrderFollowsMail'
    BY <1>1, <1>2, <1>3, <2>1, <2>2 DEF OrderFollowsMail, Recorded, Ended, TypeOK
  <2>7. EventsAgree'
    <3> SUFFICES ASSUME NEW i \in Event
                 PROVE  /\ event'[i].status = "applied" => mail'[EventOf[i]].state = event'[i].target
                        /\ event'[i].status = "stale" => mail'[EventOf[i]].state \in Ended
      BY DEF EventsAgree
    <3>1. CASE i = n
      BY <2>2, <2>3, <3>1
    <3>2. CASE i # n /\ EventOf[i] = e
      <4>1. /\ event[i].status = "applied" => mail[e].state = event[i].target
            /\ event[i].status # "unborn" => event[i].target \in Ended
            /\ event'[i] = event[i]
        BY <1>2, <2>3, <3>2 DEF EventsAgree, EventInv
      <4> QED BY <1>2, <1>3, <2>1, <2>2, <3>2, <4>1
    <3>3. CASE i # n /\ EventOf[i] # e
      BY <1>1, <1>2, <2>2, <2>3, <3>3 DEF EventsAgree
    <3> QED BY <3>1, <3>2, <3>3
  <2>8. MailInv'
    BY <1>2, <1>3, <2>2 DEF MailInv
  <2>9. EventInv'
    BY <1>1, <1>2, <2>3 DEF EventInv
  <2> QED BY <2>2, <2>3, <2>4, <2>5, <2>6, <2>7, <2>8, <2>9
<1>6. CASE ~ShouldApply(n)
  <2>1. /\ event' = [event EXCEPT ![n].status = "stale"]
        /\ mail' = mail /\ status' = status
    BY <1>1, <1>2, <1>6 DEF RecordEvent
  <2>2. mail[e].state \in Ended
    <3>1. CASE ~(n >= mail[e].lastAt)
      <4>1. mail[e].lastAt # 0
        BY <1>1, <3>1
      <4> QED BY <1>1, <1>2, <4>1 DEF MailInv
    <3>2. CASE mail[e].state \notin {"queued", "sent", target}
      BY <1>2, <3>2 DEF MailRow, MailState
    <3> QED BY <1>6, <3>1, <3>2 DEF ShouldApply
  <2>3. /\ event' \in [Event -> EventRow]
        /\ event'[n].status = "stale" /\ event'[n].target = target
        /\ \A i \in Event \ {n} : event'[i] = event[i]
    BY <1>2, <2>1 DEF EventRow, EventStatus
  <2>4. Forward /\ OrderFollowsMail' /\ MailInv' /\ status' \in {"queued", "sent"} \cup Ended
    BY <1>2, <2>1 DEF Forward, OrderFollowsMail, MailInv, TypeOK
  <2>5. EventsAgree'
    BY <1>2, <2>1, <2>2, <2>3 DEF EventsAgree
  <2>6. EventInv'
    BY <1>1, <1>2, <2>3 DEF EventInv
  <2> QED BY <1>2, <2>1, <2>3, <2>4, <2>5, <2>6
<1> QED BY <1>5, <1>6
\* The sender's own marks: a delivery that has not ended is sent or has failed.
LEMMA MarkKeeps ==
  ASSUME IInv, NEW e \in Email, mail[e].state \in {"queued", "sent"}, NEW row \in MailRow,
         row.state \in {"sent", "failed"}, row.lastAt = mail[e].lastAt,
         mail' = [mail EXCEPT ![e] = row], status' = status, event' = event, accepted' = accepted
  PROVE  /\ mail' \in [Email -> MailRow]
         /\ Forward /\ OrderFollowsMail' /\ EventsAgree' /\ MailInv' /\ EventInv'
<1>1. /\ Outcome \in Email /\ \A i \in Event : EventOf[i] \in Email
      /\ "absent" \notin Ended /\ "queued" \notin Ended /\ "sent" \notin Ended
  BY OutcomeAssumption, EventAssumption DEF Ended
<1>2. /\ TypeOK /\ OrderFollowsMail /\ EventsAgree /\ MailInv /\ EventInv
      /\ mail \in [Email -> MailRow]
  BY DEF IInv, TypeOK
<1>3. /\ mail' \in [Email -> MailRow] /\ mail'[e] = row
      /\ \A d \in Email \ {e} : mail'[d] = mail[d]
  BY <1>2
<1>4. mail[e].lastAt = 0
  BY <1>1, <1>2 DEF MailInv
<1>5. Forward
  BY <1>1, <1>3 DEF Forward
<1>6. OrderFollowsMail'
  BY <1>1, <1>2, <1>3 DEF OrderFollowsMail
<1>7. EventsAgree'
  BY <1>1, <1>2, <1>3 DEF EventsAgree, EventInv
<1>8. MailInv' /\ EventInv'
  BY <1>2, <1>3, <1>4 DEF MailInv, EventInv
<1> QED BY <1>3, <1>5, <1>6, <1>7, <1>8

-----------------------------------------------------------------------------
(* One lemma per kind of step.                                              *)

\* A reissue is queued: nothing has been said of its e-mail yet.
LEMMA ReissueKeeps == ASSUME IInv, NEW e \in Email, RequestReportLinkReissue(e)
                      PROVE  IInv' /\ Forward
<1>1. /\ Outcome \in Email /\ \A i \in Event : EventOf[i] \in Email
      /\ "absent" \notin Ended
  BY OutcomeAssumption, EventAssumption DEF Ended
<1>2. /\ TypeOK /\ OrderFollowsMail /\ EventsAgree /\ MailInv /\ EventInv /\ RunsInv
      /\ mail \in [Email -> MailRow] /\ mail[e] \in MailRow
  BY DEF IInv, TypeOK
<1>3. /\ e # Outcome /\ mail[e].state = "absent" /\ mail[e].lastAt = 0 /\ ~accepted[e]
      /\ mail' = [mail EXCEPT ![e] = [mail[e] EXCEPT !.state = "queued"]]
      /\ status' = status /\ token' = token /\ accepted' = accepted /\ event' = event
      /\ run' = run
  BY <1>1, <1>2 DEF RequestReportLinkReissue, MailInv
<1>4. /\ mail' \in [Email -> MailRow] /\ mail'[e].lastAt = 0 /\ mail'[e].state = "queued"
      /\ \A d \in Email \ {e} : mail'[d] = mail[d]
  BY <1>2, <1>3 DEF MailRow, MailState
<1>5. TypeOK'
  BY <1>2, <1>3, <1>4 DEF TypeOK
<1>6. Forward
  BY <1>1, <1>3, <1>4 DEF Forward
<1>7. OrderFollowsMail'
  BY <1>1, <1>2, <1>3, <1>4 DEF OrderFollowsMail
<1>8. EventsAgree'
  BY <1>1, <1>2, <1>3, <1>4 DEF EventsAgree, EventInv
<1>9. MailInv' /\ EventInv'
  BY <1>2, <1>3, <1>4 DEF MailInv, EventInv
<1>10. RunsInv'
  BY <1>3, <1>6, NoRunMoves
<1> QED BY <1>5, <1>6, <1>7, <1>8, <1>9, <1>10 DEF IInv

\* An e-mail is claimed: its process has an e-mail that is queued.
LEMMA ClaimKeeps == ASSUME IInv, NEW p \in Run, NEW e \in Email, ClaimEmailDelivery(p, e)
                    PROVE  IInv' /\ Forward
<1> DEFINE n == IF mail[e].attempts < MaxAttempts THEN mail[e].attempts + 1 ELSE MaxAttempts
<1>1. /\ TypeOK /\ mail \in [Email -> MailRow] /\ mail[e] \in MailRow
      /\ run \in [Run -> RunRow] /\ mail[e].state = "queued"
  BY DEF IInv, TypeOK, ClaimEmailDelivery, Claimable
<1>2. n \in 0 .. MaxAttempts
  BY <1>1, AttemptsAssumption DEF MailRow
<1>3. FirstStep(e, n) \in {"revoking", "issuing"}
  BY DEF FirstStep
<1>4. /\ mail' = [mail EXCEPT ![e] = [mail[e] EXCEPT !.owner = p, !.live = TRUE, !.attempts = n]]
      /\ run' = [run EXCEPT ![p] = [pc |-> FirstStep(e, n), mail |-> e,
                                    final |-> n >= MaxAttempts, todo |-> {}]]
      /\ status' = status /\ token' = token /\ accepted' = accepted /\ event' = event
  BY DEF ClaimEmailDelivery
<1> HIDE DEF n
<1>5. /\ mail' \in [Email -> MailRow] /\ mail'[e].state = mail[e].state
      /\ mail'[e].lastAt = mail[e].lastAt /\ \A d \in Email \ {e} : mail'[d] = mail[d]
  BY <1>1, <1>2, <1>4 DEF MailRow
<1>6. /\ run' \in [Run -> RunRow] /\ run'[p].mail = e /\ run'[p].pc \in {"revoking", "issuing"}
      /\ \A q \in Run \ {p} : run'[q] = run[q]
  <2>1. (n >= MaxAttempts) \in BOOLEAN
    BY <1>2, AttemptsAssumption
  <2>2. [pc |-> FirstStep(e, n), mail |-> e, final |-> n >= MaxAttempts, todo |-> {}] \in RunRow
    BY <1>3, <2>1 DEF RunRow
  <2> QED BY <1>1, <1>3, <1>4, <2>2
<1>7. TypeOK'
  BY <1>1, <1>4, <1>5, <1>6 DEF TypeOK
<1>8. Quiet
  BY <1>4, <1>5 DEF Quiet
<1>9. Forward /\ OrderFollowsMail' /\ EventsAgree' /\ MailInv' /\ EventInv'
  BY <1>8, QuietKeeps
<1>10. RunInv(run[p])'
  BY <1>1, <1>5, <1>6 DEF RunInv
<1>11. RunsInv'
  BY <1>6, <1>9, <1>10, RunsKeep
<1> QED BY <1>7, <1>9, <1>11 DEF IInv

\* The steps before the call: tokens are written, and the process goes on.
LEMMA PrepareKeeps == ASSUME IInv, NEW p \in Run,
                             \/ RevokeReportAccessTokens(p) \/ IssueReportAccessToken(p)
                             \/ PrepareFails(p)
                      PROVE  IInv' /\ Forward
<1>1. TypeOK /\ RunInv(run[p])
  BY DEF IInv, RunsInv
<1>2. /\ run[p].pc \in {"revoking", "issuing"}
      /\ \E pc \in {"issuing", "sending", "failing"} : Goto(p, pc)
      /\ mail' = mail /\ status' = status /\ accepted' = accepted /\ event' = event
  <2>1. CASE RevokeReportAccessTokens(p)
    BY <2>1 DEF RevokeReportAccessTokens
  <2>2. CASE IssueReportAccessToken(p)
    BY <2>2 DEF IssueReportAccessToken
  <2>3. CASE PrepareFails(p)
    BY <2>3 DEF PrepareFails
  <2> QED BY <2>1, <2>2, <2>3
<1>3. token' \in [Email -> TokenState]
  <2>1. CASE RevokeReportAccessTokens(p)
    BY <2>1 DEF RevokeReportAccessTokens, TokenState
  <2>2. CASE IssueReportAccessToken(p)
    <3>1. /\ token \in [Email -> TokenState] /\ run[p].mail \in Email
      BY <1>1, <1>2 DEF TypeOK, RunInv
    <3>2. PICK new \in TokenState : token' = [token EXCEPT ![run[p].mail] = new]
      BY <2>2, <3>1 DEF IssueReportAccessToken, TokenState
    <3> QED BY <3>1, <3>2
  <2>3. CASE PrepareFails(p)
    BY <1>1, <2>3 DEF PrepareFails, TypeOK
  <2> QED BY <2>1, <2>2, <2>3
<1>4. /\ run' \in [Run -> RunRow] /\ \A q \in Run \ {p} : run'[q] = run[q]
      /\ run'[p].pc \in {"issuing", "sending", "failing"} /\ run'[p].mail = run[p].mail
  BY <1>1, <1>2, GotoMoves
<1>5. TypeOK' /\ Quiet
  BY <1>1, <1>2, <1>3, <1>4 DEF TypeOK, Quiet
<1>6. Forward /\ OrderFollowsMail' /\ EventsAgree' /\ MailInv' /\ EventInv'
  BY <1>5, QuietKeeps
<1>7. RunInv(run[p])'
  BY <1>1, <1>2, <1>4 DEF RunInv
<1>8. RunsInv'
  BY <1>4, <1>6, <1>7, RunsKeep
<1> QED BY <1>5, <1>6, <1>8 DEF IInv

\* The call: the provider may take the e-mail of the process, which exists.
LEMMA SendKeeps == ASSUME IInv, NEW p \in Run, SendStep(p)
                   PROVE  IInv' /\ Forward
<1>1. /\ TypeOK /\ RunInv(run[p]) /\ OrderFollowsMail /\ EventsAgree /\ MailInv /\ EventInv
      /\ run \in [Run -> RunRow] /\ run[p] \in RunRow /\ accepted \in [Email -> BOOLEAN]
  BY DEF IInv, RunsInv, TypeOK
<1>2. PICK answered \in BOOLEAN, permanent \in BOOLEAN : Send(p, answered, permanent)
  BY DEF SendStep
<1>3. /\ run[p].pc = "sending" /\ run[p].mail \in Email /\ mail[run[p].mail].state # "absent"
      /\ mail' = mail /\ status' = status /\ token' = token /\ event' = event
  BY <1>1, <1>2 DEF Send, RunInv
<1>4. PICK taken \in BOOLEAN : accepted' = [accepted EXCEPT ![run[p].mail] = @ \/ taken]
  BY <1>2 DEF Send
<1>5. /\ accepted' \in [Email -> BOOLEAN] /\ \A e \in Email : accepted[e] => accepted'[e]
      /\ \A e \in Email : e # run[p].mail => accepted'[e] = accepted[e]
  BY <1>1, <1>3, <1>4
<1>6. /\ run' \in [Run -> RunRow] /\ \A q \in Run \ {p} : run'[q] = run[q]
      /\ run'[p].pc \in {"marking", "failing"} /\ run'[p].mail = run[p].mail
  <2>1. PICK pc \in {"marking", "failing"}, final \in BOOLEAN :
          run' = [run EXCEPT ![p] = [run[p] EXCEPT !.pc = pc, !.final = final]]
    <3>1. run' = [run EXCEPT ![p].pc = IF answered THEN "marking" ELSE "failing",
                             ![p].final = @ \/ (~answered /\ permanent)]
      BY <1>2 DEF Send
    <3>2. run' = [run EXCEPT ![p] = [run[p] EXCEPT !.pc = IF answered THEN "marking" ELSE "failing",
                             !.final = run[p].final \/ (~answered /\ permanent)]]
      BY <1>1, <3>1 DEF RunRow
    <3> QED BY <3>2
  <2>2. [run[p] EXCEPT !.pc = pc, !.final = final] \in RunRow
    BY <1>1 DEF RunRow
  <2> QED BY <1>1, <2>1, <2>2 DEF RunRow
<1>7. TypeOK'
  BY <1>1, <1>3, <1>5, <1>6 DEF TypeOK
<1>8. Forward /\ OrderFollowsMail' /\ EventsAgree'
  BY <1>1, <1>3 DEF Forward, OrderFollowsMail, EventsAgree
<1>9. MailInv'
  BY <1>1, <1>3, <1>5 DEF MailInv
<1>10. EventInv'
  BY <1>1, <1>3, <1>5, EventAssumption DEF EventInv
<1>11. RunInv(run[p])'
  BY <1>3, <1>6 DEF RunInv
<1>12. RunsInv'
  BY <1>6, <1>8, <1>11, RunsKeep
<1> QED BY <1>7, <1>8, <1>9, <1>10, <1>12 DEF IInv

\* markEmailSent and markEmailFailed: under the lease the delivery takes a state,
\* and a process that lost it writes nothing.
LEMMA MarkStepKeeps == ASSUME IInv, NEW p \in Run, MarkEmailSent(p) \/ MarkEmailFailed(p)
                       PROVE  IInv' /\ Forward
<1> DEFINE e == run[p].mail
<1>1. /\ TypeOK /\ RunInv(run[p]) /\ OrderFollowsMail /\ EventsAgree /\ MailInv /\ EventInv
      /\ mail \in [Email -> MailRow]
  BY DEF IInv, RunsInv, TypeOK
<1>2. /\ status' = status /\ token' = token /\ accepted' = accepted /\ event' = event
      /\ run[p].pc \in {"marking", "failing"}
  BY DEF MarkEmailSent, MarkEmailFailed
<1>3. e \in Email /\ mail[e] \in MailRow
  BY <1>1, <1>2 DEF RunInv
<1>4. mail' \in [Email -> MailRow] /\ Forward /\ OrderFollowsMail' /\ EventsAgree' /\ MailInv' /\ EventInv'
  <2>1. CASE Fenced(p, e)
    <3>1. PICK row \in MailRow : /\ row.state \in {"sent", "failed"} /\ row.lastAt = mail[e].lastAt
                                 /\ mail' = [mail EXCEPT ![e] = row]
      <4>1. "sent" \in MailState /\ "failed" \in MailState
        BY DEF MailState, Ended
      <4>2. CASE MarkEmailSent(p)
        <5>1. mail' = [mail EXCEPT ![e] = [Unleased(mail[e]) EXCEPT !.state = "sent", !.known = TRUE]]
          BY <2>1, <4>2, <1>3, <1>1 DEF MarkEmailSent
        <5>2. /\ [Unleased(mail[e]) EXCEPT !.state = "sent", !.known = TRUE] \in MailRow
              /\ [Unleased(mail[e]) EXCEPT !.state = "sent", !.known = TRUE].state = "sent"
              /\ [Unleased(mail[e]) EXCEPT !.state = "sent", !.known = TRUE].lastAt = mail[e].lastAt
          BY <1>3, <4>1 DEF Unleased, MailRow
        <5> QED BY <5>1, <5>2
      <4>3. CASE MarkEmailFailed(p)
        <5>1. mail' = [mail EXCEPT ![e] = [Unleased(mail[e]) EXCEPT !.state = "failed"]]
          BY <2>1, <4>3, <1>3, <1>1 DEF MarkEmailFailed
        <5>2. /\ [Unleased(mail[e]) EXCEPT !.state = "failed"] \in MailRow
              /\ [Unleased(mail[e]) EXCEPT !.state = "failed"].state = "failed"
              /\ [Unleased(mail[e]) EXCEPT !.state = "failed"].lastAt = mail[e].lastAt
          BY <1>3, <4>1 DEF Unleased, MailRow
        <5> QED BY <5>1, <5>2
      <4> QED BY <4>2, <4>3
    <3>2. mail[e].state \in {"queued", "sent"}
      BY <2>1 DEF Fenced
    <3> QED BY <1>2, <1>3, <3>1, <3>2, MarkKeeps
  <2>2. CASE ~Fenced(p, e)
    <3>1. mail' = mail
      BY <1>1, <1>3, <2>2 DEF MarkEmailSent, MarkEmailFailed
    <3>2. Quiet
      BY <1>2, <3>1 DEF Quiet
    <3> QED BY <1>1, <3>1, <3>2, QuietKeeps
  <2> QED BY <2>1, <2>2
<1>5. /\ run' \in [Run -> RunRow] /\ \A q \in Run \ {p} : run'[q] = run[q]
      /\ RunInv(run[p])'
  <2>1. CASE Finish(p)
    BY <2>1, <1>1, FinishMoves, IdlePromises
  <2>2. CASE MarkEmailSent(p)
    <3>1. PICK pc \in {"failing", "recordingSent", "selecting"} :
            /\ Goto(p, pc)
            /\ pc = "recordingSent" => Fenced(p, e) /\ e = Outcome
      BY <2>2 DEF MarkEmailSent
    <3>2. /\ run' \in [Run -> RunRow] /\ \A q \in Run \ {p} : run'[q] = run[q]
          /\ run'[p].pc = pc /\ run'[p].mail = e
      BY <1>1, <3>1, GotoMoves
    <3>3. mail'[e].state # "absent"
      BY <1>1, <1>2, <1>3, <1>4 DEF RunInv, Forward
    <3>4. pc = "recordingSent" => mail'[e].state # "queued"
      <4>1. CASE Fenced(p, e)
        <5>1. mail' = [mail EXCEPT ![e] = [Unleased(mail[e]) EXCEPT !.state = "sent", !.known = TRUE]]
          BY <2>2, <4>1, <1>3, <1>1 DEF MarkEmailSent
        <5>2. [Unleased(mail[e]) EXCEPT !.state = "sent", !.known = TRUE].state = "sent"
          BY <1>3 DEF Unleased, MailRow
        <5> QED BY <1>1, <1>3, <5>1, <5>2
      <4> QED BY <3>1, <4>1
    <3> QED BY <1>3, <3>1, <3>2, <3>3, <3>4 DEF RunInv
  <2>3. CASE MarkEmailFailed(p) /\ ~Finish(p)
    <3>1. Goto(p, "recordingFailed") /\ Fenced(p, e) /\ e = Outcome
      BY <2>3 DEF MarkEmailFailed
    <3>2. /\ run' \in [Run -> RunRow] /\ \A q \in Run \ {p} : run'[q] = run[q]
          /\ run'[p].pc = "recordingFailed" /\ run'[p].mail = e
      BY <1>1, <3>1, GotoMoves
    <3>3. mail' = [mail EXCEPT ![e] = [Unleased(mail[e]) EXCEPT !.state = "failed"]]
      BY <2>3, <3>1, <1>3, <1>1 DEF MarkEmailFailed
    <3>4. [Unleased(mail[e]) EXCEPT !.state = "failed"].state = "failed"
      BY <1>3 DEF Unleased, MailRow
    <3>5. mail'[e].state = "failed"
      BY <1>1, <1>3, <3>3, <3>4
    <3> QED BY <1>3, <3>1, <3>2, <3>5 DEF RunInv
  <2> QED BY <2>1, <2>2, <2>3
<1>6. TypeOK'
  BY <1>1, <1>2, <1>4, <1>5 DEF TypeOK
<1>7. RunsInv'
  BY <1>4, <1>5, RunsKeep
<1> QED BY <1>4, <1>6, <1>7 DEF IInv

\* The second statements: the order follows a delivery that is past being queued.
LEMMA RecordStepKeeps == ASSUME IInv, NEW p \in Run, RecordSent(p) \/ RecordFailed(p)
                         PROVE  IInv' /\ Forward
<1>1. /\ TypeOK /\ RunInv(run[p]) /\ OrderFollowsMail /\ EventsAgree /\ MailInv /\ EventInv
  BY DEF IInv, RunsInv
<1>2. /\ mail' = mail /\ token' = token /\ accepted' = accepted /\ event' = event
  BY DEF RecordSent, RecordFailed
<1>3. \/ /\ run[p].pc = "recordingSent" /\ Goto(p, "selecting") /\ status' = Recorded(status, "sent")
         /\ mail[Outcome].state \notin {"queued", "absent"}
      \/ /\ run[p].pc = "recordingFailed" /\ Finish(p) /\ status' = Recorded(status, "failed")
         /\ mail[Outcome].state = "failed"
  BY <1>1 DEF RecordSent, RecordFailed, RunInv
<1>4. status' \in {"queued", "sent"} \cup Ended
  BY <1>1, <1>3 DEF TypeOK, Recorded, Ended
<1>5. OrderFollowsMail'
  BY <1>1, <1>2, <1>3 DEF OrderFollowsMail, TypeOK, Recorded, Ended
<1>6. Forward /\ EventsAgree' /\ MailInv' /\ EventInv'
  BY <1>1, <1>2 DEF Forward, EventsAgree, MailInv, EventInv
<1>7. /\ run' \in [Run -> RunRow] /\ \A q \in Run \ {p} : run'[q] = run[q]
      /\ RunInv(run[p])'
  <2>1. CASE Finish(p)
    BY <2>1, <1>1, FinishMoves, IdlePromises
  <2>2. CASE run[p].pc = "recordingSent" /\ Goto(p, "selecting")
    <3>1. /\ run' \in [Run -> RunRow] /\ \A q \in Run \ {p} : run'[q] = run[q]
          /\ run'[p].pc = "selecting" /\ run'[p].mail = run[p].mail
      BY <1>1, <2>2, GotoMoves
    <3> QED BY <1>1, <1>2, <2>2, <3>1 DEF RunInv
  <2> QED BY <1>3, <2>1, <2>2
<1>8. TypeOK'
  BY <1>1, <1>2, <1>4, <1>7 DEF TypeOK
<1>9. RunsInv'
  BY <1>6, <1>7, RunsKeep
<1> QED BY <1>5, <1>6, <1>8, <1>9 DEF IInv

\* scheduleEmailRetry: the lease and the due time, never the state.
LEMMA RetryKeeps == ASSUME IInv, NEW p \in Run, ScheduleEmailRetry(p)
                    PROVE  IInv' /\ Forward
<1> DEFINE e == run[p].mail
<1>1. /\ TypeOK /\ RunInv(run[p]) /\ mail \in [Email -> MailRow]
  BY DEF IInv, RunsInv, TypeOK
<1>2. /\ status' = status /\ token' = token /\ accepted' = accepted /\ event' = event
      /\ run[p].pc = "failing" /\ Finish(p)
  BY DEF ScheduleEmailRetry
<1>3. e \in Email /\ mail[e] \in MailRow
  BY <1>1, <1>2 DEF RunInv
<1>4. PICK row \in MailRow : /\ row.state = mail[e].state /\ row.lastAt = mail[e].lastAt
                             /\ mail' = [mail EXCEPT ![e] = row]
  <2>1. /\ BackedOff(mail[e]) \in MailRow /\ BackedOff(mail[e]).state = mail[e].state
        /\ BackedOff(mail[e]).lastAt = mail[e].lastAt
    BY <1>3 DEF BackedOff, Unleased, MailRow
  <2>2. \/ mail' = [mail EXCEPT ![e] = BackedOff(mail[e])]
        \/ mail' = [mail EXCEPT ![e] = mail[e]]
    BY <1>1, <1>3 DEF ScheduleEmailRetry
  <2> QED BY <1>3, <2>1, <2>2
<1>5. mail' \in [Email -> MailRow] /\ Quiet
  BY <1>1, <1>2, <1>3, <1>4 DEF Quiet
<1>6. Forward /\ OrderFollowsMail' /\ EventsAgree' /\ MailInv' /\ EventInv'
  BY <1>5, QuietKeeps
<1>7. /\ run' \in [Run -> RunRow] /\ \A q \in Run \ {p} : run'[q] = run[q]
      /\ RunInv(run[p])'
  BY <1>1, <1>2, FinishMoves, IdlePromises
<1>8. TypeOK'
  BY <1>1, <1>2, <1>5, <1>7 DEF TypeOK
<1>9. RunsInv'
  BY <1>6, <1>7, RunsKeep
<1> QED BY <1>6, <1>8, <1>9 DEF IInv

\* The events to replay are selected: none, or some to go through.
LEMMA SelectKeeps == ASSUME IInv, NEW p \in Run, SelectIgnored(p)
                     PROVE  IInv' /\ Forward
<1> DEFINE found == {n \in Event : EventOf[n] = run[p].mail /\ event[n].status = "unmatched"}
<1>1. /\ TypeOK /\ RunInv(run[p]) /\ run \in [Run -> RunRow] /\ run[p] \in RunRow
  BY DEF IInv, RunsInv, TypeOK
<1>2. /\ mail' = mail /\ status' = status /\ token' = token /\ accepted' = accepted
      /\ event' = event /\ run[p].pc = "selecting"
      /\ \/ run' = [run EXCEPT ![p] = IdleRun]
         \/ /\ found # {}
            /\ run' = [run EXCEPT ![p] = [run[p] EXCEPT !.pc = "replaying", !.todo = found]]
  BY DEF SelectIgnored
<1>3. /\ run' \in [Run -> RunRow] /\ \A q \in Run \ {p} : run'[q] = run[q]
      /\ RunInv(run[p])'
  <2>1. CASE run' = [run EXCEPT ![p] = IdleRun]
    BY <1>1, <2>1, FinishMoves, IdlePromises DEF Finish
  <2>2. CASE /\ found # {}
             /\ run' = [run EXCEPT ![p] = [run[p] EXCEPT !.pc = "replaying", !.todo = found]]
    <3>1. found \in SUBSET Event
      OBVIOUS
    <3> HIDE DEF found
    <3>2. [run[p] EXCEPT !.pc = "replaying", !.todo = found] \in RunRow
      BY <1>1, <3>1 DEF RunRow
    <3>3. /\ run' \in [Run -> RunRow] /\ \A q \in Run \ {p} : run'[q] = run[q]
          /\ run'[p].pc = "replaying" /\ run'[p].todo = found /\ run'[p].mail = run[p].mail
      BY <1>1, <2>2, <3>2 DEF RunRow
    <3> QED BY <1>1, <1>2, <2>2, <3>3 DEF RunInv
  <2> QED BY <1>2, <2>1, <2>2
<1>4. TypeOK' /\ Quiet
  BY <1>1, <1>2, <1>3 DEF TypeOK, Quiet
<1>5. Forward /\ OrderFollowsMail' /\ EventsAgree' /\ MailInv' /\ EventInv'
  BY <1>4, QuietKeeps DEF IInv
<1>6. RunsInv'
  BY <1>3, <1>5, RunsKeep
<1> QED BY <1>4, <1>5, <1>6 DEF IInv

\* One event is replayed, or was settled meanwhile.
LEMMA ReplayKeeps == ASSUME IInv, NEW p \in Run, ReplayEvent(p)
                     PROVE  IInv' /\ Forward
<1>1. /\ TypeOK /\ RunInv(run[p]) /\ run \in [Run -> RunRow] /\ run[p] \in RunRow
  BY DEF IInv, RunsInv, TypeOK
<1>2. run[p].pc = "replaying" /\ token' = token /\ accepted' = accepted
  BY DEF ReplayEvent
<1>3. PICK n \in run[p].todo :
        /\ IF event[n].status = "unmatched" THEN RecordEvent(n)
                                            ELSE UNCHANGED <<event, mail, status>>
        /\ run' = [run EXCEPT ![p] = IF run[p].todo = {n} THEN IdleRun
                                     ELSE [run[p] EXCEPT !.todo = run[p].todo \ {n}]]
  BY DEF ReplayEvent
<1>4. n \in Event /\ run[p].todo \subseteq Event
  BY <1>1 DEF RunRow
<1>5. /\ mail' \in [Email -> MailRow] /\ event' \in [Event -> EventRow]
      /\ status' \in {"queued", "sent"} \cup Ended
      /\ Forward /\ OrderFollowsMail' /\ EventsAgree' /\ MailInv' /\ EventInv'
  <2>1. CASE event[n].status = "unmatched"
    BY <1>2, <1>3, <1>4, <2>1, RecordKeeps
  <2>2. CASE event[n].status # "unmatched"
    <3>1. Quiet /\ mail' = mail
      BY <1>2, <1>3, <2>2 DEF Quiet
    <3> QED BY <1>1, <3>1, QuietKeeps DEF TypeOK, Quiet
  <2> QED BY <2>1, <2>2
<1>6. /\ run' \in [Run -> RunRow] /\ \A q \in Run \ {p} : run'[q] = run[q]
      /\ RunInv(run[p])'
  <2>1. CASE run[p].todo = {n}
    <3>1. run' = [run EXCEPT ![p] = IdleRun]
      BY <1>3, <2>1
    <3> QED BY <1>1, <3>1, FinishMoves, IdlePromises DEF Finish
  <2>2. CASE run[p].todo # {n}
    <3>1. run' = [run EXCEPT ![p] = [run[p] EXCEPT !.todo = run[p].todo \ {n}]]
      BY <1>3, <2>2
    <3>2. [run[p] EXCEPT !.todo = run[p].todo \ {n}] \in RunRow
      BY <1>1, <1>4 DEF RunRow
    <3>3. /\ run' \in [Run -> RunRow] /\ \A q \in Run \ {p} : run'[q] = run[q]
          /\ run'[p].pc = "replaying" /\ run'[p].todo = run[p].todo \ {n}
          /\ run'[p].mail = run[p].mail
      BY <1>1, <1>2, <3>1, <3>2 DEF RunRow
    <3>4. run[p].todo \ {n} # {}
      BY <1>3, <2>2
    <3>5. run[p].mail \in Email /\ mail'[run[p].mail].state # "absent"
      BY <1>1, <1>2, <1>5 DEF RunInv, Forward
    <3> QED BY <3>3, <3>4, <3>5 DEF RunInv
  <2> QED BY <2>1, <2>2
<1>7. TypeOK'
  BY <1>1, <1>2, <1>5, <1>6 DEF TypeOK
<1>8. RunsInv'
  BY <1>5, <1>6, RunsKeep
<1> QED BY <1>5, <1>7, <1>8 DEF IInv

\* The provider reports, and its webhook is recorded, misses its delivery or is
\* rolled back.
LEMMA EventStepKeeps == ASSUME IInv, NEW n \in Event, EventStep(n)
                        PROVE  IInv' /\ Forward
<1>1. /\ TypeOK /\ OrderFollowsMail /\ EventsAgree /\ MailInv /\ EventInv
      /\ event \in [Event -> EventRow] /\ event[n] \in EventRow /\ EventOf[n] \in Email
  BY EventAssumption DEF IInv, TypeOK
<1>2. run' = run /\ token' = token /\ accepted' = accepted
  BY DEF EventStep, Report, ReceiveEvent, MissDelivery, CommitMissed
<1>3. /\ mail' \in [Email -> MailRow] /\ event' \in [Event -> EventRow]
      /\ status' \in {"queued", "sent"} \cup Ended
      /\ Forward /\ OrderFollowsMail' /\ EventsAgree' /\ MailInv' /\ EventInv'
  <2>1. CASE ReceiveEvent(n)
    BY <1>2, <2>1, RecordKeeps DEF ReceiveEvent
  <2>2. CASE ~ReceiveEvent(n)
    <3>1. mail' = mail /\ status' = status
      BY <2>2 DEF EventStep, Report, MissDelivery, CommitMissed
    <3>2. PICK row \in EventRow :
            /\ event' = [event EXCEPT ![n] = row]
            /\ row.status \in {"pending", "open", "unmatched"}
            /\ row.target \in Ended /\ accepted[EventOf[n]]
      <4>1. CASE \E target \in Ended : Report(n, target)
        <5>1. PICK target \in Ended : Report(n, target)
          BY <4>1
        <5>2. [target |-> target, status |-> "pending"] \in EventRow
          BY DEF EventRow, EventStatus
        <5> QED BY <5>1, <5>2 DEF Report
      <4>2. CASE MissDelivery(n)
        <5>1. [event[n] EXCEPT !.status = "open"] \in EventRow
          BY <1>1 DEF EventRow, EventStatus
        <5>2. event' = [event EXCEPT ![n] = [event[n] EXCEPT !.status = "open"]]
          BY <1>1, <4>2 DEF MissDelivery
        <5>3. event[n].target \in Ended /\ accepted[EventOf[n]]
          BY <1>1, <4>2 DEF MissDelivery, EventInv
        <5> QED BY <1>1, <5>1, <5>2, <5>3 DEF EventRow
      <4>3. CASE \E outcome \in {"unmatched", "pending"} : CommitMissed(n, outcome)
        <5>1. PICK outcome \in {"unmatched", "pending"} : CommitMissed(n, outcome)
          BY <4>3
        <5>2. [event[n] EXCEPT !.status = outcome] \in EventRow
          BY <1>1 DEF EventRow, EventStatus
        <5>3. event' = [event EXCEPT ![n] = [event[n] EXCEPT !.status = outcome]]
          BY <1>1, <5>1 DEF CommitMissed
        <5>4. event[n].target \in Ended /\ accepted[EventOf[n]]
          BY <1>1, <5>1 DEF CommitMissed, EventInv
        <5> QED BY <1>1, <5>2, <5>3, <5>4 DEF EventRow
      <4> QED BY <2>2, <4>1, <4>2, <4>3 DEF EventStep
    <3>3. /\ event' \in [Event -> EventRow] /\ event'[n] = row
          /\ \A i \in Event \ {n} : event'[i] = event[i]
      BY <1>1, <3>2
    <3>4. EventsAgree'
      BY <1>1, <3>1, <3>2, <3>3 DEF EventsAgree
    <3>5. EventInv'
      BY <1>1, <1>2, <3>2, <3>3 DEF EventInv
    <3>6. Forward /\ OrderFollowsMail' /\ MailInv'
      BY <1>1, <1>2, <3>1 DEF Forward, OrderFollowsMail, MailInv
    <3> QED BY <1>1, <3>1, <3>3, <3>4, <3>5, <3>6 DEF TypeOK
  <2> QED BY <2>1, <2>2
<1>4. TypeOK'
  BY <1>1, <1>2, <1>3 DEF TypeOK
<1>5. RunsInv'
  BY <1>2, <1>3, NoRunMoves
<1> QED BY <1>3, <1>4, <1>5 DEF IInv

\* Time passes, the customer uses a link, a process dies: no delivery changes.
LEMMA OutsideKeeps == ASSUME IInv,
                             \/ \E p \in Run : CrashRun(p)
                             \/ \E e \in Email : \/ LeaseExpires(e) \/ BackoffElapses(e)
                                                 \/ RedeemReportAccessToken(e)
                      PROVE  IInv' /\ Forward
<1>1. TypeOK /\ mail \in [Email -> MailRow] /\ token \in [Email -> TokenState]
  BY DEF IInv, TypeOK
<1>2. status' = status /\ accepted' = accepted /\ event' = event
  BY DEF CrashRun, LeaseExpires, BackoffElapses, RedeemReportAccessToken
<1>3. mail' \in [Email -> MailRow] /\ Quiet
  <2>1. CASE mail' = mail
    BY <1>1, <1>2, <2>1 DEF Quiet
  <2>2. CASE \E e \in Email : LeaseExpires(e) \/ BackoffElapses(e)
    <3>1. PICK e \in Email : LeaseExpires(e) \/ BackoffElapses(e)
      BY <2>2
    <3>2. PICK row \in MailRow : /\ row.state = mail[e].state /\ row.lastAt = mail[e].lastAt
                                 /\ mail' = [mail EXCEPT ![e] = row]
      <4>1. mail[e] \in MailRow
        BY <1>1
      <4>2. CASE LeaseExpires(e)
        <5>1. [mail[e] EXCEPT !.live = FALSE] \in MailRow
          BY <4>1 DEF MailRow
        <5> QED BY <4>1, <4>2, <5>1 DEF LeaseExpires, MailRow
      <4>3. CASE BackoffElapses(e)
        <5>1. [mail[e] EXCEPT !.due = TRUE] \in MailRow
          BY <4>1 DEF MailRow
        <5> QED BY <4>1, <4>3, <5>1 DEF BackoffElapses, MailRow
      <4> QED BY <3>1, <4>2, <4>3
    <3> QED BY <1>1, <1>2, <3>2 DEF Quiet
  <2> QED BY <2>1, <2>2 DEF CrashRun, RedeemReportAccessToken
<1>4. Forward /\ OrderFollowsMail' /\ EventsAgree' /\ MailInv' /\ EventInv'
  BY <1>3, QuietKeeps
<1>5. token' \in [Email -> TokenState]
  <2>1. CASE token' = token
    BY <1>1, <2>1
  <2>2. CASE \E e \in Email : RedeemReportAccessToken(e)
    BY <1>1, <2>2 DEF RedeemReportAccessToken, TokenState
  <2> QED BY <2>1, <2>2 DEF CrashRun, LeaseExpires, BackoffElapses
<1>6. run' \in [Run -> RunRow] /\ RunsInv'
  <2>1. CASE run' = run
    BY <1>1, <1>4, <2>1, NoRunMoves DEF TypeOK
  <2>2. CASE \E p \in Run : CrashRun(p)
    <3>1. PICK p \in Run : CrashRun(p)
      BY <2>2
    <3> QED BY <1>1, <1>4, <3>1, FinishMoves, IdlePromises, RunsKeep DEF CrashRun
  <2> QED BY <2>1, <2>2 DEF LeaseExpires, BackoffElapses, RedeemReportAccessToken
<1>7. TypeOK'
  BY <1>1, <1>2, <1>3, <1>5, <1>6 DEF TypeOK
<1> QED BY <1>4, <1>6, <1>7 DEF IInv

-----------------------------------------------------------------------------
(* The theorems.                                                            *)

\* The order's first e-mail is queued, and nothing else has happened.
LEMMA InitIInv == Init => IInv
<1> SUFFICES ASSUME Init PROVE IInv
  OBVIOUS
<1>1. mail \in [Email -> MailRow]
  BY AttemptsAssumption DEF Init, MailRow, MailState
<1>2. /\ status = "queued" /\ \A e \in Email : accepted[e] = FALSE /\ mail[e].lastAt = 0
      /\ \A n \in Event : event[n].status = "unborn"
      /\ \A p \in Run : run[p].pc = "idle"
      /\ mail[Outcome].state = "queued" /\ Outcome \in Email
  BY OutcomeAssumption DEF Init, IdleRun
<1>3. token \in [Email -> TokenState] /\ accepted \in [Email -> BOOLEAN]
  BY DEF Init, TokenState
<1>4. event \in [Event -> EventRow]
  BY DEF Init, EventRow, EventStatus
<1>5. run \in [Run -> RunRow]
  BY DEF Init, IdleRun, RunRow
<1>6. TypeOK
  BY <1>1, <1>2, <1>3, <1>4, <1>5 DEF TypeOK
<1>7. OrderFollowsMail /\ EventsAgree /\ MailInv /\ EventInv
  BY <1>2 DEF OrderFollowsMail, EventsAgree, MailInv, EventInv, Ended
<1>8. RunsInv
  BY <1>2 DEF RunsInv, RunInv
<1> QED BY <1>6, <1>7, <1>8 DEF IInv

\* Every step keeps the invariant, and none rewinds a delivery.
LEMMA NextIInv == IInv /\ [Next]_vars => IInv' /\ Forward
<1> SUFFICES ASSUME IInv, [Next]_vars PROVE IInv' /\ Forward
  OBVIOUS
<1>1. CASE \E p \in Run, e \in Email : ClaimEmailDelivery(p, e)
  BY <1>1, ClaimKeeps
<1>2. CASE \E p \in Run : WorkStep(p)
  BY <1>2, PrepareKeeps, SendKeeps, MarkStepKeeps, RecordStepKeeps, RetryKeeps, SelectKeeps,
     ReplayKeeps DEF WorkStep
<1>3. CASE \E p \in Run : CrashRun(p)
  BY <1>3, OutsideKeeps
<1>4. CASE \E n \in Event : EventStep(n)
  BY <1>4, EventStepKeeps
<1>5. CASE \E e \in Email : EmailStep(e)
  BY <1>5, ReissueKeeps, OutsideKeeps DEF EmailStep
<1>6. CASE UNCHANGED vars
  BY <1>6 DEF vars, IInv, TypeOK, OrderFollowsMail, EventsAgree, RunsInv, RunInv, MailInv, EventInv,
            Forward
<1> QED BY <1>1, <1>2, <1>3, <1>4, <1>5, <1>6 DEF Next

\* Every variable keeps its type.
THEOREM TypeCorrect == Spec => []TypeOK
<1>1. IInv => TypeOK
  BY DEF IInv
<1> QED BY <1>1, InitIInv, NextIInv, PTL DEF Spec

\* Whatever sender, lease or webhook writes when: the order's delivery status is
\* the end its outcome e-mail has.
THEOREM OrderFollows == Spec => []OrderFollowsMail
<1>1. IInv => OrderFollowsMail
  BY DEF IInv
<1> QED BY <1>1, InitIInv, NextIInv, PTL DEF Spec

\* An event of the provider is applied exactly when the delivery says what it says.
THEOREM EventsAgreeAlways == Spec => []EventsAgree
<1>1. IInv => EventsAgree
  BY DEF IInv
<1> QED BY <1>1, InitIInv, NextIInv, PTL DEF Spec

\* A delivery that has ended keeps its end: the transitions of the states are
\* never walked backwards, in any order of marks and events.
THEOREM NothingRewinds == Spec => [][Forward]_vars
<1>1. IInv /\ [Next]_vars => [Forward]_vars
  BY NextIInv
<1> QED BY <1>1, InitIInv, NextIInv, PTL DEF Spec

\* A process whose lease was taken over or has run out writes neither the delivery
\* nor its order.
THEOREM StaleRunHarmless == Spec => StaleRunMarksNothing
<1> DEFINE Stale(p) == /\ run[p].pc \in {"marking", "failing"} /\ run'[p] # run[p]
                       /\ mail[run[p].mail].owner # p \/ ~mail[run[p].mail].live
<1>1. ASSUME IInv, Next, NEW p \in Run, Stale(p)
      PROVE  mail' = mail /\ status' = status
  <2>1. /\ run \in [Run -> RunRow] /\ mail \in [Email -> MailRow]
        /\ run[p].mail \in Email /\ ~Fenced(p, run[p].mail)
    BY <1>1 DEF IInv, TypeOK, RunsInv, RunInv, Fenced
  <2>2. CASE \E q \in Run, e \in Email : ClaimEmailDelivery(q, e)
    BY <1>1, <2>1, <2>2 DEF ClaimEmailDelivery
  <2>3. CASE \E q \in Run : WorkStep(q)
    <3>1. PICK q \in Run : WorkStep(q)
      BY <2>3
    <3>2. q = p
      BY <1>1, <2>1, <3>1 DEF WorkStep, RevokeReportAccessTokens, IssueReportAccessToken,
         PrepareFails, SendStep, Send, MarkEmailSent, RecordSent, MarkEmailFailed, RecordFailed,
         ScheduleEmailRetry, SelectIgnored, ReplayEvent, Goto, Finish
    <3>3. MarkEmailSent(p) \/ MarkEmailFailed(p) \/ ScheduleEmailRetry(p)
      BY <1>1, <3>1, <3>2 DEF WorkStep, RevokeReportAccessTokens, IssueReportAccessToken,
         PrepareFails, SendStep, Send, RecordSent, RecordFailed, SelectIgnored, ReplayEvent
    <3> QED BY <2>1, <3>3 DEF MarkEmailSent, MarkEmailFailed, ScheduleEmailRetry
  <2>4. CASE \E q \in Run : CrashRun(q)
    BY <2>4 DEF CrashRun
  <2>5. CASE (\E n \in Event : EventStep(n)) \/ (\E e \in Email : EmailStep(e))
    <3>1. run' = run
      BY <2>5 DEF EventStep, Report, ReceiveEvent, MissDelivery, CommitMissed, EmailStep,
         RequestReportLinkReissue, LeaseExpires, BackoffElapses, RedeemReportAccessToken
    <3> QED BY <1>1, <3>1
  <2> QED BY <1>1, <2>2, <2>3, <2>4, <2>5 DEF Next
<1>2. IInv /\ [Next]_vars => [\A p \in Run : Stale(p) => mail' = mail /\ status' = status]_vars
  BY <1>1
<1> QED BY <1>2, InitIInv, NextIInv, PTL DEF Spec, StaleRunMarksNothing
=============================================================================
