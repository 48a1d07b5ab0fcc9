---------------------------- MODULE EmailDelivery ----------------------------
(***************************************************************************)
(* The e-mails of one paid report: rows of email_deliveries, the access    *)
(* tokens their links carry, the delivery status of the order, and the     *)
(* events the e-mail provider reports by webhook.                          *)
(*                                                                         *)
(* Sending is a claim under a lease and then a chain of calls, each of     *)
(* them a transaction or a request; the process that runs the chain may    *)
(* die or lose its lease between any two.  An event of the provider is one *)
(* transaction, except that one which finds no delivery commits this after *)
(* its lookup: a mark made in between does not see it.                      *)
(***************************************************************************)
EXTENDS Integers, FiniteSets

CONSTANTS
  Email,       \* email_deliveries rows of the order
  Outcome,     \* the one e-mail with the outcome of the job
  Fulfillment, \* fulfillment_status of the order: it is paid and not legacy
  Run,         \* processes that send e-mails (commerce:email)
  None,        \* no process, no e-mail
  Event,       \* provider events; naturals, the order of provider_created_at
  EventOf,     \* [Event -> Email]
  MaxAttempts  \* attempts after which an error is final

ASSUME OutcomeAssumption == Outcome \in Email
                            /\ Fulfillment \in {"completed", "completed_limited"}
ASSUME NoneAssumption == None \notin Run \cup Email
ASSUME EventAssumption == /\ Event \subseteq Nat \ {0} /\ IsFiniteSet(Event)
                          /\ EventOf \in [Event -> Email]
ASSUME AttemptsAssumption == MaxAttempts \in Nat \ {0, 1}

VARIABLES
  mail,     \* [Email -> MailRow]: the table email_deliveries
  status,   \* delivery_status of the order
  token,    \* [Email -> TokenState]: the token derived from the e-mail's key
  accepted, \* [Email -> BOOLEAN]: the provider has taken the e-mail
  event,    \* [Event -> EventRow]: what the provider reports, and its ledger row
  run       \* [Run -> RunRow]: what a sending process holds in memory

vars == <<mail, status, token, accepted, event, run>>

Ended == {"delivered", "bounced", "failed"}
MailState == {"absent", "queued", "sent"} \cup Ended
TokenState == {"none", "live", "redeemed", "revoked"}

\* pending: not recorded; open: being recorded; unmatched: no delivery found.
EventStatus == {"unborn", "pending", "open", "unmatched", "applied", "stale"}
EventRow == [target : Ended \cup {"none"}, status : EventStatus]

MailRow == [state : MailState,
            known : BOOLEAN,             \* provider_email_id is set
            owner : Run \cup {None},
            live : BOOLEAN,              \* lease_expires_at > now()
            due : BOOLEAN,               \* next_retry_at <= now()
            attempts : 0 .. MaxAttempts, \* saturates: only 1 and >= MaxAttempts are tested
            lastAt : Event \cup {0}]     \* last_provider_event_at

RunRow == [pc : {"idle", "revoking", "issuing", "sending", "marking", "recordingSent",
                 "selecting", "replaying", "failing", "recordingFailed"},
           mail : Email \cup {None},
           final : BOOLEAN,              \* an error is not retried
           todo : SUBSET Event]          \* the events to replay

IdleRun == [pc |-> "idle", mail |-> None, final |-> FALSE, todo |-> {}]

Init == /\ mail = [e \in Email |-> [state |-> IF e = Outcome THEN "queued" ELSE "absent",
                                    known |-> FALSE, owner |-> None, live |-> FALSE,
                                    due |-> TRUE, attempts |-> 0, lastAt |-> 0]]
        /\ status = "queued"
        /\ \E first \in {"none", "live"} :  \* V4 inserts the token with the e-mail
             token = [e \in Email |-> IF e = Outcome THEN first ELSE "none"]
        /\ accepted = [e \in Email |-> FALSE]
        /\ event = [n \in Event |-> [target |-> "none", status |-> "unborn"]]
        /\ run = [p \in Run |-> IdleRun]

-----------------------------------------------------------------------------
(* Queueing and claiming.                                                   *)

\* requestReportLinkReissue: only for a complete report.
RequestReportLinkReissue(e) ==
  /\ e # Outcome /\ mail[e].state = "absent"
  /\ Fulfillment = "completed"
  /\ mail' = [mail EXCEPT ![e].state = "queued"]
  /\ UNCHANGED <<status, token, accepted, event, run>>

\* Mutant of Claimable: a lease that ran out is not taken over.
ClaimableOnce(row) == row.state = "queued" /\ row.due /\ row.owner = None

Claimable(row) == row.state = "queued" /\ row.due /\ ~row.live

\* Every e-mail of a completed order carries a link; a reissue revokes the others
\* first, on its first attempt only.
FirstStep(e, attempts) == IF e # Outcome /\ attempts = 1 THEN "revoking" ELSE "issuing"

\* claimEmailDeliveries, one e-mail of the batch.
ClaimEmailDelivery(p, e) ==
  LET n == IF mail[e].attempts < MaxAttempts THEN mail[e].attempts + 1 ELSE MaxAttempts
  IN /\ run[p].pc = "idle"
     /\ Claimable(mail[e])
     /\ mail' = [mail EXCEPT ![e] = [@ EXCEPT !.owner = p, !.live = TRUE, !.attempts = n]]
     /\ run' = [run EXCEPT ![p] = [pc |-> FirstStep(e, n), mail |-> e,
                                   final |-> n >= MaxAttempts, todo |-> {}]]
     /\ UNCHANGED <<status, token, accepted, event>>

-----------------------------------------------------------------------------
(* sendDelivery: the link, the call, the marks.                             *)

Goto(p, pc) == run' = [run EXCEPT ![p].pc = pc]
Finish(p) == run' = [run EXCEPT ![p] = IdleRun]

\* revokeReportAccessTokens: all tokens of the report.
RevokeReportAccessTokens(p) ==
  /\ run[p].pc = "revoking"
  /\ token' = [e \in Email |-> IF token[e] = "none" THEN "none" ELSE "revoked"]
  /\ Goto(p, "issuing")
  /\ UNCHANGED <<mail, status, accepted, event>>

\* issueReportAccessToken: an entitlement is a complete report.  The token is
\* derived from the e-mail's key, and one that exists is used whatever its state.
IssueReportAccessToken(p) ==
  LET e == run[p].mail
      entitled == Fulfillment = "completed"
  IN /\ run[p].pc = "issuing"
     /\ token' = [token EXCEPT ![e] = IF entitled /\ @ = "none" THEN "live" ELSE @]
     /\ Goto(p, IF entitled THEN "sending" ELSE "failing")
     /\ UNCHANGED <<mail, status, accepted, event>>

\* A read or write before the call fails.
PrepareFails(p) ==
  /\ run[p].pc \in {"revoking", "issuing"}
  /\ Goto(p, "failing")
  /\ UNCHANGED <<mail, status, token, accepted, event>>

\* ResendEmailGateway.send: the key makes a second request the same e-mail, and
\* after an error the provider may have accepted it or not.
Send(p, answered, permanent) ==
  LET e == run[p].mail IN
  /\ run[p].pc = "sending"
  /\ \E taken \in BOOLEAN : /\ answered => taken
                            /\ accepted' = [accepted EXCEPT ![e] = @ \/ taken]
  /\ run' = [run EXCEPT ![p].pc = IF answered THEN "marking" ELSE "failing",
                        ![p].final = @ \/ (~answered /\ permanent)]
  /\ UNCHANGED <<mail, status, token, event>>

\* Mutant of Fenced: the state alone decides.
FencedByState(p, e) == mail[e].state \in {"queued", "sent"}

Fenced(p, e) == /\ mail[e].owner = p /\ mail[e].live
                /\ mail[e].state \in {"queued", "sent"}

Unleased(row) == [row EXCEPT !.owner = None, !.live = FALSE]

\* markEmailSent; a lost lease is an error of the delivery.
MarkEmailSent(p) ==
  LET e == run[p].mail IN
  /\ run[p].pc = "marking"
  /\ mail' = [mail EXCEPT ![e] = IF Fenced(p, e)
                                 THEN [Unleased(@) EXCEPT !.state = "sent", !.known = TRUE]
                                 ELSE @]
  /\ Goto(p, IF ~Fenced(p, e) THEN "failing"
             ELSE IF e = Outcome THEN "recordingSent" ELSE "selecting")
  /\ UNCHANGED <<status, token, accepted, event>>

\* Mutant of Recorded: the order takes whatever comes last.
RecordedLast(current, target) == target

\* The order keeps a delivery status that is terminal.
Recorded(current, target) == IF current \in {"queued", "sent"} THEN target ELSE current

\* markEmailSent, the second statement, outside the first one's transaction.
RecordSent(p) ==
  /\ run[p].pc = "recordingSent"
  /\ status' = Recorded(status, "sent")
  /\ Goto(p, "selecting")
  /\ UNCHANGED <<mail, token, accepted, event>>

\* markEmailFailed on a final error.
MarkEmailFailed(p) ==
  LET e == run[p].mail IN
  /\ run[p].pc = "failing" /\ run[p].final
  /\ mail' = [mail EXCEPT ![e] = IF Fenced(p, e) THEN [Unleased(@) EXCEPT !.state = "failed"]
                                 ELSE @]
  /\ IF Fenced(p, e) /\ e = Outcome THEN Goto(p, "recordingFailed") ELSE Finish(p)
  /\ UNCHANGED <<status, token, accepted, event>>

RecordFailed(p) ==
  /\ run[p].pc = "recordingFailed"
  /\ status' = Recorded(status, "failed")
  /\ Finish(p)
  /\ UNCHANGED <<mail, token, accepted, event>>

\* Mutant of BackedOff: the attempt is handed back, and one more.
BackedOffTwice(row) == [Unleased(row) EXCEPT !.due = FALSE, !.attempts = @ - 2]

BackedOff(row) == [Unleased(row) EXCEPT !.due = FALSE]

\* scheduleEmailRetry on any other error.
ScheduleEmailRetry(p) ==
  LET e == run[p].mail IN
  /\ run[p].pc = "failing" /\ ~run[p].final
  /\ mail' = [mail EXCEPT ![e] = IF Fenced(p, e) /\ @.state = "queued" THEN BackedOff(@) ELSE @]
  /\ Finish(p)
  /\ UNCHANGED <<status, token, accepted, event>>

-----------------------------------------------------------------------------
(* Provider events.                                                         *)

\* Mutant of ShouldApply: the state of the delivery is not read.
ShouldApplyByTime(n) == n >= mail[EventOf[n]].lastAt

\* shouldApplyEmailProviderEvent: not older than the last one, and a transition
\* from a state that is not terminal (or none at all).
ShouldApply(n) == /\ n >= mail[EventOf[n]].lastAt
                  /\ mail[EventOf[n]].state \in {"queued", "sent", event[n].target}

\* recordEmailProviderEvent for an event whose delivery is found.
RecordEvent(n) ==
  LET e == EventOf[n]
      target == event[n].target
  IN /\ event' = [event EXCEPT ![n].status = IF ShouldApply(n) THEN "applied" ELSE "stale"]
     /\ mail' = [mail EXCEPT ![e] = IF ShouldApply(n)
                                    THEN [Unleased(@) EXCEPT !.state = target, !.lastAt = n]
                                    ELSE @]
     /\ status' = IF ShouldApply(n) /\ e = Outcome THEN Recorded(status, target) ELSE status

\* The webhook, first delivered or repeated; a repetition of what is settled
\* changes nothing.
ReceiveEvent(n) ==
  /\ event[n].status \in {"pending", "unmatched"}
  /\ mail[EventOf[n]].known
  /\ RecordEvent(n)
  /\ UNCHANGED <<token, accepted, run>>

\* Its lookup finds no delivery with the provider's id; nothing is visible yet.
MissDelivery(n) ==
  /\ event[n].status = "pending" /\ ~mail[EventOf[n]].known
  /\ event' = [event EXCEPT ![n].status = "open"]
  /\ UNCHANGED <<mail, status, token, accepted, run>>

\* The transaction commits ('ignored', delivery_not_found), or is rolled back and
\* the provider repeats the webhook.
CommitMissed(n, outcome) ==
  /\ event[n].status = "open"
  /\ event' = [event EXCEPT ![n].status = outcome]
  /\ UNCHANGED <<mail, status, token, accepted, run>>

\* replayIgnoredEmailEvents, the SELECT.
SelectIgnored(p) ==
  LET found == {n \in Event : EventOf[n] = run[p].mail /\ event[n].status = "unmatched"}
  IN /\ run[p].pc = "selecting"
     /\ run' = [run EXCEPT ![p] = IF found = {} THEN IdleRun
                                  ELSE [@ EXCEPT !.pc = "replaying", !.todo = found]]
     /\ UNCHANGED <<mail, status, token, accepted, event>>

\* replayIgnoredEmailEvents, one event, the oldest first; a webhook repeated
\* meanwhile may have settled it.
ReplayEvent(p) ==
  /\ run[p].pc = "replaying"
  /\ \E n \in run[p].todo :
       /\ \A other \in run[p].todo : n <= other
       /\ IF event[n].status = "unmatched" THEN RecordEvent(n)
                                          ELSE UNCHANGED <<event, mail, status>>
       /\ run' = [run EXCEPT ![p] = IF run[p].todo = {n} THEN IdleRun
                                    ELSE [run[p] EXCEPT !.todo = run[p].todo \ {n}]]
  /\ UNCHANGED <<token, accepted>>

\* The provider reports what became of an e-mail: one end, or a complaint after
\* a delivery.
Report(n, target) ==
  LET before == {i \in Event : i < n /\ EventOf[i] = EventOf[n]} IN
  /\ event[n].status = "unborn"
  /\ accepted[EventOf[n]]
  /\ \A i \in before : event[i].target = "delivered"
  /\ before # {} => target = "failed"
  /\ event' = [event EXCEPT ![n] = [target |-> target, status |-> "pending"]]
  /\ UNCHANGED <<mail, status, token, accepted, run>>

-----------------------------------------------------------------------------
CrashRun(p) ==
  /\ run[p].pc # "idle"
  /\ Finish(p)
  /\ UNCHANGED <<mail, status, token, accepted, event>>

LeaseExpires(e) ==
  /\ mail[e].live
  /\ mail' = [mail EXCEPT ![e].live = FALSE]
  /\ UNCHANGED <<status, token, accepted, event, run>>

BackoffElapses(e) ==
  /\ ~mail[e].due
  /\ mail' = [mail EXCEPT ![e].due = TRUE]
  /\ UNCHANGED <<status, token, accepted, event, run>>

\* redeemReportAccessToken by the customer.
RedeemReportAccessToken(e) ==
  /\ accepted[e] /\ token[e] = "live"
  /\ token' = [token EXCEPT ![e] = "redeemed"]
  /\ UNCHANGED <<mail, status, accepted, event, run>>

SendStep(p) == \E answered, permanent \in BOOLEAN : Send(p, answered, permanent)

WorkStep(p) == \/ RevokeReportAccessTokens(p) \/ IssueReportAccessToken(p) \/ PrepareFails(p)
               \/ SendStep(p) \/ MarkEmailSent(p) \/ RecordSent(p) \/ MarkEmailFailed(p)
               \/ RecordFailed(p) \/ ScheduleEmailRetry(p) \/ SelectIgnored(p) \/ ReplayEvent(p)

EventStep(n) == \/ \E target \in Ended : Report(n, target)
                \/ ReceiveEvent(n) \/ MissDelivery(n)
                \/ \E outcome \in {"unmatched", "pending"} : CommitMissed(n, outcome)

EmailStep(e) == \/ RequestReportLinkReissue(e) \/ LeaseExpires(e) \/ BackoffElapses(e)
                \/ RedeemReportAccessToken(e)

Next == \/ \E p \in Run : \/ \E e \in Email : ClaimEmailDelivery(p, e)
                          \/ WorkStep(p) \/ CrashRun(p)
        \/ \E n \in Event : EventStep(n)
        \/ \E e \in Email : EmailStep(e)

Spec == Init /\ [][Next]_vars

\* The process works on a lease that has not run out.
InTime(p) == run[p].mail \in Email /\ Fenced(p, run[p].mail)

\* commerce:email runs again and again; a process may die or outlive its lease of
\* 120 seconds, but not each time.
Fairness ==
  /\ \A e \in Email : /\ WF_vars(LeaseExpires(e))
                      /\ WF_vars(BackoffElapses(e))
                      /\ \A p \in Run : SF_vars(ClaimEmailDelivery(p, e))
  /\ \A p \in Run : /\ WF_vars(WorkStep(p))
                    /\ SF_vars(InTime(p) /\ IssueReportAccessToken(p))
                    /\ SF_vars(InTime(p) /\ SendStep(p))
                    /\ SF_vars(InTime(p) /\ MarkEmailSent(p))
                    /\ SF_vars(InTime(p) /\ MarkEmailFailed(p))

FairSpec == Spec /\ Fairness

-----------------------------------------------------------------------------
(* Properties.                                                              *)

TypeOK == /\ mail \in [Email -> MailRow]
          /\ status \in {"queued", "sent"} \cup Ended
          /\ token \in [Email -> TokenState]
          /\ accepted \in [Email -> BOOLEAN]
          /\ event \in [Event -> EventRow]
          /\ run \in [Run -> RunRow]

\* The order never tells an end the delivery does not have, and always the one a
\* provider event gave it, although both are written by statements of their own,
\* by processes and webhooks that race.  Only a failure the sender found may be
\* missing, when it died between its two statements.
OrderFollowsMail ==
  /\ status \in Ended => mail[Outcome].state = status
  /\ status = "sent" => mail[Outcome].state # "queued"
  /\ mail[Outcome].state \in {"delivered", "bounced"} => status = mail[Outcome].state

\* An event is applied exactly when it says what the delivery says, and dismissed
\* only because the delivery had ended (2026-07-10-commercial-report-delivery-
\* design.md:296): a late or repeated event is never a reason to lose an earlier one.
EventsAgree ==
  \A n \in Event : /\ event[n].status = "applied" => mail[EventOf[n]].state = event[n].target
                   /\ event[n].status = "stale" => mail[EventOf[n]].state \in Ended

\* A process without the lease writes neither the delivery nor its order.
StaleRunMarksNothing ==
  [][\A p \in Run :
       (/\ run[p].pc \in {"marking", "failing"} /\ run'[p] # run[p]
        /\ mail[run[p].mail].owner # p \/ ~mail[run[p].mail].live)
          => mail' = mail /\ status' = status]_vars

\* Whatever crashes, a queued e-mail is handed over or its failure is recorded.
QueuedIsSent == \A e \in Email : []<>(mail[e].state # "queued")
=============================================================================
