----------------------------- MODULE Publication -----------------------------
(***************************************************************************)
(* What follows a review: the human decision on an attempt, its            *)
(* publication as a comment and a check run on GitHub, and the attempts    *)
(* that supersede it.                                                      *)
(*                                                                         *)
(* The attempts of one root run are numbered 1, 2, ...  Every call of the  *)
(* publish route is a publisher: it reads the decision, then for each kind *)
(* records that it publishes it (which claims the kind for the root run),  *)
(* looks for the object on GitHub, creates or updates it, and records it   *)
(* as published.  A publisher may be interrupted, may crash, may lose      *)
(* every answer; the reviewer's retry is another publisher.                *)
(*                                                                         *)
(* The client of GitHub (octokit) sends a request again on its own, but    *)
(* not the listing before it, when the connection breaks or the server     *)
(* errs.  Calls may ask for no retries; those that create and update the   *)
(* objects do not.                                                         *)
(*                                                                         *)
(* Time is abstracted to `leased': what a publisher recorded of a kind     *)
(* as pending is less than five minutes old.  GitHub is abandoned after    *)
(* 30 seconds, repeated requests included, so no lease passes while its    *)
(* publisher waits for GitHub, or while a request of its is under way.     *)
(***************************************************************************)
EXTENDS Naturals

CONSTANTS
    Publisher,      \* calls of the publish route; each makes one dispatch token per kind
    NoPublisher,
    Verdict,        \* what the humans decide
    MaxResends,     \* how often the client repeats a request; octokit does so three times
    MaxAttempts     \* bound: attempts of the root run

ASSUME PublicationConstants ==
    /\ NoPublisher \notin Publisher
    /\ Verdict \subseteq {"approved", "rejected", "changes-requested"}
    /\ MaxResends \in Nat
    /\ MaxAttempts \in Nat \ {0}

VARIABLES
    latest,         \* the number of the latest attempt
    attempt,        \* attempt -> its run, and what its review found
    decision,       \* attempt -> its human decision
    claim,          \* kind -> the publisher of its canonicalPublicationClaims row
    leased,         \* kind -> the publishers whose record of it as pending is younger than 300 s
    row,            \* attempt, kind -> its publicationResults row
    program,        \* publisher -> its program
    flight,         \* publisher, kind -> its request that GitHub has not processed
    github          \* attempt, kind -> the objects on GitHub with the decision's marker, and
                    \* (auxiliary: nobody reads it) by which publishers they were created

storage == <<latest, attempt, decision, claim, leased, row>>
vars == <<latest, attempt, decision, claim, leased, row, program, flight, github>>

Attempt == 1..MaxAttempts
Kind == {"issue-comment", "check-run"}
Conclusion == {"none", "success", "failure", "neutral", "action_required"}

Run ==
    [status : {"absent", "running", "reviewed", "failed"}, trigger : {"intake", "rerun"},
     verification : {"none", "passed", "incomplete", "failed"},
     policy : {"none", "manual-review", "changes-requested"}]

Row == [status : {"absent", "pending", "published"}, token : Publisher \cup {NoPublisher}]

\* kind is the one being published, left those that follow it; resends counts how
\* often the request it waits for was sent again.
Program ==
    [pc : {"idle", "claim", "list", "wait", "renew", "record", "done"}, of : Attempt,
     kind : Kind, left : SUBSET Kind, report : Conclusion, resends : 0..MaxResends]

\* What a decision says: the conclusion of its check run, for its comment too.  Copies
\* of one request may be under way at once.
Request ==
    [method : {"none", "create", "update"}, of : Attempt, report : Conclusion, copies : Nat]

NoRequest == [method |-> "none", of |-> 1, report |-> "none", copies |-> 0]

TypeOK ==
    /\ latest \in Attempt
    /\ attempt \in [Attempt -> Run]
    /\ decision \in [Attempt -> [status : Verdict \cup {"none"}, override : BOOLEAN]]
    /\ claim \in [Kind -> Publisher \cup {NoPublisher}]
    /\ leased \in [Kind -> SUBSET Publisher]
    /\ row \in [Attempt -> [Kind -> Row]]
    /\ program \in [Publisher -> Program]
    /\ flight \in [Publisher -> [Kind -> Request]]
    /\ github \in [Attempt -> [Kind -> [count : Nat, report : Conclusion,
                                        by : SUBSET Publisher]]]

NewRun(trigger) ==
    [status |-> "running", trigger |-> trigger, verification |-> "none", policy |-> "none"]

\* A program that has ended, or not begun, remembers nothing.
Idle(pc) ==
    [pc |-> pc, of |-> 1, kind |-> "issue-comment", left |-> {}, report |-> "none",
     resends |-> 0]

Init ==
    /\ latest = 1
    /\ attempt = [a \in Attempt |->
                    IF a = 1 THEN NewRun("intake")
                             ELSE [NewRun("intake") EXCEPT !.status = "absent"]]
    /\ decision = [a \in Attempt |-> [status |-> "none", override |-> FALSE]]
    /\ claim = [k \in Kind |-> NoPublisher]
    /\ leased = [k \in Kind |-> {}]
    /\ row = [a \in Attempt |-> [k \in Kind |-> [status |-> "absent", token |-> NoPublisher]]]
    /\ program = [p \in Publisher |-> Idle("idle")]
    /\ flight = [p \in Publisher |-> [k \in Kind |-> NoRequest]]
    /\ github = [a \in Attempt |-> [k \in Kind |-> [count |-> 0, report |-> "none", by |-> {}]]]

-----------------------------------------------------------------------------
(* The attempts                                                            *)

\* What the review of an attempt may find; what is not verified is no error yet.
Finding ==
    {[verification |-> "passed", error |-> FALSE], [verification |-> "passed", error |-> TRUE],
     [verification |-> "incomplete", error |-> FALSE], [verification |-> "failed", error |-> TRUE]}

\* evaluatePolicy asks for changes when it is told of an error, which a failed
\* verification is one of; the decision ends the run.
recordPolicyDecision(finding) ==
    /\ attempt[latest].status = "running"
    /\ attempt' = [attempt EXCEPT ![latest] =
                     [@ EXCEPT !.status = "reviewed", !.verification = finding.verification,
                               !.policy = IF finding.error THEN "changes-requested" ELSE "manual-review"]]
    /\ UNCHANGED <<latest, decision, claim, leased, row, program, flight, github>>

markWorkflowExecutionFailed ==
    /\ attempt[latest].status = "running"
    /\ attempt' = [attempt EXCEPT ![latest].status = "failed"]
    /\ UNCHANGED <<latest, decision, claim, leased, row, program, flight, github>>

IsLive(k) == claim[k] \in leased[k]

NoPublication == \A k \in Kind : ~IsLive(k)

Supersede(trigger) ==
    /\ latest < MaxAttempts
    /\ latest' = latest + 1
    /\ attempt' = [attempt EXCEPT ![latest + 1] = NewRun(trigger)]
    /\ UNCHANGED <<decision, claim, leased, row, program, flight, github>>

\* A pull request event does not ask for claims.
createFromExternalIntake == Supersede("intake")

\* Faulty: the rerun does not wait for the publication.
RerunGrantedEarly == attempt[latest].status \in {"reviewed", "failed"}

RerunGranted ==
    /\ attempt[latest].status \in {"reviewed", "failed"}
    /\ NoPublication

createRerun ==
    /\ RerunGranted
    /\ Supersede("rerun")

-----------------------------------------------------------------------------
(* The human decision                                                      *)

ApprovalGranted(a) == attempt[a].policy # "changes-requested"

\* Faulty: a decision does not wait for the publication of an earlier attempt.
DecisionGrantedEarly(verdict) ==
    /\ attempt[latest].status = "reviewed"
    /\ decision[latest].status = "none"
    /\ verdict = "approved" => ApprovalGranted(latest)

DecisionGranted(verdict) ==
    /\ attempt[latest].status = "reviewed"
    /\ decision[latest].status = "none"
    /\ NoPublication
    /\ verdict = "approved" => ApprovalGranted(latest)

\* An approval of an incomplete verification comes with a reason, and is an override.
recordHumanDecision(verdict) ==
    /\ DecisionGranted(verdict)
    /\ decision' = [decision EXCEPT ![latest] =
                      [status |-> verdict,
                       override |-> verdict = "approved"
                                    /\ attempt[latest].verification # "passed"]]
    /\ UNCHANGED <<latest, attempt, claim, leased, row, program, flight, github>>

\* Faulty: the check run gets the verdict for its conclusion.
VerdictAsConclusion(a) == decision[a].status

\* Faulty: an approval shows as a success whatever was verified.
ConclusionOfVerdict(a) ==
    CASE decision[a].status = "rejected" -> "failure"
      [] decision[a].status = "changes-requested" -> "action_required"
      [] decision[a].status = "approved" -> "success"

\* An approval needs a successful execution, which is therefore not looked at.
decisionCheckConclusion(a) ==
    CASE decision[a].status = "rejected" -> "failure"
      [] decision[a].status = "changes-requested" -> "action_required"
      [] decision[a].status = "approved" ->
            CASE attempt[a].verification = "failed" -> "failure"
              [] attempt[a].verification = "passed" /\ ~decision[a].override -> "success"
              [] OTHER -> "neutral"

-----------------------------------------------------------------------------
(* recordPublicationResult                                                 *)

Superseded(p) == program[p].of # latest

\* A kind is claimed unless another publisher's claim is live.
ClaimGranted(p, k) == IsLive(k) => claim[k] = p

\* The row of the kind is another publisher's, or final: the call only reads it.
IsHeld(p, k) ==
    LET r == row[program[p].of][k] IN
    \/ r.status = "pending" /\ r.token \in leased[k] \ {p}
    \/ r.status = "published"

\* Faulty: the driver does not compare the token of the answer with its own.
MayPublishPending(p, k) == row[program[p].of][k].status # "published"

MayPublish(p, k) == ClaimGranted(p, k) /\ ~IsHeld(p, k)

\* The claim is made, or renewed, even where the row then stays as it is.
RecordPending(p, k) ==
    /\ ~Superseded(p)
    /\ claim' = IF ClaimGranted(p, k) THEN [claim EXCEPT ![k] = p] ELSE claim
    /\ leased' = IF ClaimGranted(p, k) THEN [leased EXCEPT ![k] = @ \cup {p}] ELSE leased
    /\ row' = IF IsHeld(p, k) THEN row
              ELSE [row EXCEPT ![program[p].of][k] =
                      [status |-> "pending",
                       token |-> IF ClaimGranted(p, k) THEN p ELSE NoPublisher]]
    /\ UNCHANGED <<latest, attempt, decision>>

RecordGranted(p, k) ==
    /\ ~Superseded(p)
    /\ claim[k] = p

RecordPublished(p, k) ==
    /\ RecordGranted(p, k)
    /\ LET r == row[program[p].of][k] IN
       \/ /\ r.status = "published"
          /\ UNCHANGED <<claim, leased, row>>
       \/ /\ r.status # "published"
          /\ r.token \in {p, NoPublisher}
          /\ row' = [row EXCEPT ![program[p].of][k] = [status |-> "published", token |-> p]]
          /\ claim' = [claim EXCEPT ![k] = NoPublisher]
          /\ leased' = [leased EXCEPT ![k] = @ \ {p}]
    /\ UNCHANGED <<latest, attempt, decision>>

-----------------------------------------------------------------------------
(* A publisher: the publish route and PublishDecisionToSource              *)

At(p, pc) == program[p].pc = pc
Goto(p, pc) == program' = [program EXCEPT ![p].pc = pc]
End(p) == program' = [program EXCEPT ![p] = Idle("done")]

\* The comment is published before the check run.
FirstOf(kinds) == IF "issue-comment" \in kinds THEN "issue-comment" ELSE "check-run"

\* The program takes up the kinds still to be published.
Publishing(prog, kinds) ==
    IF kinds = {} THEN Idle("done")
    ELSE [prog EXCEPT !.pc = "claim", !.kind = FirstOf(kinds), !.left = kinds \ {FirstOf(kinds)}]

NextKind(p) == program' = [program EXCEPT ![p] = Publishing(@, @.left)]

\* The route reads the decision of the latest attempt, and what is already published.
ReadFixture(p) ==
    /\ At(p, "idle")
    /\ decision[latest].status # "none"
    /\ program' = [program EXCEPT ![p] =
                     Publishing([@ EXCEPT !.of = latest,
                                          !.report = decisionCheckConclusion(latest)],
                                {k \in Kind : row[latest][k].status # "published"})]
    /\ UNCHANGED <<storage, flight, github>>

Claim(p) ==
    /\ At(p, "claim")
    /\ \/ /\ RecordPending(p, program[p].kind)
          /\ IF MayPublish(p, program[p].kind) THEN Goto(p, "list") ELSE NextKind(p)
       \/ /\ RecordPending(p, program[p].kind)     \* the answer is lost
          /\ End(p)
       \/ /\ UNCHANGED storage                     \* the call throws, or is lost
          /\ End(p)
    /\ UNCHANGED <<flight, github>>

\* GitHub is asked for objects with the marker; one that is found is updated.
UpsertMethod(a, k) == IF github[a][k].count = 0 THEN "create" ELSE "update"

List(p) ==
    LET k == program[p].kind IN
    /\ At(p, "list")
    /\ \/ /\ flight' = [flight EXCEPT ![p][k] =
                          [method |-> UpsertMethod(program[p].of, k), of |-> program[p].of,
                           report |-> program[p].report, copies |-> 1]]
          /\ Goto(p, "wait")
       \/ /\ UNCHANGED flight
          /\ Goto(p, "renew")
    /\ UNCHANGED <<storage, github>>

Waits(p, k) == At(p, "wait") /\ program[p].kind = k

\* The program has its answer, or gives GitHub up.
Leave(p, pc) == program' = [program EXCEPT ![p] = [@ EXCEPT !.pc = pc, !.resends = 0]]

\* The client waits for another copy of the request.
SendAgain(p) ==
    /\ program[p].resends < MaxResends
    /\ program' = [program EXCEPT ![p].resends = @ + 1]

OneLess(request) ==
    IF request.copies = 1 THEN NoRequest ELSE [request EXCEPT !.copies = @ - 1]

\* One copy of the request is over.
Land(p, k) == flight' = [flight EXCEPT ![p][k] = OneLess(@)]

\* The end of a copy, the program waiting for one of those under way: for another
\* one, for this one in vain, or for this one, in whose place it may send another.
NotAnswered(p, k) ==
    \/ (~Waits(p, k) \/ flight[p][k].copies > 1) /\ Land(p, k) /\ UNCHANGED program
    \/ Waits(p, k) /\ Land(p, k) /\ Leave(p, "renew")
    \/ Waits(p, k) /\ SendAgain(p) /\ UNCHANGED flight

\* GitHub processes a copy of the request; the answer may be lost, or be an error of
\* the server.
Process(p, k) ==
    LET request == flight[p][k]
        creates == request.method = "create"
    IN
    /\ request.method # "none"
    /\ github' = [github EXCEPT ![request.of][k] =
                     [count |-> IF creates THEN @.count + 1 ELSE @.count,
                      report |-> request.report,
                      by |-> IF creates THEN @.by \cup {p} ELSE @.by]]
    /\ \/ Waits(p, k) /\ Land(p, k) /\ Leave(p, "record")
       \/ NotAnswered(p, k)
    /\ UNCHANGED storage

\* GitHub refuses a copy of the request, or never receives it.
Refuse(p, k) ==
    /\ flight[p][k].method # "none"
    /\ NotAnswered(p, k)
    /\ UNCHANGED <<storage, github>>

\* The connection breaks while GitHub goes on with the request, and the client sends
\* another copy, as it was and without looking for the object.
Resend(p) ==
    /\ At(p, "wait")
    /\ SendAgain(p)
    /\ flight' = [flight EXCEPT ![p][program[p].kind].copies = @ + 1]
    /\ UNCHANGED <<storage, github>>

\* Faulty: the driver takes a request it gave up on for granted.
TimeOutAsPublished(p) ==
    /\ At(p, "wait")
    /\ Leave(p, "record")
    /\ UNCHANGED <<storage, flight, github>>

\* GitHub takes too long, and the request is left to itself.
TimeOut(p) ==
    /\ At(p, "wait")
    /\ Leave(p, "renew")
    /\ UNCHANGED <<storage, flight, github>>

\* A claim whose publication failed, perhaps not on GitHub, is renewed.
Renew(p) ==
    /\ At(p, "renew")
    /\ \/ /\ RecordPending(p, program[p].kind)
          /\ NextKind(p)
       \/ /\ RecordPending(p, program[p].kind)
          /\ End(p)
       \/ /\ UNCHANGED storage
          /\ End(p)
    /\ UNCHANGED <<flight, github>>

Record(p) ==
    /\ At(p, "record")
    /\ \/ /\ RecordPublished(p, program[p].kind)
          /\ NextKind(p)
       \/ /\ RecordPublished(p, program[p].kind)
          /\ End(p)
       \/ /\ UNCHANGED storage
          /\ End(p)
    /\ UNCHANGED <<flight, github>>

\* Only the wait for GitHub can be interrupted; the claim is then renewed, and the
\* program ends.
Interrupt(p) ==
    /\ program[p].pc \in {"list", "wait"}
    /\ program' = [program EXCEPT ![p] = [@ EXCEPT !.pc = "renew", !.left = {},
                                                   !.resends = 0]]
    /\ UNCHANGED <<storage, flight, github>>

Crash(p) ==
    /\ program[p].pc \notin {"idle", "done"}
    /\ End(p)
    /\ UNCHANGED <<storage, flight, github>>

\* Five minutes pass since the publisher recorded the kind.
LeasePasses(p, k) ==
    /\ p \in leased[k]
    /\ flight[p][k].method = "none"
    /\ ~(program[p].pc \in {"list", "wait"} /\ program[p].kind = k)
    /\ leased' = [leased EXCEPT ![k] = @ \ {p}]
    /\ UNCHANGED <<latest, attempt, decision, claim, row, program, flight, github>>

-----------------------------------------------------------------------------
Lineage ==
    \/ \E finding \in Finding : recordPolicyDecision(finding)
    \/ markWorkflowExecutionFailed
    \/ createFromExternalIntake
    \/ createRerun
    \/ \E verdict \in Verdict : recordHumanDecision(verdict)

Publish(p) ==
    \/ ReadFixture(p) \/ Claim(p) \/ List(p) \/ Resend(p) \/ TimeOut(p)
    \/ Renew(p) \/ Record(p)

Fault(p) == Interrupt(p) \/ Crash(p)

Elsewhere(p) == \E k \in Kind : Process(p, k) \/ Refuse(p, k) \/ LeasePasses(p, k)

Next == Lineage \/ \E p \in Publisher : Publish(p) \/ Fault(p) \/ Elsewhere(p)

Spec == Init /\ [][Next]_vars

-----------------------------------------------------------------------------
(* All comments, and all check runs, of a decision come from one call of   *)
(* one publisher, however many publishers and lost answers there were:     *)
(* looking for the marker and creating the object are two calls, and only  *)
(* the claim keeps two publishers from making objects of their own.  That  *)
(* call makes no more than it sends requests.                              *)
OneCreator ==
    \A a \in Attempt, k \in Kind :
        /\ \A p, q \in github[a][k].by : p = q
        /\ github[a][k].count <= MaxResends + 1

(* REVIEW.md: retries cannot duplicate GitHub publication.  The claim keeps *)
(* other publishers away, but not the repetitions of the client.           *)
OneObject == \A a \in Attempt, k \in Kind : github[a][k].count <= 1

(* What is recorded as published exists on GitHub and says what the human  *)
(* decided of that attempt, even if the publisher that recorded it was not *)
(* the one that created it.                                                *)
PublishedIsTrue ==
    \A a \in Attempt, k \in Kind :
        row[a][k].status = "published" =>
            /\ github[a][k].count > 0
            /\ github[a][k].report = decisionCheckConclusion(a)

(* A green check run is an approval, without an override, of an attempt    *)
(* whose required verification passed and to which the policy had no       *)
(* objection.                                                              *)
SuccessIsEarned ==
    \A a \in Attempt, k \in Kind :
        github[a][k].report = "success" =>
            /\ decision[a] = [status |-> "approved", override |-> FALSE]
            /\ attempt[a].verification = "passed"
            /\ attempt[a].policy = "manual-review"

(* Nobody publishes for an attempt that a rerun followed: a rerun waits    *)
(* for the publication of its parent, and its parent publishes no more.    *)
(* What may still be under way to GitHub is a copy of a request of which   *)
(* another copy was answered and recorded.                                 *)
RerunWaits ==
    \A a \in 1..latest - 1 :
        attempt[a + 1].trigger = "rerun" =>
            \A p \in Publisher, k \in Kind :
                /\ ~(program[p].pc \in {"list", "wait"} /\ program[p].of = a)
                /\ flight[p][k].method # "none" /\ flight[p][k].of = a =>
                      row[a][k].status = "published"

(* Once a later attempt has been decided, GitHub says of the earlier ones  *)
(* what it said: a publication that a pull request event overtook has      *)
(* ended by then, and a copy that is still under way can only repeat what  *)
(* is there.                                                               *)
NoStaleWrite ==
    [][\A a, b \in Attempt, k \in Kind :
          a < b /\ decision[b].status # "none" =>
             github'[a][k].report = github[a][k].report]_vars
=============================================================================
