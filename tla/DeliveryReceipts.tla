-------------------------- MODULE DeliveryReceipts --------------------------
(***************************************************************************)
(* The Convex side of the webhook outbox: table webhookQueueReceipts and   *)
(* the mutations of workflowStarts/deliveries.ts, together with what they  *)
(* read and write of the run a delivery belongs to.                        *)
(*                                                                         *)
(* A Convex mutation is one serializable transaction, so each is one       *)
(* action.  The callers are workers that may be slow, cut off or           *)
(* duplicated; here they are the most general ones: any caller may present *)
(* any token it could ever have been given, at any time.  DeliveryQueue    *)
(* replaces them by the real workers.                                      *)
(*                                                                         *)
(* Time is abstracted to two facts per receipt: `leased', processingUntil  *)
(* lies in the future, and `due', nextAttemptAt has been reached.          *)
(***************************************************************************)
EXTENDS Naturals, FiniteSets

CONSTANTS
    Delivery,       \* GitHub delivery ids
    Candidate,      \* (repository, pull request, base, head) tuples
    Run,            \* workflow runs
    Token,          \* processing tokens, one per worker invocation
    NoRun, NoToken, NoDelivery,
    CandidateOf,    \* delivery -> the candidate its payload names
    BatchSize,      \* receipts one cron sweep rotates (32 in the code)
    MaxGeneration   \* bound: how often a receipt's delivery token is rotated

ASSUME ReceiptConstants ==
    /\ NoRun \notin Run
    /\ NoToken \notin Token
    /\ NoDelivery \notin Delivery
    /\ CandidateOf \in [Delivery -> Candidate]
    /\ BatchSize \in Nat \ {0}
    /\ MaxGeneration \in Nat

VARIABLES
    receipt,        \* webhookQueueReceipts, by delivery id
    origin,         \* externalWorkflowRefs: run -> the delivery that created it
    runStatus       \* workflowRuns.status

receiptVars == <<receipt, origin, runStatus>>

Status == {"absent", "delivering", "terminal"}
Outcome == {"none", "completed", "ignored", "failed", "coalesced"}
RunStatus == {"absent", "queued", "running", "reviewed", "failed"}
Finished == {"reviewed", "failed"}

\* A generation stands for a delivery token: every rotation issues a fresh one.
Generation == 0..MaxGeneration

Receipt ==
    [status : Status, generation : Generation, processing : Token \cup {NoToken},
     leased : BOOLEAN, due : BOOLEAN, run : Run \cup {NoRun}, outcome : Outcome]

TypeOK ==
    /\ receipt \in [Delivery -> Receipt]
    /\ origin \in [Run -> Delivery \cup {NoDelivery}]
    /\ runStatus \in [Run -> RunStatus]

EmptyReceipt(status) ==
    [status |-> status, generation |-> 0, processing |-> NoToken, leased |-> FALSE,
     due |-> FALSE, run |-> NoRun, outcome |-> "none"]

Init ==
    /\ receipt = [d \in Delivery |-> EmptyReceipt("absent")]
    /\ origin = [r \in Run |-> NoDelivery]
    /\ runStatus = [r \in Run |-> "absent"]

-----------------------------------------------------------------------------
Delivering(d) == receipt[d].status = "delivering"
Terminal(d) == receipt[d].status = "terminal"
Over(r) == runStatus[r] \in Finished

\* Index by_workflow_run_and_status, status 'delivering'.
Active(r) == {e \in Delivery : Delivering(e) /\ receipt[e].run = r}

\* Faulty: a receipt is its own rival.
RivalsAndItself(d, r) == Active(r)

\* The delivering receipts of r other than d.
Rivals(d, r) == Active(r) \ {d}

\* Index by_delivery of externalWorkflowRefs.
RunFrom(d) == {r \in Run : origin[r] = d}

\* The run's reference names the same repository, pull request, base and head.
SameCandidate(d, r) ==
    /\ runStatus[r] # "absent"
    /\ CandidateOf[origin[r]] = CandidateOf[d]

\* The caller holds the receipt's delivery token and its processing token.
Holds(d, g, t) ==
    /\ receipt[d].status # "absent"
    /\ receipt[d].generation = g
    /\ receipt[d].processing = t

Settle(d, run, outcome) ==
    receipt' = [receipt EXCEPT ![d] =
                  [@ EXCEPT !.status = "terminal", !.run = run, !.outcome = outcome]]

-----------------------------------------------------------------------------
(* The mutations.  An early return that patches nothing is a stutter.      *)

\* Faulty: an upsert, which starts a settled delivery over.
recordQueuedGitHubDeliveryUpsert(d) ==
    /\ receipt[d].status # "delivering"
    /\ receipt' = [receipt EXCEPT ![d] = EmptyReceipt("delivering")]
    /\ UNCHANGED <<origin, runStatus>>

recordQueuedGitHubDelivery(d) ==
    /\ receipt[d].status = "absent"
    /\ receipt' = [receipt EXCEPT ![d] = EmptyReceipt("delivering")]
    /\ UNCHANGED <<origin, runStatus>>

\* What index by_provider_status_and_next_attempt returns under take(32).
StaleBatches ==
    LET due == {d \in Delivery : Delivering(d) /\ receipt[d].due}
    IN {S \in SUBSET due : S # {} /\ (S = due \/ Cardinality(S) = BatchSize)
                                  /\ Cardinality(S) <= BatchSize}

\* Rotates the delivery token and drops whatever processing claim is there.
claimStaleGitHubDeliveries(S) ==
    /\ S \in StaleBatches
    /\ \A d \in S : receipt[d].generation < MaxGeneration
    /\ receipt' = [d \in Delivery |->
                     IF d \in S
                     THEN [receipt[d] EXCEPT !.generation = @ + 1, !.processing = NoToken,
                                             !.leased = FALSE, !.due = FALSE]
                     ELSE receipt[d]]
    /\ UNCHANGED <<origin, runStatus>>

ClaimReply(d, g) ==
    CASE receipt[d].status = "absent" \/ receipt[d].generation # g -> "stale"
      [] receipt[d].generation = g /\ Terminal(d) -> "terminal"
      [] receipt[d].generation = g /\ Delivering(d) /\ receipt[d].leased -> "busy"
      [] OTHER -> "claimed"

claimGitHubDeliveryProcessing(d, g, t) ==
    /\ ClaimReply(d, g) = "claimed"
    /\ receipt' = [receipt EXCEPT ![d] = [@ EXCEPT !.processing = t, !.leased = TRUE]]
    /\ UNCHANGED <<origin, runStatus>>

releaseGitHubDeliveryProcessing(d, g, t) ==
    /\ Delivering(d)
    /\ Holds(d, g, t)
    /\ receipt' = [receipt EXCEPT ![d] = [@ EXCEPT !.processing = NoToken, !.leased = FALSE]]
    /\ UNCHANGED <<origin, runStatus>>

\* Faulty: any run the caller names.
BindRejectedOnlyIfTaken(d, r) ==
    \/ receipt[d].status = "absent"
    \/ receipt[d].run \notin {NoRun, r}
    \/ receipt[d].run = NoRun /\ ~Delivering(d)

\* Faulty: a receipt settled without a run may still get one.
BindRejectedUnlessUnbound(d, r) ==
    \/ receipt[d].status = "absent"
    \/ ~SameCandidate(d, r)
    \/ receipt[d].run \notin {NoRun, r}

BindRejected(d, r) ==
    \/ receipt[d].status = "absent"
    \/ ~SameCandidate(d, r)
    \/ receipt[d].run \notin {NoRun, r}
    \/ receipt[d].run = NoRun /\ ~Delivering(d)

\* Faulty: does not look for another delivering receipt of the run.
BindJoinsOnlyReplays(d, r) == receipt[d].run = r /\ receipt[d].outcome = "coalesced"

BindJoins(d, r) ==
    \/ receipt[d].run = r /\ receipt[d].outcome = "coalesced"
    \/ receipt[d].run = NoRun /\ Rivals(d, r) # {}

BindReply(d, r) ==
    IF BindRejected(d, r) THEN "rejected" ELSE IF BindJoins(d, r) THEN "coalesced" ELSE "bound"

\* No token is presented: whoever resolved the delivery's run may bind it.
bindQueuedGitHubDeliveryToWorkflow(d, r) ==
    /\ ~BindRejected(d, r)
    /\ receipt[d].run = NoRun
    /\ IF BindJoins(d, r)
       THEN Settle(d, r, "coalesced")
       ELSE receipt' = [receipt EXCEPT ![d] = [@ EXCEPT !.run = r]]
    /\ UNCHANGED <<origin, runStatus>>

\* Faulty: takes the caller's word that the run is over.
CompletionFitsAnyRun(d, run, outcome) ==
    IF outcome = "completed" THEN run # NoRun /\ receipt[d].run = run ELSE run = NoRun

\* Only `completed' names a run, and only the receipt's own, once it is over.
CompletionFits(d, run, outcome) ==
    IF outcome = "completed"
    THEN run # NoRun /\ receipt[d].run = run /\ Over(run)
    ELSE run = NoRun

CompletionReply(d, g, t, run, outcome) ==
    /\ Holds(d, g, t)
    /\ IF Terminal(d)
       THEN receipt[d].run = run /\ receipt[d].outcome = outcome
       ELSE CompletionFits(d, run, outcome)

completeQueuedGitHubDelivery(d, g, t, run, outcome) ==
    /\ Delivering(d)
    /\ CompletionReply(d, g, t, run, outcome)
    /\ Settle(d, receipt[d].run, outcome)
    /\ UNCHANGED <<origin, runStatus>>

\* receipt.workflowRunId ?? ref?.workflowRunId
ResolvesTo(d, r) == IF receipt[d].run = NoRun THEN origin[r] = d ELSE receipt[d].run = r

\* Faulty: stores the status of the run.
StatusAsOutcome(status) == status

OutcomeOf(status) == IF status = "reviewed" THEN "completed" ELSE "failed"

terminalizeQueuedGitHubDelivery(d, g, t) ==
    /\ Delivering(d)
    /\ Holds(d, g, t)
    /\ \/ /\ \A r \in Run : ~ResolvesTo(d, r)
          /\ Settle(d, NoRun, "failed")
          /\ UNCHANGED runStatus
       \/ \E r \in Run :
          /\ ResolvesTo(d, r)
          /\ \/ /\ Rivals(d, r) # {}
                /\ Settle(d, r, "coalesced")
                /\ UNCHANGED runStatus
             \/ /\ Rivals(d, r) = {}
                /\ Over(r)
                /\ Settle(d, r, OutcomeOf(runStatus[r]))
                /\ UNCHANGED runStatus
             \/ /\ Rivals(d, r) = {}
                /\ runStatus[r] \in {"queued", "running"}
                /\ Settle(d, r, "failed")
                /\ runStatus' = [runStatus EXCEPT ![r] = "failed"]
    /\ UNCHANGED origin

-----------------------------------------------------------------------------
(* What the rest of the backend does to the runs, seen from the receipts.  *)

\* A delivery creates at most one run; without one it may also resolve to the
\* latest run of its candidate, which changes nothing here.
createFromExternalIntake(d, r) ==
    /\ RunFrom(d) = {}
    /\ runStatus[r] = "absent"
    /\ origin' = [origin EXCEPT ![r] = d]
    /\ runStatus' = [runStatus EXCEPT ![r] = "queued"]
    /\ UNCHANGED receipt

MoveRun(r, from, to) ==
    /\ runStatus[r] \in from
    /\ runStatus' = [runStatus EXCEPT ![r] = to]
    /\ UNCHANGED <<receipt, origin>>

claimIncomingDispatch(r) == MoveRun(r, {"queued"}, "running")
recordPolicyDecision(r) == MoveRun(r, {"running"}, "reviewed")
markWorkflowExecutionFailed(r) == MoveRun(r, {"queued", "running"}, "failed")

\* The clock: processingUntil passes, nextAttemptAt is reached.  Nothing reads
\* either of a terminal receipt.
LeaseExpires(d) ==
    /\ Delivering(d)
    /\ receipt[d].leased
    /\ receipt' = [receipt EXCEPT ![d] = [@ EXCEPT !.leased = FALSE]]
    /\ UNCHANGED <<origin, runStatus>>

BecomesDue(d) ==
    /\ Delivering(d)
    /\ ~receipt[d].due
    /\ receipt' = [receipt EXCEPT ![d] = [@ EXCEPT !.due = TRUE]]
    /\ UNCHANGED <<origin, runStatus>>

-----------------------------------------------------------------------------
\* The outcomes a worker asks for on a delivering receipt: `coalesced' reaches
\* the mutation only for a receipt that bind has already ended.
Requested == {"completed", "ignored"}

Mutation(d) ==
    \/ recordQueuedGitHubDelivery(d)
    \/ \E g \in Generation, t \in Token :
        \/ claimGitHubDeliveryProcessing(d, g, t)
        \/ releaseGitHubDeliveryProcessing(d, g, t)
        \/ terminalizeQueuedGitHubDelivery(d, g, t)
        \/ \E run \in Run \cup {NoRun}, outcome \in Requested :
              completeQueuedGitHubDelivery(d, g, t, run, outcome)
    \/ \E r \in Run : bindQueuedGitHubDeliveryToWorkflow(d, r)

RunMoves(r) ==
    \/ \E d \in Delivery : createFromExternalIntake(d, r)
    \/ claimIncomingDispatch(r)
    \/ recordPolicyDecision(r)
    \/ markWorkflowExecutionFailed(r)

Next ==
    \/ \E d \in Delivery : Mutation(d) \/ LeaseExpires(d) \/ BecomesDue(d)
    \/ \E S \in SUBSET Delivery : claimStaleGitHubDeliveries(S)
    \/ \E r \in Run : RunMoves(r)

Spec == Init /\ [][Next]_receiptVars

-----------------------------------------------------------------------------
(***************************************************************************)
(* Properties                                                              *)
(***************************************************************************)

\* At most one delivering receipt is bound to a run: the reads of bind and of
\* terminalize that decide to coalesce see every rival, whatever the order in
\* which workers reach them.
OneActiveReceipt ==
    \A r \in Run : \A d, e \in Active(r) : d = e

\* A delivery that was coalesced can rely on another one: as long as the run it
\* was folded into is unfinished, a delivering receipt bound to that run is left
\* to drive it.  The one exception is a bound receipt completed as `ignored',
\* which happens when its repository is disconnected between two attempts.
JoinedHasDriver ==
    \A d \in Delivery : \A r \in Run :
        receipt[d].outcome = "coalesced" /\ receipt[d].run = r =>
            \/ Over(r)
            \/ Active(r) # {}
            \/ \E e \in Delivery : receipt[e].run = r /\ receipt[e].outcome = "ignored"

\* A receipt is settled as completed or failed only when its run is over, and
\* as completed only when it has a run.
SettledRunIsOver ==
    \A d \in Delivery :
        receipt[d].outcome \in {"completed", "failed"} =>
            /\ receipt[d].run # NoRun => Over(receipt[d].run)
            /\ receipt[d].outcome = "completed" => receipt[d].run # NoRun

\* A receipt answers for a run of its own candidate, and once it is bound or
\* terminal no late, retried or duplicated call moves it elsewhere.
BoundToOwnCandidate ==
    \A d \in Delivery : \A r \in Run : receipt[d].run = r => SameCandidate(d, r)

KeepsItsRunAndOutcome ==
    \A d \in Delivery :
        /\ receipt[d].run # NoRun => receipt'[d].run = receipt[d].run
        /\ Terminal(d) => /\ receipt'[d].status = "terminal"
                          /\ receipt'[d].run = receipt[d].run
                          /\ receipt'[d].outcome = receipt[d].outcome

BoundAndSettledForGood == [][KeepsItsRunAndOutcome]_receiptVars

\* What the proofs need besides: a run exists iff some delivery created it, and a
\* receipt has an outcome iff it is terminal, and no run before it is recorded.
OriginExists == \A r \in Run : runStatus[r] = "absent" <=> origin[r] = NoDelivery

OutcomeIffTerminal ==
    \A d \in Delivery :
        /\ Terminal(d) <=> receipt[d].outcome # "none"
        /\ receipt[d].status = "absent" => receipt[d].run = NoRun

IInv ==
    /\ TypeOK
    /\ OriginExists
    /\ OutcomeIffTerminal
    /\ BoundToOwnCandidate
    /\ OneActiveReceipt
    /\ SettledRunIsOver
    /\ JoinedHasDriver

\* The ledger this table implements.
ledgerPhase ==
    [d \in Delivery |-> IF Delivering(d) THEN "pending" ELSE IF Terminal(d) THEN "settled" ELSE "unseen"]
ledgerOwned == [d \in Delivery |-> receipt[d].run]
ledgerVerdict == [d \in Delivery |-> receipt[d].outcome]
ledgerOver == [r \in Run |-> Over(r)]

Ledger == INSTANCE DeliveryLedger WITH
    phase <- ledgerPhase, owned <- ledgerOwned, verdict <- ledgerVerdict, over <- ledgerOver

ImplementsLedger == Ledger!Spec
=============================================================================
