# PatchPlane in TLA+

PatchPlane receives GitHub pull request events, turns each into a *workflow
run*, freezes the pull request's head as an immutable *candidate*, executes a
*verification plan* on it, has the result reviewed, and publishes a decision
back to GitHub.  Its state lives in Convex (serializable transactions), in R2
(envelopes and artifacts) and in two Cloudflare queues; everything that drives
that state is a short-lived Cloudflare worker that may die, time out, be retried
or run twice.  The specifications in this directory are about that: what the
database promises however the workers interleave.

All paths below are relative to the repository.  `WS` is
`packages/backend/convex/workflowStarts`, `SC` is `apps/source-control/src`, `CW`
is `packages/core/src/workflows`.

## 1. Inventory

| Component | State | Operations | Talks to |
|---|---|---|---|
| **Delivery receipts** (`WS/deliveries.ts`) | `webhookQueueReceipts`: status, delivery token, processing token and lease, next attempt, run, outcome | record, claimStale, claim, release, bind, complete, terminalize | runs (it may fail one), groups (terminalize closes them) |
| **Webhook worker** (`SC/webhook-worker/`) | R2 envelopes, primary queue, dead-letter queue | edge fetch, primary consumer, dead-letter consumer, cron | receipts, by mutation; handler, by service binding with a deadline |
| **GitHub webhook handler** (`SC/github/routes/handleGitHubWebhook.ts`, `markQueuedDeliveryExhausted.ts`) | none: one program per request | intake, bind, freeze, dispatch, verify, review; finalizer on interruption | receipts, runs, candidates, plans |
| **Intake and reruns** (`WS/lifecycle.ts`, `SC/.../executeWorkflowRerun.ts`) | `workflowStarts`, `workflowRuns`, `externalWorkflowRefs`, attempt numbers | createFromExternalIntake, createRerun, markWorkflowExecutionFailed | everything hangs on a run |
| **Candidate freeze and dispatch** (`WS/candidates.ts`, `CW/freeze-incoming-pull-request-candidate.ts`) | freeze lease, candidate patch set, dispatch lease | claim/release/fail freeze, recordCandidatePatchSet, claim/validate dispatch | run, plan, lineage |
| **Verification plan** (`WS/verification/plans.ts`, `CW/resolve-verification-plan-v1.ts`) | plan, requirements, start token, scheduled expiry | record plan, record requirement, start plan | Convex scheduler |
| **Verification groups and results** (`WS/verification/executionGroups.ts`, `results.ts`) | one group per requirement: status, claim token, lease, command, result | claim, start, bind command, record execution, fail, expire, record result | scheduler, runtime evidence |
| **Runtime evidence** (`WS/runtimeEvidence.ts`) | sandbox executions, runtime sessions, append-only rows, R2 artifacts | record execution, session, artifact, message | groups |
| **Review, policy, decision, publication** (`WS/reviewPublication.ts`, `CW/publish-decision-to-source.ts`, `SC/.../publishDecision.ts`, `packages/core/src/services/alpha-review-policy.ts`) | review, policy decision, human decision, publication claims and rows | record review/policy/human decision, record publication (pending, published) | run status, GitHub |
| **Patch report, read models, diff parsing, schemas** | none | pure functions and queries | |
| **Connected repositories, authorization** (`packages/backend/convex/connectedRepositories.ts`, `SC/.../syncGitHubInstallation.ts`, the client's install callback) | connection intents, accounts, repositories | create, stage, consume intent; verify and list installation; upsert; route a webhook | handler asks for the route, GitHub grants |
| **Plugins** (`packages/plugins`) | sandboxes at Daytona, objects on GitHub | run with sandbox, create or update comment and check run | groups, publication |
| **Client, CLI, infrastructure** | none of their own | user interface, deployment | |

What is hard in it:

* *Queues are at-least-once and lossy from the worker's view.*  The edge does
  three steps (R2, Convex, queue) and may be cut off after each.  Consumers do
  settle, delete, acknowledge, and may be cut off after each.  A message is
  retried, then dead-lettered; a cron replays what is an hour overdue under a
  *rotated delivery token*.
* *Leases do not stop their holder.*  A processing claim lasts fifteen minutes, a
  freeze or dispatch lease 300 seconds; the slow holder goes on after another
  one has taken over.  Tokens have to fence it off, mutation by mutation.
* *The deadline of the service binding ends the wait, not the handler*: the
  request is retried while the first handler still binds and executes, and
  `bind` asks for no processing token.
* *Several deliveries meet on one run* (`opened` and `synchronize` of one head, a
  redelivery by hand): one drives, the others are *coalesced*.
* *Newer attempts supersede older ones at any moment*, also between two calls of a
  driver that is freezing or dispatching.
* *Whatever dies must be ended by somebody else*: dead letters, the cron, or a
  scheduled expiry.
* *A driver works through calls whose answers may be lost*: what it did may have
  been applied, and the expiry of its group may have come first.
* *Looking for an object on GitHub and creating it are two calls*; a request that
  was given up on may still be processed, and the client sends a request again on its
  own when the answer is lost.
* *Webhooks come in any order, and again*, while the repository they are about is
  being connected, moved or withdrawn.

What makes each component correct:

* Receipts: one delivering receipt per run; who joins a run relies on a driver;
  settled and bound receipts never change; nothing is reported finished ahead of
  its run.
* Worker: the envelope outlives the delivery's debt; messages are acknowledged
  only when somebody else has the delivery; every accepted delivery is settled.
* Freeze and dispatch: a plan is decided once and before the freeze; one driver
  executes it; stale drivers and superseded attempts change nothing; a started
  run ends.
* Groups: one result per requirement and a closed group for it, whoever is late; a
  pass needs an execution in a live group whose sandbox is gone; a decision stands
  on final results; started groups end.
* Publication: the objects of a decision come from one call of one publisher and say
  what was decided; nothing new is said of a superseded attempt.
* Connections and intake: webhooks go to a workspace that controls the
  installation; an event makes one attempt in one workspace; an older event never
  supersedes a newer one.
* Algorithms: coverage and policy never pass on missing evidence; merging plan layers
  never weakens the deployment's layer (planned).

The hazards, each with its line and the properties that cover it, or why none does,
are in `PROJECT.json`.

## 2. Modules

```
DeliveryLedger                      what a delivery is promised
   ^ refined by
DeliveryReceipts                    the receipt table, most general callers
   ^ EXTENDS                ^ DeliveryReceiptsProofs
DeliveryQueue                       edge, queues, consumers, cron, handler
                            ^ DeliveryQueueProofs (on DeliveryReceiptsProofs)

RepositoryConnections               how a workspace comes to own webhooks
   ^ EXTENDS
SourceIntake                        events of a pull request to attempts
                            ^ SourceIntakeProofs

CandidateDispatch                   attempts, freeze, plan, dispatch, drivers
                            ^ CandidateDispatchProofs
VerificationOutcome                 what executing a plan promises
   ^ refined by
VerificationGroups                  groups, sandboxes, results, decision
                            ^ VerificationGroupsProofs
Publication                         human decision, publication, reruns
                            ^ PublicationProofs
MC...                               instances for TLC
```

The modules cut the life of an event where one component hands over to the next:
`SourceIntake` ends with an attempt, `CandidateDispatch` begins with attempts and ends
with one driver of a started plan, `VerificationGroups` begins with that driver and
ends with a policy decision, `Publication` begins with reviewed attempts.
`DeliveryQueue` carries the event alongside.  Each module leaves its neighbours
free: a newer attempt may come at any time in all of them.

### DeliveryLedger
The abstract specification: a delivery is unseen, pending or settled; it answers
for at most one run; a run has at most one pending delivery; a delivery that
meets one joins it; a settled delivery stays as it is; nothing settles as
completed or failed while its run is unfinished.  No tokens, leases, retries.

### DeliveryReceipts
`receipt[d]` is the row of delivery `d`, `origin[r]` the delivery whose intake
created run `r` (`externalWorkflowRefs`), `runStatus[r]` the run's status.  One action
per mutation, with the mutation's name; an early return that patches nothing is a
stuttering step.  A *delivery token* is a generation number (the code hashes an
UUID into a fresh token at each rotation, so equality is all that matters); a
processing token is a model value.  Time is two booleans: `leased`
(`processingUntil` is ahead) and `due` (`nextAttemptAt` is reached), with an action
each that flips them.  Callers are *most general*: any delivery, any token, any
run, any outcome, at any time.  Therefore what holds here does not depend on how
the workers behave.  The one restriction on callers is named: `Requested`.

`terminalizeQueuedGitHubDelivery` is one action with its three ends (join a rival,
take over the verdict of a finished run, fail an unfinished run).  The execution
groups it closes on the way are not in this module.

### DeliveryQueue
Extends the receipts with their real callers.  `edge[d]` is the fetch invocation
between its three steps, `queue` the unacknowledged messages of both queues,
`envelope[d]` the R2 object, `sweep` what the cron has rotated and not yet sent,
`work[w]` a consumer invocation with processing token `w`, its program counter
`pc` naming the next call.  Each call to Convex, R2 or the queue is a step, so
everything may happen between two.  `Fault(kind)` is a guard of every action that
stands for a failure: crash, failing call, handler timeout, duplicate, lost
message, lost envelope, edge or cron cut off, redelivery by GitHub, and a delivery
so slow that it becomes due under its worker.  A handler whose consumer is gone
goes on *detached*: `attached = FALSE`, nobody reads its answer.

| Code | Actions |
|---|---|
| `fetch.ts` | `Put`, `Record`, `Send`, `EdgeFails` |
| `primary.ts`, `deadLetter.ts` | `Take`, `Claim`, `Complete`, `Exhaust`, `Delete`, `Release`, `CallFails` |
| `handleGitHubWebhook.ts` | `Ignore`, `Resolve`, `Bind`, `Execute`, `Report`, `HandlerFails` |
| `boundary.ts` (deadline) | `HandlerTimesOut` |
| `scheduled.ts` | `Sweep`, `Replay`, `Recover`, `SweepFails` |
| queues, R2, isolates (external) | `TakeAgain`, `LoseMessage`, `LoseEnvelope`, `Crash` |

### CandidateDispatch
The attempts of one pull request.  `attempt[r]` is `attemptNumber`, `run[r]` the run
with plan, persisted requirements, candidate, both leases and the dispatch token
the plan was started with, `work[w]` a driver: one execution of the webhook
handler or of the rerun route past intake, which makes up one freeze token and
one dispatch token and so stands for both.  `alarms` are the expiries Convex has
scheduled.  The stages of a driver are the calls of the program in their order
(plan, requirements, lookup, freeze, capture, candidate, dispatch, validate,
start, verify).  Each may crash (`Crash`), be interrupted (`Interrupt`: the freeze
releases its lease, then the finalizer marks the run failed if it may) or find
its lease passed.  Created attempts supersede older ones at any time.

### VerificationOutcome
The abstract specification: every requirement gets at most one outcome, the run
one verdict; a recovery gives every requirement still without an outcome an error;
a decision takes all outcomes into account.

### VerificationGroups
One attempt whose plan has just been started.  `group[q]` is the row of requirement
`q` in `verificationExecutionGroups`, `result[q]` that in `verificationResults`,
`box[q]` the sandbox at Daytona, `alarms` what Convex has scheduled, `driver` the
program: claim all groups, prepare, then for each requirement sandbox, start,
clone, session, command, wait, delete, confirm, execution, result; then read the
state, review, policy decision.  Every call is a step, and every call to Convex has
the alternatives *applied*, *applied but the answer is lost* and *failed*.
`Interrupt` runs the finalizers of the handler in their order (sandbox, cancelled
result, run), `Crash` runs none.  Recovery is the expiry of a group
(`expireVerificationExecutionGroup`), the expiry of the plan
(`expireIncomingVerificationDispatch`, which also inserts closed groups and results
for requirements nobody claimed) and the dead letters
(`terminalizeQueuedGitHubDelivery`).  `Supersede` is a newer attempt.

| Code | Actions |
|---|---|
| `run-incoming-verification-plan.ts` | `ClaimGroup`, `GroupsClaimed`, `Prepare`, `ReadState` |
| `execute-incoming-verification-requirements.ts` | `TakeRequirement`, `StartGroup`, `RecordCommand`, `RecordExecution`, `RecordResult`, `RecordCancelled` |
| `DaytonaSandboxPlugin.ts`, `daytona-*.ts` | `CreateSandbox`, `CloneRepository`, `StartCommand`, `WaitForCommand`, `deleteSandboxWithRetries`, `confirmSandboxDeleted` |
| `propose-merge-decision.ts`, `alpha-review-policy.ts` | `RecordReview`, `RecordDecision`, `evaluatePolicy` |
| `executionGroups.ts`, `deliveries.ts` | the recoveries above |

### Publication
The attempts of one root run, numbered.  A *publisher* is one call of the publish
route; it makes a fresh dispatch token per kind, which is named after it.
`claim[k]` is the `canonicalPublicationClaims` row of a kind, `row[a][k]` the
`publicationResults` row, `leased[k]` the publishers whose record of the kind as
pending is younger than 300 seconds.  A publisher reads the fixture, then for comment and
check run: claim, list (look for the marker), wait (create or update), record; a
failure on GitHub renews the claim and leaves the row pending.  A request travels in
`flight`, in one or more `copies`, and may be processed after its publisher gave up.
The client (`new Octokit`, `GitHubProviderPlugin.ts:366`) comes with a retry plugin: when
the connection breaks (`Resend`) or the server errs, whether or not it did what it was
asked (`SendAgain` in `Process` and `Refuse`), the same request is sent again, without
the listing before it.  Calls may turn this off; the creating and updating ones do not.
A copy left behind by a broken connection may be processed after another copy was
answered, even after the publication is recorded and the claim gone.  `github[a][k]`
counts the objects with the marker of the decision; `by` is auxiliary and names the
publishers that created them.  Reviews end with any
finding; humans decide; events and reruns add attempts at any time the code lets
them.

### RepositoryConnections and SourceIntake
`intent`, `account` and `repository` are the three tables, `granted` what GitHub
lets the installation of a repository see, which changes at any time.  The
inventory is read by one action and applied by another, so inventories are applied
in any order.  `SourceIntake` extends it with the events of one pull request:
`history` is what GitHub sent (an event may be handled any number of times, or
never), `worker` a call between its route and its intake, `chain` the attempts per
workspace, `answered` which events a workspace has answered with a run.
`createFromExternalIntake` is the mutation with its three ends: the run that is there,
a refusal, a new attempt.

### Mutated definitions
Operators marked "Faulty" are plausible bugs of the definition they precede.  No
action uses them; they show which mistake each property would catch.

## 3. Runs

| Run | Instance | What it shows |
|---|---|---|
| `receipts` | 2 deliveries of one candidate, 2 runs, 2 tokens, 1 rotation | The table keeps all its promises and implements `DeliveryLedger` |
| `receipts_crowd` | 3 deliveries of 2 candidates, 1 run, 1 token | Joining relies on a driver with rivals of rivals; no run of another candidate |
| `queue_faults` | 1 delivery, 2 consumers, any 2 of 10 kinds of fault, 1 retry, 2 rotations | Workers respect the receipts' protocol, keep envelopes, and settle before acknowledging dead letters |
| `queue_pair` | 2 deliveries of one candidate, 2 consumers, 1 crash, timeout or slow delivery, no retry | The workers respect the protocol when two deliveries meet on a run, dead letters right after the first failure |
| `queue_live` | 1 delivery, 2 consumers, any single fault | Every recorded delivery is settled |
| `busy_ack` | 1 delivery, 1 crash | Violated: see Findings |
| `dispatch` | 2 attempts, 2 drivers, 2 plans of different requirements | Fencing by leases, tokens and lineage; plans are written once, stages in order, started runs end |
| `groups` | 2 requirements, one of them required | Closed groups have their one result for good, passes are trusted, decisions final, recoveries complete, started groups end; implements `VerificationOutcome` |
| `publication` | 2 attempts, 2 publishers, 2 kinds, 1 verdict, requests sent twice at most | Objects of a decision from one call of one publisher, true to the decision; nothing new said of superseded attempts; reruns wait |
| `publication_resends` | 1 attempt, 1 publisher | Violated: see Findings |
| `intake` | 2 workspaces, 1 installation, 1 repository, 2 connection flows, 3 events, 2 base commits | Routes lead to who controls, one attempt per event, in one home, none superseded by an older event |
| `intake_order` | 3 events of a branch that is forced back, 1 flow | Violated: see Findings |

Properties worth a comment:

* `JoinedHasDriver` relates two receipts and a run over their whole lives.  Its one
  exception is in the code: a bound delivery is completed as `ignored` when its
  repository was disconnected between two attempts (`handleGitHubWebhook.ts`), and
  the run it drove stays queued.
* `ImplementsReceipts` says the workers call the mutations only as
  `DeliveryReceipts!Next` allows; with it every property of the receipts carries
  over to the whole, which section 4 proves for the ledger and for joining.
* `EnvelopeKept` fails as soon as an envelope is deleted on an answer other than
  "accepted", or if a redelivery by GitHub could be taken for a new delivery.
* `StaleCaptureIsInert`, `SupersededStandsStill` and `DecidedForGood` are action
  properties: what a step may never do, whoever takes it.
* `DecidedOnFinalResults` compares what the driver decided on (`run.basis`, read two
  calls earlier) with the results as they stand ever after.
* `PassedIsTrusted` fails as soon as a deletion that was only requested counts as
  observed.
* `OneCreator` and `PublishedIsTrue` rest on the lease being longer than GitHub's
  deadline and on the driver comparing the answer's token with its own.  `OneCreator`
  is what the claim can give: no two calls create objects for one decision.  The call
  that does may create several (`OneObject` does not hold).
* `RerunWaits` and `NoStaleWrite` admit a copy of a request that is still under way, but
  only for what is recorded as published, where it repeats what is there.
* `RunsStayHome` and `BoundOnce` relate an attempt to a connection that may have been
  made or lost since its event was routed.
* `StartedEnds`, `StartedGroupEnds` and `EventuallySettled` are leads-to properties,
  checked without symmetry.

### Bounds, and why they are enough
* `MaxGeneration` bounds token rotations.  One rotation makes an old and a new token,
  two let a holder be overtaken twice; tokens are only compared for equality.  A
  liveness counterexample that is only the bound's doing would need more
  rotations than faults; `queue_live` has 2 rotations and 1 fault.
* `MaxFaults` and `FaultKinds` bound failures.  Two faults of any kind cover the
  combinations the code has answers for (crash and late redelivery, lost message
  and lost envelope); the pair instance needs the freedom elsewhere.
* `MaxRetries` is 3 in the deployment.  1 reaches every lane change and 0 sends a
  message to the dead letters at once; the retry count is read nowhere else.
* `BatchSize` is 32 in the code.  1 makes a full batch already at two due receipts.
* Two runs let a delivery be offered the wrong one.  Two drivers let one overtake the
  other at every call, and two plans with different requirements let them disagree;
  the safety properties are proved for any number of drivers.
* Two requirements let one be worked on while the other waits, is expired or is not
  claimed; one is required and one is not, since only a required one decides the
  verdict.  A plan has sixteen at most (`plans.ts`); nothing relates three.
* Two publishers meet at every step, and one follows another; a third would stand
  where one of them has ended.  Two attempts are one superseded and one latest.
  `MaxResends` is three in octokit; once makes two objects, and leaves one copy behind
  another.  The verdicts `rejected` and `changes-requested` differ from `approved` only
  in their conclusion and in what they ask of the review; the proofs are for all of them.
* Three events are the fewest of which one can overtake another and still link to
  the chain; the configured workspace gets one attempt and the connecting one
  three.  Two flows let two callbacks race.
* Symmetry is used on tokens, runs, publishers and connection flows, only where no
  liveness is checked.
* Deadlock is checked only in the `intake` runs, where a user may always start
  again.  Elsewhere the system really stops: all deliveries settled, all drivers
  done with no attempt left to create, all groups closed, all publishers done.

### Fairness
`DeliveryQueue!Fairness` assumes what Cloudflare and Convex provide: an invocation
that is not killed finishes its calls, the queue hands every message to some
consumer, the cron fires, leases run out, an hour passes.  Of the handler it is
only assumed that it answers (with success, refusal or failure), never that it
makes progress with the run; the consumer's deadline gives it that.  All
fairness is weak.  Faults are not fair.  `CandidateDispatch!Fairness` and
`VerificationGroups!Fairness` assume only that Convex runs what was scheduled, and
nothing of any driver.  `Publication` and `SourceIntake` state no liveness: whether
anybody publishes or delivers again is up to reviewers and GitHub.

## 4. Proofs

Six modules hold proofs, each about one module of the model; nothing in them depends
on the size of an instance.  The parameters are all sets of deliveries, runs, tokens
and candidates, any batch size, retries, rotations and faults (`DeliveryReceiptsProofs`,
`DeliveryQueueProofs`); all sets of workspaces, installations, repositories, connection
flows and workers and any number of events, base commits and attempts
(`SourceIntakeProofs`); every finite set of attempts and all sets of drivers, plans and
requirements (`CandidateDispatchProofs`); every set of requirements, required or not
(`VerificationGroupsProofs`); all publishers, any number of attempts and of repetitions of
a request (`PublicationProofs`).

The only assumptions are those the modules declare: `ReceiptConstants`,
`QueueConstants`, `ConnectionConstants`, `IntakeConstants`, `DispatchConstants`,
`GroupConstants` and `PublicationConstants`.  They say that null values lie outside their
sets, functions have their domains, numbers are numbers, the pull request is one of a
known repository, verdicts are verdicts, required requirements are requirements, and
the set of attempts is finite, which the attempt number (one more than their count)
needs.  Every inductive invariant was first checked with TLC on the instance of the
component's run.

**Receipts.**  `OneActiveReceipt` is not inductive: `bind` and `terminalize` decide by
looking at the *delivering* receipts of a run, so the invariant needs to know
that outcomes go with status (`OutcomeIffTerminal`), that a run exists iff a
delivery created it (`OriginExists`), and, for `JoinedHasDriver`, that a receipt
settled as completed or failed leaves a finished run behind (`SettledRunIsOver`).
`JoinedHasDriver` in turn needs `OneActiveReceipt`: the receipt that ends must be
the last on its run or have a rival that stays.  `IInv` is their conjunction.  The
proof has one lemma per kind of change (`FramePreserves`: nothing but leases and
runs moves; `SettlePreserves`: one receipt is settled; binding) and one step per
mutation that says which kind it is.

* `TypeCorrect`, `Invariance`, `OneActive`, `JoinedDriven`, `SettledOver`, `BoundOwn`: the
  invariants.
* `BoundForGood`: the action property `BoundAndSettledForGood`.
* `ReceiptsImplementLedger`: `Spec => ImplementsLedger`, by mapping the initial state and
  each mutation to a ledger step or a stutter, under `IInv`.

**Queue.**  A step of the workers either leaves the receipts alone or is one of their
mutations; the proof shows which.  The one place where a worker could ask for what
`DeliveryReceipts` does not allow is the completion a consumer sends after the handler
has answered: `completed` and `coalesced` come with a run, `ignored` with none
(`WorkIsShaped`), so the outcome asked for is in `Requested`, and a `coalesced` that comes
with a run is refused by `CompletionFits` unless it only repeats what is settled.
`EnvelopeKept` needs that a consumer about to delete stands on a terminal receipt
(`DeletesSettled`), that the edge stores the envelope before it records the receipt
(`StoredFirst`), and that messages, replays and edge invocations past recording belong to
a recorded receipt (`OnTheWayIsRecorded`).  `QInv` adds these to the receipts' `IInv`; the
step of `IInv` is the one proved for the receipts, cited and not repeated.

* `QueueInvariance`, `QueueTypeCorrect`, `EnvelopeStays`: the invariants.
* `QueueImplementsReceipts`: `QueueSpec => ImplementsReceipts`.
* `QueueImplementsLedger`, `QueueJoinedDriven`: what the receipts promise, promised by the
  workers; two lines each, by composition.
* `DeadLetterSettled`: the action property `DeadLetterSettledBeforeAck`.

**Connections and intake.**  `RoutesToController` needs that an intent whose
repositories have been listed names an installation its workspace controls
(`IntentsVerified`), and that the workspace of a repository, once written, is never
replaced (`OwnersStay`).  The latter also keeps `WorkersGoHome`: a worker that was sent
to a workspace finds it to be a home still when it creates the attempt, though the
connection may be gone, so `RunsStayHome` holds.

`SupersededInOrder` is about order and needs more (`IOrder`): along the events heads, base
commits and times never decrease, and head and base together tell the event
(`HistoryIsOrdered`); a push names the head before it (`HistoryIsLinked`); attempts have
the candidates of their events and are ordered as those are (`AttemptsOfEvents`,
`ChainIsOrdered`, `ChainHasEvent`); and an answered event matches a candidate of the chain
(`AnsweredWithCandidate`).  Suppose a newer event was answered with a run.  Its attempt
is in the chain, so the head of the latest attempt is no older than its head and the
latest event no older in time; an event that supersedes is newer than the latest in
time or brings another head, and follows the latest head.  Both together leave no
room for an event older than the answered one.  The theorem has one hypothesis,
`~ForcePush`, on which the order of heads rests; the run `intake_order` shows what
happens without.

* `Invariance`, `TypeCorrect`, `RoutedToController`, `VerifiedAtHome`, `VerifiedOnce`: the
  invariants.
* `SupersededInOrder`: the action property `SupersededOnlyByNewer`, for branches that are
  never forced back.

**Freeze and dispatch.**  `OneVerifier` follows from a fact about records: a driver
in stage `verify` is the one on record as the run's verifier (`VerifierStarted`),
and the verifier is written once.  `ExecutedInOrder` needs that a freeze lease
exists only for a whole plan (`FreezeIsPlanned`), because the candidate is recorded
on the strength of the lease alone.  `AttemptStep` is the one lemma all mutations
go through: the new attempt keeps the order, the verifier is not replaced, and no
driver enters `verify` but the one that is recorded.

* `TypeCorrect`, `Invariance`, `InOrderAlways`, `SingleVerifier`: the invariants.
* `DecisionsLast` and `SupersededIsLeftAlone`: `DecidedForGood` and `SupersededStandsStill`, from
  `AttemptChange`, which says what one step may do to one attempt.
* `LostLeaseIsInert`: `StaleCaptureIsInert`, since only its own steps move a driver
  (`OwnSteps`) and each of them asks for the lease.

**Groups.**  The checked invariants speak of rows; what keeps them is where the
driver stands.  `IInv` adds that it works on one requirement that is not among those
to come (`WorksOnOne`), that no result of a requirement it has still to finish claims
a cleanup (`CleanupAwaited`), that it believes in a cleanup only once the sandbox is
gone (`CleanupObserved`), that what was executed was executed in the group's sandbox
(`ExecutedInSandbox`), that what it reviews is complete and final
(`ReviewsFinalResults`), and that a decision and the status `reviewed` go together
(`DecidedIffReviewed`).  The proof classifies each step by what it does to the rows
(nothing; opens a group or records in a live one; closes groups with results) and
to the run (kept, failed, decided), and proves each conjunct once per class instead
of once per action.

* `TypeCorrect`, `Invariance`, `ClosedWithResult`, `PassedTrusted`, `DecidedOnFinal`,
  `RecoveredComplete`: the invariants.
* `ClosedStands`: the action property `ClosedForGood`.
* `OutcomeImplemented`: `Spec => ImplementsOutcome`; a class of steps maps to one step of
  `VerificationOutcome` or a stutter.

**Publication.**  `OneCreator` says that no two publishers create what a decision asks for.
Between looking for the object and creating it lie two calls, and a copy of a request may
be processed long after its publisher gave up, or went on with the answer of another copy.
What excludes a second creator is that whoever looks, waits, or has a request under way
for a kind not yet published (`IsBusy`) has the live claim of the kind (`BusyHasClaim`), and
so is alone: claims are exclusive while leased, and a lease outlasts a request.  A copy
that outlives its claim is for a kind that is published, for which nobody asks
(`AsksForUnpublished`).  So who has a create under way is the only one that has, and the
only one whose objects are there (`CreatesAlone`), and objects and copies together are no
more than the client has sent (`CreatesAsSent`); an update finds its object
(`UpdatesWhatIsThere`).  A publisher takes each kind up once (`KindsOnce`), so a late
request is never one of two of its own, its requests are for the attempt it publishes
(`RequestsAreOwn`), and it records what is there (`RecordsWhatIsThere`).  `PublishedIsTrue` and
`SuccessIsEarned` follow from what publishers, requests and GitHub say being what was
decided (`ProgramSpeaksTrue`, `RequestSpeaksTrue`, `GithubSpeaksTrue`), with a decision fit for
its attempt (`DecidedIsReviewed`) and never changed.  `RerunWaits` and `NoStaleWrite` follow from
`BusyForCurrent`: a decision and a rerun are refused while a claim is live, so once
there is one, whoever is busy is so for that attempt or a later one, and any other copy
repeats what was published.  `LaterIsBlank` says that attempts still to come carry nothing.
The step of a request is proved once (`RequestPreserves`) for what may become of its copies,
of GitHub and of the program that waits.

* `Invariance`, `TypeCorrect`, `PublishedByOne`, `RecordedIsTrue`, `GreenIsEarned`,
  `RerunAwaited`: the invariants.
* `NothingStale`: the action property `NoStaleWrite`.

**Only model-checked:** the leads-to properties `EventuallySettled`, `StartedEnds` and
`StartedGroupEnds`.  Liveness under fairness needs ENABLED, which is out of the prover's
reach.  `PrimarySettledBeforeAck`, `OneObject` and, for branches that are forced back,
`SupersededOnlyByNewer` cannot be proved because they do not hold: see Findings.

## 5. Findings

**A primary message is acknowledged while its delivery is unsettled** (run `busy_ack`).
`docs/acceptance-tests.md:126` says that consumers "acknowledge only durable
terminal/DLQ-finalized outcomes", and `docs/critical-path.md:120` says the same.
`SC/webhook-worker/primary.ts:78` acknowledges whenever the claim is not granted,
also on `busy`.  After a consumer has died its claim stays for fifteen minutes;
the redelivered message, half a minute later, finds it busy and is acknowledged
with nothing settled.  The dead-letter consumer retries in this case.  The delivery
is not lost (`queue_live`): it waits for the hourly replay, and its remaining
retries and dead letter do not happen.

**An older push supersedes a newer candidate after a force push back** (run
`intake_order`).  `WS/lifecycle.ts:120` refuses what comes out of order with
"Out-of-order pull request event cannot supersede the current candidate".  The
order is judged by the time of the last event that *created* an attempt; an event
that is answered with an existing run leaves no trace in it.  A pull request is
opened at A, pushed to B and forced back to A.  If the third event arrives before
the second it is answered with the run of A; the second, newer than the first and
naming A as its previous head, is then accepted and its attempt for B supersedes
the run of A, where the pull request stands.  With fresh heads only (`intake`)
there is no such case: the link from previous head to head alone orders the pushes.

**A lost answer can make two objects of one publication** (run `publication_resends`).
`REVIEW.md:58` says "Retries are idempotent and cannot duplicate GitHub publication", and
`docs/acceptance-tests.md:168` "Publication retry creates no duplicate GitHub output".  A
publication looks for the marker of its decision and creates the comment or check run if
it is not there, under a claim that keeps other publishers away.  Its client is octokit's
with default options (`GitHubProviderPlugin.ts:366`), which bundles a retry plugin
(`bun.lock:2025`): after a broken connection or an error of the server it posts the same
request again, up to three times.  `issues.createComment` (line 1134) and `checks.create`
(line 1282) do not ask for `retries: 0`, as the calls for tokens do (lines 336, 403, 866).
If GitHub has created the object and only the answer is lost, there are two.  They say the
same, and later publications update one of them.

## 6. Not modelled, and why

* Signatures, size limits, decoding, event normalisation: they decide whether a call
  is made, not what calls do to each other.
* Intake of issues and comments, manual starts, the request keys of reruns.
* `startIncomingDispatch`, `expireStartedIncomingDispatch` and the sandbox runs they
  belong to: the path before verification plans, which new runs do not take.
* How a comparison is fetched and hashed: `Capture` ends with a candidate, for good
  or for now.
* In `VerificationGroups`: `failVerificationExecutionGroup`, which nothing in core calls;
  the branch for an incomplete state, which the driver never reaches, and the claim
  of a group gone stale, which needs a second driver; a sandbox whose creation was
  given up on, which nobody deletes; Daytona's auto-stop.  `README.md:180` of the
  repository says that dead letters terminalize every materialized requirement;
  the code does so only together with the run, so groups of a run that has failed
  already are left to their own alarms.
* In `Publication`: markers of older releases, the bound of a thousand on listings
  (a failing call), clocks that disagree about `leasedAt`.  That GitHub is given up
  on after 30 seconds, repetitions included, well before a lease of 300 passes, and that
  no copy of a request outlives that lease, is its one assumption about time.  A claim left by a crashed publisher blocks decisions and reruns for those
  300 seconds.
* In `RepositoryConnections`: callers are known by their workspace; expired, used up and
  deleted intents are one; the bound of a thousand repositories and the age of a
  proof are reasons to `Abandon`.  Roles and sessions are not modelled.
* Runtime sessions of the agent path (`runtimeEvidence.ts`): `markRuntimeSessionStatus`
  overwrites any status; see the plan.
* Patch reports, read models, diff parsing, schemas: pure functions of rows decided
  elsewhere; queries in Convex are consistent snapshots.
* R2, Convex, Sentry and WorkOS adapters, client, CLI, infrastructure: I/O and user
  interface.  Their failures appear as failing and late calls.
* A hundred hourly retries of a dead letter are not counted: the replay of the
  delivery rotates its token long before.

## 7. Plan

Done: `DeliveryLedger`; `DeliveryReceipts`, `DeliveryQueue`, `CandidateDispatch`,
`VerificationGroups`, `Publication` and `SourceIntake` (with `RepositoryConnections`), all with
proofs of their safety properties; `VerificationOutcome`.  Next, most important first:

1. **RuntimeSession** (`runtimeEvidence.ts`, `control-runtime-session.ts`,
   `run-sandbox-agent-for-workflow.ts`): status, control and checkpoints of agent
   sessions.  To settle there: whether a late mark may undo a terminal status.
2. **PlanResolution** (`resolve-verification-plan-v1.ts`): the merging of plan layers
   against a declarative reference; no layer weakens the deployment's.
