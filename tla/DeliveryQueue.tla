---------------------------- MODULE DeliveryQueue ----------------------------
(***************************************************************************)
(* The workers around the receipts: the edge that stores and enqueues a    *)
(* webhook, the consumers of the primary and the dead-letter queue, the    *)
(* cron that replays stale deliveries, and the source-control handler a    *)
(* consumer calls.  R2 and Cloudflare Queues are modelled by what the      *)
(* workers can observe of them: an object is there or not; a message is    *)
(* redelivered until it is acknowledged, moves to the dead-letter queue    *)
(* after MaxRetries retries, and may be lost or delivered twice.           *)
(*                                                                         *)
(* A consumer invocation is a record of `work', keyed by its processing    *)
(* token.  It is attached while the consumer waits for it; a handler whose *)
(* consumer died or timed out goes on detached, and its message is retried *)
(* meanwhile.  Every call to Convex or R2 is one step, so everything can   *)
(* happen between two of them.                                             *)
(***************************************************************************)
EXTENDS DeliveryReceipts

CONSTANTS
    MaxRetries,     \* retries of the primary queue (3 in the deployment)
    FaultKinds,     \* bound: the kinds of fault an instance considers
    MaxFaults       \* bound: how many of them may happen

ASSUME QueueConstants == MaxRetries \in Nat /\ MaxFaults \in Nat

VARIABLES
    edge,           \* delivery -> the fetch invocation that is ingesting it
    queue,          \* messages of both queues, until acknowledged
    envelope,       \* delivery -> what became of its object in R2
    sweep,          \* rotated receipts the cron still has to replay
    work,           \* processing token -> consumer invocation
    faults          \* how many faults have happened

workerVars == <<edge, queue, envelope, sweep, work>>
vars == <<receiptVars, workerVars, faults>>

Lane == {"primary", "dead"}
Message == [delivery : Delivery, gen : Generation, lane : Lane, tries : 0..MaxRetries]
Reply == {"none", "ignored", "coalesced", "completed"}
Handler == {"start", "bind", "execute"}
Step == {"idle", "claim", "complete", "exhaust", "release", "delete"} \cup Handler

\* lane "sweep" is the cron recovering a delivery whose envelope is unreadable.
Work ==
    [pc : Step, delivery : Delivery \cup {NoDelivery}, gen : Generation,
     lane : Lane \cup {"sweep"}, tries : 0..MaxRetries, run : Run \cup {NoRun},
     over : BOOLEAN, reply : Reply, attached : BOOLEAN]

Idle ==
    [pc |-> "idle", delivery |-> NoDelivery, gen |-> 0, lane |-> "primary", tries |-> 0,
     run |-> NoRun, over |-> FALSE, reply |-> "none", attached |-> TRUE]

QueueTypeOK ==
    /\ edge \in [Delivery -> [stage : {"idle", "put", "recorded"}, gen : Generation]]
    /\ queue \in SUBSET Message
    /\ envelope \in [Delivery -> {"none", "stored", "deleted", "lost"}]
    /\ sweep \in SUBSET [delivery : Delivery, gen : Generation]
    /\ work \in [Token -> Work]
    /\ faults \in 0..MaxFaults

QueueInit ==
    /\ Init
    /\ edge = [d \in Delivery |-> [stage |-> "idle", gen |-> 0]]
    /\ queue = {}
    /\ envelope = [d \in Delivery |-> "none"]
    /\ sweep = {}
    /\ work = [w \in Token |-> Idle]
    /\ faults = 0

Fault(kind) ==
    /\ kind \in FaultKinds
    /\ faults < MaxFaults
    /\ faults' = faults + 1

-----------------------------------------------------------------------------
(* Messages and invocations                                                *)

Fresh(d, g) == [delivery |-> d, gen |-> g, lane |-> "primary", tries |-> 0]

MessageOf(w) ==
    [delivery |-> work[w].delivery, gen |-> work[w].gen, lane |-> work[w].lane,
     tries |-> work[w].tries]

\* The handler goes on without its consumer: all it still needs is its run.
Detach(w) ==
    work' = [work EXCEPT ![w] =
               [Idle EXCEPT !.pc = work[w].pc, !.delivery = work[w].delivery,
                            !.run = work[w].run, !.over = work[w].over, !.attached = FALSE]]

\* Faulty: one retry too many.
RetriedTooOften(m) ==
    IF m.lane = "dead" THEN m
    ELSE IF m.tries <= MaxRetries THEN [m EXCEPT !.tries = @ + 1]
    ELSE [m EXCEPT !.lane = "dead", !.tries = 0]

\* A retried or abandoned primary message moves to the dead letters once its
\* retries are spent; a dead letter is retried hourly, a hundred times, which
\* outlasts the next replay of its delivery and is not counted here.
Retried(m) ==
    IF m.lane = "dead" THEN m
    ELSE IF m.tries < MaxRetries THEN [m EXCEPT !.tries = @ + 1]
    ELSE [m EXCEPT !.lane = "dead", !.tries = 0]

Ack(m) == queue' = queue \ {m}
Retry(m) == queue' = IF m \in queue THEN (queue \ {m}) \cup {Retried(m)} ELSE queue

Goto(w, pc) == work' = [work EXCEPT ![w] = [@ EXCEPT !.pc = pc]]
Finish(w) == work' = [work EXCEPT ![w] = Idle]

At(w, pc) == work[w].pc = pc
AckAndFinish(w) == Finish(w) /\ Ack(MessageOf(w))

\* A cron recovery has no message to acknowledge or retry.
AckIfQueued(w) == IF work[w].lane = "sweep" THEN UNCHANGED queue ELSE Ack(MessageOf(w))
RetryIfQueued(w) == IF work[w].lane = "sweep" THEN UNCHANGED queue ELSE Retry(MessageOf(w))

InProgress(m) == \E w \in Token : work[w].pc # "idle" /\ work[w].attached /\ MessageOf(w) = m

-----------------------------------------------------------------------------
(* The edge: fetch.ts                                                      *)

\* The second and later times GitHub sends the same delivery count as faults.
Put(d) ==
    /\ edge[d].stage = "idle"
    /\ IF envelope[d] = "none" THEN UNCHANGED faults ELSE Fault("redelivery")
    /\ envelope' = [envelope EXCEPT ![d] = "stored"]
    /\ edge' = [edge EXCEPT ![d] = [@ EXCEPT !.stage = "put"]]
    /\ UNCHANGED <<receiptVars, queue, sweep, work>>

\* Faulty: writes the receipt anew for every delivery of the webhook.
RecordUpserts(d) ==
    /\ edge[d].stage = "put"
    /\ receipt' = [receipt EXCEPT ![d] = EmptyReceipt("delivering")]
    /\ UNCHANGED <<origin, runStatus>>
    /\ edge' = [edge EXCEPT ![d] = [stage |-> "recorded", gen |-> 0]]
    /\ UNCHANGED <<queue, envelope, sweep, work, faults>>

\* The reply carries the delivery token of the receipt as it is now.
Record(d) ==
    /\ edge[d].stage = "put"
    /\ \/ recordQueuedGitHubDelivery(d)
       \/ receipt[d].status # "absent" /\ UNCHANGED receiptVars
    /\ edge' = [edge EXCEPT ![d] = [stage |-> "recorded", gen |-> receipt'[d].generation]]
    /\ UNCHANGED <<queue, envelope, sweep, work, faults>>

Send(d) ==
    /\ edge[d].stage = "recorded"
    /\ queue' = queue \cup {Fresh(d, edge[d].gen)}
    /\ edge' = [edge EXCEPT ![d] = [stage |-> "idle", gen |-> 0]]
    /\ UNCHANGED <<receiptVars, envelope, sweep, work, faults>>

\* A call fails or the edge is cut off: 502, and GitHub may deliver again.
EdgeFails(d) ==
    /\ edge[d].stage # "idle"
    /\ Fault("edge")
    /\ edge' = [edge EXCEPT ![d] = [stage |-> "idle", gen |-> 0]]
    /\ UNCHANGED <<receiptVars, queue, envelope, sweep, work>>

-----------------------------------------------------------------------------
(* A consumer takes a message and reads the receipt: primary.ts and        *)
(* deadLetter.ts                                                           *)

Takes(w, m) ==
    LET current == receipt[m.delivery].status # "absent" /\ receipt[m.delivery].generation = m.gen
        begin(pc) == work' = [work EXCEPT ![w] =
                       [Idle EXCEPT !.pc = pc, !.delivery = m.delivery, !.gen = m.gen,
                                    !.lane = m.lane, !.tries = m.tries]]
    IN  /\ At(w, "idle")
        /\ m \in queue
        /\ \/ ~current /\ Ack(m) /\ UNCHANGED work
           \/ current /\ Terminal(m.delivery) /\ begin("delete") /\ UNCHANGED queue
           \/ current /\ Delivering(m.delivery) /\ begin("claim") /\ UNCHANGED queue
        /\ UNCHANGED <<receiptVars, edge, envelope, sweep>>

Take(w, m) == Takes(w, m) /\ ~InProgress(m) /\ UNCHANGED faults

\* At-least-once delivery: a message being processed is delivered again.
TakeAgain(w, m) == Takes(w, m) /\ InProgress(m) /\ Fault("duplicate")

\* What follows a successful claim: the handler, or the exhausted route.
AfterClaim(w) == IF work[w].lane = "primary" THEN "start" ELSE "exhaust"

\* Faulty: acknowledges a dead letter whose claim is busy, like a primary message.
ClaimAcksBusy(w) ==
    LET d == work[w].delivery
    IN  /\ At(w, "claim")
        /\ \/ /\ claimGitHubDeliveryProcessing(d, work[w].gen, w)
              /\ Goto(w, AfterClaim(w))
              /\ UNCHANGED queue
           \/ /\ ClaimReply(d, work[w].gen) # "claimed"
              /\ AckIfQueued(w)
              /\ Finish(w)
              /\ UNCHANGED receiptVars
        /\ UNCHANGED <<edge, envelope, sweep, faults>>

Claim(w) ==
    LET d == work[w].delivery
        answer == ClaimReply(d, work[w].gen)
    IN  /\ At(w, "claim")
        /\ \/ /\ claimGitHubDeliveryProcessing(d, work[w].gen, w)
              /\ Goto(w, AfterClaim(w))
              /\ UNCHANGED queue
           \/ /\ answer = "busy" /\ work[w].lane = "dead"
              /\ Retry(MessageOf(w))
              /\ Finish(w)
              /\ UNCHANGED receiptVars
           \/ /\ answer # "claimed" /\ ~(answer = "busy" /\ work[w].lane = "dead")
              /\ AckIfQueued(w)
              /\ Finish(w)
              /\ UNCHANGED receiptVars
        /\ UNCHANGED <<edge, envelope, sweep, faults>>

-----------------------------------------------------------------------------
(* The source-control handler: handleGitHubWebhook.ts                      *)

\* A detached handler has nobody to answer.
Answer(w, reply, pc) ==
    IF work[w].attached
    THEN work' = [work EXCEPT ![w] = [@ EXCEPT !.reply = reply, !.pc = pc, !.over = FALSE,
                                               !.run = IF reply = "none" THEN NoRun
                                                       ELSE work[w].run]]
    ELSE Finish(w)

HandlerFrame == UNCHANGED <<edge, queue, envelope, sweep, faults>>

\* Unsupported action, unpinned event, or a repository not (or no longer) connected.
Ignore(w) ==
    /\ At(w, "start")
    /\ Answer(w, "ignored", "complete")
    /\ UNCHANGED receiptVars
    /\ HandlerFrame

\* The handler keeps the status of the run as it was when intake answered.
Resolve(w, r) ==
    /\ At(w, "start")
    /\ LET d == work[w].delivery
       IN  \/ createFromExternalIntake(d, r)
           \/ origin[r] = d /\ UNCHANGED receiptVars
           \/ RunFrom(d) = {} /\ SameCandidate(d, r) /\ UNCHANGED receiptVars
    /\ work' = [work EXCEPT ![w] = [@ EXCEPT !.pc = "bind", !.run = r, !.over = Over(r)]]
    /\ HandlerFrame

\* Faulty: the run is written without asking the mutation.
BindUnasked(w) ==
    /\ At(w, "bind")
    /\ receipt' = [receipt EXCEPT ![work[w].delivery] = [@ EXCEPT !.run = work[w].run]]
    /\ UNCHANGED <<origin, runStatus>>
    /\ Goto(w, "execute")
    /\ HandlerFrame

Bind(w) ==
    LET d == work[w].delivery
        r == work[w].run
        answer == BindReply(d, r)
    IN  /\ At(w, "bind")
        /\ \/ bindQueuedGitHubDeliveryToWorkflow(d, r)
           \/ UNCHANGED receiptVars /\ (BindRejected(d, r) \/ receipt[d].run # NoRun)
        /\ \/ answer = "rejected" /\ Answer(w, "none", "release")
           \/ answer = "coalesced" /\ Answer(w, "coalesced", "complete")
           \/ answer = "bound" /\ work[w].over /\ Answer(w, "completed", "complete")
           \/ answer = "bound" /\ ~work[w].over /\ Goto(w, "execute")
        /\ HandlerFrame

\* Freezing, dispatch, verification and review, as far as they move the run.
Execute(w) ==
    /\ At(w, "execute")
    /\ \/ claimIncomingDispatch(work[w].run)
       \/ recordPolicyDecision(work[w].run)
       \/ markWorkflowExecutionFailed(work[w].run)
    /\ UNCHANGED work
    /\ HandlerFrame

\* verificationTerminal or not, as the execution reports it.
Report(w) ==
    /\ At(w, "execute")
    /\ Answer(w, "completed", "complete")
    /\ UNCHANGED receiptVars
    /\ HandlerFrame

\* The handler answers 400: intake refused, binding rejected, execution failed.
HandlerFails(w) ==
    /\ work[w].pc \in Handler
    /\ Answer(w, "none", "release")
    /\ UNCHANGED receiptVars
    /\ HandlerFrame

\* expireStartedIncomingDispatch and expireIncomingVerificationDispatch run on
\* Convex's own scheduler.
ScheduledExpiry(r) ==
    /\ runStatus[r] = "running"
    /\ markWorkflowExecutionFailed(r)
    /\ UNCHANGED <<workerVars, faults>>

-----------------------------------------------------------------------------
(* The consumer settles the receipt, then deletes the envelope             *)

\* Faulty: deletes the envelope whatever Convex answers.
CompleteUnchecked(w) ==
    LET d == work[w].delivery
        run == IF work[w].reply = "ignored" THEN NoRun ELSE work[w].run
    IN  /\ At(w, "complete")
        /\ \/ completeQueuedGitHubDelivery(d, work[w].gen, w, run, work[w].reply)
           \/ /\ Terminal(d) \/ ~CompletionReply(d, work[w].gen, w, run, work[w].reply)
              /\ UNCHANGED receiptVars
        /\ Goto(w, "delete")
        /\ UNCHANGED <<edge, queue, envelope, sweep, faults>>

Complete(w) ==
    LET d == work[w].delivery
        run == IF work[w].reply = "ignored" THEN NoRun ELSE work[w].run
        accepted == CompletionReply(d, work[w].gen, w, run, work[w].reply)
    IN  /\ At(w, "complete")
        /\ \/ completeQueuedGitHubDelivery(d, work[w].gen, w, run, work[w].reply)
           \/ UNCHANGED receiptVars /\ (Terminal(d) \/ ~accepted)
        /\ Goto(w, IF accepted THEN "delete" ELSE "release")
        /\ UNCHANGED <<edge, queue, envelope, sweep, faults>>

Exhaust(w) ==
    LET d == work[w].delivery
        held == Holds(d, work[w].gen, w)
    IN  /\ At(w, "exhaust")
        /\ \/ terminalizeQueuedGitHubDelivery(d, work[w].gen, w)
           \/ UNCHANGED receiptVars /\ (Terminal(d) \/ ~held)
        /\ Goto(w, IF held THEN "delete" ELSE "release")
        /\ UNCHANGED <<edge, queue, envelope, sweep, faults>>

Delete(w) ==
    /\ At(w, "delete")
    /\ envelope' = [envelope EXCEPT ![work[w].delivery] = "deleted"]
    /\ AckIfQueued(w)
    /\ Finish(w)
    /\ UNCHANGED <<receiptVars, edge, sweep, faults>>

ReleaseClaim(w) ==
    \/ releaseGitHubDeliveryProcessing(work[w].delivery, work[w].gen, w)
    \/ /\ ~(Delivering(work[w].delivery) /\ Holds(work[w].delivery, work[w].gen, w))
       /\ UNCHANGED receiptVars

Release(w) ==
    /\ At(w, "release")
    /\ ReleaseClaim(w)
    /\ RetryIfQueued(w)
    /\ Finish(w)
    /\ UNCHANGED <<edge, envelope, sweep, faults>>

-----------------------------------------------------------------------------
(* The cron: scheduled.ts                                                  *)

Sweep(S) ==
    /\ claimStaleGitHubDeliveries(S)
    /\ sweep' = sweep \cup {[delivery |-> d, gen |-> receipt'[d].generation] : d \in S}
    /\ UNCHANGED <<edge, queue, envelope, work, faults>>

\* Faulty: sends the delivery token from before the rotation.
ReplayOldToken(x) ==
    /\ x \in sweep
    /\ envelope[x.delivery] = "stored"
    /\ queue' = queue \cup {Fresh(x.delivery, x.gen - 1)}
    /\ sweep' = sweep \ {x}
    /\ UNCHANGED <<receiptVars, edge, envelope, work, faults>>

Replay(x) ==
    /\ x \in sweep
    /\ envelope[x.delivery] = "stored"
    /\ queue' = queue \cup {Fresh(x.delivery, x.gen)}
    /\ sweep' = sweep \ {x}
    /\ UNCHANGED <<receiptVars, edge, envelope, work, faults>>

Recover(w, x) ==
    /\ x \in sweep
    /\ envelope[x.delivery] # "stored"
    /\ At(w, "idle")
    /\ work' = [work EXCEPT ![w] = [Idle EXCEPT !.pc = "claim", !.delivery = x.delivery,
                                                !.gen = x.gen, !.lane = "sweep"]]
    /\ sweep' = sweep \ {x}
    /\ UNCHANGED <<receiptVars, edge, queue, envelope, faults>>

\* The cron is cut off, or the send fails.
SweepFails(x) ==
    /\ x \in sweep
    /\ Fault("cron")
    /\ sweep' = sweep \ {x}
    /\ UNCHANGED <<receiptVars, edge, queue, envelope, work>>

-----------------------------------------------------------------------------
(* What can go wrong                                                       *)

\* The consumer dies, or its release fails: the message comes back and the
\* claim stays.  A handler it had called may die with it or go on detached.
Crash(w) ==
    /\ ~At(w, "idle")
    /\ work[w].attached
    /\ Fault("crash")
    /\ RetryIfQueued(w)
    /\ Finish(w) \/ (work[w].pc \in Handler /\ Detach(w))
    /\ UNCHANGED <<receiptVars, edge, envelope, sweep>>

\* A call to Convex, R2 or the exhausted route fails: the claim is released.
CallFails(w) ==
    /\ work[w].pc \in {"complete", "exhaust", "delete"}
    /\ Fault("call")
    /\ Goto(w, "release")
    /\ UNCHANGED <<receiptVars, edge, queue, envelope, sweep>>

\* The service-binding deadline passes: release and retry while the handler goes on.
HandlerTimesOut(w) ==
    /\ work[w].pc \in Handler
    /\ work[w].attached
    /\ Fault("timeout")
    /\ ReleaseClaim(w)
    /\ RetryIfQueued(w)
    /\ Detach(w)
    /\ UNCHANGED <<edge, envelope, sweep>>

LoseMessage(m) ==
    /\ m \in queue
    /\ Fault("message")
    /\ Ack(m)
    /\ UNCHANGED <<receiptVars, edge, envelope, sweep, work>>

LoseEnvelope(d) ==
    /\ envelope[d] = "stored"
    /\ Fault("envelope")
    /\ envelope' = [envelope EXCEPT ![d] = "lost"]
    /\ UNCHANGED <<receiptVars, edge, queue, sweep, work>>

\* Somebody is on the way to settle the delivery under its current token.
InFlight(d) ==
    \/ edge[d].stage = "recorded"
    \/ \E m \in queue : m.delivery = d /\ m.gen = receipt[d].generation
    \/ \E x \in sweep : x.delivery = d
    \/ \E w \in Token : work[w].delivery = d /\ work[w].attached

LeasePasses(d) == LeaseExpires(d) /\ UNCHANGED <<workerVars, faults>>

\* An hour goes by with nobody on the way to the delivery, ...
HourPasses(d) ==
    /\ ~InFlight(d)
    /\ BecomesDue(d)
    /\ UNCHANGED <<workerVars, faults>>

\* ... or under a delivery in flight, which counts as a fault.
SlowDelivery(d) ==
    /\ InFlight(d)
    /\ BecomesDue(d)
    /\ Fault("slow")
    /\ UNCHANGED workerVars

-----------------------------------------------------------------------------
HandlerStep(w) ==
    \/ Ignore(w)
    \/ \E r \in Run : Resolve(w, r)
    \/ Bind(w)
    \/ Execute(w)
    \/ Report(w)
    \/ HandlerFails(w)

ConsumerStep(w) ==
    \/ Claim(w)
    \/ Complete(w)
    \/ Exhaust(w)
    \/ Delete(w)
    \/ Release(w)

EdgeStep(d) == Put(d) \/ Record(d) \/ Send(d)

Faults ==
    \/ \E w \in Token : Crash(w) \/ CallFails(w) \/ HandlerTimesOut(w)
    \/ \E w \in Token, m \in queue : TakeAgain(w, m)
    \/ \E m \in queue : LoseMessage(m)
    \/ \E d \in Delivery : EdgeFails(d) \/ LoseEnvelope(d) \/ SlowDelivery(d)
    \/ \E x \in sweep : SweepFails(x)

QueueNext ==
    \/ \E d \in Delivery : EdgeStep(d) \/ LeasePasses(d) \/ HourPasses(d)
    \/ \E w \in Token : HandlerStep(w) \/ ConsumerStep(w)
    \/ \E w \in Token, m \in queue : Take(w, m)
    \/ \E S \in SUBSET Delivery : Sweep(S)
    \/ \E x \in sweep : Replay(x) \/ \E w \in Token : Recover(w, x)
    \/ \E r \in Run : ScheduledExpiry(r)
    \/ Faults

QueueSpec == QueueInit /\ [][QueueNext]_vars

(***************************************************************************)
(* Fairness: a Cloudflare invocation that is neither killed nor timed out  *)
(* runs to its end, the queue hands every message to some consumer, the    *)
(* cron fires every five minutes, and time passes.  Nothing is assumed of  *)
(* the handler but that it answers, with success or not.                   *)
(***************************************************************************)
Fairness ==
    /\ \A d \in Delivery :
        /\ WF_vars(Record(d)) /\ WF_vars(Send(d))
        /\ WF_vars(LeasePasses(d))
        /\ WF_vars(HourPasses(d))
    /\ \A w \in Token :
        /\ WF_vars(ConsumerStep(w))
        /\ WF_vars(Ignore(w) \/ Report(w) \/ HandlerFails(w) \/ Bind(w))
    /\ WF_vars(\E w \in Token, m \in queue : Take(w, m))
    /\ WF_vars(\E S \in SUBSET Delivery : Sweep(S))
    /\ WF_vars(\E x \in sweep : Replay(x) \/ \E w \in Token : Recover(w, x))

FairQueueSpec == QueueSpec /\ Fairness

-----------------------------------------------------------------------------
(***************************************************************************)
(* Properties                                                              *)
(***************************************************************************)

\* The workers call the receipts the way DeliveryReceipts allows, so whatever
\* holds there holds here.
ImplementsReceipts == Spec

\* The cron can only replay an envelope that is still there: whatever the order of
\* settling, deleting, crashing and redelivering, a delivering receipt has its
\* envelope unless R2 lost it.
EnvelopeKept ==
    \A d \in Delivery : Delivering(d) => envelope[d] \in {"stored", "lost"}

\* A dead letter carrying the current delivery token is acknowledged only once its
\* receipt is terminal (deadLetter.ts retries when the claim is busy).
DeadLetterSettledBeforeAck ==
    [][\A m \in queue :
        m.lane = "dead" /\ m.gen = receipt[m.delivery].generation /\ m \notin queue'
            => Terminal(m.delivery) \/ faults' > faults]_vars

\* docs/acceptance-tests.md: consumers acknowledge only durable terminal outcomes.
\* A primary message carrying the current delivery token leaves the queue only once
\* its receipt is terminal, or for the dead letters.
PrimarySettledBeforeAck ==
    [][\A m \in queue :
        m.lane = "primary" /\ m.gen = receipt[m.delivery].generation /\ m \notin queue'
            => \/ Terminal(m.delivery)
               \/ Retried(m) \in queue'
               \/ faults' > faults]_vars

\* Every accepted delivery is settled in the end, through any bounded number of
\* crashes, losses, duplicates and timeouts: by the handler, by the dead letters
\* or by the hourly replay.
EventuallySettled == \A d \in Delivery : Delivering(d) ~> Terminal(d)
=============================================================================
