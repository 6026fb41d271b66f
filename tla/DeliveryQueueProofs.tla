-------------------------- MODULE DeliveryQueueProofs --------------------------
(***************************************************************************)
(* Proofs about DeliveryQueue, for every set of deliveries, runs and       *)
(* tokens, any number of retries and any number and kind of faults.  That  *)
(* the workers call the receipts as DeliveryReceipts allows carries over   *)
(* to them what DeliveryReceiptsProofs proves.                             *)
(***************************************************************************)
EXTENDS DeliveryQueue, DeliveryReceiptsProofs

-----------------------------------------------------------------------------
(* The inductive invariant                                                 *)

\* What a consumer invocation knows of its delivery at each of its steps.
Shaped(row) ==
    /\ row.pc # "idle" => row.delivery \in Delivery
    /\ row.pc \in {"bind", "execute"} => row.run \in Run
    /\ row.pc = "complete" =>
          \/ row.reply = "ignored"
          \/ row.reply \in {"coalesced", "completed"} /\ row.run \in Run

WorkIsShaped == \A w \in Token : Shaped(work[w])

\* A consumer deletes an envelope once the receipt is terminal.
DeletesSettled == \A w \in Token : At(w, "delete") => Terminal(work[w].delivery)

Recorded(d) == receipt[d].status # "absent"

\* The edge stores the envelope before it records the receipt.
StoredFirst ==
    \A d \in Delivery :
        edge[d].stage = "put" /\ ~ Recorded(d) => envelope[d] \in {"stored", "lost"}

\* What is on its way belongs to a receipt that is there.
OnTheWayIsRecorded ==
    /\ \A d \in Delivery : edge[d].stage = "recorded" => Recorded(d)
    /\ \A m \in queue : Recorded(m.delivery)
    /\ \A x \in sweep : Recorded(x.delivery)

QInv ==
    /\ IInv
    /\ QueueTypeOK
    /\ WorkIsShaped
    /\ DeletesSettled
    /\ StoredFirst
    /\ EnvelopeKept
    /\ OnTheWayIsRecorded

-----------------------------------------------------------------------------
(* The receipts, seen from the workers                                     *)

\* The steps of the receipts but for the one that records them.
AfterRecording ==
    \/ \E d \in Delivery, g \in Generation, t \in Token :
        \/ claimGitHubDeliveryProcessing(d, g, t)
        \/ releaseGitHubDeliveryProcessing(d, g, t)
        \/ terminalizeQueuedGitHubDelivery(d, g, t)
        \/ \E run \in Run \cup {NoRun}, outcome \in Requested :
              completeQueuedGitHubDelivery(d, g, t, run, outcome)
    \/ \E d \in Delivery, r \in Run : bindQueuedGitHubDeliveryToWorkflow(d, r)
    \/ \E d \in Delivery : LeaseExpires(d) \/ BecomesDue(d)
    \/ \E S \in SUBSET Delivery : claimStaleGitHubDeliveries(S)
    \/ \E r \in Run : RunMoves(r)

LEMMA AfterRecordingIsNext == AfterRecording => Next
BY DEF AfterRecording, Next, Mutation

\* A settled receipt is recorded.
LEMMA SettledIsRecorded ==
    ASSUME TypeOK, NEW d \in Delivery, NEW r \in Run \cup {NoRun}, NEW outcome \in Outcome,
           Settle(d, r, outcome), Recorded(d)
    PROVE  \A e \in Delivery : Recorded(e)' <=> Recorded(e)
<1>1. receipt \in [Delivery -> Receipt]
  BY DEF TypeOK
<1> QED BY <1>1, SettleEffect DEF Recorded

\* Only recordQueuedGitHubDelivery records a receipt, and none is ever deleted.
LEMMA RecordedStays ==
    ASSUME TypeOK, [AfterRecording]_receiptVars
    PROVE  \A e \in Delivery : Recorded(e)' <=> Recorded(e)
<1>t. receipt \in [Delivery -> Receipt]
  BY DEF TypeOK
<1>1. CASE UNCHANGED receiptVars
  BY <1>1 DEF receiptVars, Recorded
<1>2. ASSUME NEW d \in Delivery, NEW g \in Generation, NEW t \in Token,
             claimGitHubDeliveryProcessing(d, g, t)
      PROVE  \A e \in Delivery : Recorded(e)' <=> Recorded(e)
  BY <1>t, <1>2 DEF claimGitHubDeliveryProcessing, Receipt, Recorded
<1>3. ASSUME NEW d \in Delivery, NEW g \in Generation, NEW t \in Token,
             releaseGitHubDeliveryProcessing(d, g, t)
      PROVE  \A e \in Delivery : Recorded(e)' <=> Recorded(e)
  BY <1>t, <1>3 DEF releaseGitHubDeliveryProcessing, Receipt, Recorded
<1>4. ASSUME NEW d \in Delivery, NEW g \in Generation, NEW t \in Token,
             terminalizeQueuedGitHubDelivery(d, g, t)
      PROVE  \A e \in Delivery : Recorded(e)' <=> Recorded(e)
  <2>1. Recorded(d)
    BY <1>4 DEF terminalizeQueuedGitHubDelivery, Delivering, Recorded
  <2>2. \E r \in Run \cup {NoRun}, outcome \in Outcome : Settle(d, r, outcome)
    BY <1>4 DEF terminalizeQueuedGitHubDelivery, OutcomeOf, Outcome
  <2> QED BY <2>1, <2>2, SettledIsRecorded
<1>5. ASSUME NEW d \in Delivery, NEW g \in Generation, NEW t \in Token,
             NEW run \in Run \cup {NoRun}, NEW outcome \in Requested,
             completeQueuedGitHubDelivery(d, g, t, run, outcome)
      PROVE  \A e \in Delivery : Recorded(e)' <=> Recorded(e)
  <2>1. Recorded(d) /\ Settle(d, receipt[d].run, outcome)
    BY <1>5 DEF completeQueuedGitHubDelivery, Delivering, Recorded
  <2>2. outcome \in Outcome /\ receipt[d].run \in Run \cup {NoRun}
    BY <1>t DEF Requested, Outcome, Receipt
  <2> QED BY <2>1, <2>2, SettledIsRecorded
<1>6. ASSUME NEW d \in Delivery, NEW r \in Run, bindQueuedGitHubDeliveryToWorkflow(d, r)
      PROVE  \A e \in Delivery : Recorded(e)' <=> Recorded(e)
  <2>1. Recorded(d)
    BY <1>6 DEF bindQueuedGitHubDeliveryToWorkflow, BindRejected, Recorded
  <2>2. CASE Settle(d, r, "coalesced")
    BY <2>1, <2>2, SettledIsRecorded DEF Outcome
  <2>3. CASE receipt' = [receipt EXCEPT ![d] = [@ EXCEPT !.run = r]]
    BY <1>t, <2>3 DEF Receipt, Recorded
  <2> QED BY <1>6, <2>2, <2>3 DEF bindQueuedGitHubDeliveryToWorkflow
<1>7. ASSUME NEW d \in Delivery, LeaseExpires(d) \/ BecomesDue(d)
      PROVE  \A e \in Delivery : Recorded(e)' <=> Recorded(e)
  BY <1>t, <1>7 DEF LeaseExpires, BecomesDue, Receipt, Recorded
<1>8. ASSUME NEW S \in SUBSET Delivery, claimStaleGitHubDeliveries(S)
      PROVE  \A e \in Delivery : Recorded(e)' <=> Recorded(e)
  <2> SUFFICES ASSUME NEW e \in Delivery
               PROVE  receipt'[e].status = receipt[e].status
    BY DEF Recorded
  <2> QED BY <1>t, <1>8 DEF claimStaleGitHubDeliveries, Receipt
<1>9. ASSUME NEW r \in Run, RunMoves(r)
      PROVE  \A e \in Delivery : Recorded(e)' <=> Recorded(e)
  BY <1>9 DEF RunMoves, createFromExternalIntake, claimIncomingDispatch, recordPolicyDecision,
              markWorkflowExecutionFailed, MoveRun, Recorded
<1> QED BY <1>1, <1>2, <1>3, <1>4, <1>5, <1>6, <1>7, <1>8, <1>9 DEF AfterRecording

\* A settled receipt stays settled, and only one that was delivering delivers.
LEMMA ReceiptsStep ==
    ASSUME IInv, [AfterRecording]_receiptVars
    PROVE  /\ IInv'
           /\ \A d \in Delivery : /\ Recorded(d)' <=> Recorded(d)
                                  /\ Terminal(d) => Terminal(d)'
                                  /\ Delivering(d)' => Delivering(d)
<1>1. [Next]_receiptVars
  BY AfterRecordingIsNext
<1>2. IInv'
  BY <1>1, StepInv
<1>3. \A d \in Delivery : Recorded(d)' <=> Recorded(d)
  BY RecordedStays DEF IInv
<1>4. \A d \in Delivery : Terminal(d) => Terminal(d)'
  BY <1>1, StepKeeps DEF KeepsItsRunAndOutcome, Terminal, receiptVars
<1>5. \A d \in Delivery : Delivering(d)' => Delivering(d)
  <2> SUFFICES ASSUME NEW d \in Delivery, Delivering(d)' PROVE Delivering(d)
    OBVIOUS
  <2>1. receipt[d].status \in {"absent", "delivering", "terminal"}
    BY DEF IInv, TypeOK, Receipt, Status
  <2>2. Recorded(d) /\ ~ Terminal(d)
    BY <1>3, <1>4 DEF Delivering, Terminal, Recorded
  <2> QED BY <2>1, <2>2 DEF Delivering, Terminal, Recorded
<1> QED BY <1>2, <1>3, <1>4, <1>5

-----------------------------------------------------------------------------
(* Messages and invocations                                                *)

LEMMA RetriedMessage ==
    ASSUME NEW m \in Message
    PROVE  Retried(m) \in Message /\ Retried(m).delivery = m.delivery
<1>1. CASE m.lane = "dead"
  BY <1>1 DEF Retried
<1>2. CASE m.lane # "dead" /\ m.tries < MaxRetries
  <2>1. Retried(m) = [m EXCEPT !.tries = @ + 1] /\ m.tries + 1 \in 0..MaxRetries
    BY <1>2, QueueConstants DEF Retried, Message
  <2> QED BY <2>1 DEF Message
<1>3. CASE m.lane # "dead" /\ ~ (m.tries < MaxRetries)
  <2>1. Retried(m) = [m EXCEPT !.lane = "dead", !.tries = 0]
    BY <1>3 DEF Retried
  <2>2. 0 \in 0..MaxRetries
    BY QueueConstants
  <2> QED BY <2>1, <2>2 DEF Message, Lane
<1> QED BY <1>1, <1>2, <1>3

\* What a queue may become as long as nothing is sent.
QueueShrinks ==
    /\ queue' \in SUBSET Message
    /\ \A m \in queue' : \E n \in queue : n.delivery = m.delivery

LEMMA QueueOfMessage ==
    ASSUME QueueTypeOK, NEW m, UNCHANGED queue \/ Ack(m) \/ Retry(m)
    PROVE  QueueShrinks
<1>1. CASE UNCHANGED queue
  BY <1>1 DEF QueueTypeOK, QueueShrinks
<1>2. CASE Ack(m)
  BY <1>2 DEF QueueTypeOK, QueueShrinks, Ack
<1>3. CASE Retry(m)
  BY <1>3, RetriedMessage DEF QueueTypeOK, QueueShrinks, Retry
<1> QED BY <1>1, <1>2, <1>3

LEMMA QueueOfWork ==
    ASSUME QueueTypeOK, NEW w \in Token, AckIfQueued(w) \/ RetryIfQueued(w)
    PROVE  QueueShrinks
BY QueueOfMessage DEF AckIfQueued, RetryIfQueued

LEMMA WorkFields ==
    ASSUME NEW row \in Work
    PROVE  /\ row.pc \in Step /\ row.delivery \in Delivery \cup {NoDelivery}
           /\ row.gen \in Generation /\ row.lane \in Lane \cup {"sweep"}
           /\ row.tries \in 0..MaxRetries /\ row.run \in Run \cup {NoRun}
           /\ row.over \in BOOLEAN /\ row.reply \in Reply /\ row.attached \in BOOLEAN
BY DEF Work

LEMMA IdleRow == Idle \in Work /\ Shaped(Idle) /\ Idle.pc = "idle"
BY ReceiptConstants, QueueConstants DEF Idle, Work, Shaped, Step, Handler, Lane, Reply, Generation

LEMMA GotoRow ==
    ASSUME NEW row \in Work, NEW pc \in Step
    PROVE  /\ [row EXCEPT !.pc = pc] \in Work
           /\ [row EXCEPT !.pc = pc].pc = pc
           /\ [row EXCEPT !.pc = pc].delivery = row.delivery
           /\ [row EXCEPT !.pc = pc].run = row.run
           /\ [row EXCEPT !.pc = pc].reply = row.reply
BY DEF Work

\* What becomes of an invocation of the handler that answers.
LEMMA AnsweredRow ==
    ASSUME QueueTypeOK, WorkIsShaped, NEW w \in Token, NEW reply \in Reply,
           NEW pc \in {"complete", "release"}, work[w].pc \in Handler,
           pc = "complete" => reply = "ignored" \/ (reply # "none" /\ work[w].run \in Run),
           Answer(w, reply, pc)
    PROVE  \E row \in Work : /\ Shaped(row) /\ row.pc # "delete"
                             /\ work' = [work EXCEPT ![w] = row]
<1>1. work[w] \in Work /\ work[w].delivery \in Delivery
  BY DEF QueueTypeOK, WorkIsShaped, Shaped, Handler
<1>2. CASE work[w].attached
  <2> DEFINE row == [work[w] EXCEPT !.reply = reply, !.pc = pc, !.over = FALSE,
                                    !.run = IF reply = "none" THEN NoRun ELSE work[w].run]
  <2>1. work' = [work EXCEPT ![w] = row]
    BY <1>2 DEF Answer
  <2>2. /\ row \in Work /\ row.pc = pc /\ row.reply = reply
        /\ row.delivery = work[w].delivery
        /\ reply # "none" => row.run = work[w].run
    BY <1>1 DEF Work, Step
  <2> HIDE DEF row
  <2>3. Shaped(row) /\ row.pc # "delete"
    BY <1>1, <2>2 DEF Shaped, Reply
  <2> QED BY <2>1, <2>2, <2>3
<1>3. CASE ~ work[w].attached
  BY <1>3, IdleRow DEF Answer, Finish
<1> QED BY <1>2, <1>3

\* A handler that goes on without its consumer.
LEMMA DetachedRow ==
    ASSUME QueueTypeOK, WorkIsShaped, NEW w \in Token, work[w].pc \in Handler, Detach(w)
    PROVE  \E row \in Work : /\ Shaped(row) /\ row.pc # "delete"
                             /\ work' = [work EXCEPT ![w] = row]
<1> DEFINE row == [Idle EXCEPT !.pc = work[w].pc, !.delivery = work[w].delivery,
                               !.run = work[w].run, !.over = work[w].over, !.attached = FALSE]
<1>1. work[w] \in Work /\ Shaped(work[w])
  BY DEF QueueTypeOK, WorkIsShaped
<1>2. /\ row \in Work /\ row.pc = work[w].pc /\ row.delivery = work[w].delivery
      /\ row.run = work[w].run
  BY <1>1, IdleRow DEF Work
<1>3. work' = [work EXCEPT ![w] = row]
  BY DEF Detach
<1> HIDE DEF row
<1> QED BY <1>1, <1>2, <1>3 DEF Shaped, Handler

-----------------------------------------------------------------------------
(* What every step that records no receipt leaves to show                  *)

\* The work of one invocation, which touches neither the edge nor an envelope.
LEMMA WorkKeeps ==
    ASSUME QInv, [AfterRecording]_receiptVars, NEW w \in Token, NEW row \in Work,
           Shaped(row), row.pc = "delete" => Terminal(row.delivery)',
           work' = [work EXCEPT ![w] = row],
           UNCHANGED <<edge, envelope>>, QueueShrinks, sweep' \in SUBSET sweep,
           faults' \in 0..MaxFaults
    PROVE  QInv'
<1>1. /\ IInv'
      /\ \A d \in Delivery : /\ Recorded(d)' <=> Recorded(d)
                             /\ Terminal(d) => Terminal(d)'
                             /\ Delivering(d)' => Delivering(d)
  BY ReceiptsStep DEF QInv
<1>2. QueueTypeOK'
  BY DEF QInv, QueueTypeOK, QueueShrinks
<1>3. work'[w] = row /\ \A v \in Token \ {w} : work'[v] = work[v]
  BY DEF QInv, QueueTypeOK
<1>4. WorkIsShaped'
  BY <1>3 DEF QInv, WorkIsShaped
<1>5. DeletesSettled'
  <2> SUFFICES ASSUME NEW v \in Token, work'[v].pc = "delete"
               PROVE  receipt'[work'[v].delivery].status = "terminal"
    BY DEF DeletesSettled, At, Terminal
  <2>1. CASE v = w
    BY <1>3, <2>1 DEF Terminal
  <2>2. CASE v # w
    <3>1. work'[v] = work[v] /\ work[v].delivery \in Delivery /\ Terminal(work[v].delivery)
      BY <1>3, <2>2 DEF QInv, DeletesSettled, At, WorkIsShaped, Shaped
    <3> QED BY <1>1, <3>1 DEF Terminal
  <2> QED BY <2>1, <2>2
<1>6. StoredFirst'
  BY <1>1 DEF QInv, StoredFirst
<1>7. EnvelopeKept'
  BY <1>1 DEF QInv, EnvelopeKept
<1>8. OnTheWayIsRecorded'
  <2>1. \A d \in Delivery : edge'[d].stage = "recorded" => Recorded(d)'
    BY <1>1 DEF QInv, OnTheWayIsRecorded
  <2>2. \A m \in queue' : m.delivery \in Delivery /\ Recorded(m.delivery)
    BY DEF QInv, QueueShrinks, OnTheWayIsRecorded, Message
  <2>3. \A x \in sweep' : x.delivery \in Delivery /\ Recorded(x.delivery)
    BY DEF QInv, QueueTypeOK, OnTheWayIsRecorded
  <2> QED BY <1>1, <2>1, <2>2, <2>3 DEF OnTheWayIsRecorded, Recorded
<1> QED BY <1>1, <1>2, <1>4, <1>5, <1>6, <1>7, <1>8 DEF QInv

\* A step that leaves the work of the consumers alone.
LEMMA OutsideKeeps ==
    ASSUME QInv, [AfterRecording]_receiptVars, UNCHANGED work, QueueTypeOK',
           \A d \in Delivery :
              /\ edge'[d].stage = "put" =>
                    envelope'[d] \in {"stored", "lost"}
                    \/ (edge[d].stage = "put" /\ envelope'[d] = envelope[d])
              /\ edge'[d].stage = "recorded" => edge[d].stage = "recorded"
              /\ envelope'[d] \in {"stored", "lost"} \/ envelope'[d] = envelope[d],
           \A m \in queue' : Recorded(m.delivery)',
           \A x \in sweep' : Recorded(x.delivery)'
    PROVE  QInv'
<1>1. /\ IInv'
      /\ \A d \in Delivery : /\ Recorded(d)' <=> Recorded(d)
                             /\ Terminal(d) => Terminal(d)'
                             /\ Delivering(d)' => Delivering(d)
  BY ReceiptsStep DEF QInv
<1>2. WorkIsShaped'
  BY DEF QInv, WorkIsShaped
<1>3. DeletesSettled'
  <2> SUFFICES ASSUME NEW v \in Token, work[v].pc = "delete"
               PROVE  receipt'[work'[v].delivery].status = "terminal"
    BY DEF DeletesSettled, At, Terminal
  <2>1. work[v].delivery \in Delivery /\ Terminal(work[v].delivery)
    BY DEF QInv, DeletesSettled, At, WorkIsShaped, Shaped
  <2> QED BY <1>1, <2>1 DEF Terminal
<1>4. StoredFirst'
  BY <1>1 DEF QInv, StoredFirst
<1>5. EnvelopeKept'
  BY <1>1 DEF QInv, EnvelopeKept
<1>6. OnTheWayIsRecorded'
  BY <1>1 DEF QInv, OnTheWayIsRecorded
<1> QED BY <1>1, <1>2, <1>3, <1>4, <1>5, <1>6 DEF QInv

-----------------------------------------------------------------------------
(* The steps, each of which is one of the receipts, or none                *)

Keeps == QInv' /\ [AfterRecording]_receiptVars

LEMMA FaultsBound ==
    ASSUME QueueTypeOK, UNCHANGED faults \/ \E kind : Fault(kind)
    PROVE  faults' \in 0..MaxFaults
BY QueueConstants DEF QueueTypeOK, Fault

LEMMA EdgeRow ==
    ASSUME QueueTypeOK, NEW d \in Delivery, NEW stage \in {"idle", "put", "recorded"},
           NEW g \in Generation, edge' = [edge EXCEPT ![d] = [stage |-> stage, gen |-> g]]
    PROVE  /\ edge' \in [Delivery -> [stage : {"idle", "put", "recorded"}, gen : Generation]]
           /\ edge'[d].stage = stage
           /\ \A e \in Delivery \ {d} : edge'[e] = edge[e]
BY DEF QueueTypeOK

LEMMA PutKeeps == ASSUME QInv, NEW d \in Delivery, Put(d) PROVE Keeps
<1>1. edge[d].gen \in Generation
  BY DEF QInv, QueueTypeOK
<1>2. edge' = [edge EXCEPT ![d] = [stage |-> "put", gen |-> edge[d].gen]]
  <2>1. edge[d] \in [stage : {"idle", "put", "recorded"}, gen : Generation]
    BY DEF QInv, QueueTypeOK
  <2>2. [edge[d] EXCEPT !.stage = "put"] = [stage |-> "put", gen |-> edge[d].gen]
    BY <2>1
  <2> QED BY <2>2 DEF Put
<1>3. /\ edge' \in [Delivery -> [stage : {"idle", "put", "recorded"}, gen : Generation]]
      /\ edge'[d].stage = "put" /\ \A e \in Delivery \ {d} : edge'[e] = edge[e]
  BY <1>1, <1>2, EdgeRow DEF QInv
<1>4. /\ envelope' = [envelope EXCEPT ![d] = "stored"]
      /\ UNCHANGED <<receiptVars, queue, sweep, work>>
  BY DEF Put
<1>5. faults' \in 0..MaxFaults
  BY FaultsBound DEF Put, QInv
<1>6. QueueTypeOK'
  BY <1>3, <1>4, <1>5 DEF QInv, QueueTypeOK
<1>7. /\ envelope'[d] = "stored"
      /\ \A e \in Delivery \ {d} : envelope'[e] = envelope[e]
  BY <1>4 DEF QInv, QueueTypeOK
<1>8. QInv'
  BY <1>3, <1>4, <1>6, <1>7, OutsideKeeps DEF QInv, OnTheWayIsRecorded, Recorded, receiptVars
<1> QED BY <1>4, <1>8 DEF Keeps

\* The one step that records a receipt; its envelope was stored before.
LEMMA RecordKeeps ==
    ASSUME QInv, NEW d \in Delivery, Record(d)
    PROVE  QInv' /\ [Next]_receiptVars
<1>1. [Next]_receiptVars
  BY DEF Record, Next, Mutation
<1>2. IInv' /\ TypeOK'
  BY <1>1, StepInv DEF QInv, IInv
<1>3. /\ Recorded(d)' /\ receipt'[d].generation \in Generation
      /\ \A e \in Delivery \ {d} : receipt'[e] = receipt[e]
      /\ Delivering(d)' => Delivering(d) \/ ~ Recorded(d)
      /\ Terminal(d) => Terminal(d)'
  BY <1>2 DEF Record, recordQueuedGitHubDelivery, EmptyReceipt, TypeOK, Receipt, QInv, IInv,
              Recorded, Delivering, Terminal, receiptVars
<1>4. /\ edge' \in [Delivery -> [stage : {"idle", "put", "recorded"}, gen : Generation]]
      /\ edge'[d].stage = "recorded" /\ \A e \in Delivery \ {d} : edge'[e] = edge[e]
  BY <1>3, EdgeRow DEF Record, QInv
<1>5. edge[d].stage = "put" /\ UNCHANGED <<queue, envelope, sweep, work, faults>>
  BY DEF Record
<1>6. QueueTypeOK'
  BY <1>4, <1>5 DEF QInv, QueueTypeOK
<1>7. WorkIsShaped'
  BY <1>5 DEF QInv, WorkIsShaped
<1>8. DeletesSettled'
  BY <1>3, <1>5 DEF QInv, DeletesSettled, At, WorkIsShaped, Shaped, Terminal
<1>9. StoredFirst'
  BY <1>3, <1>4, <1>5 DEF QInv, StoredFirst, Recorded
<1>10. EnvelopeKept'
  BY <1>3, <1>5 DEF QInv, StoredFirst, EnvelopeKept, Recorded, Delivering
<1>11. OnTheWayIsRecorded'
  <2>1. \A e \in Delivery : Recorded(e) => Recorded(e)'
    BY <1>3 DEF Recorded
  <2>2. \A e \in Delivery : edge'[e].stage = "recorded" => Recorded(e)'
    BY <1>3, <1>4, <2>1 DEF QInv, OnTheWayIsRecorded
  <2>3. \A m \in queue : m.delivery \in Delivery /\ Recorded(m.delivery)
    BY DEF QInv, QueueTypeOK, OnTheWayIsRecorded, Message
  <2>4. \A x \in sweep : x.delivery \in Delivery /\ Recorded(x.delivery)
    BY DEF QInv, QueueTypeOK, OnTheWayIsRecorded
  <2> QED BY <1>5, <2>1, <2>2, <2>3, <2>4 DEF OnTheWayIsRecorded, Recorded
<1> QED BY <1>1, <1>2, <1>6, <1>7, <1>8, <1>9, <1>10, <1>11 DEF QInv

LEMMA FreshMessage ==
    ASSUME NEW d \in Delivery, NEW g \in Generation
    PROVE  Fresh(d, g) \in Message /\ Fresh(d, g).delivery = d
BY QueueConstants DEF Fresh, Message, Lane

LEMMA SendKeeps == ASSUME QInv, NEW d \in Delivery, Send(d) PROVE Keeps
<1>1. 0 \in Generation /\ edge[d].gen \in Generation
  BY ReceiptConstants DEF QInv, QueueTypeOK, Generation
<1>2. /\ edge' \in [Delivery -> [stage : {"idle", "put", "recorded"}, gen : Generation]]
      /\ edge'[d].stage = "idle" /\ \A e \in Delivery \ {d} : edge'[e] = edge[e]
  BY <1>1, EdgeRow DEF Send, QInv
<1>3. /\ queue' = queue \cup {Fresh(d, edge[d].gen)} /\ Recorded(d)
      /\ UNCHANGED <<receiptVars, envelope, sweep, work, faults>>
  BY DEF Send, QInv, OnTheWayIsRecorded
<1>4. QueueTypeOK'
  BY <1>1, <1>2, <1>3, FreshMessage DEF QInv, QueueTypeOK
<1>5. \A m \in queue' : Recorded(m.delivery)
  BY <1>1, <1>3, FreshMessage DEF QInv, OnTheWayIsRecorded
<1>6. QInv'
  BY <1>2, <1>3, <1>4, <1>5, OutsideKeeps DEF QInv, OnTheWayIsRecorded, Recorded, receiptVars
<1> QED BY <1>3, <1>6 DEF Keeps

LEMMA EdgeFailsKeeps == ASSUME QInv, NEW d \in Delivery, EdgeFails(d) PROVE Keeps
<1>1. 0 \in Generation
  BY ReceiptConstants DEF Generation
<1>2. /\ edge' \in [Delivery -> [stage : {"idle", "put", "recorded"}, gen : Generation]]
      /\ edge'[d].stage = "idle" /\ \A e \in Delivery \ {d} : edge'[e] = edge[e]
  BY <1>1, EdgeRow DEF EdgeFails, QInv
<1>3. UNCHANGED <<receiptVars, queue, envelope, sweep, work>> /\ faults' \in 0..MaxFaults
  BY FaultsBound DEF EdgeFails, QInv
<1>4. QueueTypeOK'
  BY <1>2, <1>3 DEF QInv, QueueTypeOK
<1>5. QInv'
  BY <1>2, <1>3, <1>4, OutsideKeeps DEF QInv, OnTheWayIsRecorded, Recorded, receiptVars
<1> QED BY <1>3, <1>5 DEF Keeps

LEMMA LoseMessageKeeps == ASSUME QInv, NEW m \in queue, LoseMessage(m) PROVE Keeps
<1>1. /\ UNCHANGED <<receiptVars, edge, envelope, sweep, work>>
      /\ queue' = queue \ {m} /\ faults' \in 0..MaxFaults
  BY FaultsBound DEF LoseMessage, Ack, QInv
<1>2. QueueTypeOK'
  BY <1>1 DEF QInv, QueueTypeOK
<1>3. QInv'
  BY <1>1, <1>2, OutsideKeeps DEF QInv, OnTheWayIsRecorded, Recorded, receiptVars
<1> QED BY <1>1, <1>3 DEF Keeps

LEMMA LoseEnvelopeKeeps == ASSUME QInv, NEW d \in Delivery, LoseEnvelope(d) PROVE Keeps
<1>1. /\ UNCHANGED <<receiptVars, edge, queue, sweep, work>> /\ faults' \in 0..MaxFaults
      /\ envelope' = [envelope EXCEPT ![d] = "lost"]
  BY FaultsBound DEF LoseEnvelope, QInv
<1>2. QueueTypeOK'
  BY <1>1 DEF QInv, QueueTypeOK
<1>3. \A e \in Delivery : envelope'[e] = "lost" \/ envelope'[e] = envelope[e]
  BY <1>1 DEF QInv, QueueTypeOK
<1>4. QInv'
  BY <1>1, <1>2, <1>3, OutsideKeeps DEF QInv, OnTheWayIsRecorded, Recorded, receiptVars
<1> QED BY <1>1, <1>4 DEF Keeps

\* A step of the clock or of Convex alone.
LEMMA BackgroundKeeps ==
    ASSUME QInv, AfterRecording, UNCHANGED workerVars, faults' \in 0..MaxFaults
    PROVE  Keeps
<1>1. UNCHANGED <<edge, queue, envelope, sweep, work>>
  BY DEF workerVars
<1>2. QueueTypeOK'
  BY <1>1 DEF QInv, QueueTypeOK
<1>3. \A d \in Delivery : Recorded(d)' <=> Recorded(d)
  BY ReceiptsStep DEF QInv
<1>4. \A m \in queue' : Recorded(m.delivery)'
  BY <1>1, <1>3 DEF QInv, QueueTypeOK, Message, OnTheWayIsRecorded, Recorded
<1>5. \A x \in sweep' : Recorded(x.delivery)'
  BY <1>1, <1>3 DEF QInv, QueueTypeOK, OnTheWayIsRecorded, Recorded
<1>6. QInv'
  BY <1>1, <1>2, <1>4, <1>5, OutsideKeeps
<1> QED BY <1>6 DEF Keeps

LEMMA LeasePassesKeeps == ASSUME QInv, NEW d \in Delivery, LeasePasses(d) PROVE Keeps
<1>1. AfterRecording
  BY DEF LeasePasses, AfterRecording
<1>2. UNCHANGED workerVars /\ faults' \in 0..MaxFaults
  BY FaultsBound DEF LeasePasses, QInv
<1> QED BY <1>1, <1>2, BackgroundKeeps

LEMMA DueKeeps ==
    ASSUME QInv, NEW d \in Delivery, HourPasses(d) \/ SlowDelivery(d)
    PROVE  Keeps
<1>1. AfterRecording
  BY DEF HourPasses, SlowDelivery, AfterRecording
<1>2. UNCHANGED workerVars /\ faults' \in 0..MaxFaults
  BY FaultsBound DEF HourPasses, SlowDelivery, QInv
<1> QED BY <1>1, <1>2, BackgroundKeeps

LEMMA ScheduledExpiryKeeps == ASSUME QInv, NEW r \in Run, ScheduledExpiry(r) PROVE Keeps
<1>1. AfterRecording
  BY DEF ScheduledExpiry, AfterRecording, RunMoves
<1>2. UNCHANGED workerVars /\ faults' \in 0..MaxFaults
  BY FaultsBound DEF ScheduledExpiry, QInv
<1> QED BY <1>1, <1>2, BackgroundKeeps

LEMMA SweepKeeps == ASSUME QInv, NEW S \in SUBSET Delivery, Sweep(S) PROVE Keeps
<1>1. /\ AfterRecording /\ UNCHANGED <<edge, queue, envelope, work, faults>>
      /\ sweep' = sweep \cup {[delivery |-> d, gen |-> receipt'[d].generation] : d \in S}
  BY DEF Sweep, AfterRecording
<1>2. /\ \A d \in Delivery : Recorded(d)' <=> Recorded(d)
      /\ receipt' \in [Delivery -> Receipt]
  BY <1>1, ReceiptsStep DEF QInv, IInv, TypeOK
<1>3. \A d \in S : Recorded(d)
  BY DEF Sweep, claimStaleGitHubDeliveries, StaleBatches, Delivering, Recorded
<1>4. \A d \in S : receipt'[d].generation \in Generation
  BY <1>2 DEF Receipt
<1>5. QueueTypeOK'
  BY <1>1, <1>4 DEF QInv, QueueTypeOK
<1>6. \A m \in queue' : Recorded(m.delivery)'
  BY <1>1, <1>2 DEF QInv, QueueTypeOK, Message, OnTheWayIsRecorded, Recorded
<1>7. \A x \in sweep' : Recorded(x.delivery)'
  <2> SUFFICES ASSUME NEW x \in sweep' PROVE x.delivery \in Delivery /\ Recorded(x.delivery)
    BY <1>2 DEF Recorded
  <2>1. CASE x \in sweep
    BY <2>1 DEF QInv, QueueTypeOK, OnTheWayIsRecorded
  <2>2. CASE x \notin sweep
    <3>1. PICK d \in S : x = [delivery |-> d, gen |-> receipt'[d].generation]
      BY <1>1, <2>2
    <3> QED BY <1>3, <3>1
  <2> QED BY <2>1, <2>2
<1>8. QInv'
  BY <1>1, <1>5, <1>6, <1>7, OutsideKeeps
<1> QED BY <1>1, <1>8 DEF Keeps

LEMMA ReplayKeeps == ASSUME QInv, NEW x \in sweep, Replay(x) PROVE Keeps
<1>1. /\ UNCHANGED <<receiptVars, edge, envelope, work, faults>>
      /\ queue' = queue \cup {Fresh(x.delivery, x.gen)} /\ sweep' = sweep \ {x}
  BY DEF Replay
<1>2. x.delivery \in Delivery /\ x.gen \in Generation /\ Recorded(x.delivery)
  BY DEF QInv, QueueTypeOK, OnTheWayIsRecorded
<1>3. QueueTypeOK'
  BY <1>1, <1>2, FreshMessage DEF QInv, QueueTypeOK
<1>4. \A m \in queue' : Recorded(m.delivery)
  BY <1>1, <1>2, FreshMessage DEF QInv, OnTheWayIsRecorded
<1>5. QInv'
  BY <1>1, <1>3, <1>4, OutsideKeeps DEF QInv, OnTheWayIsRecorded, Recorded, receiptVars
<1> QED BY <1>1, <1>5 DEF Keeps

LEMMA SweepFailsKeeps == ASSUME QInv, NEW x \in sweep, SweepFails(x) PROVE Keeps
<1>1. /\ UNCHANGED <<receiptVars, edge, queue, envelope, work>>
      /\ sweep' = sweep \ {x} /\ faults' \in 0..MaxFaults
  BY FaultsBound DEF SweepFails, QInv
<1>2. QueueTypeOK'
  BY <1>1 DEF QInv, QueueTypeOK
<1>3. QInv'
  BY <1>1, <1>2, OutsideKeeps DEF QInv, OnTheWayIsRecorded, Recorded, receiptVars
<1> QED BY <1>1, <1>3 DEF Keeps

LEMMA RecoverKeeps == ASSUME QInv, NEW w \in Token, NEW x \in sweep, Recover(w, x) PROVE Keeps
<1> DEFINE row == [Idle EXCEPT !.pc = "claim", !.delivery = x.delivery, !.gen = x.gen,
                               !.lane = "sweep"]
<1>1. /\ work' = [work EXCEPT ![w] = row] /\ sweep' = sweep \ {x}
      /\ UNCHANGED <<receiptVars, edge, queue, envelope, faults>>
  BY DEF Recover
<1>2. x.delivery \in Delivery /\ x.gen \in Generation
  BY DEF QInv, QueueTypeOK
<1>3. row \in Work /\ row.pc = "claim" /\ row.delivery = x.delivery
  BY <1>2, IdleRow DEF Work, Step
<1> HIDE DEF row
<1>4. Shaped(row)
  BY <1>2, <1>3 DEF Shaped
<1>5. QueueShrinks /\ faults' \in 0..MaxFaults
  BY <1>1, QueueOfMessage, FaultsBound DEF QInv
<1>6. QInv'
  BY <1>1, <1>3, <1>4, <1>5, WorkKeeps
<1> QED BY <1>1, <1>6 DEF Keeps

\* A message whose receipt is not the current one is dropped; another begins work.
LEMMA TakesKeeps ==
    ASSUME QInv, NEW w \in Token, NEW m \in queue, Takes(w, m), faults' \in 0..MaxFaults
    PROVE  Keeps
<1>1. m \in Message /\ UNCHANGED <<receiptVars, edge, envelope, sweep>>
  BY DEF Takes, QInv, QueueTypeOK
<1>2. CASE Ack(m) /\ UNCHANGED work
  <2>1. work' = [work EXCEPT ![w] = work[w]] /\ work[w] \in Work /\ Shaped(work[w])
    BY <1>2 DEF QInv, QueueTypeOK, WorkIsShaped
  <2>2. work[w].pc # "delete"
    BY DEF Takes, At
  <2>3. QueueShrinks
    BY <1>2, QueueOfMessage DEF QInv
  <2>4. PICK row \in Work : row = work[w]
    BY <2>1
  <2>5. QInv'
    BY <1>1, <2>1, <2>2, <2>3, <2>4, WorkKeeps
  <2> QED BY <1>1, <2>5 DEF Keeps
<1>3. ASSUME NEW pc \in {"claim", "delete"}, pc = "delete" => Terminal(m.delivery),
             work' = [work EXCEPT ![w] =
                        [Idle EXCEPT !.pc = pc, !.delivery = m.delivery, !.gen = m.gen,
                                     !.lane = m.lane, !.tries = m.tries]],
             UNCHANGED queue
      PROVE  Keeps
  <2>0. PICK row : row = [Idle EXCEPT !.pc = pc, !.delivery = m.delivery, !.gen = m.gen,
                                     !.lane = m.lane, !.tries = m.tries]
    OBVIOUS
  <2>1. row \in Work /\ Shaped(row) /\ row.pc = pc /\ row.delivery = m.delivery
    <3>1. /\ m.delivery \in Delivery /\ m.gen \in Generation
          /\ m.lane \in Lane \cup {"sweep"} /\ m.tries \in 0..MaxRetries
      BY <1>1 DEF Message
    <3>2. row \in Work /\ row.pc = pc /\ row.delivery = m.delivery
      BY <2>0, <3>1, IdleRow DEF Work, Step
    <3> QED BY <3>1, <3>2 DEF Shaped
  <2>2. work' = [work EXCEPT ![w] = row]
    BY <1>3, <2>0
  <2>3. QueueShrinks
    BY <1>3, QueueOfMessage DEF QInv
  <2>4. row.pc = "delete" => Terminal(row.delivery)'
    BY <1>1, <1>3, <2>1 DEF receiptVars, Terminal
  <2>5. QInv'
    BY <1>1, <2>1, <2>2, <2>3, <2>4, WorkKeeps
  <2> QED BY <1>1, <2>5 DEF Keeps
<1>4. CASE Terminal(m.delivery) /\ work' = [work EXCEPT ![w] =
                        [Idle EXCEPT !.pc = "delete", !.delivery = m.delivery, !.gen = m.gen,
                                     !.lane = m.lane, !.tries = m.tries]] /\ UNCHANGED queue
  BY <1>3, <1>4
<1>5. CASE work' = [work EXCEPT ![w] =
                        [Idle EXCEPT !.pc = "claim", !.delivery = m.delivery, !.gen = m.gen,
                                     !.lane = m.lane, !.tries = m.tries]] /\ UNCHANGED queue
  BY <1>3, <1>5
<1> QED BY <1>2, <1>4, <1>5 DEF Takes

\* A consumer step that goes on to another one.
LEMMA GotoKeeps ==
    ASSUME QInv, [AfterRecording]_receiptVars, NEW w \in Token, NEW pc \in Step,
           Goto(w, pc), work[w].pc # "idle",
           pc \in {"bind", "execute"} => work[w].run \in Run,
           pc # "complete",
           pc = "delete" => Terminal(work[w].delivery) \/ Terminal(work[w].delivery)',
           UNCHANGED <<edge, envelope>>, QueueShrinks, UNCHANGED sweep,
           faults' \in 0..MaxFaults
    PROVE  Keeps
<1>1. work[w] \in Work /\ work[w].delivery \in Delivery
  BY DEF QInv, QueueTypeOK, WorkIsShaped, Shaped
<1>2. PICK row \in Work : row = [work[w] EXCEPT !.pc = pc]
  BY <1>1, GotoRow
<1>3. row.pc = pc /\ row.delivery = work[w].delivery /\ row.run = work[w].run
  BY <1>1, <1>2, GotoRow
<1>4. work' = [work EXCEPT ![w] = row]
  BY <1>2 DEF Goto
<1>5. Shaped(row)
  BY <1>1, <1>3 DEF Shaped
<1>6. row.pc = "delete" => Terminal(row.delivery)'
  <2> SUFFICES ASSUME pc = "delete" PROVE receipt'[row.delivery].status = "terminal"
    BY <1>3 DEF Terminal
  <2>1. CASE Terminal(work[w].delivery)
    BY <1>1, <1>3, <2>1, ReceiptsStep DEF QInv, Terminal
  <2>2. CASE Terminal(work[w].delivery)'
    <3>1. row.delivery = work[w].delivery
      BY <1>3
    <3> QED BY <1>1, <1>3, <1>4, <2>2 DEF Terminal, QInv, QueueTypeOK
  <2> QED BY <2>1, <2>2
<1>7. QInv'
  BY <1>4, <1>5, <1>6, WorkKeeps
<1> QED BY <1>7 DEF Keeps

\* An invocation that ends.
LEMMA FinishKeeps ==
    ASSUME QInv, [AfterRecording]_receiptVars, NEW w \in Token, Finish(w),
           UNCHANGED <<edge, envelope>>, QueueShrinks, UNCHANGED sweep,
           faults' \in 0..MaxFaults
    PROVE  Keeps
BY IdleRow, WorkKeeps DEF Finish, Keeps

LEMMA AtWork ==
    ASSUME QInv, NEW w \in Token, work[w].pc # "idle"
    PROVE  /\ work[w] \in Work /\ work[w].delivery \in Delivery
           /\ work[w].gen \in Generation /\ work[w].run \in Run \cup {NoRun}
BY WorkFields DEF QInv, QueueTypeOK, WorkIsShaped, Shaped

-----------------------------------------------------------------------------
(* The steps of a consumer and its handler                                 *)

LEMMA ClaimKeeps == ASSUME QInv, NEW w \in Token, Claim(w) PROVE Keeps
<1>1. /\ work[w].pc = "claim" /\ UNCHANGED <<edge, envelope, sweep>>
      /\ faults' \in 0..MaxFaults /\ QueueTypeOK
  BY FaultsBound DEF Claim, At, QInv
<1>2. CASE /\ claimGitHubDeliveryProcessing(work[w].delivery, work[w].gen, w)
           /\ Goto(w, AfterClaim(w)) /\ UNCHANGED queue
  <2>1. AfterRecording
    BY <1>1, <1>2, AtWork DEF AfterRecording
  <2>2. AfterClaim(w) \in {"start", "exhaust"} /\ QueueShrinks
    BY <1>1, <1>2, QueueOfMessage DEF AfterClaim
  <2>3. PICK pc \in {"start", "exhaust"} : pc = AfterClaim(w)
    BY <2>2
  <2>4. pc \in Step /\ Goto(w, pc)
    BY <1>2, <2>3 DEF Step, Handler, Goto
  <2> QED BY <1>1, <2>1, <2>2, <2>4, GotoKeeps
<1>3. CASE UNCHANGED receiptVars /\ Finish(w) /\ (Retry(MessageOf(w)) \/ AckIfQueued(w))
  <2>1. QueueShrinks
    BY <1>1, <1>3, QueueOfMessage, QueueOfWork
  <2> QED BY <1>1, <1>3, <2>1, FinishKeeps
<1> QED BY <1>2, <1>3 DEF Claim

\* The handler answers, whatever the step does to the receipts.
LEMMA AnswerKeeps ==
    ASSUME QInv, [AfterRecording]_receiptVars, NEW w \in Token, NEW reply \in Reply,
           NEW pc \in {"complete", "release"}, work[w].pc \in Handler,
           pc = "complete" => reply = "ignored" \/ (reply # "none" /\ work[w].run \in Run),
           Answer(w, reply, pc), HandlerFrame
    PROVE  Keeps
<1>1. PICK row \in Work : Shaped(row) /\ row.pc # "delete" /\ work' = [work EXCEPT ![w] = row]
  BY AnsweredRow DEF QInv
<1>2. /\ UNCHANGED <<edge, envelope, sweep>> /\ QueueShrinks /\ faults' \in 0..MaxFaults
  BY QueueOfMessage, FaultsBound DEF HandlerFrame, QInv
<1>3. QInv'
  BY <1>1, <1>2, WorkKeeps
<1> QED BY <1>3 DEF Keeps

LEMMA IgnoreKeeps == ASSUME QInv, NEW w \in Token, Ignore(w) PROVE Keeps
<1>1. /\ work[w].pc \in Handler /\ Answer(w, "ignored", "complete")
      /\ UNCHANGED receiptVars /\ HandlerFrame /\ "ignored" \in Reply
  BY DEF Ignore, At, Handler, Reply
<1> QED BY <1>1, AnswerKeeps

LEMMA HandlerFailsKeeps == ASSUME QInv, NEW w \in Token, HandlerFails(w) PROVE Keeps
<1>1. /\ work[w].pc \in Handler /\ Answer(w, "none", "release")
      /\ UNCHANGED receiptVars /\ HandlerFrame /\ "none" \in Reply
  BY DEF HandlerFails, Reply
<1> QED BY <1>1, AnswerKeeps

LEMMA ReportKeeps == ASSUME QInv, NEW w \in Token, Report(w) PROVE Keeps
<1>1. /\ work[w].pc \in Handler /\ work[w].run \in Run /\ Answer(w, "completed", "complete")
      /\ UNCHANGED receiptVars /\ HandlerFrame /\ "completed" \in Reply
  BY DEF Report, At, Handler, Reply, QInv, WorkIsShaped, Shaped
<1> QED BY <1>1, AnswerKeeps

LEMMA ResolveKeeps == ASSUME QInv, NEW w \in Token, NEW r \in Run, Resolve(w, r) PROVE Keeps
<1>1. work[w].pc = "start" /\ work[w] \in Work /\ work[w].delivery \in Delivery
  BY AtWork DEF Resolve, At
<1>2. [AfterRecording]_receiptVars
  BY <1>1 DEF Resolve, AfterRecording, RunMoves
<1>3. PICK row : row = [work[w] EXCEPT !.pc = "bind", !.run = r, !.over = Over(r)]
  OBVIOUS
<1>4. work' = [work EXCEPT ![w] = row]
  BY <1>3 DEF Resolve
<1>5. /\ row \in Work /\ row.pc = "bind" /\ row.run = r
      /\ row.delivery = work[w].delivery
  <2>1. Over(r) \in BOOLEAN
    BY DEF Over
  <2> QED BY <1>1, <1>3, <2>1 DEF Work, Step, Handler
<1>6. Shaped(row)
  BY <1>1, <1>5 DEF Shaped
<1>7. /\ UNCHANGED <<edge, envelope, sweep>> /\ QueueShrinks /\ faults' \in 0..MaxFaults
  BY QueueOfMessage, FaultsBound DEF Resolve, HandlerFrame, QInv
<1>8. QInv'
  BY <1>2, <1>4, <1>5, <1>6, <1>7, WorkKeeps
<1> QED BY <1>2, <1>8 DEF Keeps

LEMMA BindKeeps == ASSUME QInv, NEW w \in Token, Bind(w) PROVE Keeps
<1>1. /\ work[w].pc = "bind" /\ work[w].delivery \in Delivery /\ work[w].run \in Run
      /\ work[w].pc \in Handler
  BY AtWork DEF Bind, At, QInv, WorkIsShaped, Shaped, Handler
<1>2. [AfterRecording]_receiptVars /\ HandlerFrame
  BY <1>1 DEF Bind, AfterRecording
<1>3. \/ Answer(w, "none", "release")
      \/ Answer(w, "coalesced", "complete")
      \/ Answer(w, "completed", "complete")
      \/ Goto(w, "execute")
  BY DEF Bind
<1>4. CASE Answer(w, "none", "release")
  BY <1>1, <1>2, <1>4, AnswerKeeps DEF Reply
<1>5. CASE Answer(w, "coalesced", "complete")
  BY <1>1, <1>2, <1>5, AnswerKeeps DEF Reply
<1>6. CASE Answer(w, "completed", "complete")
  BY <1>1, <1>2, <1>6, AnswerKeeps DEF Reply
<1>7. CASE Goto(w, "execute")
  <2>1. /\ UNCHANGED <<edge, envelope, sweep>> /\ QueueShrinks /\ faults' \in 0..MaxFaults
        /\ "execute" \in Step
    BY <1>2, QueueOfMessage, FaultsBound DEF HandlerFrame, QInv, Step, Handler
  <2> QED BY <1>1, <1>2, <1>7, <2>1, GotoKeeps
<1> QED BY <1>3, <1>4, <1>5, <1>6, <1>7

LEMMA ExecuteKeeps == ASSUME QInv, NEW w \in Token, Execute(w) PROVE Keeps
<1>1. work[w].run \in Run
  BY DEF Execute, At, QInv, WorkIsShaped, Shaped
<1>2. AfterRecording
  BY <1>1 DEF Execute, AfterRecording, RunMoves
<1>3. UNCHANGED workerVars /\ faults' \in 0..MaxFaults
  BY FaultsBound DEF Execute, HandlerFrame, workerVars, QInv
<1> QED BY <1>2, <1>3, BackgroundKeeps

\* The reply of a worker whose receipt is still delivering, which the mutation accepts,
\* is one that DeliveryReceipts lets a worker ask for: `coalesced' comes with a run.
LEMMA AcceptedIsRequested ==
    ASSUME QInv, NEW w \in Token, At(w, "complete"), NEW run,
           run = (IF work[w].reply = "ignored" THEN NoRun ELSE work[w].run),
           completeQueuedGitHubDelivery(work[w].delivery, work[w].gen, w, run, work[w].reply)
    PROVE  work[w].reply \in Requested /\ run \in Run \cup {NoRun}
<1>1. \/ work[w].reply = "ignored"
      \/ work[w].reply \in {"coalesced", "completed"} /\ work[w].run \in Run
  BY DEF At, QInv, WorkIsShaped, Shaped
<1>2. ~ Terminal(work[w].delivery)
  BY DEF completeQueuedGitHubDelivery, Delivering, Terminal
<1>3. CompletionFits(work[w].delivery, run, work[w].reply)
  BY <1>2 DEF completeQueuedGitHubDelivery, CompletionReply
<1>4. work[w].reply # "coalesced"
  BY <1>1, <1>3, ReceiptConstants DEF CompletionFits
<1> QED BY <1>1, <1>4 DEF Requested

LEMMA CompleteKeeps == ASSUME QInv, NEW w \in Token, Complete(w) PROVE Keeps
<1> DEFINE d == work[w].delivery
           run == IF work[w].reply = "ignored" THEN NoRun ELSE work[w].run
           accepted == CompletionReply(d, work[w].gen, w, run, work[w].reply)
<1>1. /\ work[w].pc = "complete" /\ d \in Delivery /\ work[w].gen \in Generation
      /\ UNCHANGED <<edge, queue, envelope, sweep>> /\ faults' \in 0..MaxFaults
      /\ QueueShrinks
  BY AtWork, FaultsBound, QueueOfMessage DEF Complete, At, QInv
<1>2. /\ \/ completeQueuedGitHubDelivery(d, work[w].gen, w, run, work[w].reply)
         \/ UNCHANGED receiptVars /\ (Terminal(d) \/ ~accepted)
      /\ Goto(w, IF accepted THEN "delete" ELSE "release")
  BY DEF Complete
<1>3. [AfterRecording]_receiptVars
  <2>1. CASE completeQueuedGitHubDelivery(d, work[w].gen, w, run, work[w].reply)
    <3>1. At(w, "complete")
      BY <1>1 DEF At
    <3>2. work[w].reply \in Requested /\ run \in Run \cup {NoRun}
      BY <2>1, <3>1, AcceptedIsRequested
    <3> HIDE DEF d, run
    <3> QED BY <1>1, <2>1, <3>2 DEF AfterRecording
  <2> QED BY <1>2, <2>1
<1>4. accepted => Terminal(d) \/ receipt'[d].status = "terminal"
  <2>1. CASE completeQueuedGitHubDelivery(d, work[w].gen, w, run, work[w].reply)
    <3>1. Settle(d, receipt[d].run, work[w].reply)
      BY <2>1 DEF completeQueuedGitHubDelivery
    <3>2. receipt \in [Delivery -> Receipt]
      BY DEF QInv, IInv, TypeOK
    <3> HIDE DEF d
    <3> QED BY <1>1, <3>1, <3>2 DEF Settle, Receipt
  <2> QED BY <1>2, <2>1
<1>5. PICK pc \in {"delete", "release"} : pc = (IF accepted THEN "delete" ELSE "release")
  OBVIOUS
<1>6. Goto(w, pc) /\ (pc = "delete" => accepted) /\ pc \in Step
  BY <1>2, <1>5 DEF Goto, Step
<1>7. pc = "delete" => Terminal(work[w].delivery) \/ Terminal(work[w].delivery)'
  <2>1. work'[w].delivery = d
    BY <1>1, <1>6, AtWork, GotoRow DEF Goto, QInv, QueueTypeOK
  <2> QED BY <1>4, <1>6, <2>1 DEF Terminal
<1> HIDE DEF d, run, accepted
<1> QED BY <1>1, <1>3, <1>6, <1>7, GotoKeeps

LEMMA ExhaustKeeps == ASSUME QInv, NEW w \in Token, Exhaust(w) PROVE Keeps
<1> DEFINE d == work[w].delivery
           held == Holds(d, work[w].gen, w)
<1>1. /\ work[w].pc = "exhaust" /\ d \in Delivery /\ work[w].gen \in Generation
      /\ UNCHANGED <<edge, queue, envelope, sweep>> /\ faults' \in 0..MaxFaults
      /\ QueueShrinks
  BY AtWork, FaultsBound, QueueOfMessage DEF Exhaust, At, QInv
<1>2. /\ \/ terminalizeQueuedGitHubDelivery(d, work[w].gen, w)
         \/ UNCHANGED receiptVars /\ (Terminal(d) \/ ~held)
      /\ Goto(w, IF held THEN "delete" ELSE "release")
  BY DEF Exhaust
<1>3. [AfterRecording]_receiptVars
  BY <1>1, <1>2 DEF AfterRecording
<1>4. held => Terminal(d) \/ receipt'[d].status = "terminal"
  <2>1. CASE terminalizeQueuedGitHubDelivery(d, work[w].gen, w)
    <3>1. \E r, outcome : Settle(d, r, outcome)
      BY <2>1 DEF terminalizeQueuedGitHubDelivery
    <3>2. receipt \in [Delivery -> Receipt]
      BY DEF QInv, IInv, TypeOK
    <3> HIDE DEF d
    <3> QED BY <1>1, <3>1, <3>2 DEF Settle, Receipt
  <2> QED BY <1>2, <2>1
<1>5. PICK pc \in {"delete", "release"} : pc = (IF held THEN "delete" ELSE "release")
  OBVIOUS
<1>6. Goto(w, pc) /\ (pc = "delete" => held) /\ pc \in Step
  BY <1>2, <1>5 DEF Goto, Step
<1>7. pc = "delete" => Terminal(work[w].delivery) \/ Terminal(work[w].delivery)'
  <2>1. work'[w].delivery = d
    BY <1>1, <1>6, AtWork, GotoRow DEF Goto, QInv, QueueTypeOK
  <2> QED BY <1>4, <1>6, <2>1 DEF Terminal
<1> HIDE DEF d, held
<1> QED BY <1>1, <1>3, <1>6, <1>7, GotoKeeps

\* Only the envelope of a settled delivery is deleted.
LEMMA DeleteKeeps == ASSUME QInv, NEW w \in Token, Delete(w) PROVE Keeps
<1>1. PICK d \in Delivery : d = work[w].delivery /\ Terminal(d)
  BY AtWork DEF Delete, At, QInv, DeletesSettled
<1>2. /\ envelope' = [envelope EXCEPT ![d] = "deleted"]
      /\ work' = [work EXCEPT ![w] = Idle]
      /\ UNCHANGED <<receiptVars, edge, sweep, faults>> /\ QueueShrinks
  BY <1>1, QueueOfWork DEF Delete, Finish, QInv
<1>3. /\ envelope'[d] = "deleted" /\ \A e \in Delivery \ {d} : envelope'[e] = envelope[e]
      /\ envelope' \in [Delivery -> {"none", "stored", "deleted", "lost"}]
  BY <1>2 DEF QInv, QueueTypeOK
<1>4. /\ work' \in [Token -> Work] /\ work'[w] = Idle
      /\ \A v \in Token \ {w} : work'[v] = work[v]
  BY <1>2, IdleRow DEF QInv, QueueTypeOK
<1>5. IInv'
  BY <1>2, ReceiptsStep DEF QInv
<1>6. QueueTypeOK'
  BY <1>2, <1>3, <1>4 DEF QInv, QueueTypeOK, QueueShrinks
<1>7. WorkIsShaped'
  BY <1>4, IdleRow DEF QInv, WorkIsShaped
<1>8. DeletesSettled'
  BY <1>2, <1>4, IdleRow DEF QInv, DeletesSettled, At, Terminal, receiptVars
<1>9. StoredFirst'
  BY <1>1, <1>2, <1>3 DEF QInv, StoredFirst, Recorded, Terminal, receiptVars
<1>10. EnvelopeKept'
  BY <1>1, <1>2, <1>3 DEF QInv, EnvelopeKept, Delivering, Terminal, receiptVars
<1>11. OnTheWayIsRecorded'
  BY <1>2 DEF QInv, OnTheWayIsRecorded, Recorded, receiptVars, QueueShrinks
<1> QED BY <1>2, <1>5, <1>6, <1>7, <1>8, <1>9, <1>10, <1>11 DEF QInv, Keeps

LEMMA ReleaseIsStep ==
    ASSUME QInv, NEW w \in Token, work[w].pc # "idle", ReleaseClaim(w)
    PROVE  [AfterRecording]_receiptVars
BY AtWork DEF ReleaseClaim, AfterRecording

LEMMA ReleaseKeeps == ASSUME QInv, NEW w \in Token, Release(w) PROVE Keeps
<1>1. work[w].pc # "idle" /\ Finish(w) /\ UNCHANGED <<edge, envelope, sweep, faults>>
  BY DEF Release, At
<1>2. QueueShrinks /\ faults' \in 0..MaxFaults
  BY <1>1, QueueOfWork, FaultsBound DEF Release, QInv
<1>3. [AfterRecording]_receiptVars
  BY <1>1, ReleaseIsStep DEF Release
<1> QED BY <1>1, <1>2, <1>3, FinishKeeps

\* An invocation that dies, or goes on detached.
LEMMA DetachKeeps ==
    ASSUME QInv, [AfterRecording]_receiptVars, NEW w \in Token, work[w].pc \in Handler,
           Detach(w), UNCHANGED <<edge, envelope, sweep>>, QueueShrinks,
           faults' \in 0..MaxFaults
    PROVE  Keeps
<1>1. PICK row \in Work : Shaped(row) /\ row.pc # "delete" /\ work' = [work EXCEPT ![w] = row]
  BY DetachedRow DEF QInv
<1>2. QInv'
  BY <1>1, WorkKeeps
<1> QED BY <1>2 DEF Keeps

LEMMA CrashKeeps == ASSUME QInv, NEW w \in Token, Crash(w) PROVE Keeps
<1>1. QueueShrinks /\ faults' \in 0..MaxFaults
  BY QueueOfWork, FaultsBound DEF Crash, QInv
<1>2. UNCHANGED <<receiptVars, edge, envelope, sweep>>
  BY DEF Crash
<1>3. CASE Finish(w)
  BY <1>1, <1>2, <1>3, FinishKeeps
<1>4. CASE work[w].pc \in Handler /\ Detach(w)
  BY <1>1, <1>2, <1>4, DetachKeeps
<1> QED BY <1>3, <1>4 DEF Crash

LEMMA CallFailsKeeps == ASSUME QInv, NEW w \in Token, CallFails(w) PROVE Keeps
<1>1. /\ work[w].pc # "idle" /\ Goto(w, "release") /\ "release" \in Step
      /\ UNCHANGED <<receiptVars, edge, queue, envelope, sweep>>
  BY DEF CallFails, Step
<1>2. QueueShrinks /\ faults' \in 0..MaxFaults
  BY <1>1, QueueOfMessage, FaultsBound DEF CallFails, QInv
<1> QED BY <1>1, <1>2, GotoKeeps

LEMMA HandlerTimesOutKeeps == ASSUME QInv, NEW w \in Token, HandlerTimesOut(w) PROVE Keeps
<1>1. /\ work[w].pc \in Handler /\ work[w].pc # "idle" /\ Detach(w)
      /\ UNCHANGED <<edge, envelope, sweep>>
  BY DEF HandlerTimesOut, Handler
<1>2. QueueShrinks /\ faults' \in 0..MaxFaults
  BY QueueOfWork, FaultsBound DEF HandlerTimesOut, QInv
<1>3. [AfterRecording]_receiptVars
  BY <1>1, ReleaseIsStep DEF HandlerTimesOut
<1> QED BY <1>1, <1>2, <1>3, DetachKeeps

LEMMA TakeKeeps ==
    ASSUME QInv, NEW w \in Token, NEW m \in queue, Take(w, m) \/ TakeAgain(w, m)
    PROVE  Keeps
<1>1. Takes(w, m) /\ faults' \in 0..MaxFaults
  BY FaultsBound DEF Take, TakeAgain, QInv
<1> QED BY <1>1, TakesKeeps

-----------------------------------------------------------------------------

LEMMA QueueInitInvariant == QueueInit => QInv
<1> SUFFICES ASSUME QueueInit PROVE QInv
  OBVIOUS
<1>1. IInv
  BY InitInv DEF QueueInit
<1>2. QueueTypeOK
  BY IdleRow, ReceiptConstants, QueueConstants DEF QueueInit, QueueTypeOK, Generation
<1>3. WorkIsShaped /\ DeletesSettled
  BY IdleRow DEF QueueInit, WorkIsShaped, DeletesSettled, At
<1>4. StoredFirst /\ OnTheWayIsRecorded
  BY DEF QueueInit, StoredFirst, OnTheWayIsRecorded
<1>5. EnvelopeKept
  BY DEF QueueInit, Init, EmptyReceipt, EnvelopeKept, Delivering
<1> QED BY <1>1, <1>2, <1>3, <1>4, <1>5 DEF QInv

LEMMA QueueStutter ==
    ASSUME QInv, UNCHANGED vars
    PROVE  Keeps
<1>1. UNCHANGED <<receiptVars, edge, queue, envelope, sweep, work, faults>>
  BY DEF vars, workerVars
<1>2. QueueTypeOK'
  BY <1>1 DEF QInv, QueueTypeOK
<1>3. QInv'
  BY <1>1, <1>2, OutsideKeeps DEF QInv, OnTheWayIsRecorded, Recorded, receiptVars
<1> QED BY <1>1, <1>3 DEF Keeps

\* Every step keeps the invariant, and is a step of the receipts or none.
LEMMA QueueStep ==
    ASSUME QInv, [QueueNext]_vars
    PROVE  QInv' /\ [Next]_receiptVars
<1>1. CASE Keeps
  BY <1>1, AfterRecordingIsNext DEF Keeps
<1>2. CASE \E d \in Delivery : EdgeStep(d)
  BY <1>1, <1>2, PutKeeps, RecordKeeps, SendKeeps DEF EdgeStep
<1>3. CASE \E d \in Delivery : LeasePasses(d) \/ HourPasses(d)
  BY <1>1, <1>3, LeasePassesKeeps, DueKeeps
<1>4. CASE \E w \in Token : HandlerStep(w)
  BY <1>1, <1>4, IgnoreKeeps, ResolveKeeps, BindKeeps, ExecuteKeeps, ReportKeeps,
     HandlerFailsKeeps DEF HandlerStep
<1>5. CASE \E w \in Token : ConsumerStep(w)
  BY <1>1, <1>5, ClaimKeeps, CompleteKeeps, ExhaustKeeps, DeleteKeeps, ReleaseKeeps
     DEF ConsumerStep
<1>6. CASE \E w \in Token, m \in queue : Take(w, m)
  BY <1>1, <1>6, TakeKeeps
<1>7. CASE \E S \in SUBSET Delivery : Sweep(S)
  BY <1>1, <1>7, SweepKeeps
<1>8. CASE \E x \in sweep : Replay(x) \/ \E w \in Token : Recover(w, x)
  BY <1>1, <1>8, ReplayKeeps, RecoverKeeps
<1>9. CASE \E r \in Run : ScheduledExpiry(r)
  BY <1>1, <1>9, ScheduledExpiryKeeps
<1>10. CASE Faults
  BY <1>1, <1>10, CrashKeeps, CallFailsKeeps, HandlerTimesOutKeeps, TakeKeeps, LoseMessageKeeps,
     EdgeFailsKeeps, LoseEnvelopeKeeps, DueKeeps, SweepFailsKeeps DEF Faults
<1>11. CASE UNCHANGED vars
  BY <1>1, <1>11, QueueStutter
<1> QED BY <1>2, <1>3, <1>4, <1>5, <1>6, <1>7, <1>8, <1>9, <1>10, <1>11 DEF QueueNext

-----------------------------------------------------------------------------
(* Dead letters                                                            *)

\* Retrying a message, of either lane, leaves every dead letter where it is.
LEMMA DeadLetterRetried ==
    ASSUME NEW m \in queue, m.lane = "dead", NEW x, Retry(x)
    PROVE  m \in queue'
<1>1. x.lane = "dead" => Retried(x) = x
  BY DEF Retried
<1> QED BY <1>1 DEF Retry

\* A step may take a dead letter of the current delivery token off the queue only when
\* its receipt is terminal, or as a fault.
KeepsDeadLetter(m) ==
    m.lane = "dead" /\ m.gen = receipt[m.delivery].generation /\ m \notin queue'
        => Terminal(m.delivery) \/ faults' > faults

LEMMA FaultKeeps ==
    ASSUME QueueTypeOK, \E kind : Fault(kind), NEW m
    PROVE  KeepsDeadLetter(m)
BY QueueConstants DEF QueueTypeOK, Fault, KeepsDeadLetter

LEMMA QueuedKeeps ==
    ASSUME NEW m \in queue, queue \subseteq queue'
    PROVE  KeepsDeadLetter(m)
BY DEF KeepsDeadLetter

LEMMA TakeDeadLetter ==
    ASSUME QInv, NEW w \in Token, NEW x \in queue, Takes(w, x), NEW m \in queue
    PROVE  KeepsDeadLetter(m)
<1>1. CASE queue' = queue
  BY <1>1, QueuedKeeps
<1>2. CASE /\ ~ (receipt[x.delivery].status # "absent" /\ receipt[x.delivery].generation = x.gen)
           /\ Ack(x)
  <2>1. receipt[x.delivery].generation # x.gen
    BY <1>2 DEF QInv, OnTheWayIsRecorded, Recorded
  <2> QED BY <1>2, <2>1 DEF Ack, KeepsDeadLetter
<1> QED BY <1>1, <1>2 DEF Takes

\* A busy claim is retried; one that is stale is not of the current token.
LEMMA ClaimDeadLetter ==
    ASSUME QInv, NEW w \in Token, Claim(w), NEW m \in queue
    PROVE  KeepsDeadLetter(m)
<1> DEFINE d == work[w].delivery
           answer == ClaimReply(d, work[w].gen)
<1>1. CASE queue' = queue
  BY <1>1, QueuedKeeps
<1>2. CASE Retry(MessageOf(w))
  BY <1>2, DeadLetterRetried DEF KeepsDeadLetter
<1>3. CASE /\ answer # "claimed" /\ ~ (answer = "busy" /\ work[w].lane = "dead")
           /\ AckIfQueued(w)
  <2> SUFFICES ASSUME m.lane = "dead", m.gen = receipt[m.delivery].generation, m \notin queue'
               PROVE  Terminal(m.delivery)
    BY DEF KeepsDeadLetter
  <2>1. m = MessageOf(w) /\ Ack(MessageOf(w))
    BY <1>3 DEF AckIfQueued, Ack
  <2>2. m.delivery = d /\ m.gen = work[w].gen /\ work[w].lane = "dead"
    BY <2>1 DEF MessageOf
  <2>3. answer # "claimed" /\ answer # "busy"
    BY <1>3, <2>2
  <2>4. receipt[d].status # "absent" /\ receipt[d].generation = work[w].gen
    BY <2>2 DEF QInv, OnTheWayIsRecorded, Recorded
  <2> QED BY <2>2, <2>3, <2>4 DEF ClaimReply
<1> QED BY <1>1, <1>2, <1>3 DEF Claim

LEMMA DeleteDeadLetter ==
    ASSUME QInv, NEW w \in Token, Delete(w), NEW m \in queue
    PROVE  KeepsDeadLetter(m)
<1>1. Terminal(work[w].delivery)
  BY DEF Delete, QInv, DeletesSettled
<1>2. m \in queue' \/ m = MessageOf(w)
  BY DEF Delete, AckIfQueued, Ack
<1>3. MessageOf(w).delivery = work[w].delivery
  BY DEF MessageOf
<1> QED BY <1>1, <1>2, <1>3 DEF KeepsDeadLetter

LEMMA ReleaseDeadLetter ==
    ASSUME QInv, NEW w \in Token, Release(w), NEW m \in queue
    PROVE  KeepsDeadLetter(m)
<1>1. queue' = queue \/ Retry(MessageOf(w))
  BY DEF Release, RetryIfQueued
<1> QED BY <1>1, DeadLetterRetried DEF KeepsDeadLetter

LEMMA QueueKeepsDeadLetters ==
    ASSUME QInv, [QueueNext]_vars, NEW m \in queue
    PROVE  KeepsDeadLetter(m)
<1>1. CASE queue \subseteq queue'
  BY <1>1, QueuedKeeps
<1>2. CASE \E kind : Fault(kind)
  BY <1>2, FaultKeeps DEF QInv
<1>3. CASE \E d \in Delivery : EdgeStep(d) \/ LeasePasses(d) \/ HourPasses(d)
  BY <1>1, <1>3 DEF EdgeStep, Put, Record, Send, LeasePasses, HourPasses, workerVars
<1>4. CASE \E w \in Token : HandlerStep(w)
  BY <1>1, <1>4 DEF HandlerStep, Ignore, Resolve, Bind, Execute, Report, HandlerFails, HandlerFrame
<1>5. CASE \E w \in Token : ConsumerStep(w)
  <2>1. PICK w \in Token : ConsumerStep(w)
    BY <1>5
  <2>2. CASE Claim(w)
    BY <2>2, ClaimDeadLetter
  <2>3. CASE Complete(w) \/ Exhaust(w)
    BY <1>1, <2>3 DEF Complete, Exhaust
  <2>4. CASE Delete(w)
    BY <2>4, DeleteDeadLetter
  <2>5. CASE Release(w)
    BY <2>5, ReleaseDeadLetter
  <2> QED BY <2>1, <2>2, <2>3, <2>4, <2>5 DEF ConsumerStep
<1>6. CASE \E w \in Token, x \in queue : Take(w, x)
  BY <1>6, TakeDeadLetter DEF Take
<1>7. CASE \E S \in SUBSET Delivery : Sweep(S)
  BY <1>1, <1>7 DEF Sweep
<1>8. CASE \E x \in sweep : Replay(x) \/ \E w \in Token : Recover(w, x)
  BY <1>1, <1>8 DEF Replay, Recover
<1>9. CASE \E r \in Run : ScheduledExpiry(r)
  BY <1>1, <1>9 DEF ScheduledExpiry, workerVars
<1>10. CASE Faults
  BY <1>2, <1>10 DEF Faults, Crash, CallFails, HandlerTimesOut, TakeAgain, LoseMessage, EdgeFails,
                     LoseEnvelope, SlowDelivery, SweepFails
<1>11. CASE UNCHANGED vars
  BY <1>1, <1>11 DEF vars, workerVars
<1> QED BY <1>3, <1>4, <1>5, <1>6, <1>7, <1>8, <1>9, <1>10, <1>11 DEF QueueNext

-----------------------------------------------------------------------------
(* Theorems                                                                *)

\* The inductive invariant holds in every reachable state.
THEOREM QueueInvariance == QueueSpec => []QInv
BY QueueInitInvariant, QueueStep, PTL DEF QueueSpec

\* Every variable of the workers has its type.
THEOREM QueueTypeCorrect == QueueSpec => []QueueTypeOK
<1>1. QInv => QueueTypeOK
  BY DEF QInv
<1> QED BY <1>1, QueueInvariance, PTL

\* The workers call the receipts the way DeliveryReceipts allows: a consumer never
\* asks for what no caller may ask for, whatever crashes, timeouts and duplicates.
THEOREM QueueImplementsReceipts == QueueSpec => ImplementsReceipts
<1>1. QueueInit => Init
  BY DEF QueueInit
<1> QED BY <1>1, QueueInvariance, QueueStep, PTL DEF QueueSpec, ImplementsReceipts, Spec

\* Hence the workers implement the ledger, through the receipts.
THEOREM QueueImplementsLedger == QueueSpec => ImplementsLedger
BY QueueImplementsReceipts, ReceiptsImplementLedger DEF ImplementsReceipts

\* While the run of a coalesced delivery is unfinished another delivery still drives
\* it, or was dismissed as ignored: under the real workers and all their faults.
THEOREM QueueJoinedDriven == QueueSpec => []JoinedHasDriver
BY QueueImplementsReceipts, JoinedDriven DEF ImplementsReceipts

\* The cron can only replay an envelope that is still there, and a delivering receipt
\* has its envelope unless R2 lost it.
THEOREM EnvelopeStays == QueueSpec => []EnvelopeKept
<1>1. QInv => EnvelopeKept
  BY DEF QInv
<1> QED BY <1>1, QueueInvariance, PTL

\* A dead letter of the current delivery token is acknowledged only once its receipt is
\* terminal, or is lost by the queue.
THEOREM DeadLetterSettled == QueueSpec => DeadLetterSettledBeforeAck
<1>1. QInv /\ [QueueNext]_vars => \A m \in queue : KeepsDeadLetter(m)
  BY QueueKeepsDeadLetters
<1>2. (\A m \in queue : KeepsDeadLetter(m)) =>
         [\A m \in queue :
            m.lane = "dead" /\ m.gen = receipt[m.delivery].generation /\ m \notin queue'
                => Terminal(m.delivery) \/ faults' > faults]_vars
  BY DEF KeepsDeadLetter
<1> QED BY <1>1, <1>2, QueueInvariance, PTL DEF QueueSpec, DeadLetterSettledBeforeAck
=============================================================================
