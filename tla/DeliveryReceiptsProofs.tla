----------------------- MODULE DeliveryReceiptsProofs -----------------------
(***************************************************************************)
(* Proofs about DeliveryReceipts, for every set of deliveries, runs and    *)
(* tokens.                                                                 *)
(***************************************************************************)
EXTENDS DeliveryReceipts, TLAPS

\* Every step is one of these: the case split of the proofs below.
LEMMA StepCases ==
    ASSUME Next
    PROVE  \/ \E d \in Delivery : recordQueuedGitHubDelivery(d)
           \/ \E d \in Delivery, g \in Generation, t \in Token :
                claimGitHubDeliveryProcessing(d, g, t)
           \/ \E d \in Delivery, g \in Generation, t \in Token :
                releaseGitHubDeliveryProcessing(d, g, t)
           \/ \E d \in Delivery, g \in Generation, t \in Token :
                terminalizeQueuedGitHubDelivery(d, g, t)
           \/ \E d \in Delivery, g \in Generation, t \in Token, run \in Run \cup {NoRun},
                 outcome \in Requested : completeQueuedGitHubDelivery(d, g, t, run, outcome)
           \/ \E d \in Delivery, r \in Run : bindQueuedGitHubDeliveryToWorkflow(d, r)
           \/ \E d \in Delivery : LeaseExpires(d) \/ BecomesDue(d)
           \/ \E S \in SUBSET Delivery : claimStaleGitHubDeliveries(S)
           \/ \E r \in Run, d \in Delivery : createFromExternalIntake(d, r)
           \/ \E r \in Run : claimIncomingDispatch(r) \/ recordPolicyDecision(r)
                               \/ markWorkflowExecutionFailed(r)
  BY DEF Next, Mutation, RunMoves

LEMMA EmptyReceiptType == \A s \in Status : EmptyReceipt(s) \in Receipt
  BY ReceiptConstants DEF EmptyReceipt, Receipt, Status, Outcome, Generation

\* Settling a receipt changes its status, run and outcome and nothing else.
LEMMA SettleEffect ==
    ASSUME NEW d \in Delivery, NEW r \in Run \cup {NoRun}, NEW outcome \in Outcome,
           receipt \in [Delivery -> Receipt], Settle(d, r, outcome)
    PROVE  /\ receipt' \in [Delivery -> Receipt]
           /\ receipt'[d].status = "terminal"
           /\ receipt'[d].run = r
           /\ receipt'[d].outcome = outcome
           /\ \A e \in Delivery \ {d} : receipt'[e] = receipt[e]
  BY DEF Settle, Receipt, Status

LEMMA TypeStep == TypeOK /\ [Next]_receiptVars => TypeOK'
<1> SUFFICES ASSUME TypeOK, [Next]_receiptVars PROVE TypeOK'
  OBVIOUS
<1>1. CASE UNCHANGED receiptVars
  BY <1>1 DEF TypeOK, receiptVars
<1>2. ASSUME NEW d \in Delivery, recordQueuedGitHubDelivery(d) PROVE TypeOK'
  BY <1>2, EmptyReceiptType DEF TypeOK, recordQueuedGitHubDelivery, Status
<1>3. ASSUME NEW d \in Delivery, NEW g \in Generation, NEW t \in Token,
             claimGitHubDeliveryProcessing(d, g, t) PROVE TypeOK'
  BY <1>3 DEF TypeOK, claimGitHubDeliveryProcessing, Receipt
<1>4. ASSUME NEW d \in Delivery, NEW g \in Generation, NEW t \in Token,
             releaseGitHubDeliveryProcessing(d, g, t) PROVE TypeOK'
  BY <1>4 DEF TypeOK, releaseGitHubDeliveryProcessing, Receipt
<1>5. ASSUME NEW d \in Delivery, NEW g \in Generation, NEW t \in Token,
             terminalizeQueuedGitHubDelivery(d, g, t) PROVE TypeOK'
  BY <1>5, SettleEffect DEF TypeOK, terminalizeQueuedGitHubDelivery, Rivals, OutcomeOf, RunStatus, Outcome
<1>6. ASSUME NEW d \in Delivery, NEW g \in Generation, NEW t \in Token, NEW run \in Run \cup {NoRun},
             NEW outcome \in Requested,
             completeQueuedGitHubDelivery(d, g, t, run, outcome) PROVE TypeOK'
  <2>1. receipt[d].run \in Run \cup {NoRun} /\ outcome \in Outcome
    BY DEF TypeOK, Receipt, Outcome, Requested
  <2> QED BY <1>6, <2>1, SettleEffect DEF TypeOK, completeQueuedGitHubDelivery
<1>7. ASSUME NEW d \in Delivery, NEW r \in Run,
             bindQueuedGitHubDeliveryToWorkflow(d, r) PROVE TypeOK'
  <2>1. CASE Settle(d, r, "coalesced")
    BY <1>7, <2>1, SettleEffect DEF TypeOK, bindQueuedGitHubDeliveryToWorkflow, Outcome
  <2>2. CASE receipt' = [receipt EXCEPT ![d] = [@ EXCEPT !.run = r]]
    BY <1>7, <2>2 DEF TypeOK, bindQueuedGitHubDeliveryToWorkflow, Receipt
  <2> QED BY <1>7, <2>1, <2>2 DEF bindQueuedGitHubDeliveryToWorkflow
<1>8. ASSUME NEW d \in Delivery, LeaseExpires(d) \/ BecomesDue(d) PROVE TypeOK'
  <2>1. CASE LeaseExpires(d)
    BY <2>1 DEF TypeOK, LeaseExpires, Receipt
  <2>2. CASE BecomesDue(d)
    BY <2>2 DEF TypeOK, BecomesDue, Receipt
  <2> QED BY <1>8, <2>1, <2>2
<1>9. ASSUME NEW S \in SUBSET Delivery, claimStaleGitHubDeliveries(S) PROVE TypeOK'
  <2>1. \A d \in S : receipt[d] \in Receipt /\ receipt[d].generation + 1 \in Generation
    <3>1. ASSUME NEW d \in S PROVE receipt[d] \in Receipt /\ receipt[d].generation \in 0..MaxGeneration
                                   /\ receipt[d].generation < MaxGeneration
      BY <1>9, <3>1 DEF TypeOK, Receipt, Generation, claimStaleGitHubDeliveries
    <3> QED BY <3>1, ReceiptConstants DEF Generation
  <2>2. \A d \in S :
          [receipt[d] EXCEPT !.generation = @ + 1, !.processing = NoToken,
                             !.leased = FALSE, !.due = FALSE] \in Receipt
    BY <2>1 DEF Receipt
  <2> QED BY <1>9, <2>1, <2>2 DEF TypeOK, claimStaleGitHubDeliveries
<1>10. ASSUME NEW r \in Run, NEW d \in Delivery, createFromExternalIntake(d, r) PROVE TypeOK'
  BY <1>10 DEF TypeOK, createFromExternalIntake, RunStatus
<1>11. ASSUME NEW r \in Run, claimIncomingDispatch(r) \/ recordPolicyDecision(r)
                               \/ markWorkflowExecutionFailed(r) PROVE TypeOK'
  BY <1>11 DEF TypeOK, claimIncomingDispatch, recordPolicyDecision,
               markWorkflowExecutionFailed, MoveRun, RunStatus
<1> QED
  BY <1>1, <1>2, <1>3, <1>4, <1>5, <1>6, <1>7, <1>8, <1>9, <1>10, <1>11, StepCases

-----------------------------------------------------------------------------
(* The inductive invariant.  Apart from recording, binding and creating a  *)
(* run, a step either leaves the status, run and outcome of every receipt  *)
(* alone (it is about tokens, clocks or runs) or settles one receipt; one  *)
(* lemma for each.                                                         *)

\* Runs only move towards their end.
RunsAdvance ==
    \A q \in Run : /\ Over(q) => Over(q)'
                   /\ runStatus[q] = "absent" <=> runStatus'[q] = "absent"

LEMMA FramePreserves ==
    ASSUME IInv, TypeOK', UNCHANGED origin, RunsAdvance,
           \A e \in Delivery : /\ receipt'[e].status = receipt[e].status
                               /\ receipt'[e].run = receipt[e].run
                               /\ receipt'[e].outcome = receipt[e].outcome
    PROVE  IInv'
<1>1. OriginExists'
  BY DEF IInv, OriginExists, RunsAdvance
<1>2. OutcomeIffTerminal'
  BY DEF IInv, OutcomeIffTerminal, Terminal
<1>3. BoundToOwnCandidate'
  BY DEF IInv, BoundToOwnCandidate, SameCandidate, RunsAdvance
<1>4. \A r \in Run : Active(r)' = Active(r)
  BY DEF Active, Delivering
<1>5. OneActiveReceipt'
  BY <1>4 DEF IInv, OneActiveReceipt
<1>6. SettledRunIsOver'
  BY DEF IInv, SettledRunIsOver, RunsAdvance, TypeOK, Receipt
<1>7. JoinedHasDriver'
  BY <1>4 DEF IInv, JoinedHasDriver, RunsAdvance
<1> QED BY <1>1, <1>2, <1>3, <1>5, <1>6, <1>7 DEF IInv

LEMMA SettlePreserves ==
    ASSUME IInv, TypeOK', UNCHANGED origin, RunsAdvance,
           NEW d \in Delivery, NEW r \in Run \cup {NoRun},
           NEW outcome \in {"completed", "ignored", "failed", "coalesced"},
           Delivering(d), Settle(d, r, outcome),
           receipt[d].run \in {NoRun, r},
           r # NoRun => SameCandidate(d, r),
           outcome \in {"completed", "failed"} /\ r # NoRun => Over(r)',
           outcome = "completed" => r # NoRun,
           outcome = "coalesced" => r \in Run /\ receipt[d].run = NoRun /\ Active(r) \ {d} # {}
    PROVE  IInv'
<1>1. /\ receipt'[d].status = "terminal"
      /\ receipt'[d].run = r
      /\ receipt'[d].outcome = outcome
      /\ \A e \in Delivery \ {d} : receipt'[e] = receipt[e]
  BY SettleEffect DEF IInv, TypeOK, Outcome
<1>2. OriginExists'
  BY DEF IInv, OriginExists, RunsAdvance
<1>3. OutcomeIffTerminal'
  BY <1>1 DEF IInv, OutcomeIffTerminal, Terminal
<1>4. BoundToOwnCandidate'
  BY <1>1 DEF IInv, BoundToOwnCandidate, SameCandidate, RunsAdvance
<1>5. \A q \in Run : Active(q)' = Active(q) \ {d}
  BY <1>1 DEF Active, Delivering
<1>6. OneActiveReceipt'
  BY <1>5 DEF IInv, OneActiveReceipt
<1>7. SettledRunIsOver'
  <2> SUFFICES ASSUME NEW e \in Delivery, receipt'[e].outcome \in {"completed", "failed"}
               PROVE  /\ receipt'[e].run # NoRun => Over(receipt[e].run)' 
                      /\ receipt'[e].outcome = "completed" => receipt'[e].run # NoRun
    BY DEF SettledRunIsOver, Over
  <2>1. CASE e = d
    BY <1>1, <2>1 DEF Over
  <2>2. CASE e # d
    BY <1>1, <2>2 DEF IInv, SettledRunIsOver, RunsAdvance, TypeOK, Receipt, Over
  <2> QED BY <2>1, <2>2
<1>8. JoinedHasDriver'
  <2> SUFFICES ASSUME NEW f \in Delivery, NEW q \in Run,
                      receipt'[f].outcome = "coalesced", receipt'[f].run = q
               PROVE  \/ Over(q)'
                      \/ Active(q)' # {}
                      \/ \E e \in Delivery : receipt'[e].run = q /\ receipt'[e].outcome = "ignored"
    BY DEF JoinedHasDriver
  <2>1. CASE f = d
    BY <1>1, <1>5, <2>1
  <2>2. CASE f # d
    <3>1. \/ Over(q)
          \/ Active(q) # {}
          \/ \E e \in Delivery : receipt[e].run = q /\ receipt[e].outcome = "ignored"
      BY <1>1, <2>2 DEF IInv, JoinedHasDriver
    <3>2. CASE Over(q)
      BY <3>2 DEF RunsAdvance
    <3>3. CASE Active(q) # {} /\ d \notin Active(q)
      BY <3>3, <1>5
    <3>4. CASE d \in Active(q)
      \* the last driver of q settles: q is over, or the driver was dismissed
      <4>1. receipt[d].run = q /\ q = r
        BY <3>4, ReceiptConstants DEF Active
      <4> QED BY <4>1, <1>1, ReceiptConstants
    <3>5. CASE \E e \in Delivery : receipt[e].run = q /\ receipt[e].outcome = "ignored"
      <4>1. PICK e \in Delivery : receipt[e].run = q /\ receipt[e].outcome = "ignored"
        BY <3>5
      <4>2. e # d
        BY <4>1 DEF IInv, OutcomeIffTerminal, Terminal, Delivering
      <4> QED BY <4>1, <4>2, <1>1
    <3> QED BY <3>1, <3>2, <3>3, <3>4, <3>5
  <2> QED BY <2>1, <2>2
<1> QED BY <1>2, <1>3, <1>4, <1>6, <1>7, <1>8 DEF IInv

LEMMA InitInv == Init => IInv
  BY ReceiptConstants
  DEF Init, IInv, TypeOK, Receipt, Status, Outcome, RunStatus, Generation, EmptyReceipt, OriginExists,
      OutcomeIffTerminal, Terminal, BoundToOwnCandidate, OneActiveReceipt, Active, Delivering,
      SettledRunIsOver, JoinedHasDriver

LEMMA StepInv == IInv /\ [Next]_receiptVars => IInv'
<1> SUFFICES ASSUME IInv, [Next]_receiptVars PROVE IInv'
  OBVIOUS
<1>t. TypeOK /\ TypeOK'
  BY TypeStep DEF IInv
<1>1. CASE UNCHANGED receiptVars
  BY <1>1, <1>t, FramePreserves DEF receiptVars, RunsAdvance, Over
<1>2. ASSUME NEW d \in Delivery, recordQueuedGitHubDelivery(d) PROVE IInv'
  <2>1. /\ receipt[d].run = NoRun /\ receipt[d].outcome = "none"
        /\ receipt'[d] = EmptyReceipt("delivering")
        /\ \A e \in Delivery \ {d} : receipt'[e] = receipt[e]
    BY <1>2, <1>t DEF IInv, OutcomeIffTerminal, Terminal, recordQueuedGitHubDelivery, TypeOK, Receipt
  <2>2. /\ receipt'[d].run = NoRun /\ receipt'[d].outcome = "none"
        /\ receipt'[d].status = "delivering"
    BY <2>1 DEF EmptyReceipt
  <2>3. UNCHANGED <<origin, runStatus>>
    BY <1>2 DEF recordQueuedGitHubDelivery
  <2>4. \A r \in Run : Active(r)' = Active(r)
    BY <2>1, <2>2, ReceiptConstants, <1>2 DEF Active, Delivering, recordQueuedGitHubDelivery
  <2>5. OriginExists'
    BY <2>3 DEF IInv, OriginExists
  <2>6. OutcomeIffTerminal'
    BY <2>1, <2>2 DEF IInv, OutcomeIffTerminal, Terminal
  <2>7. BoundToOwnCandidate'
    BY <2>1, <2>2, <2>3, ReceiptConstants DEF IInv, BoundToOwnCandidate, SameCandidate
  <2>8. OneActiveReceipt'
    BY <2>4 DEF IInv, OneActiveReceipt
  <2>9. SettledRunIsOver'
    BY <2>1, <2>2, <2>3 DEF IInv, SettledRunIsOver, Over
  <2>10. JoinedHasDriver'
    BY <2>1, <2>2, <2>3, <2>4, ReceiptConstants DEF IInv, JoinedHasDriver, Over
  <2> QED BY <1>t, <2>5, <2>6, <2>7, <2>8, <2>9, <2>10 DEF IInv
<1>3. ASSUME NEW d \in Delivery, NEW g \in Generation, NEW t \in Token,
             claimGitHubDeliveryProcessing(d, g, t) PROVE IInv'
  BY <1>3, <1>t, FramePreserves
  DEF claimGitHubDeliveryProcessing, TypeOK, Receipt, RunsAdvance, Over
<1>4. ASSUME NEW d \in Delivery, NEW g \in Generation, NEW t \in Token,
             releaseGitHubDeliveryProcessing(d, g, t) PROVE IInv'
  BY <1>4, <1>t, FramePreserves
  DEF releaseGitHubDeliveryProcessing, TypeOK, Receipt, RunsAdvance, Over
<1>5. ASSUME NEW d \in Delivery, NEW g \in Generation, NEW t \in Token,
             terminalizeQueuedGitHubDelivery(d, g, t) PROVE IInv'
  <2>1. Delivering(d) /\ UNCHANGED origin
    BY <1>5 DEF terminalizeQueuedGitHubDelivery, Rivals
  <2>2. CASE (\A r \in Run : ~ResolvesTo(d, r)) /\ Settle(d, NoRun, "failed") /\ UNCHANGED runStatus
    <3>1. receipt[d].run = NoRun
      BY <2>2, <1>t DEF ResolvesTo, TypeOK, Receipt
    <3> QED BY <2>1, <2>2, <3>1, <1>t, SettlePreserves DEF RunsAdvance, Over
  <2>3. ASSUME NEW r \in Run, ResolvesTo(d, r)
        PROVE  /\ SameCandidate(d, r)
               /\ receipt[d].run \in {NoRun, r}
               /\ Active(r) \ {d} # {} => receipt[d].run = NoRun
    <3>1. CASE receipt[d].run = NoRun
      <4>1. origin[r] = d /\ runStatus[r] # "absent"
        BY <3>1, <2>3, ReceiptConstants DEF ResolvesTo, IInv, OriginExists
      <4> QED BY <3>1, <4>1 DEF SameCandidate
    <3>2. CASE receipt[d].run # NoRun
      <4>1. receipt[d].run = r /\ d \in Active(r)
        BY <3>2, <2>3, <2>1 DEF ResolvesTo, Active
      <4> QED BY <4>1 DEF IInv, BoundToOwnCandidate, OneActiveReceipt
    <3> QED BY <3>1, <3>2
  <2>4. ASSUME NEW r \in Run, ResolvesTo(d, r), Active(r) \ {d} # {},
               Settle(d, r, "coalesced"), UNCHANGED runStatus
        PROVE  IInv'
    BY <2>1, <2>3, <2>4, <1>t, SettlePreserves DEF RunsAdvance, Over
  <2>5. ASSUME NEW r \in Run, ResolvesTo(d, r), Over(r),
               Settle(d, r, OutcomeOf(runStatus[r])),
               UNCHANGED runStatus
        PROVE  IInv'
    <3>1. r # NoRun
      BY ReceiptConstants
    <3>2. CASE Settle(d, r, "completed")
      BY <2>1, <2>3, <2>5, <3>1, <3>2, <1>t, SettlePreserves DEF RunsAdvance, Over
    <3>3. CASE Settle(d, r, "failed")
      BY <2>1, <2>3, <2>5, <3>1, <3>3, <1>t, SettlePreserves DEF RunsAdvance, Over
    <3> QED BY <2>5, <3>2, <3>3 DEF OutcomeOf
  <2>6. ASSUME NEW r \in Run, ResolvesTo(d, r), runStatus[r] \in {"queued", "running"},
               Settle(d, r, "failed"), runStatus' = [runStatus EXCEPT ![r] = "failed"]
        PROVE  IInv'
    <3>1. RunsAdvance /\ Over(r)'
      BY <2>6, <1>t DEF RunsAdvance, Over, TypeOK, Finished
    <3> QED BY <2>1, <2>3, <2>6, <3>1, <1>t, SettlePreserves
  <2> QED BY <1>5, <2>2, <2>4, <2>5, <2>6 DEF terminalizeQueuedGitHubDelivery, Rivals
<1>6. ASSUME NEW d \in Delivery, NEW g \in Generation, NEW t \in Token, NEW run \in Run \cup {NoRun},
             NEW outcome \in Requested,
             completeQueuedGitHubDelivery(d, g, t, run, outcome) PROVE IInv'
  <2> DEFINE r == receipt[d].run
  <2>1. /\ Delivering(d) /\ UNCHANGED <<origin, runStatus>>
        /\ Settle(d, r, outcome)
        /\ CompletionFits(d, run, outcome)
    BY <1>6 DEF completeQueuedGitHubDelivery, CompletionReply, Delivering, Terminal
  <2>2. r \in Run \cup {NoRun}
    BY <1>t DEF TypeOK, Receipt
  <2>3. r # NoRun => SameCandidate(d, r)
    BY <2>2 DEF IInv, BoundToOwnCandidate
  <2>4. CASE outcome = "completed"
    <3>1. run \in Run /\ run # NoRun /\ r = run /\ Over(run)
      BY <2>1, <2>4 DEF CompletionFits
    <3>2. RunsAdvance /\ Over(run)'
      BY <2>1, <3>1 DEF RunsAdvance, Over
    <3>3. Settle(d, run, outcome) /\ SameCandidate(d, run)
      BY <2>1, <2>3, <3>1
    <3> QED BY <2>1, <2>4, <3>1, <3>2, <3>3, <1>t, SettlePreserves
  <2>5. CASE outcome = "ignored"
    <3>1. RunsAdvance
      BY <2>1 DEF RunsAdvance, Over
    <3> QED BY <2>1, <2>2, <2>3, <2>5, <3>1, <1>t, SettlePreserves
  <2> QED BY <2>4, <2>5 DEF Requested
<1>7. ASSUME NEW d \in Delivery, NEW r \in Run,
             bindQueuedGitHubDeliveryToWorkflow(d, r) PROVE IInv'
  <2>1. /\ Delivering(d) /\ receipt[d].run = NoRun /\ SameCandidate(d, r)
        /\ receipt[d].outcome = "none"
        /\ UNCHANGED <<origin, runStatus>>
    BY <1>7, <1>t DEF bindQueuedGitHubDeliveryToWorkflow, BindRejected, IInv, OutcomeIffTerminal,
                      Delivering, Terminal
  <2>2. RunsAdvance
    BY <2>1 DEF RunsAdvance, Over
  <2>3. CASE Active(r) \ {d} # {} /\ Settle(d, r, "coalesced")
    BY <2>1, <2>2, <2>3, <1>t, SettlePreserves
  <2>4. CASE Active(r) \ {d} = {} /\ receipt' = [receipt EXCEPT ![d] = [@ EXCEPT !.run = r]]
    <3>1. /\ receipt'[d].run = r /\ receipt'[d].status = "delivering"
          /\ receipt'[d].outcome = "none"
          /\ \A e \in Delivery \ {d} : receipt'[e] = receipt[e]
      BY <2>1, <2>4, <1>t DEF TypeOK, Receipt, Delivering
    <3>2. Active(r)' = {d}
      BY <2>4, <3>1 DEF Active, Delivering
    <3>3. \A q \in Run \ {r} : Active(q)' = Active(q)
      BY <2>1, <3>1, ReceiptConstants DEF Active, Delivering
    <3>4. OriginExists'
      BY <2>1 DEF IInv, OriginExists
    <3>5. OutcomeIffTerminal'
      BY <3>1 DEF IInv, OutcomeIffTerminal, Terminal
    <3>6. BoundToOwnCandidate'
      BY <2>1, <3>1 DEF IInv, BoundToOwnCandidate, SameCandidate
    <3>7. OneActiveReceipt'
      BY <3>2, <3>3 DEF IInv, OneActiveReceipt
    <3>8. SettledRunIsOver'
      BY <2>1, <3>1 DEF IInv, SettledRunIsOver, Over
    <3>9. JoinedHasDriver'
      BY <2>1, <3>1, <3>2, <3>3 DEF IInv, JoinedHasDriver, Over
    <3> QED BY <1>t, <3>4, <3>5, <3>6, <3>7, <3>8, <3>9 DEF IInv
  <2> QED BY <1>7, <2>1, <2>3, <2>4, ReceiptConstants
          DEF bindQueuedGitHubDeliveryToWorkflow, BindJoins, Rivals
<1>8. ASSUME NEW d \in Delivery, LeaseExpires(d) \/ BecomesDue(d) PROVE IInv'
  <2>1. CASE LeaseExpires(d)
    BY <2>1, <1>t, FramePreserves DEF LeaseExpires, TypeOK, Receipt, RunsAdvance, Over
  <2>2. CASE BecomesDue(d)
    BY <2>2, <1>t, FramePreserves DEF BecomesDue, TypeOK, Receipt, RunsAdvance, Over
  <2> QED BY <1>8, <2>1, <2>2
<1>9. ASSUME NEW S \in SUBSET Delivery, claimStaleGitHubDeliveries(S) PROVE IInv'
  BY <1>9, <1>t, FramePreserves
  DEF claimStaleGitHubDeliveries, TypeOK, Receipt, RunsAdvance, Over
<1>10. ASSUME NEW r \in Run, NEW d \in Delivery, createFromExternalIntake(d, r) PROVE IInv'
  <2>1. /\ runStatus[r] = "absent" /\ UNCHANGED receipt
        /\ runStatus' = [runStatus EXCEPT ![r] = "queued"]
        /\ origin' = [origin EXCEPT ![r] = d]
    BY <1>10 DEF createFromExternalIntake
  <2>2. \A e \in Delivery : receipt[e].run # r
    BY <2>1 DEF IInv, BoundToOwnCandidate, SameCandidate
  <2>3. \A q \in Run : Over(q)' = Over(q)
    BY <2>1, <1>t DEF Over, Finished, TypeOK
  <2>4. \A q \in Run : Active(q)' = Active(q)
    BY <2>1 DEF Active, Delivering
  <2>5. OriginExists'
    BY <2>1, <1>t, ReceiptConstants DEF IInv, OriginExists, TypeOK
  <2>6. OutcomeIffTerminal'
    BY <2>1 DEF IInv, OutcomeIffTerminal, Terminal
  <2>7. BoundToOwnCandidate'
    BY <2>1, <2>2, <1>t DEF IInv, BoundToOwnCandidate, SameCandidate, TypeOK
  <2>8. OneActiveReceipt'
    BY <2>4 DEF IInv, OneActiveReceipt
  <2>9. SettledRunIsOver'
    BY <2>1, <1>t, <2>3 DEF IInv, SettledRunIsOver, TypeOK, Receipt, Over
  <2>10. JoinedHasDriver'
    BY <2>1, <2>3, <2>4 DEF IInv, JoinedHasDriver
  <2> QED BY <1>t, <2>5, <2>6, <2>7, <2>8, <2>9, <2>10 DEF IInv
<1>11. ASSUME NEW r \in Run, claimIncomingDispatch(r) \/ recordPolicyDecision(r)
                                \/ markWorkflowExecutionFailed(r) PROVE IInv'
  <2>1. PICK to \in {"running", "reviewed", "failed"} :
           /\ runStatus[r] \in {"queued", "running"}
           /\ runStatus' = [runStatus EXCEPT ![r] = to]
           /\ UNCHANGED <<receipt, origin>>
    BY <1>11 DEF claimIncomingDispatch, recordPolicyDecision, markWorkflowExecutionFailed, MoveRun
  <2>2. RunsAdvance
    BY <2>1, <1>t DEF RunsAdvance, Over, Finished, TypeOK
  <2> QED BY <2>1, <2>2, <1>t, FramePreserves
<1> QED
  BY <1>1, <1>2, <1>3, <1>4, <1>5, <1>6, <1>7, <1>8, <1>9, <1>10, <1>11, StepCases

\* Whatever the workers present and in whatever order: records, runs and tokens
\* stay well formed.
THEOREM TypeCorrect == Spec => []TypeOK
<1>1. Init => TypeOK
  BY InitInv DEF IInv
<1> QED BY <1>1, TypeStep, PTL DEF Spec

\* Every part of the inductive invariant holds in every reachable state: types,
\* where runs come from, one driver per run, and what settled and joined receipts
\* rely on, which only hold together.
THEOREM Invariance == Spec => []IInv
  BY InitInv, StepInv, PTL DEF Spec

\* bind and terminalize never leave two delivering receipts on one run.
THEOREM OneActive == Spec => []OneActiveReceipt
<1>1. IInv => OneActiveReceipt
  BY DEF IInv
<1> QED BY <1>1, Invariance, PTL

\* A coalesced delivery is never the last one standing for an unfinished run,
\* unless a bound delivery was dismissed as ignored.
THEOREM JoinedDriven == Spec => []JoinedHasDriver
<1>1. IInv => JoinedHasDriver
  BY DEF IInv
<1> QED BY <1>1, Invariance, PTL

\* A receipt answers only for a run of its own candidate, whoever wrote the run into
\* it: bind (refuses any other), complete (names its own) or terminalize (looks the
\* run up by the delivery that created it).
THEOREM BoundOwn == Spec => []BoundToOwnCandidate
<1>1. IInv => BoundToOwnCandidate
  BY DEF IInv
<1> QED BY <1>1, Invariance, PTL

\* No receipt is settled as completed or failed ahead of its run.
THEOREM SettledOver == Spec => []SettledRunIsOver
<1>1. IInv => SettledRunIsOver
  BY DEF IInv
<1> QED BY <1>1, Invariance, PTL

-----------------------------------------------------------------------------
(* Bound and terminal receipts stay as they are.                           *)

LEMMA StepKeeps ==
    ASSUME IInv, [Next]_receiptVars
    PROVE  KeepsItsRunAndOutcome \/ UNCHANGED receiptVars
<1>t. TypeOK
  BY DEF IInv
<1> DEFINE Kept(e) == /\ receipt'[e].status = receipt[e].status
                      /\ receipt'[e].run = receipt[e].run
                      /\ receipt'[e].outcome = receipt[e].outcome
<1>a. ASSUME \A e \in Delivery : Kept(e) PROVE KeepsItsRunAndOutcome
  BY <1>a DEF KeepsItsRunAndOutcome, Terminal
<1>b. ASSUME NEW d \in Delivery, ~Terminal(d), \A e \in Delivery \ {d} : Kept(e),
             receipt[d].run # NoRun => receipt'[d].run = receipt[d].run
      PROVE  KeepsItsRunAndOutcome
  BY <1>b DEF KeepsItsRunAndOutcome, Terminal
<1>c. ASSUME NEW d \in Delivery, NEW r \in Run \cup {NoRun}, NEW v \in Outcome,
             Delivering(d), Settle(d, r, v), receipt[d].run \in {NoRun, r}
      PROVE  KeepsItsRunAndOutcome
  <2>1. /\ receipt'[d].run = r
        /\ \A e \in Delivery \ {d} : receipt'[e] = receipt[e]
    BY <1>c, <1>t, SettleEffect DEF TypeOK
  <2> QED BY <2>1, <1>b, <1>c DEF Delivering, Terminal
<1> HIDE DEF Kept
<1>2. ASSUME NEW d \in Delivery, recordQueuedGitHubDelivery(d) PROVE KeepsItsRunAndOutcome
  BY <1>2, <1>t, <1>b DEF recordQueuedGitHubDelivery, IInv, OutcomeIffTerminal, Terminal, TypeOK, Kept
<1>3. ASSUME NEW d \in Delivery, NEW g \in Generation, NEW t \in Token,
             \/ claimGitHubDeliveryProcessing(d, g, t)
             \/ releaseGitHubDeliveryProcessing(d, g, t)
      PROVE KeepsItsRunAndOutcome
  <2>1. CASE claimGitHubDeliveryProcessing(d, g, t)
    BY <2>1, <1>t, <1>a DEF claimGitHubDeliveryProcessing, TypeOK, Receipt, Kept
  <2>2. CASE releaseGitHubDeliveryProcessing(d, g, t)
    BY <2>2, <1>t, <1>a DEF releaseGitHubDeliveryProcessing, TypeOK, Receipt, Kept
  <2> QED BY <1>3, <2>1, <2>2
<1>5. ASSUME NEW d \in Delivery, NEW g \in Generation, NEW t \in Token,
             terminalizeQueuedGitHubDelivery(d, g, t) PROVE KeepsItsRunAndOutcome
  <2>1. PICK r \in Run \cup {NoRun}, v \in Outcome : Settle(d, r, v) /\ receipt[d].run \in {NoRun, r}
    BY <1>5, <1>t DEF terminalizeQueuedGitHubDelivery, Rivals, OutcomeOf, ResolvesTo, Outcome, TypeOK, Receipt
  <2> QED BY <1>5, <2>1, <1>c DEF terminalizeQueuedGitHubDelivery, Rivals
<1>6. ASSUME NEW d \in Delivery, NEW g \in Generation, NEW t \in Token, NEW run \in Run \cup {NoRun},
             NEW outcome \in Requested,
             completeQueuedGitHubDelivery(d, g, t, run, outcome) PROVE KeepsItsRunAndOutcome
  <2>1. receipt[d].run \in Run \cup {NoRun} /\ outcome \in Outcome
    BY <1>t DEF TypeOK, Receipt, Requested, Outcome
  <2> QED BY <1>6, <2>1, <1>c DEF completeQueuedGitHubDelivery
<1>7. ASSUME NEW d \in Delivery, NEW r \in Run,
             bindQueuedGitHubDeliveryToWorkflow(d, r) PROVE KeepsItsRunAndOutcome
  <2>1. Delivering(d) /\ receipt[d].run = NoRun
    BY <1>7, <1>t DEF bindQueuedGitHubDeliveryToWorkflow, BindRejected
  <2>2. CASE Settle(d, r, "coalesced")
    BY <2>1, <2>2, <1>c DEF Outcome
  <2>3. CASE receipt' = [receipt EXCEPT ![d] = [@ EXCEPT !.run = r]]
    BY <2>1, <2>3, <1>t, <1>b DEF TypeOK, Terminal, Delivering, Kept
  <2> QED BY <1>7, <2>2, <2>3 DEF bindQueuedGitHubDeliveryToWorkflow
<1>8. ASSUME NEW d \in Delivery, LeaseExpires(d) \/ BecomesDue(d) PROVE KeepsItsRunAndOutcome
  <2>1. CASE LeaseExpires(d)
    BY <2>1, <1>t, <1>a DEF LeaseExpires, TypeOK, Receipt, Kept
  <2>2. CASE BecomesDue(d)
    BY <2>2, <1>t, <1>a DEF BecomesDue, TypeOK, Receipt, Kept
  <2> QED BY <1>8, <2>1, <2>2
<1>9. ASSUME NEW S \in SUBSET Delivery, claimStaleGitHubDeliveries(S) PROVE KeepsItsRunAndOutcome
  BY <1>9, <1>t, <1>a DEF claimStaleGitHubDeliveries, TypeOK, Receipt, Kept
<1>10. ASSUME UNCHANGED receipt PROVE KeepsItsRunAndOutcome
  BY <1>10, <1>a DEF Kept
<1>11. ASSUME NEW r \in Run, NEW d \in Delivery, createFromExternalIntake(d, r)
       PROVE KeepsItsRunAndOutcome
  BY <1>11, <1>10 DEF createFromExternalIntake
<1>12. ASSUME NEW r \in Run, claimIncomingDispatch(r) \/ recordPolicyDecision(r)
                               \/ markWorkflowExecutionFailed(r)
       PROVE KeepsItsRunAndOutcome
  BY <1>12, <1>10
  DEF claimIncomingDispatch, recordPolicyDecision, markWorkflowExecutionFailed, MoveRun
<1> QED
  BY <1>2, <1>3, <1>5, <1>6, <1>7, <1>8, <1>9, <1>11, <1>12, StepCases

\* Late, retried or duplicated calls never move a bound receipt to another run nor
\* reopen or relabel a settled one.
THEOREM BoundForGood == Spec => BoundAndSettledForGood
<1>1. IInv /\ [Next]_receiptVars => [KeepsItsRunAndOutcome]_receiptVars
  BY StepKeeps
<1> QED BY <1>1, Invariance, PTL DEF Spec, BoundAndSettledForGood

-----------------------------------------------------------------------------
(* The receipts implement the ledger.                                      *)

LEMMA MapRivals ==
    ASSUME TypeOK, NEW d \in Delivery, NEW r \in Run
    PROVE  Ledger!Rivals(d, r) = Active(r) \ {d}
  BY DEF Ledger!Rivals, ledgerPhase, ledgerOwned, Active, Delivering

\* A settled receipt is a settled entry of the ledger.
LEMMA MapSettle ==
    ASSUME TypeOK, NEW d \in Delivery, NEW r \in Run \cup {NoRun}, NEW v \in Outcome,
           Delivering(d), Settle(d, r, v)
    PROVE  Ledger!SettleAs(d, r, v)
<1>1. /\ receipt'[d].status = "terminal" /\ receipt'[d].run = r /\ receipt'[d].outcome = v
      /\ \A e \in Delivery \ {d} : receipt'[e] = receipt[e]
  BY SettleEffect DEF TypeOK
<1>2. ledgerPhase' = [ledgerPhase EXCEPT ![d] = "settled"]
  BY <1>1 DEF ledgerPhase, Delivering, Terminal
<1>3. ledgerOwned' = [ledgerOwned EXCEPT ![d] = r]
  BY <1>1 DEF ledgerOwned
<1>4. ledgerVerdict' = [ledgerVerdict EXCEPT ![d] = v]
  BY <1>1 DEF ledgerVerdict
<1>5. ledgerPhase[d] = "pending"
  BY DEF ledgerPhase
<1> QED BY <1>2, <1>3, <1>4, <1>5 DEF Ledger!SettleAs

LEMMA MapOver ==
    ASSUME \A q \in Run : Over(q)' = Over(q)
    PROVE  ledgerOver' = ledgerOver
  BY DEF ledgerOver

LEMMA MapFinish ==
    ASSUME TypeOK, NEW r \in Run, NEW status \in Finished,
           runStatus' = [runStatus EXCEPT ![r] = status]
    PROVE  ledgerOver' = [ledgerOver EXCEPT ![r] = TRUE]
  BY DEF ledgerOver, Over, TypeOK

\* Steps about tokens and clocks do not show in the ledger.
LEMMA MapStutter ==
    ASSUME \A e \in Delivery : /\ receipt'[e].status = receipt[e].status
                               /\ receipt'[e].run = receipt[e].run
                               /\ receipt'[e].outcome = receipt[e].outcome,
           \A q \in Run : Over(q)' = Over(q)
    PROVE  UNCHANGED Ledger!vars
<1>1. ledgerPhase' = ledgerPhase
  BY DEF ledgerPhase, Delivering, Terminal
<1>2. ledgerOwned' = ledgerOwned /\ ledgerVerdict' = ledgerVerdict
  BY DEF ledgerOwned, ledgerVerdict
<1> QED BY <1>1, <1>2, MapOver DEF Ledger!vars

LEMMA LedgerStep == IInv /\ [Next]_receiptVars => [Ledger!Next]_(Ledger!vars)
<1> SUFFICES ASSUME IInv, [Next]_receiptVars PROVE Ledger!Next \/ UNCHANGED Ledger!vars
  OBVIOUS
<1>t. TypeOK
  BY DEF IInv
<1>1. CASE UNCHANGED receiptVars
  BY <1>1, MapStutter DEF receiptVars, Over
<1>o. ASSUME UNCHANGED runStatus
      PROVE  (\A q \in Run : Over(q)' = Over(q)) /\ ledgerOver' = ledgerOver
  BY <1>o, MapOver DEF Over
<1>2. ASSUME NEW d \in Delivery, recordQueuedGitHubDelivery(d) PROVE Ledger!Next
  <2>1. /\ receipt[d].status = "absent" /\ receipt[d].run = NoRun /\ receipt[d].outcome = "none"
        /\ receipt'[d] = EmptyReceipt("delivering")
        /\ \A e \in Delivery \ {d} : receipt'[e] = receipt[e]
        /\ UNCHANGED runStatus
    BY <1>2, <1>t DEF IInv, OutcomeIffTerminal, Terminal, recordQueuedGitHubDelivery, TypeOK, Receipt
  <2>2. /\ receipt'[d].status = "delivering"
        /\ receipt'[d].run = receipt[d].run
        /\ receipt'[d].outcome = receipt[d].outcome
    BY <2>1 DEF EmptyReceipt
  <2>3. /\ ledgerPhase[d] = "unseen"
        /\ ledgerPhase' = [ledgerPhase EXCEPT ![d] = "pending"]
    BY <2>1, <2>2 DEF ledgerPhase, Delivering, Terminal
  <2>4. ledgerOwned' = ledgerOwned /\ ledgerVerdict' = ledgerVerdict
    BY <2>1, <2>2 DEF ledgerOwned, ledgerVerdict
  <2>5. Ledger!Accept(d)
    BY <2>1, <2>3, <2>4, <1>o DEF Ledger!Accept
  <2> QED BY <2>5 DEF Ledger!Next
<1>3. ASSUME NEW d \in Delivery, NEW g \in Generation, NEW t \in Token,
             claimGitHubDeliveryProcessing(d, g, t) PROVE UNCHANGED Ledger!vars
  BY <1>3, <1>t, <1>o, MapStutter DEF claimGitHubDeliveryProcessing, TypeOK, Receipt
<1>4. ASSUME NEW d \in Delivery, NEW g \in Generation, NEW t \in Token,
             releaseGitHubDeliveryProcessing(d, g, t) PROVE UNCHANGED Ledger!vars
  BY <1>4, <1>t, <1>o, MapStutter DEF releaseGitHubDeliveryProcessing, TypeOK, Receipt
<1>5. ASSUME NEW d \in Delivery, NEW g \in Generation, NEW t \in Token,
             terminalizeQueuedGitHubDelivery(d, g, t) PROVE Ledger!Next
  <2>1. Delivering(d)
    BY <1>5 DEF terminalizeQueuedGitHubDelivery, Rivals
  <2>2. CASE (\A r \in Run : ~ResolvesTo(d, r)) /\ Settle(d, NoRun, "failed") /\ UNCHANGED runStatus
    <3>1. receipt[d].run = NoRun
      BY <2>2, <1>t DEF ResolvesTo, TypeOK, Receipt
    <3>2. Ledger!ExhaustUnowned(d)
      BY <2>1, <2>2, <3>1, <1>t, <1>o, MapSettle DEF Ledger!ExhaustUnowned, Outcome, ledgerOwned
    <3> QED BY <3>2 DEF Ledger!Next
  <2>3. ASSUME NEW r \in Run, ResolvesTo(d, r)
        PROVE  /\ receipt[d].run \in {NoRun, r}
               /\ Active(r) \ {d} # {} => receipt[d].run = NoRun
    BY <2>1, <2>3, <1>t DEF ResolvesTo, Active, IInv, OneActiveReceipt
  <2>4. ASSUME NEW r \in Run, ResolvesTo(d, r), Active(r) \ {d} # {},
               Settle(d, r, "coalesced"), UNCHANGED runStatus
        PROVE  Ledger!Next
    <3>1. Ledger!Join(d, r)
      BY <2>1, <2>3, <2>4, <1>t, <1>o, MapSettle, MapRivals DEF Ledger!Join, Outcome, ledgerOwned
    <3> QED BY <3>1 DEF Ledger!Next
  <2>5. ASSUME NEW r \in Run, ResolvesTo(d, r), Active(r) \ {d} = {}, Over(r),
               Settle(d, r, OutcomeOf(runStatus[r])),
               UNCHANGED runStatus
        PROVE  Ledger!Next
    <3>1. Ledger!SettleAs(d, r, "completed") \/ Ledger!SettleAs(d, r, "failed")
      BY <2>1, <2>5, <1>t, MapSettle DEF Outcome, OutcomeOf
    <3>2. Ledger!Conclude(d, r)
      BY <2>3, <2>5, <3>1, <1>t, <1>o, MapRivals DEF Ledger!Conclude, ledgerOwned, ledgerOver
    <3> QED BY <3>2 DEF Ledger!Next
  <2>6. ASSUME NEW r \in Run, ResolvesTo(d, r), Active(r) \ {d} = {},
               Settle(d, r, "failed"), runStatus' = [runStatus EXCEPT ![r] = "failed"]
        PROVE  Ledger!Next
    <3>1. ledgerOver' = [ledgerOver EXCEPT ![r] = TRUE]
      BY <2>6, <1>t, MapFinish DEF Finished
    <3>2. Ledger!Exhaust(d, r)
      BY <2>1, <2>3, <2>6, <3>1, <1>t, MapSettle, MapRivals DEF Ledger!Exhaust, Outcome, ledgerOwned
    <3> QED BY <3>2 DEF Ledger!Next
  <2> QED BY <1>5, <2>2, <2>4, <2>5, <2>6 DEF terminalizeQueuedGitHubDelivery, Rivals
<1>6. ASSUME NEW d \in Delivery, NEW g \in Generation, NEW t \in Token, NEW run \in Run \cup {NoRun},
             NEW outcome \in Requested,
             completeQueuedGitHubDelivery(d, g, t, run, outcome) PROVE Ledger!Next
  <2> DEFINE r == receipt[d].run
  <2>1. /\ Delivering(d) /\ UNCHANGED runStatus /\ r \in Run \cup {NoRun}
        /\ Settle(d, r, outcome) /\ outcome \in Outcome
        /\ CompletionFits(d, run, outcome)
    BY <1>6, <1>t DEF completeQueuedGitHubDelivery, CompletionReply, Delivering, Terminal,
                      TypeOK, Receipt, Requested, Outcome
  <2>2. Ledger!SettleAs(d, r, outcome)
    BY <2>1, <1>t, MapSettle
  <2>3. CASE outcome = "completed"
    <3>1. run \in Run /\ r = run /\ Over(run)
      BY <2>1, <2>3 DEF CompletionFits
    <3>2. Active(run) \ {d} = {}
      BY <2>1, <3>1 DEF Active, IInv, OneActiveReceipt
    <3>3. Ledger!Conclude(d, run)
      BY <2>1, <2>2, <2>3, <3>1, <3>2, <1>t, <1>o, MapRivals DEF Ledger!Conclude, ledgerOwned, ledgerOver
    <3> QED BY <3>1, <3>3 DEF Ledger!Next
  <2>4. CASE outcome = "ignored"
    <3>1. Ledger!Dismiss(d)
      BY <2>1, <2>2, <2>4, <1>o DEF Ledger!Dismiss, ledgerOwned
    <3> QED BY <3>1 DEF Ledger!Next
  <2> QED BY <2>3, <2>4 DEF Requested
<1>7. ASSUME NEW d \in Delivery, NEW r \in Run,
             bindQueuedGitHubDeliveryToWorkflow(d, r) PROVE Ledger!Next
  <2>1. /\ Delivering(d) /\ receipt[d].run = NoRun /\ UNCHANGED runStatus
    BY <1>7, <1>t DEF bindQueuedGitHubDeliveryToWorkflow, BindRejected
  <2>2. CASE Active(r) \ {d} # {} /\ Settle(d, r, "coalesced")
    <3>1. Ledger!Join(d, r)
      BY <2>1, <2>2, <1>t, <1>o, MapSettle, MapRivals DEF Ledger!Join, Outcome, ledgerOwned
    <3> QED BY <3>1 DEF Ledger!Next
  <2>3. CASE Active(r) \ {d} = {} /\ receipt' = [receipt EXCEPT ![d] = [@ EXCEPT !.run = r]]
    <3>1. /\ receipt'[d].run = r /\ receipt'[d].status = receipt[d].status
          /\ receipt'[d].outcome = receipt[d].outcome
          /\ \A e \in Delivery \ {d} : receipt'[e] = receipt[e]
      BY <2>3, <1>t DEF TypeOK, Receipt
    <3>2. ledgerPhase' = ledgerPhase /\ ledgerVerdict' = ledgerVerdict
      BY <3>1 DEF ledgerPhase, ledgerVerdict, Delivering, Terminal
    <3>3. ledgerOwned' = [ledgerOwned EXCEPT ![d] = r]
      BY <3>1 DEF ledgerOwned
    <3>4. ledgerPhase[d] = "pending" /\ ledgerOwned[d] = NoRun
      BY <2>1 DEF ledgerPhase, ledgerOwned
    <3>5. Ledger!Attach(d, r)
      BY <2>1, <2>3, <3>2, <3>3, <3>4, <1>t, <1>o, MapRivals DEF Ledger!Attach
    <3> QED BY <3>5 DEF Ledger!Next
  <2> QED BY <1>7, <2>1, <2>2, <2>3, ReceiptConstants
          DEF bindQueuedGitHubDeliveryToWorkflow, BindJoins, Rivals
<1>8. ASSUME NEW d \in Delivery, LeaseExpires(d) \/ BecomesDue(d) PROVE UNCHANGED Ledger!vars
  <2>1. CASE LeaseExpires(d)
    BY <2>1, <1>t, <1>o, MapStutter DEF LeaseExpires, TypeOK, Receipt
  <2>2. CASE BecomesDue(d)
    BY <2>2, <1>t, <1>o, MapStutter DEF BecomesDue, TypeOK, Receipt
  <2> QED BY <1>8, <2>1, <2>2
<1>9. ASSUME NEW S \in SUBSET Delivery, claimStaleGitHubDeliveries(S) PROVE UNCHANGED Ledger!vars
  BY <1>9, <1>t, <1>o, MapStutter DEF claimStaleGitHubDeliveries, TypeOK, Receipt
<1>10. ASSUME NEW r \in Run, NEW d \in Delivery, createFromExternalIntake(d, r)
       PROVE UNCHANGED Ledger!vars
  <2>1. \A q \in Run : Over(q)' = Over(q)
    BY <1>10, <1>t DEF createFromExternalIntake, Over, Finished, TypeOK
  <2> QED BY <1>10, <2>1, MapStutter DEF createFromExternalIntake
<1>11. ASSUME NEW r \in Run, claimIncomingDispatch(r) \/ recordPolicyDecision(r)
                                \/ markWorkflowExecutionFailed(r)
       PROVE Ledger!Next \/ UNCHANGED Ledger!vars
  <2>1. PICK to \in {"running", "reviewed", "failed"} :
           /\ runStatus[r] \in {"queued", "running"}
           /\ runStatus' = [runStatus EXCEPT ![r] = to]
           /\ UNCHANGED <<receipt, origin>>
    BY <1>11 DEF claimIncomingDispatch, recordPolicyDecision, markWorkflowExecutionFailed, MoveRun
  <2>2. CASE to = "running"
    <3>1. \A q \in Run : Over(q)' = Over(q)
      BY <2>1, <2>2, <1>t DEF Over, Finished, TypeOK
    <3> QED BY <2>1, <3>1, MapStutter
  <2>3. CASE to # "running"
    <3>1. ledgerOver' = [ledgerOver EXCEPT ![r] = TRUE]
      BY <2>1, <2>3, <1>t, MapFinish DEF Finished
    <3>2. Ledger!Finish(r)
      BY <2>1, <3>1 DEF Ledger!Finish, ledgerPhase, ledgerOwned, ledgerVerdict, Delivering, Terminal
    <3> QED BY <3>2 DEF Ledger!Next
  <2> QED BY <2>2, <2>3
<1> QED
  BY <1>1, <1>2, <1>3, <1>4, <1>5, <1>6, <1>7, <1>8, <1>9, <1>10, <1>11, StepCases

LEMMA LedgerInit == Init => Ledger!Init
<1> SUFFICES ASSUME Init PROVE Ledger!Init
  OBVIOUS
<1>1. \A d \in Delivery : /\ receipt[d].status = "absent" /\ receipt[d].run = NoRun
                          /\ receipt[d].outcome = "none"
  BY DEF Init, EmptyReceipt
<1>2. \A r \in Run : ~Over(r)
  BY DEF Init, Over, Finished
<1>3. ledgerPhase = [d \in Delivery |-> "unseen"]
  BY <1>1 DEF ledgerPhase, Delivering, Terminal
<1>4. ledgerOwned = [d \in Delivery |-> NoRun] /\ ledgerVerdict = [d \in Delivery |-> "none"]
  BY <1>1 DEF ledgerOwned, ledgerVerdict
<1>5. \A r \in Run : (runStatus[r] \in Finished) = FALSE
  BY <1>2, SMT DEF Over
<1>6. ledgerOver = [r \in Run |-> FALSE]
  BY <1>5, Zenon DEF ledgerOver, Over
<1> QED BY <1>3, <1>4, <1>6 DEF Ledger!Init

\* The receipt table keeps the promises of the ledger: every mutation is one of
\* its entries or does not show in it.
THEOREM ReceiptsImplementLedger == Spec => ImplementsLedger
  BY LedgerInit, LedgerStep, Invariance, PTL DEF Spec, ImplementsLedger, Ledger!Spec
=============================================================================
