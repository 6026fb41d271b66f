----------------------- MODULE CandidateDispatchProofs -----------------------
(***************************************************************************)
(* Proofs about CandidateDispatch, for every finite set of attempts and    *)
(* every set of drivers, plans and requirements.                           *)
(***************************************************************************)
EXTENDS CandidateDispatch, FiniteSetTheorems, TLAPS

\* The part of the invariant that speaks of one attempt at a time.
InOrder(a) ==
    /\ a.freezer # NoDriver \/ a.candidate =>
         a.plan # NoPlan /\ a.persisted = RequirementsOf[a.plan]
    /\ a.status = "running" => a.candidate /\ a.dispatcher # NoDriver
    /\ a.verifier # NoDriver => a.dispatcher = a.verifier
    /\ a.status = "reviewed" => a.verifier # NoDriver

LEMMA InOrderInv ==
    (\A r \in Run : InOrder(run[r])) <=> FreezeIsPlanned /\ ExecutedInOrder
  BY DEF InOrder, FreezeIsPlanned, ExecutedInOrder, Planned

\* A step that touches one attempt and leaves every driver on its attempt.
LEMMA AttemptStep ==
    ASSUME IInv, UNCHANGED attempt,
           NEW r \in Run, NEW new \in Attempt, InOrder(new),
           run' = [run EXCEPT ![r] = new],
           run[r].verifier # NoDriver => new.verifier = run[r].verifier,
           alarms' \in SUBSET (Run \X Driver),
           work' \in [Driver -> Work],
           \A w \in Driver :
              /\ work'[w].pc # "idle" => work'[w].run \in Run /\ Created(work'[w].run)
              /\ work'[w].pc = "verify" =>
                    \/ work[w].pc = "verify" /\ work'[w].run = work[w].run
                    \/ work'[w].run = r /\ new.verifier = w
    PROVE  IInv'
<1>1. TypeOK'
  BY DEF IInv, TypeOK
<1>2. \A q \in Run : InOrder(run'[q])
  BY InOrderInv DEF IInv, TypeOK
<1>3. FreezeIsPlanned' /\ ExecutedInOrder'
  BY <1>2 DEF InOrder, FreezeIsPlanned, ExecutedInOrder, Planned
<1>4. DriverHasAttempt'
  BY DEF DriverHasAttempt, At, Created
<1>5. VerifierStarted'
  <2> SUFFICES ASSUME NEW w \in Driver, work'[w].pc = "verify"
               PROVE  run'[work'[w].run].verifier = w
    BY DEF VerifierStarted, At
  <2>1. CASE work[w].pc = "verify" /\ work'[w].run = work[w].run
    <3>1. work[w].run \in Run /\ run[work[w].run].verifier = w
      BY <2>1 DEF IInv, DriverHasAttempt, VerifierStarted, At
    <3> QED BY <2>1, <3>1, DispatchConstants DEF IInv, TypeOK
  <2>2. CASE work'[w].run = r /\ new.verifier = w
    BY <2>2 DEF IInv, TypeOK
  <2> QED BY <2>1, <2>2
<1> QED BY <1>1, <1>3, <1>4, <1>5 DEF IInv

\* The same for a step of one driver that changes nothing but its own place.
LEMMA DriverMoves ==
    ASSUME IInv, UNCHANGED <<attempt, run, alarms>>,
           NEW w \in Driver, NEW step \in Work, work' = [work EXCEPT ![w] = step],
           step.pc # "idle" => step.run \in Run /\ Created(step.run),
           step.pc # "verify"
    PROVE  IInv'
<1>1. TypeOK'
  BY DEF IInv, TypeOK
<1>2. FreezeIsPlanned' /\ ExecutedInOrder'
  BY DEF IInv, FreezeIsPlanned, ExecutedInOrder, Planned
<1>3. DriverHasAttempt'
  BY DEF IInv, TypeOK, DriverHasAttempt, At, Created
<1>4. VerifierStarted'
  BY DEF IInv, TypeOK, VerifierStarted, At
<1> QED BY <1>1, <1>2, <1>3, <1>4 DEF IInv

\* Where a driver goes when it keeps its attempt.
LEMMA GotoType ==
    ASSUME TypeOK, DriverHasAttempt, NEW w \in Driver, ~At(w, "idle"),
           NEW pc \in Stage \ {"idle"}, Goto(w, pc)
    PROVE  /\ work' \in [Driver -> Work]
           /\ work'[w].pc = pc /\ work'[w].run = work[w].run
           /\ work[w].run \in Run /\ Created(work[w].run)
           /\ \A v \in Driver \ {w} : work'[v] = work[v]
  BY DEF TypeOK, DriverHasAttempt, Goto, Work, At

LEMMA DriverStepInv ==
    ASSUME IInv, NEW w \in Driver, DriverStep(w)
    PROVE  IInv'
<1> DEFINE r == work[w].run
<1> USE DEF At
<1>t. TypeOK /\ DriverHasAttempt
  BY DEF IInv
<1>r. work[w].pc # "idle" => r \in Run /\ Created(r) /\ run[r] \in Attempt /\ InOrder(run[r])
  BY InOrderInv DEF IInv, TypeOK, DriverHasAttempt
\* A step that only moves the driver.
<1>m. ASSUME UNCHANGED <<attempt, run, alarms>>, work[w].pc # "idle",
             NEW pc \in Stage \ {"idle", "verify"}, Goto(w, pc)
      PROVE  IInv'
  <2>1. [work[w] EXCEPT !.pc = pc] \in Work
    BY <1>t DEF TypeOK, Work
  <2> QED BY <1>m, <1>r, <2>1, DriverMoves, <1>t DEF Goto, TypeOK, Work
\* A step that changes the driver's attempt and moves the driver, not to verify.
<1>a. ASSUME UNCHANGED <<attempt, alarms>>, work[w].pc # "idle",
             NEW new \in Attempt, InOrder(new), Set(r, new), new.verifier = run[r].verifier,
             NEW pc \in Stage \ {"idle", "verify"}, Goto(w, pc) \/ UNCHANGED work
      PROVE  IInv'
  <2>1. work' \in [Driver -> Work]
    BY <1>a, <1>t, GotoType DEF TypeOK
  <2>2. \A v \in Driver : /\ work'[v].run = work[v].run
                          /\ work'[v].pc = "idle" <=> work[v].pc = "idle"
                          /\ work'[v].pc = "verify" => work[v].pc = "verify"
    BY <1>a, <1>t, GotoType
  <2> QED BY <1>a, <1>r, <1>t, <2>1, <2>2, AttemptStep DEF Set, TypeOK, DriverHasAttempt
<1>f. Fails(w) => \E pc \in {"finalize", "done"} : Goto(w, pc)
  BY DEF Fails
<1>1. ASSUME NEW q \in Run, Begin(w, q) PROVE IInv'
  <2>1. [pc |-> "plan", run |-> q, finalizes |-> run[q].trigger = "rerun"] \in Work
    BY DEF Work, Stage
  <2> QED BY <1>1, <2>1, DriverMoves DEF Begin
<1>2. ASSUME NEW p \in Plan, PersistPlan(w, p) PROVE IInv'
  <2>1. work[w].pc # "idle" /\ UNCHANGED <<attempt, alarms>>
    BY <1>2 DEF PersistPlan
  <2>2. CASE recordVerificationPlan(r, p) /\ Goto(w, "requirements")
    <3>1. [run[r] EXCEPT !.plan = p] \in Attempt /\ InOrder([run[r] EXCEPT !.plan = p])
      BY <2>1, <2>2, <1>r DEF recordVerificationPlan, PlanWritable, Attempt, InOrder
    <3> QED BY <2>1, <2>2, <3>1, <1>r, <1>a DEF recordVerificationPlan, Attempt, Stage
  <2>3. CASE UNCHANGED run /\ (Goto(w, "requirements") \/ Fails(w))
    BY <2>1, <2>3, <1>f, <1>m DEF Stage
  <2> QED BY <1>2, <2>2, <2>3 DEF PersistPlan
<1>3. ASSUME NEW q \in Requirement, PersistRequirement(w, q) PROVE IInv'
  <2> DEFINE new == [run[r] EXCEPT !.persisted = @ \cup {q}]
  <2>1. work[w].pc = "requirements" /\ UNCHANGED <<attempt, alarms, work>> /\ Set(r, new)
        /\ q \in RequirementsOf[run[r].plan]
    BY <1>3 DEF PersistRequirement, recordVerificationRequirement
  <2>2. new \in Attempt /\ InOrder(new) /\ new.verifier = run[r].verifier
    BY <2>1, <1>r DEF Attempt, InOrder
  <2> QED BY <2>1, <2>2, <1>a DEF Stage
<1>4. ASSUME RequirementsPersisted(w) \/ LookUp(w) \/ Capture(w) \/ Validate(w) PROVE IInv'
  BY <1>4, <1>f, <1>m DEF RequirementsPersisted, LookUp, Capture, Validate, Stage
<1>5. ASSUME Crash(w) PROVE IInv'
  BY <1>5, <1>m DEF Crash, Stage
<1>6. ASSUME Interrupt(w) PROVE IInv'
  <2> DEFINE step == [work[w] EXCEPT !.finalizes = TRUE,
                        !.pc = IF work[w].pc \in {"capture", "candidate", "fail", "release"}
                               THEN "release" ELSE "finalize"]
  <2>1. step \in Work /\ step.run = r /\ step.pc \in {"release", "finalize"}
    BY <1>t DEF TypeOK, Work, Stage
  <2>2. work[w].pc # "idle" /\ UNCHANGED <<attempt, run, alarms>> /\ work' = [work EXCEPT ![w] = step]
    BY <1>6 DEF Interrupt, Active
  <2> QED BY <2>1, <2>2, <1>r, DriverMoves
<1>7. ASSUME ClaimFreeze(w) PROVE IInv'
  <2>1. work[w].pc # "idle" /\ UNCHANGED <<attempt, alarms>>
    BY <1>7 DEF ClaimFreeze
  <2>2. CASE claimCandidateFreeze(r, w) /\ Goto(w, "capture")
    <3> DEFINE new == [run[r] EXCEPT !.freezer = w, !.freezing = TRUE]
    <3>1. new \in Attempt /\ InOrder(new) /\ new.verifier = run[r].verifier
      BY <2>1, <2>2, <1>r DEF claimCandidateFreeze, FreezeGranted, Planned, Attempt, InOrder
    <3> QED BY <2>1, <2>2, <3>1, <1>a DEF claimCandidateFreeze, Stage
  <2>3. CASE UNCHANGED run /\ Goto(w, "done")
    BY <2>1, <2>3, <1>m DEF Stage
  <2> QED BY <1>7, <2>2, <2>3 DEF ClaimFreeze
<1>8. ASSUME FailFreeze(w) PROVE IInv'
  <2>1. work[w].pc # "idle" /\ UNCHANGED <<attempt, alarms>> /\ Goto(w, "release")
    BY <1>8 DEF FailFreeze
  <2>2. CASE failCandidateFreeze(r, w)
    <3> DEFINE new == [run[r] EXCEPT !.status = "failed", !.freezer = NoDriver, !.freezing = FALSE]
    <3>1. new \in Attempt /\ InOrder(new) /\ new.verifier = run[r].verifier
      BY <2>1, <1>r DEF Attempt, InOrder, RunStatus
    <3> QED BY <2>1, <2>2, <3>1, <1>a DEF failCandidateFreeze, Stage
  <2>3. CASE UNCHANGED run
    BY <2>1, <2>3, <1>m DEF Stage
  <2> QED BY <1>8, <2>2, <2>3 DEF FailFreeze
<1>9. ASSUME ReleaseFreeze(w) PROVE IInv'
  <2>1. work[w].pc # "idle" /\ UNCHANGED <<attempt, alarms>> /\ Fails(w)
    BY <1>9 DEF ReleaseFreeze
  <2>2. CASE releaseCandidateFreeze(r, w)
    <3> DEFINE new == [run[r] EXCEPT !.freezer = NoDriver, !.freezing = FALSE]
    <3>1. new \in Attempt /\ InOrder(new) /\ new.verifier = run[r].verifier
      BY <2>1, <1>r DEF Attempt, InOrder
    <3>2. Set(r, new)
      BY <2>2 DEF releaseCandidateFreeze
    <3> QED BY <2>1, <3>1, <3>2, <1>a, <1>f DEF Stage
  <2>3. CASE UNCHANGED run
    BY <2>1, <2>3, <1>m, <1>f DEF Stage
  <2> QED BY <1>9, <2>2, <2>3 DEF ReleaseFreeze
<1>10. ASSUME RecordCandidate(w) PROVE IInv'
  <2>1. work[w].pc # "idle" /\ UNCHANGED <<attempt, alarms>>
    BY <1>10 DEF RecordCandidate
  <2>2. CASE recordCandidatePatchSet(r, w) /\ Goto(w, "dispatch")
    <3> DEFINE new == [run[r] EXCEPT !.candidate = TRUE, !.freezer = NoDriver, !.freezing = FALSE]
    <3>1. run[r].freezer # NoDriver /\ Set(r, new)
      BY <2>2, DispatchConstants DEF recordCandidatePatchSet, CandidateAccepted
    <3>2. new \in Attempt /\ InOrder(new) /\ new.verifier = run[r].verifier
      BY <2>1, <3>1, <1>r DEF Attempt, InOrder
    <3> QED BY <2>1, <2>2, <3>1, <3>2, <1>a DEF Stage
  <2>3. CASE UNCHANGED run /\ Goto(w, "release")
    BY <2>1, <2>3, <1>m DEF Stage
  <2> QED BY <1>10, <2>2, <2>3 DEF RecordCandidate
<1>11. ASSUME ClaimDispatch(w) PROVE IInv'
  <2>1. work[w].pc # "idle" /\ UNCHANGED <<attempt, alarms>>
    BY <1>11 DEF ClaimDispatch
  <2>2. CASE claimIncomingDispatch(r, w) /\ Goto(w, "validate")
    <3> DEFINE new == [run[r] EXCEPT !.status = "running", !.dispatcher = w, !.dispatching = TRUE]
    <3>1. run[r].candidate /\ run[r].verifier = NoDriver /\ Set(r, new)
      BY <2>2 DEF claimIncomingDispatch, DispatchGranted
    <3>2. new \in Attempt /\ InOrder(new) /\ new.verifier = run[r].verifier
      BY <2>1, <3>1, <1>r, DispatchConstants DEF Attempt, InOrder, RunStatus
    <3> QED BY <2>1, <2>2, <3>1, <3>2, <1>a DEF Stage
  <2>3. CASE UNCHANGED run /\ Goto(w, "done")
    BY <2>1, <2>3, <1>m DEF Stage
  <2> QED BY <1>11, <2>2, <2>3 DEF ClaimDispatch
<1>12. ASSUME StartPlan(w) PROVE IInv'
  <2>1. work[w].pc # "idle" /\ UNCHANGED attempt
    BY <1>12 DEF StartPlan
  <2>2. CASE startIncomingVerificationPlan(r, w) /\ Goto(w, "verify")
    <3> DEFINE new == [run[r] EXCEPT !.verifier = w]
    <3>1. /\ run[r].dispatcher = w /\ run[r].verifier = NoDriver
          /\ run' = [run EXCEPT ![r] = new] /\ alarms' = alarms \cup {<<r, w>>}
      BY <2>2 DEF startIncomingVerificationPlan, StartGranted, Set
    <3>2. new \in Attempt /\ InOrder(new) /\ new.verifier = w
      BY <2>1, <3>1, <1>r, DispatchConstants DEF Attempt, InOrder
    <3>3. alarms' \in SUBSET (Run \X Driver)
      BY <2>1, <3>1, <1>r, <1>t DEF TypeOK
    <3>4. /\ work' \in [Driver -> Work]
          /\ work'[w].pc = "verify" /\ work'[w].run = r
          /\ \A v \in Driver \ {w} : work'[v] = work[v]
      BY <2>1, <2>2, <1>t, GotoType DEF Stage
    <3>5. \A v \in Driver :
             /\ work'[v].pc # "idle" => work'[v].run \in Run /\ Created(work'[v].run)
             /\ work'[v].pc = "verify" =>
                  \/ work[v].pc = "verify" /\ work'[v].run = work[v].run
                  \/ work'[v].run = r /\ new.verifier = v
      BY <2>1, <3>2, <3>4, <1>r, <1>t DEF DriverHasAttempt
    <3>6. r \in Run /\ (run[r].verifier # NoDriver => new.verifier = run[r].verifier)
      BY <2>1, <3>1, <1>r
    <3> HIDE DEF new, r
    <3> QED BY <2>1, <3>1, <3>2, <3>3, <3>4, <3>5, <3>6, AttemptStep
  <2>3. CASE UNCHANGED <<run, alarms>> /\ Fails(w)
    BY <2>1, <2>3, <1>m, <1>f DEF Stage
  <2> QED BY <1>12, <2>2, <2>3 DEF StartPlan
<1>13. ASSUME Verify(w) PROVE IInv'
  <2>1. work[w].pc = "verify" /\ UNCHANGED <<attempt, alarms>>
    BY <1>13 DEF Verify
  <2>2. CASE recordPolicyDecision(r) /\ Goto(w, "done")
    <3> DEFINE new == [run[r] EXCEPT !.status = "reviewed"]
    <3>1. run[r].verifier = w
      BY <2>1 DEF IInv, VerifierStarted
    <3>2. new \in Attempt /\ InOrder(new) /\ new.verifier = run[r].verifier
      BY <2>1, <3>1, <1>r, DispatchConstants DEF Attempt, InOrder, RunStatus
    <3> QED BY <2>1, <2>2, <3>2, <1>a DEF recordPolicyDecision, Patch, Stage
  <2>3. CASE UNCHANGED run /\ (Fails(w) \/ Goto(w, "done"))
    BY <2>1, <2>3, <1>m, <1>f DEF Stage
  <2> QED BY <1>13, <2>2, <2>3 DEF Verify
<1>14. ASSUME Finalize(w) PROVE IInv'
  <2>1. work[w].pc # "idle" /\ UNCHANGED <<attempt, alarms>> /\ Goto(w, "done")
    BY <1>14 DEF Finalize
  <2>2. CASE markWorkflowExecutionFailed(r, w)
    <3> DEFINE new == [run[r] EXCEPT !.status = "failed"]
    <3>1. new \in Attempt /\ InOrder(new) /\ new.verifier = run[r].verifier
      BY <2>1, <1>r DEF Attempt, InOrder, RunStatus
    <3> QED BY <2>1, <2>2, <3>1, <1>a DEF markWorkflowExecutionFailed, Patch, Stage
  <2>3. CASE UNCHANGED run
    BY <2>1, <2>3, <1>m DEF Stage
  <2> QED BY <1>14, <2>2, <2>3 DEF Finalize
<1> QED
  BY <1>1, <1>2, <1>3, <1>4, <1>5, <1>6, <1>7, <1>8, <1>9, <1>10, <1>11, <1>12, <1>13, <1>14
  DEF DriverStep

\* A number is given to an attempt that had none.
LEMMA NextNumberType ==
    ASSUME TypeOK, NEW r \in Run, NextNumber(r)
    PROVE  /\ attempt' \in [Run -> Nat]
           /\ \A q \in Run : Created(q) => attempt'[q] > 0 \/ q = r
           /\ attempt'[r] > 0
<1>1. Cardinality({q \in Run : Created(q)}) \in Nat
  BY DispatchConstants, FS_Subset, FS_CardinalityType
<1> QED BY <1>1 DEF NextNumber, TypeOK, Created

LEMMA CreateInv ==
    ASSUME IInv, NEW r \in Run, NEW trigger \in Trigger, ~Created(r), NextNumber(r),
           Set(r, NewAttempt(trigger)), UNCHANGED <<work, alarms>>
    PROVE  IInv'
<1> DEFINE new == NewAttempt(trigger)
<1>1. new \in Attempt /\ InOrder(new)
  BY DEF NewAttempt, Attempt, InOrder, RunStatus
<1>2. run' = [run EXCEPT ![r] = new]
  BY DEF Set
<1> HIDE DEF new
<1>3. TypeOK'
  BY <1>1, <1>2, NextNumberType DEF IInv, TypeOK
<1>4. \A q \in Run : InOrder(run'[q])
  BY <1>1, <1>2, InOrderInv DEF IInv, TypeOK
<1>5. FreezeIsPlanned' /\ ExecutedInOrder'
  BY <1>4 DEF InOrder, FreezeIsPlanned, ExecutedInOrder, Planned
<1>6. \A w \in Driver : ~At(w, "idle") =>
         /\ work[w].run \in Run /\ Created(work[w].run) /\ work[w].run # r
         /\ run'[work[w].run] = run[work[w].run]
  BY <1>2 DEF IInv, DriverHasAttempt, TypeOK
<1>7. DriverHasAttempt'
  BY <1>6, NextNumberType DEF IInv, DriverHasAttempt, At, Created
<1>8. VerifierStarted'
  BY <1>6 DEF IInv, VerifierStarted, At
<1> QED BY <1>3, <1>5, <1>7, <1>8 DEF IInv

LEMMA RunStepInv ==
    ASSUME IInv, NEW r \in Run, RunStep(r)
    PROVE  IInv'
<1>r. run[r] \in Attempt /\ InOrder(run[r])
  BY InOrderInv DEF IInv, TypeOK
\* A step that changes the attempt and leaves every driver where it is.
<1>a. ASSUME UNCHANGED <<attempt, work>>, alarms' \in SUBSET alarms,
             NEW new \in Attempt, InOrder(new), Set(r, new), new.verifier = run[r].verifier
      PROVE  IInv'
  <2>1. alarms' \in SUBSET (Run \X Driver) /\ work' \in [Driver -> Work]
    BY <1>a DEF IInv, TypeOK
  <2>2. \A w \in Driver : work'[w].pc # "idle" => work'[w].run \in Run /\ Created(work'[w].run)
    BY <1>a DEF IInv, DriverHasAttempt, At
  <2> QED BY <1>a, <2>1, <2>2, AttemptStep DEF Set
\* ... and the one that ends it.
<1>b. ASSUME UNCHANGED <<attempt, work>>, alarms' \in SUBSET alarms, Patch(r, "failed")
      PROVE  IInv'
  <2> DEFINE new == [run[r] EXCEPT !.status = "failed"]
  <2>1. new \in Attempt /\ InOrder(new) /\ new.verifier = run[r].verifier
    BY <1>r DEF Attempt, InOrder, RunStatus
  <2> QED BY <1>b, <2>1, <1>a DEF Patch
<1>c. UNCHANGED <<attempt, run, work>> /\ alarms' \in SUBSET alarms => IInv'
  <2>1. Set(r, run[r]) <=> UNCHANGED run
    BY DEF IInv, TypeOK, Set
  <2> QED BY <2>1, <1>r, <1>a
<1>1. CASE createFromExternalIntake(r) \/ createRerun(r)
  BY <1>1, CreateInv DEF createFromExternalIntake, createRerun, Trigger
<1>2. CASE terminalizeQueuedGitHubDelivery(r)
  BY <1>2, <1>b DEF terminalizeQueuedGitHubDelivery
<1>3. ASSUME NEW w \in Driver, expireIncomingVerificationDispatch(r, w) PROVE IInv'
  BY <1>3, <1>b, <1>c DEF expireIncomingVerificationDispatch
<1>4. CASE FreezeLeasePasses(r)
  <2> DEFINE new == [run[r] EXCEPT !.freezing = FALSE]
  <2>1. new \in Attempt /\ InOrder(new) /\ new.verifier = run[r].verifier
    BY <1>r DEF Attempt, InOrder
  <2> QED BY <1>4, <2>1, <1>a DEF FreezeLeasePasses
<1>5. CASE DispatchLeasePasses(r)
  <2> DEFINE new == [run[r] EXCEPT !.dispatching = FALSE]
  <2>1. new \in Attempt /\ InOrder(new) /\ new.verifier = run[r].verifier
    BY <1>r DEF Attempt, InOrder
  <2> QED BY <1>5, <2>1, <1>a DEF DispatchLeasePasses
<1> QED BY <1>1, <1>2, <1>3, <1>4, <1>5 DEF RunStep

LEMMA InitInv == Init => IInv
<1> SUFFICES ASSUME Init PROVE IInv
  OBVIOUS
<1>1. NewAttempt("intake") \in Attempt /\ InOrder(NewAttempt("intake"))
  BY DEF NewAttempt, Attempt, InOrder, Trigger, RunStatus
<1>2. TypeOK
  BY <1>1 DEF Init, TypeOK, Work, Stage
<1>3. FreezeIsPlanned /\ ExecutedInOrder
  BY <1>1, InOrderInv DEF Init
<1> QED BY <1>2, <1>3 DEF Init, IInv, DriverHasAttempt, VerifierStarted, At

LEMMA StepInv == IInv /\ [Next]_vars => IInv'
<1> SUFFICES ASSUME IInv, [Next]_vars PROVE IInv'
  OBVIOUS
<1>1. CASE UNCHANGED vars
  BY <1>1 DEF vars, IInv, TypeOK, FreezeIsPlanned, ExecutedInOrder, Planned, DriverHasAttempt,
              VerifierStarted, At, Created
<1> QED BY <1>1, DriverStepInv, RunStepInv DEF Next

-----------------------------------------------------------------------------
\* Types, the order of the stages and what each driver stands on hold together in
\* every reachable state.
THEOREM Invariance == Spec => []IInv
  BY InitInv, StepInv, PTL DEF Spec

\* The tables, leases, drivers and scheduled expirations keep their types.
THEOREM TypeCorrect == Spec => []TypeOK
<1>1. IInv => TypeOK
  BY DEF IInv
<1> QED BY <1>1, Invariance, PTL

\* No attempt runs without a whole plan, a frozen candidate and a claim, and the
\* driver that started it is the one that holds the claim.
THEOREM InOrderAlways == Spec => []ExecutedInOrder
<1>1. IInv => ExecutedInOrder
  BY DEF IInv
<1> QED BY <1>1, Invariance, PTL

\* However leases pass and drivers overtake one another, one driver at most
\* executes the plan of an attempt.
THEOREM SingleVerifier == Spec => []OneVerifier
<1>1. IInv => OneVerifier
  BY DEF IInv, VerifierStarted, OneVerifier
<1> QED BY <1>1, Invariance, PTL
-----------------------------------------------------------------------------
(* What a step may do to one attempt.                                      *)

\* The old and the new state of an attempt under DecidedForGood, ...
Decided(a, b) ==
    /\ a.plan # NoPlan => b.plan = a.plan
    /\ a.candidate => b.candidate
    /\ a.verifier # NoDriver => b.verifier = a.verifier
    /\ a.status \in Finished => b.status = a.status

\* ... and under SupersededStandsStill.
Still(a, b) ==
    /\ b.plan = a.plan
    /\ b.candidate = a.candidate
    /\ b.freezer \in {a.freezer, NoDriver}
    /\ b.dispatcher = a.dispatcher
    /\ b.verifier = a.verifier
    /\ b.status \in {a.status} \cup Finished

\* A step that writes attempt r leaves the others alone.
LEMMA OnlyAttemptWritten ==
    ASSUME TypeOK, NEW r \in Run, NEW new, Set(r, new), NEW q \in Run,
           q = r => Decided(run[r], new) /\ (Latest(r) \/ Still(run[r], new))
    PROVE  Decided(run[q], run'[q]) /\ (Latest(q) \/ Still(run[q], run'[q]))
BY DEF TypeOK, Set, Decided, Still

LEMMA AttemptChange ==
    ASSUME IInv, [Next]_vars, NEW q \in Run, Created(q)
    PROVE  Decided(run[q], run'[q]) /\ (Latest(q) \/ Still(run[q], run'[q]))
<1> DEFINE Goal == Decided(run[q], run'[q]) /\ (Latest(q) \/ Still(run[q], run'[q]))
<1>t. TypeOK /\ DriverHasAttempt
  BY DEF IInv
<1>u. ASSUME UNCHANGED run PROVE Goal
  BY <1>u DEF Decided, Still
<1>1. CASE UNCHANGED vars
  BY <1>1, <1>u DEF vars
<1>2. ASSUME NEW w \in Driver, DriverStep(w) PROVE Goal
  <2> DEFINE r == work[w].run
  <2>r. ASSUME ~At(w, "idle") PROVE r \in Run /\ run[r] \in Attempt
    BY <2>r, <1>t DEF TypeOK, DriverHasAttempt
  <2>1. ASSUME NEW p \in Plan, recordVerificationPlan(r, p), ~At(w, "idle") PROVE Goal
    <3> DEFINE new == [run[r] EXCEPT !.plan = p]
    <3>1. Set(r, new) /\ Latest(r) /\ Decided(run[r], new)
      BY <2>1, <2>r DEF recordVerificationPlan, PlanWritable, Decided, Attempt
    <3> HIDE DEF new
    <3> QED BY <3>1, <2>1, <2>r, <1>t, OnlyAttemptWritten
  <2>2. ASSUME NEW x \in Requirement, recordVerificationRequirement(r, x), ~At(w, "idle") PROVE Goal
    <3> DEFINE new == [run[r] EXCEPT !.persisted = @ \cup {x}]
    <3>1. Set(r, new) /\ Still(run[r], new) /\ Decided(run[r], new)
      BY <2>2, <2>r DEF recordVerificationRequirement, Decided, Still, Attempt
    <3> HIDE DEF new
    <3> QED BY <3>1, <2>2, <2>r, <1>t, OnlyAttemptWritten
  <2>3. ASSUME claimCandidateFreeze(r, w), ~At(w, "idle") PROVE Goal
    <3> DEFINE new == [run[r] EXCEPT !.freezer = w, !.freezing = TRUE]
    <3>1. Set(r, new) /\ Latest(r) /\ Decided(run[r], new)
      BY <2>3, <2>r DEF claimCandidateFreeze, FreezeGranted, Decided, Attempt
    <3> HIDE DEF new
    <3> QED BY <3>1, <2>3, <2>r, <1>t, OnlyAttemptWritten
  <2>4. ASSUME failCandidateFreeze(r, w), ~At(w, "idle") PROVE Goal
    <3> DEFINE new == [run[r] EXCEPT !.status = "failed", !.freezer = NoDriver, !.freezing = FALSE]
    <3>1. Set(r, new) /\ Still(run[r], new) /\ Decided(run[r], new)
      BY <2>4, <2>r DEF failCandidateFreeze, FreezeFailable, Decided, Still, Attempt, Finished
    <3> HIDE DEF new
    <3> QED BY <3>1, <2>4, <2>r, <1>t, OnlyAttemptWritten
  <2>5. ASSUME releaseCandidateFreeze(r, w), ~At(w, "idle") PROVE Goal
    <3> DEFINE new == [run[r] EXCEPT !.freezer = NoDriver, !.freezing = FALSE]
    <3>1. Set(r, new) /\ Still(run[r], new) /\ Decided(run[r], new)
      BY <2>5, <2>r DEF releaseCandidateFreeze, Decided, Still, Attempt
    <3> HIDE DEF new
    <3> QED BY <3>1, <2>5, <2>r, <1>t, OnlyAttemptWritten
  <2>6. ASSUME recordCandidatePatchSet(r, w), ~At(w, "idle") PROVE Goal
    <3> DEFINE new == [run[r] EXCEPT !.candidate = TRUE, !.freezer = NoDriver, !.freezing = FALSE]
    <3>1. Set(r, new) /\ Latest(r) /\ Decided(run[r], new)
      BY <2>6, <2>r DEF recordCandidatePatchSet, CandidateAccepted, Decided, Attempt
    <3> HIDE DEF new
    <3> QED BY <3>1, <2>6, <2>r, <1>t, OnlyAttemptWritten
  <2>7. ASSUME claimIncomingDispatch(r, w), ~At(w, "idle") PROVE Goal
    <3> DEFINE new == [run[r] EXCEPT !.status = "running", !.dispatcher = w, !.dispatching = TRUE]
    <3>1. Set(r, new) /\ Latest(r) /\ Decided(run[r], new)
      BY <2>7, <2>r DEF claimIncomingDispatch, DispatchGranted, Decided, Attempt, Finished
    <3> HIDE DEF new
    <3> QED BY <3>1, <2>7, <2>r, <1>t, OnlyAttemptWritten
  <2>8. ASSUME startIncomingVerificationPlan(r, w), ~At(w, "idle") PROVE Goal
    <3> DEFINE new == [run[r] EXCEPT !.verifier = w]
    <3>1. Set(r, new) /\ Latest(r) /\ Decided(run[r], new)
      BY <2>8, <2>r DEF startIncomingVerificationPlan, StartGranted, Decided, Attempt
    <3> HIDE DEF new
    <3> QED BY <3>1, <2>8, <2>r, <1>t, OnlyAttemptWritten
  <2>9. ASSUME recordPolicyDecision(r) \/ markWorkflowExecutionFailed(r, w), ~At(w, "idle") PROVE Goal
    <3>1. PICK status \in Finished : Patch(r, status) /\ ~Over(r)
      BY <2>9 DEF recordPolicyDecision, markWorkflowExecutionFailed, ExecutionFailable, Over, Finished
    <3> DEFINE new == [run[r] EXCEPT !.status = status]
    <3>2. Set(r, new) /\ Still(run[r], new) /\ Decided(run[r], new)
      BY <3>1, <2>9, <2>r DEF Patch, Over, Decided, Still, Attempt
    <3> HIDE DEF new
    <3> QED BY <3>2, <2>9, <2>r, <1>t, OnlyAttemptWritten
  <2>a. CASE \E x \in Run : Begin(w, x)
    BY <2>a, <1>u DEF Begin
  <2>b. CASE \E p \in Plan : PersistPlan(w, p)
    BY <2>b, <2>1, <1>u DEF PersistPlan, At
  <2>c. CASE \E x \in Requirement : PersistRequirement(w, x)
    BY <2>c, <2>2 DEF PersistRequirement, At
  <2>d. CASE \/ RequirementsPersisted(w) \/ LookUp(w) \/ Capture(w) \/ Validate(w)
             \/ Interrupt(w) \/ Crash(w)
    BY <2>d, <1>u DEF RequirementsPersisted, LookUp, Capture, Validate, Interrupt, Crash
  <2>e. CASE ClaimFreeze(w)
    BY <2>e, <2>3, <1>u DEF ClaimFreeze, At
  <2>f. CASE FailFreeze(w) \/ ReleaseFreeze(w) \/ RecordCandidate(w)
    BY <2>f, <2>4, <2>5, <2>6, <1>u DEF FailFreeze, ReleaseFreeze, RecordCandidate, At
  <2>g. CASE ClaimDispatch(w) \/ StartPlan(w)
    BY <2>g, <2>7, <2>8, <1>u DEF ClaimDispatch, StartPlan, At
  <2>h. CASE Verify(w) \/ Finalize(w)
    BY <2>h, <2>9, <1>u DEF Verify, Finalize, At
  <2> HIDE DEF Goal
  <2> QED BY <1>2, <2>a, <2>b, <2>c, <2>d, <2>e, <2>f, <2>g, <2>h DEF DriverStep
<1>3. ASSUME NEW r \in Run, RunStep(r) PROVE Goal
  <2>r. run[r] \in Attempt
    BY <1>t DEF TypeOK
  <2>1. CASE createFromExternalIntake(r) \/ createRerun(r)
    <3>1. PICK trigger \in Trigger : ~Created(r) /\ Set(r, NewAttempt(trigger))
      BY <2>1 DEF createFromExternalIntake, createRerun, Trigger
    <3> QED BY <3>1, <1>t, OnlyAttemptWritten
  <2>2. ASSUME NEW status \in Finished, Patch(r, status), ~Over(r) PROVE Goal
    <3> DEFINE new == [run[r] EXCEPT !.status = status]
    <3>2. Set(r, new) /\ Still(run[r], new) /\ Decided(run[r], new)
      BY <2>2, <2>r DEF Patch, Over, Decided, Still, Attempt
    <3> HIDE DEF new
    <3> QED BY <3>2, <1>t, OnlyAttemptWritten
  <2>3. CASE terminalizeQueuedGitHubDelivery(r)
    BY <2>3, <2>2 DEF terminalizeQueuedGitHubDelivery, Finished
  <2>4. CASE \E w \in Driver : expireIncomingVerificationDispatch(r, w)
    BY <2>4, <2>2, <1>u DEF expireIncomingVerificationDispatch, Over, Finished
  <2>5. CASE FreezeLeasePasses(r) \/ DispatchLeasePasses(r)
    <3>1. PICK new : Set(r, new) /\ Still(run[r], new) /\ Decided(run[r], new)
      BY <2>5, <2>r DEF FreezeLeasePasses, DispatchLeasePasses, Decided, Still, Attempt
    <3> QED BY <3>1, <1>t, OnlyAttemptWritten
  <2> HIDE DEF Goal
  <2> QED BY <1>3, <2>1, <2>3, <2>4, <2>5 DEF RunStep
<1> QED BY <1>1, <1>2, <1>3 DEF Next

\* Only its own steps move a driver.
LEMMA OwnSteps ==
    ASSUME IInv, [Next]_vars, NEW w \in Driver, work'[w] # work[w]
    PROVE  DriverStep(w)
<1>1. ASSUME NEW v \in Driver, DriverStep(v) PROVE work' = [work EXCEPT ![v] = work'[v]]
  BY <1>1 DEF IInv, TypeOK, DriverStep, Begin, PersistPlan, PersistRequirement,
     RequirementsPersisted, LookUp, ClaimFreeze, Capture, FailFreeze, ReleaseFreeze,
     RecordCandidate, ClaimDispatch, Validate, StartPlan, Verify, Finalize, Interrupt, Crash,
     Goto, Fails
<1>2. ASSUME NEW r \in Run, RunStep(r) PROVE UNCHANGED work
  BY <1>2 DEF RunStep, createFromExternalIntake, createRerun, terminalizeQueuedGitHubDelivery,
     expireIncomingVerificationDispatch, FreezeLeasePasses, DispatchLeasePasses
<1> QED BY <1>1, <1>2 DEF Next, vars, IInv, TypeOK

-----------------------------------------------------------------------------
\* No step takes back a plan, a candidate, a start or an end.
THEOREM DecisionsLast == Spec => DecidedForGood
<1> DEFINE Keeps == \A r \in Run : Created(r) =>
        /\ run[r].plan # NoPlan => run'[r].plan = run[r].plan
        /\ run[r].candidate => run'[r].candidate
        /\ run[r].verifier # NoDriver => run'[r].verifier = run[r].verifier
        /\ Over(r) => run'[r].status = run[r].status
<1>1. IInv /\ [Next]_vars => [Keeps]_vars
  BY AttemptChange DEF Decided, Over
<1>2. [][Keeps]_vars <=> DecidedForGood
  BY DEF DecidedForGood
<1> HIDE DEF Keeps
<1> QED BY <1>1, <1>2, Invariance, PTL DEF Spec

\* A superseded attempt gets no plan, candidate, lease, dispatch or start.
THEOREM SupersededIsLeftAlone == Spec => SupersededStandsStill
<1> DEFINE Keeps == \A r \in Run : Created(r) /\ ~Latest(r) =>
        /\ run'[r].plan = run[r].plan
        /\ run'[r].candidate = run[r].candidate
        /\ run'[r].freezer \in {run[r].freezer, NoDriver}
        /\ run'[r].dispatcher = run[r].dispatcher
        /\ run'[r].verifier = run[r].verifier
        /\ run'[r].status \in {run[r].status} \cup Finished
<1>1. IInv /\ [Next]_vars => [Keeps]_vars
  BY AttemptChange DEF Still
<1>2. [][Keeps]_vars <=> SupersededStandsStill
  BY DEF SupersededStandsStill
<1> HIDE DEF Keeps
<1> QED BY <1>1, <1>2, Invariance, PTL DEF Spec

\* A driver without its freeze lease writes nothing of its attempt.
THEOREM LostLeaseIsInert == Spec => StaleCaptureIsInert
<1> DEFINE Inert == \A w \in Driver :
        work[w].pc \in {"capture", "fail", "candidate", "release"} /\ work'[w] # work[w]
            => LET r == work[w].run
               IN  run[r].freezer # w => run'[r] = run[r]
<1>1. ASSUME IInv, [Next]_vars PROVE Inert
  <2> SUFFICES ASSUME NEW w \in Driver,
                      work[w].pc \in {"capture", "fail", "candidate", "release"},
                      work'[w] # work[w], run[work[w].run].freezer # w
               PROVE  run'[work[w].run] = run[work[w].run]
    OBVIOUS
  <2>1. DriverStep(w)
    BY <1>1, OwnSteps
  <2> QED BY <2>1 DEF DriverStep, Begin, PersistPlan, PersistRequirement,
         RequirementsPersisted, LookUp, ClaimFreeze, Capture, FailFreeze, ReleaseFreeze,
         RecordCandidate, ClaimDispatch, Validate, StartPlan, Verify, Finalize, Interrupt, Crash,
         failCandidateFreeze, FreezeFailable, releaseCandidateFreeze, recordCandidatePatchSet,
         CandidateAccepted, At
<1>2. IInv /\ [Next]_vars => [Inert]_vars
  BY <1>1
<1>3. [][Inert]_vars <=> StaleCaptureIsInert
  BY DEF StaleCaptureIsInert
<1> HIDE DEF Inert
<1> QED BY <1>2, <1>3, Invariance, PTL DEF Spec
=============================================================================
