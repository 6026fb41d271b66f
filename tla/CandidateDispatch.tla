-------------------------- MODULE CandidateDispatch --------------------------
(***************************************************************************)
(* The attempts of one pull request, from the moment a source-control      *)
(* worker has resolved an attempt to the moment its verification plan has  *)
(* started: the plan is persisted, the candidate is frozen under a lease,  *)
(* the dispatch is claimed under a second lease, and the plan is started   *)
(* once.  A newer attempt supersedes the older ones at any time.           *)
(*                                                                         *)
(* A driver is one execution of handleGitHubWebhook or                     *)
(* executeWorkflowRerun past intake.  It makes up one freeze lease token   *)
(* and one dispatch token, so the driver itself stands for both.  Each of  *)
(* its calls is one step; between two of them it may crash, be interrupted *)
(* or be so slow that its leases pass.                                     *)
(*                                                                         *)
(* Time is abstracted to two facts per attempt: whether the freeze lease   *)
(* and the dispatch lease were taken less than 300 seconds ago.            *)
(***************************************************************************)
EXTENDS Naturals, FiniteSets

CONSTANTS
    Run,            \* workflow runs: the attempts of one pull request
    Driver,         \* executions of the source-control handler
    Plan,           \* verification plans a deployment may resolve
    Requirement,    \* keys of verification requirements
    RequirementsOf, \* plan -> its requirements
    NoDriver, NoPlan, NoRun

ASSUME DispatchConstants ==
    /\ IsFiniteSet(Run)
    /\ NoDriver \notin Driver
    /\ NoPlan \notin Plan
    /\ NoRun \notin Run
    /\ RequirementsOf \in [Plan -> SUBSET Requirement]

VARIABLES
    attempt,        \* run -> attemptNumber, 0 before the run is created
    run,            \* workflowRuns with its plan, requirements and candidate
    work,           \* driver -> where it stands
    alarms          \* scheduled expirations: pairs of a run and its driver

vars == <<attempt, run, work, alarms>>

Trigger == {"intake", "rerun"}
RunStatus == {"queued", "running", "reviewed", "failed"}
Finished == {"reviewed", "failed"}

\* freezer holds the token of the freeze lease and freezing says whether the lease is
\* younger than 300 seconds; dispatcher and dispatching are the same for the
\* dispatch, and verifier is the dispatch token the plan was started with.
Attempt ==
    [trigger : Trigger, status : RunStatus, plan : Plan \cup {NoPlan},
     persisted : SUBSET Requirement, candidate : BOOLEAN,
     freezer : Driver \cup {NoDriver}, freezing : BOOLEAN,
     dispatcher : Driver \cup {NoDriver}, dispatching : BOOLEAN,
     verifier : Driver \cup {NoDriver}]

Stage == {"idle", "plan", "requirements", "lookup", "freeze", "capture", "fail", "release",
          "candidate", "dispatch", "validate", "start", "verify", "finalize", "done"}

Work == [pc : Stage, run : Run \cup {NoRun}, finalizes : BOOLEAN]

TypeOK ==
    /\ attempt \in [Run -> Nat]
    /\ run \in [Run -> Attempt]
    /\ work \in [Driver -> Work]
    /\ alarms \in SUBSET (Run \X Driver)

NewAttempt(trigger) ==
    [trigger |-> trigger, status |-> "queued", plan |-> NoPlan, persisted |-> {},
     candidate |-> FALSE, freezer |-> NoDriver, freezing |-> FALSE,
     dispatcher |-> NoDriver, dispatching |-> FALSE, verifier |-> NoDriver]

Init ==
    /\ attempt = [r \in Run |-> 0]
    /\ run = [r \in Run |-> NewAttempt("intake")]
    /\ work = [w \in Driver |-> [pc |-> "idle", run |-> NoRun, finalizes |-> FALSE]]
    /\ alarms = {}

-----------------------------------------------------------------------------
Created(r) == attempt[r] > 0
Over(r) == run[r].status \in Finished

\* isLatestWorkflowAttempt: index by_root_attempt, descending.
Latest(r) == Created(r) /\ \A q \in Run : attempt[q] <= attempt[r]

\* The run holds a plan and every requirement of it.
Planned(r) ==
    /\ run[r].plan # NoPlan
    /\ run[r].persisted = RequirementsOf[run[r].plan]

Set(r, fields) == run' = [run EXCEPT ![r] = fields]
Patch(r, status) == Set(r, [run[r] EXCEPT !.status = status])

At(w, pc) == work[w].pc = pc
Goto(w, pc) == work' = [work EXCEPT ![w] = [@ EXCEPT !.pc = pc]]

\* The driver's program fails: only the rerun route then marks the run failed.
Fails(w) == Goto(w, IF work[w].finalizes THEN "finalize" ELSE "done")

-----------------------------------------------------------------------------
(* Attempts are created                                                    *)

NextNumber(r) == attempt' = [attempt EXCEPT ![r] = Cardinality({q \in Run : Created(q)}) + 1]

\* A pull request event that passed the ordering checks of intake; the attempt
\* it supersedes may still be queued or running.
createFromExternalIntake(r) ==
    /\ ~Created(r)
    /\ NextNumber(r)
    /\ Set(r, NewAttempt("intake"))
    /\ UNCHANGED <<work, alarms>>

createRerun(r) ==
    /\ ~Created(r)
    /\ \E parent \in Run : Latest(parent) /\ Over(parent)
    /\ NextNumber(r)
    /\ Set(r, NewAttempt("rerun"))
    /\ UNCHANGED <<work, alarms>>

\* The webhook handler goes on unless intake answered with a finished run; the
\* rerun route asks for a queued one.
Begin(w, r) ==
    /\ At(w, "idle")
    /\ Created(r)
    /\ ~Over(r)
    /\ run[r].trigger = "rerun" => run[r].status = "queued"
    /\ work' = [work EXCEPT ![w] = [pc |-> "plan", run |-> r, finalizes |-> run[r].trigger = "rerun"]]
    /\ UNCHANGED <<attempt, run, alarms>>

-----------------------------------------------------------------------------
(* The plan: PersistConfiguredVerificationRequirements                     *)

\* Faulty: a plan may be replaced until the freeze.
PlanWritableUntilFreeze(r) ==
    Latest(r) /\ run[r].status = "queued" /\ run[r].freezer = NoDriver

\* The first write of a plan, before any freeze.
PlanWritable(r) ==
    /\ run[r].plan = NoPlan
    /\ Latest(r)
    /\ run[r].status = "queued"
    /\ run[r].freezer = NoDriver

recordVerificationPlan(r, p) ==
    /\ PlanWritable(r)
    /\ Set(r, [run[r] EXCEPT !.plan = p])

\* p is what the deployment resolves to as this driver runs.
PersistPlan(w, p) ==
    LET r == work[w].run
    IN  /\ At(w, "plan")
        /\ \/ recordVerificationPlan(r, p) /\ Goto(w, "requirements")
           \/ run[r].plan = p /\ UNCHANGED run /\ Goto(w, "requirements")
           \/ run[r].plan # p /\ ~PlanWritable(r) /\ UNCHANGED run /\ Fails(w)
        /\ UNCHANGED <<attempt, alarms>>

recordVerificationRequirement(r, q) ==
    /\ q \in RequirementsOf[run[r].plan]
    /\ Set(r, [run[r] EXCEPT !.persisted = @ \cup {q}])

PersistRequirement(w, q) ==
    LET r == work[w].run
    IN  /\ At(w, "requirements")
        /\ q \notin run[r].persisted
        /\ recordVerificationRequirement(r, q)
        /\ UNCHANGED <<attempt, work, alarms>>

RequirementsPersisted(w) ==
    /\ At(w, "requirements")
    /\ Planned(work[w].run)
    /\ Goto(w, "lookup")
    /\ UNCHANGED <<attempt, run, alarms>>

-----------------------------------------------------------------------------
(* The freeze: FreezeIncomingPullRequestCandidate                          *)

LookUp(w) ==
    /\ At(w, "lookup")
    /\ Goto(w, IF run[work[w].run].candidate THEN "dispatch" ELSE "freeze")
    /\ UNCHANGED <<attempt, run, alarms>>

FreezeGranted(r) ==
    /\ run[r].status = "queued"
    /\ Latest(r)
    /\ Planned(r)
    /\ ~run[r].candidate
    /\ ~(run[r].freezer # NoDriver /\ run[r].freezing)

claimCandidateFreeze(r, w) ==
    /\ FreezeGranted(r)
    /\ Set(r, [run[r] EXCEPT !.freezer = w, !.freezing = TRUE])

\* Refused: somebody else is at it, and the delivery is retried later.
ClaimFreeze(w) ==
    LET r == work[w].run
    IN  /\ At(w, "freeze")
        /\ \/ claimCandidateFreeze(r, w) /\ Goto(w, "capture")
           \/ ~FreezeGranted(r) /\ UNCHANGED run /\ Goto(w, "done")
        /\ UNCHANGED <<attempt, alarms>>

\* The comparison is fetched and stored, or it fails for good, or for now.
Capture(w) ==
    /\ At(w, "capture")
    /\ \E next \in {"candidate", "fail", "release"} : Goto(w, next)
    /\ UNCHANGED <<attempt, run, alarms>>

FreezeFailable(r, w) == run[r].status = "queued" /\ run[r].freezer = w

failCandidateFreeze(r, w) ==
    /\ FreezeFailable(r, w)
    /\ Set(r, [run[r] EXCEPT !.status = "failed", !.freezer = NoDriver, !.freezing = FALSE])

FailFreeze(w) ==
    LET r == work[w].run
    IN  /\ At(w, "fail")
        /\ \/ failCandidateFreeze(r, w)
           \/ ~FreezeFailable(r, w) /\ UNCHANGED run
        /\ Goto(w, "release")
        /\ UNCHANGED <<attempt, alarms>>

releaseCandidateFreeze(r, w) ==
    /\ run[r].freezer = w
    /\ Set(r, [run[r] EXCEPT !.freezer = NoDriver, !.freezing = FALSE])

ReleaseFreeze(w) ==
    LET r == work[w].run
    IN  /\ At(w, "release")
        /\ \/ releaseCandidateFreeze(r, w)
           \/ run[r].freezer # w /\ UNCHANGED run
        /\ Fails(w)
        /\ UNCHANGED <<attempt, alarms>>

\* Faulty: takes a candidate from whoever captured it.
CandidateAcceptedFromAnyone(r, w) == Latest(r) /\ ~run[r].candidate

\* The mutation asks for the latest attempt and its own lease token, whatever the
\* age of the lease and the status of the run.
CandidateAccepted(r, w) == Latest(r) /\ run[r].freezer = w /\ ~run[r].candidate

recordCandidatePatchSet(r, w) ==
    /\ CandidateAccepted(r, w)
    /\ Set(r, [run[r] EXCEPT !.candidate = TRUE, !.freezer = NoDriver, !.freezing = FALSE])

RecordCandidate(w) ==
    LET r == work[w].run
    IN  /\ At(w, "candidate")
        /\ \/ recordCandidatePatchSet(r, w) /\ Goto(w, "dispatch")
           \/ ~CandidateAccepted(r, w) /\ UNCHANGED run /\ Goto(w, "release")
        /\ UNCHANGED <<attempt, alarms>>

-----------------------------------------------------------------------------
(* The dispatch: ClaimIncomingPullRequestDispatch and the start of         *)
(* RunIncomingVerificationPlan                                             *)

\* Faulty: grants the dispatch of a superseded attempt.
DispatchGrantedToAnyAttempt(r) ==
    /\ run[r].candidate
    /\ run[r].verifier = NoDriver
    /\ run[r].status \in {"queued", "running"}
    /\ ~(run[r].status = "running" /\ run[r].dispatching)

\* Faulty: takes over a dispatch whose plan has started.
DispatchGrantedAfterStart(r) ==
    /\ run[r].candidate
    /\ Latest(r)
    /\ run[r].status \in {"queued", "running"}
    /\ ~(run[r].status = "running" /\ run[r].dispatching)

DispatchGranted(r) ==
    /\ run[r].candidate
    /\ Latest(r)
    /\ run[r].verifier = NoDriver
    /\ run[r].status \in {"queued", "running"}
    /\ ~(run[r].status = "running" /\ run[r].dispatching)

claimIncomingDispatch(r, w) ==
    /\ DispatchGranted(r)
    /\ Set(r, [run[r] EXCEPT !.status = "running", !.dispatcher = w, !.dispatching = TRUE])

ClaimDispatch(w) ==
    LET r == work[w].run
    IN  /\ At(w, "dispatch")
        /\ \/ claimIncomingDispatch(r, w) /\ Goto(w, "validate")
           \/ ~DispatchGranted(r) /\ UNCHANGED run /\ Goto(w, "done")
        /\ UNCHANGED <<attempt, alarms>>

validateIncomingDispatch(r, w) ==
    /\ Latest(r)
    /\ run[r].status = "running"
    /\ run[r].dispatcher = w
    /\ run[r].verifier # NoDriver \/ run[r].dispatching

Validate(w) ==
    /\ At(w, "validate")
    /\ IF validateIncomingDispatch(work[w].run, w) THEN Goto(w, "start") ELSE Fails(w)
    /\ UNCHANGED <<attempt, run, alarms>>

\* Faulty: relies on the validation the driver has just made.
StartGrantedUnfenced(r, w) == run[r].status = "running" /\ Latest(r) /\ run[r].dispatching

StartGranted(r, w) ==
    /\ run[r].status = "running"
    /\ Latest(r)
    /\ run[r].verifier = NoDriver
    /\ run[r].dispatcher = w
    /\ run[r].dispatching

\* Faulty: schedules no expiration.
startIncomingVerificationPlanOnly(r, w) ==
    /\ StartGranted(r, w)
    /\ Set(r, [run[r] EXCEPT !.verifier = w])
    /\ UNCHANGED alarms

startIncomingVerificationPlan(r, w) ==
    /\ StartGranted(r, w)
    /\ Set(r, [run[r] EXCEPT !.verifier = w])
    /\ alarms' = alarms \cup {<<r, w>>}

\* A driver asks once, so the replay of an established start does not occur.
StartPlan(w) ==
    LET r == work[w].run
    IN  /\ At(w, "start")
        /\ \/ startIncomingVerificationPlan(r, w) /\ Goto(w, "verify")
           \/ ~StartGranted(r, w) /\ UNCHANGED <<run, alarms>> /\ Fails(w)
        /\ UNCHANGED attempt

-----------------------------------------------------------------------------
(* The end of an execution                                                 *)

\* All groups have a result: review and policy, which no lease or lineage guards.
recordPolicyDecision(r) == run[r].status = "running" /\ Patch(r, "reviewed")

Verify(w) ==
    LET r == work[w].run
    IN  /\ At(w, "verify")
        /\ \/ recordPolicyDecision(r) /\ Goto(w, "done")
           \/ UNCHANGED run /\ Fails(w)
           \/ UNCHANGED run /\ Goto(w, "done")
        /\ UNCHANGED <<attempt, alarms>>

\* Either nobody has claimed the dispatch yet, or the caller has.
ExecutionFailable(r, w) ==
    \/ run[r].status = "queued" /\ run[r].dispatcher = NoDriver
    \/ run[r].status = "running" /\ run[r].dispatcher = w

\* Faulty: stores a status the schema does not have.
markWorkflowExecutionCancelled(r, w) == ExecutionFailable(r, w) /\ Patch(r, "cancelled")

markWorkflowExecutionFailed(r, w) == ExecutionFailable(r, w) /\ Patch(r, "failed")

Finalize(w) ==
    LET r == work[w].run
    IN  /\ At(w, "finalize")
        /\ \/ markWorkflowExecutionFailed(r, w)
           \/ ~ExecutionFailable(r, w) /\ UNCHANGED run
        /\ Goto(w, "done")
        /\ UNCHANGED <<attempt, alarms>>

Active(w) == work[w].pc \notin {"idle", "finalize", "done"}

\* The request is aborted: the freeze releases its lease, then the finalizer runs.
Interrupt(w) ==
    /\ Active(w)
    /\ work' = [work EXCEPT ![w] =
                  [@ EXCEPT !.finalizes = TRUE,
                            !.pc = IF work[w].pc \in {"capture", "candidate", "fail", "release"}
                                   THEN "release" ELSE "finalize"]]
    /\ UNCHANGED <<attempt, run, alarms>>

\* The isolate dies; nothing more is called.
Crash(w) ==
    /\ work[w].pc \notin {"idle", "done"}
    /\ Goto(w, "done")
    /\ UNCHANGED <<attempt, run, alarms>>

\* The dead letters end an attempt of the webhook route.
terminalizeQueuedGitHubDelivery(r) ==
    /\ Created(r)
    /\ run[r].trigger = "intake"
    /\ ~Over(r)
    /\ Patch(r, "failed")
    /\ UNCHANGED <<attempt, work, alarms>>

expireIncomingVerificationDispatch(r, w) ==
    /\ <<r, w>> \in alarms
    /\ alarms' = alarms \ {<<r, w>>}
    /\ IF run[r].status = "running" /\ run[r].verifier = w
       THEN Patch(r, "failed")
       ELSE UNCHANGED run
    /\ UNCHANGED <<attempt, work>>

FreezeLeasePasses(r) ==
    /\ run[r].freezing
    /\ Set(r, [run[r] EXCEPT !.freezing = FALSE])
    /\ UNCHANGED <<attempt, work, alarms>>

DispatchLeasePasses(r) ==
    /\ run[r].dispatching
    /\ Set(r, [run[r] EXCEPT !.dispatching = FALSE])
    /\ UNCHANGED <<attempt, work, alarms>>

-----------------------------------------------------------------------------
DriverStep(w) ==
    \/ \E r \in Run : Begin(w, r)
    \/ \E p \in Plan : PersistPlan(w, p)
    \/ \E q \in Requirement : PersistRequirement(w, q)
    \/ RequirementsPersisted(w)
    \/ LookUp(w)
    \/ ClaimFreeze(w)
    \/ Capture(w)
    \/ FailFreeze(w)
    \/ ReleaseFreeze(w)
    \/ RecordCandidate(w)
    \/ ClaimDispatch(w)
    \/ Validate(w)
    \/ StartPlan(w)
    \/ Verify(w)
    \/ Finalize(w)
    \/ Interrupt(w)
    \/ Crash(w)

RunStep(r) ==
    \/ createFromExternalIntake(r)
    \/ createRerun(r)
    \/ terminalizeQueuedGitHubDelivery(r)
    \/ \E w \in Driver : expireIncomingVerificationDispatch(r, w)
    \/ FreezeLeasePasses(r)
    \/ DispatchLeasePasses(r)

Next ==
    \/ \E w \in Driver : DriverStep(w)
    \/ \E r \in Run : RunStep(r)

Spec == Init /\ [][Next]_vars

\* Convex runs what it has scheduled.  Nothing is assumed of the drivers.
Fairness == \A r \in Run, w \in Driver : WF_vars(expireIncomingVerificationDispatch(r, w))

FairSpec == Spec /\ Fairness

-----------------------------------------------------------------------------
(***************************************************************************)
(* Properties                                                              *)
(***************************************************************************)

\* At most one driver ever executes the plan of an attempt: slow drivers whose
\* dispatch was taken over find that out before they start the plan.
OneVerifier ==
    \A v, w \in Driver :
        At(v, "verify") /\ At(w, "verify") /\ work[v].run = work[w].run => v = w

\* An attempt that is or was executed has gone through every stage before: the
\* whole plan persisted, the candidate frozen, the dispatch claimed, and, once
\* started, it is the claim of that very driver that is on record.
ExecutedInOrder ==
    \A r \in Run :
        /\ run[r].candidate => Planned(r)
        /\ run[r].status = "running" => run[r].candidate /\ run[r].dispatcher # NoDriver
        /\ run[r].verifier # NoDriver => run[r].dispatcher = run[r].verifier
        /\ run[r].status = "reviewed" => run[r].verifier # NoDriver

\* What the proofs need besides: a freeze lease is only given for a whole plan, a
\* driver works on an attempt that exists, and one that verifies has started it.
FreezeIsPlanned == \A r \in Run : run[r].freezer # NoDriver => Planned(r)

DriverHasAttempt ==
    \A w \in Driver : ~At(w, "idle") => work[w].run \in Run /\ Created(work[w].run)

VerifierStarted == \A w \in Driver : At(w, "verify") => run[work[w].run].verifier = w

IInv ==
    /\ TypeOK
    /\ FreezeIsPlanned
    /\ ExecutedInOrder
    /\ DriverHasAttempt
    /\ VerifierStarted

\* A driver that has lost its freeze lease changes nothing of its attempt any more
\* on the way out of the freeze, however its capture ends.
StaleCaptureIsInert ==
    [][\A w \in Driver :
        work[w].pc \in {"capture", "fail", "candidate", "release"} /\ work'[w] # work[w]
            => LET r == work[w].run
               IN  run[r].freezer # w => run'[r] = run[r]]_vars

\* A superseded attempt stands still: no plan, candidate, lease, dispatch or start
\* is added to it; all that may still happen is that its execution ends.
SupersededStandsStill ==
    [][\A r \in Run : Created(r) /\ ~Latest(r) =>
        /\ run'[r].plan = run[r].plan
        /\ run'[r].candidate = run[r].candidate
        /\ run'[r].freezer \in {run[r].freezer, NoDriver}
        /\ run'[r].dispatcher = run[r].dispatcher
        /\ run'[r].verifier = run[r].verifier
        /\ run'[r].status \in {run[r].status} \cup Finished]_vars

\* What is decided about an attempt is decided for good: its plan, its candidate,
\* who started it, and that it is over.
DecidedForGood ==
    [][\A r \in Run : Created(r) =>
        /\ run[r].plan # NoPlan => run'[r].plan = run[r].plan
        /\ run[r].candidate => run'[r].candidate
        /\ run[r].verifier # NoDriver => run'[r].verifier = run[r].verifier
        /\ Over(r) => run'[r].status = run[r].status]_vars

\* A started attempt ends, whatever becomes of its driver: starting the plan
\* schedules the expiration that fails it.
StartedEnds == \A r \in Run : run[r].verifier # NoDriver ~> Over(r)
=============================================================================
