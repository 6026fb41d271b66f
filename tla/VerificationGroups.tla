-------------------------- MODULE VerificationGroups --------------------------
(***************************************************************************)
(* The execution of one started verification plan.                         *)
(*                                                                         *)
(* The driver that started the plan claims an execution group for each     *)
(* requirement and then works them off one after the other: it creates a   *)
(* sandbox at the provider, starts the group, runs the command, deletes    *)
(* the sandbox, records what was executed and the result.  When every      *)
(* group is closed it has the results reviewed and a policy decision       *)
(* recorded.  Each of its calls is one step.  It may be interrupted or     *)
(* crash at any of them, and a call may be applied and its answer lost.    *)
(*                                                                         *)
(* Meanwhile the deadline of a group, the deadline of the plan, and the    *)
(* dead letters of the delivery may close groups behind its back, and a    *)
(* newer attempt may supersede the run.                                    *)
(*                                                                         *)
(* CandidateDispatch shows that a plan has one driver; its claim token for *)
(* a group is "driver", and the tokens recovery makes up are "recovery".   *)
(* A requirement gets at most one sandbox, so the sandbox of q is q's.     *)
(***************************************************************************)
EXTENDS FiniteSets

CONSTANTS
    Requirement,    \* the requirements of the plan
    Required,       \* those a verdict depends on
    NoRequirement

ASSUME GroupConstants ==
    /\ Required \subseteq Requirement
    /\ NoRequirement \notin Requirement

VARIABLES
    run,            \* the workflow run and its policy decision
    group,          \* requirement -> its verificationExecutionGroups row
    result,         \* requirement -> its verificationResults row
    box,            \* requirement -> the sandbox at the provider
    driver,         \* the driver's program
    alarms          \* scheduled expirations that have not run: requirements, and the plan

vars == <<run, group, result, box, driver, alarms>>

ResultStatus == {"passed", "failed", "blocked", "cancelled", "invalidated", "error"}
Live == {"claimed", "running"}
Closed == {"completed", "failed", "blocked", "cancelled"}
Execution == {"none", "succeeded", "failed"}
Decision == {"none", "changes-requested", "manual-review"}

\* recovery says which recovery ended the run, as its provenance events do;
\* execution is that of the sandboxExecutions row completed last; basis holds
\* the results the policy decision was computed from.
Run ==
    [status : {"running", "reviewed", "failed"}, latest : BOOLEAN,
     rerun : BOOLEAN, recovery : {"none", "deadline", "deadLetter"}, settled : BOOLEAN,
     execution : Execution, decision : Decision,
     basis : [Requirement -> ResultStatus \cup {"none"}]]

Group ==
    [status : {"none"} \cup Live \cup Closed, token : {"none", "driver", "recovery"},
     sandbox : BOOLEAN, command : BOOLEAN, execution : Execution]

Result == [status : ResultStatus \cup {"none"}, cleanup : BOOLEAN]

Stage == {"claim", "prepare", "next", "create", "start", "clone", "session", "command", "wait",
          "delete", "confirm", "cancel", "execution", "record", "read", "review", "policy",
          "finalize", "done"}

\* left holds the requirements still to be claimed, then those still to be executed.
Driver ==
    [pc : Stage, left : SUBSET Requirement, mine : SUBSET Requirement, capacity : BOOLEAN,
     req : Requirement \cup {NoRequirement}, identity : BOOLEAN, exit : Execution,
     ok : BOOLEAN, cleanup : BOOLEAN, outcome : ResultStatus, interrupted : BOOLEAN,
     seen : [Requirement -> ResultStatus \cup {"none"}]]

TypeOK ==
    /\ run \in Run
    /\ group \in [Requirement -> Group]
    /\ result \in [Requirement -> Result]
    /\ box \in [Requirement -> {"none", "up", "gone"}]
    /\ driver \in Driver
    /\ alarms \in SUBSET (Requirement \cup {NoRequirement})

NoResults == [q \in Requirement |-> "none"]
Statuses == [q \in Requirement |-> result[q].status]

\* The program where it remembers nothing of a requirement.
Idle ==
    [pc |-> "done", left |-> {}, mine |-> {}, capacity |-> FALSE, req |-> NoRequirement,
     identity |-> FALSE, exit |-> "none", ok |-> TRUE, cleanup |-> FALSE, outcome |-> "error",
     interrupted |-> FALSE, seen |-> NoResults]

\* The plan has just been started: its own deadline is the alarm NoRequirement.
Init ==
    /\ \E rerun \in BOOLEAN :
          run = [status |-> "running", latest |-> TRUE, rerun |-> rerun, recovery |-> "none",
                 settled |-> FALSE, execution |-> "none", decision |-> "none", basis |-> NoResults]
    /\ group = [q \in Requirement |->
                  [status |-> "none", token |-> "none", sandbox |-> FALSE, command |-> FALSE,
                   execution |-> "none"]]
    /\ result = [q \in Requirement |-> [status |-> "none", cleanup |-> FALSE]]
    /\ box = [q \in Requirement |-> "none"]
    /\ driver = [Idle EXCEPT !.pc = "claim", !.left = Requirement]
    /\ alarms = {NoRequirement}

-----------------------------------------------------------------------------
IsClosed(q) == group[q].status \in Closed
IsLive(q) == group[q].status \in Live
HasResult(q) == result[q].status # "none"

At(pc) == driver.pc = pc
Goto(pc) == driver' = [driver EXCEPT !.pc = pc]

End(pc) == driver' = [Idle EXCEPT !.pc = pc]

\* The driver's program fails: only the rerun route then marks the run failed.
Fails == End(IF run.rerun THEN "finalize" ELSE "done")

\* The sandbox call fails, and the sandbox is torn down.
CallFails == driver' = [driver EXCEPT !.pc = "delete", !.ok = FALSE]

Patch(q, fields) == group' = [group EXCEPT ![q] = fields]

-----------------------------------------------------------------------------
(* The claims: RunIncomingVerificationPlan                                 *)

ClaimGranted(q) ==
    /\ run.status = "running"
    /\ run.latest
    /\ group[q].status = "none"

claimVerificationExecutionGroup(q) ==
    /\ ClaimGranted(q)
    /\ Patch(q, [group[q] EXCEPT !.status = "claimed", !.token = "driver"])

\* A group recovery has closed answers the claim with nothing, and the driver goes on
\* without it.
ClaimGroup(q) ==
    /\ At("claim")
    /\ q \in driver.left
    /\ \/ /\ claimVerificationExecutionGroup(q)
          /\ driver' = [driver EXCEPT !.left = @ \ {q}, !.mine = @ \cup {q}]
       \/ /\ IsClosed(q)
          /\ UNCHANGED group
          /\ driver' = [driver EXCEPT !.left = @ \ {q}]
       \/ claimVerificationExecutionGroup(q) /\ Fails
       \/ ~IsClosed(q) /\ UNCHANGED group /\ Fails
    /\ UNCHANGED <<run, result, box, alarms>>

GroupsClaimed ==
    /\ At("claim")
    /\ driver.left = {}
    /\ Goto("prepare")
    /\ UNCHANGED <<run, group, result, box, alarms>>

\* A hosted plan over its capacity has all its groups blocked; otherwise the clone is
\* prepared, which may fail.
Prepare ==
    /\ At("prepare")
    /\ \/ \E capacity \in BOOLEAN :
             driver' = [Idle EXCEPT !.pc = "next", !.left = driver.mine, !.capacity = capacity]
       \/ Fails
    /\ UNCHANGED <<run, group, result, box, alarms>>

-----------------------------------------------------------------------------
(* One requirement: ExecuteIncomingVerificationRequirements and the        *)
(* sandbox call runRepositoryCommand                                       *)

\* A requirement without a command or for another platform is blocked as well.
TakeRequirement(q) ==
    /\ At("next")
    /\ q \in driver.left
    /\ \E blocked \in BOOLEAN :
          /\ driver.capacity => blocked
          /\ driver' = [driver EXCEPT !.left = @ \ {q}, !.req = q,
                          !.pc = IF blocked THEN "record" ELSE "create",
                          !.outcome = IF blocked THEN "blocked" ELSE "error"]
    /\ UNCHANGED <<run, group, result, box, alarms>>

\* A creation that fails by its deadline may have made a sandbox all the same.
CreateSandbox ==
    LET q == driver.req
    IN  /\ At("create")
        /\ \/ box' = [box EXCEPT ![q] = "up"] /\ Goto("start")
           \/ box' = [box EXCEPT ![q] = "up"] /\ Goto("record")
           \/ UNCHANGED box /\ Goto("record")
        /\ UNCHANGED <<run, group, result, alarms>>

StartGranted(q) ==
    /\ run.latest
    /\ run.status = "running"
    /\ group[q].token = "driver"
    /\ group[q].status = "claimed"
    /\ ~group[q].sandbox

\* Faulty: schedules no expiration.
StartWithoutAlarm(q) ==
    /\ StartGranted(q)
    /\ Patch(q, [group[q] EXCEPT !.status = "running", !.sandbox = TRUE])
    /\ UNCHANGED alarms

startVerificationExecutionGroup(q) ==
    /\ StartGranted(q)
    /\ Patch(q, [group[q] EXCEPT !.status = "running", !.sandbox = TRUE])
    /\ alarms' = alarms \cup {q}

\* The sandbox came up and onSandboxStarted is called.
StartGroup ==
    LET q == driver.req
    IN  /\ At("start")
        /\ \/ startVerificationExecutionGroup(q) /\ Goto("clone")
           \/ startVerificationExecutionGroup(q) /\ CallFails
           \/ UNCHANGED <<group, alarms>> /\ CallFails
        /\ UNCHANGED <<run, result, box>>

\* Clone, policy and candidate state, and the protection of the sandbox.
CloneRepository ==
    /\ At("clone")
    /\ Goto("session") \/ CallFails
    /\ UNCHANGED <<run, group, result, box, alarms>>

\* The identity of the command is known to the driver before it is stored.  When
\* stale artifacts cannot be removed the command is not run at all.
StartCommand ==
    /\ At("session")
    /\ \/ driver' = [driver EXCEPT !.pc = "command", !.identity = TRUE]
       \/ Goto("delete")
       \/ CallFails
    /\ UNCHANGED <<run, group, result, box, alarms>>

CommandGranted(q) ==
    /\ group[q].token = "driver"
    /\ group[q].status = "running"
    /\ group[q].sandbox

recordVerificationExecutionCommand(q) ==
    /\ CommandGranted(q)
    /\ Patch(q, [group[q] EXCEPT !.command = TRUE])

RecordCommand ==
    LET q == driver.req
    IN  /\ At("command")
        /\ \/ recordVerificationExecutionCommand(q) /\ Goto("wait")
           \/ recordVerificationExecutionCommand(q) /\ CallFails
           \/ UNCHANGED group /\ CallFails
        /\ UNCHANGED <<run, result, box, alarms>>

\* Polled until it exits or its deadline passes; then the logs and the state of the
\* candidate are captured.
WaitForCommand ==
    /\ At("wait")
    /\ \/ \E exit \in {"succeeded", "failed"} :
             driver' = [driver EXCEPT !.pc = "delete", !.exit = exit]
       \/ CallFails
    /\ UNCHANGED <<run, group, result, box, alarms>>

deleteSandboxWithRetries ==
    LET q == driver.req
    IN  /\ At("delete")
        /\ \E left \in {box[q], "gone"} : box' = [box EXCEPT ![q] = left]
        /\ Goto("confirm")
        /\ UNCHANGED <<run, group, result, alarms>>

\* Where the driver goes once its sandbox is torn down.
AfterSandbox ==
    IF driver.interrupted THEN "cancel"
    ELSE IF driver.ok /\ driver.identity THEN "execution" ELSE "record"

\* Faulty: believes the request.
DeletionObservedUnread(q) == TRUE

\* Only a read that finds nothing counts.
DeletionObserved(q) == box[q] = "gone"

confirmSandboxDeleted ==
    /\ At("confirm")
    /\ \E confirmed \in BOOLEAN :
          /\ confirmed => DeletionObserved(driver.req)
          /\ driver' = [driver EXCEPT !.cleanup = confirmed, !.pc = AfterSandbox]
    /\ UNCHANGED <<run, group, result, box, alarms>>

\* Faulty: asks for the token, the sandbox and the command, but not whether the group
\* is still running.
ExecutionGrantedLate(q) ==
    /\ group[q].execution = "none"
    /\ group[q].token = "driver"
    /\ group[q].sandbox
    /\ group[q].command = driver.identity
    /\ run.latest
    /\ run.status = "running"

ExecutionGranted(q) ==
    /\ group[q].execution = "none"
    /\ group[q].token = "driver"
    /\ group[q].status = "running"
    /\ group[q].sandbox
    /\ group[q].command = driver.identity
    /\ run.latest
    /\ run.status = "running"

recordSandboxExecution(q) ==
    /\ ExecutionGranted(q)
    /\ Patch(q, [group[q] EXCEPT !.execution = driver.exit])
    /\ run' = [run EXCEPT !.execution = driver.exit]

\* What the execution comes to: the candidate may have been changed, and evidence may
\* be incomplete.
Judgement ==
    {"invalidated", "error"} \cup
        (IF ~driver.cleanup THEN {}
         ELSE IF driver.exit = "succeeded" THEN {"passed"} ELSE {"failed"})

RecordExecution ==
    LET q == driver.req
    IN  /\ At("execution")
        /\ \/ /\ recordSandboxExecution(q)
              /\ \E outcome \in Judgement :
                    driver' = [driver EXCEPT !.pc = "record", !.outcome = outcome]
           \/ recordSandboxExecution(q) /\ Fails
           \/ UNCHANGED <<run, group>> /\ Fails
        /\ UNCHANGED <<result, box, alarms>>
\* Faulty: the status of the result.
GroupStatusVerbatim(status) == status

GroupStatus(status) ==
    CASE status \in {"blocked", "cancelled"} -> status
      [] status \in {"passed", "failed"} -> "completed"
      [] OTHER -> "failed"

\* A result may bring the identity of a command whose storing was cut short.
BindsLate(q, r) ==
    /\ group[q].status = "running"
    /\ ~group[q].command
    /\ r.identity
    /\ r.status # "passed"

\* Another result of the group is never the same, as recovery words its own.
ResultGranted(q, r) ==
    /\ group[q].token = "driver"
    /\ IsLive(q)
    /\ ~HasResult(q)
    /\ r.identity = (group[q].command \/ BindsLate(q, r))
    /\ r.execution = group[q].execution
    /\ r.status = "passed" => r.identity /\ r.execution = "succeeded" /\ r.cleanup

recordVerificationResult(q, r) ==
    /\ ResultGranted(q, r)
    /\ Patch(q, [group[q] EXCEPT !.status = GroupStatus(r.status), !.command = r.identity])
    /\ result' = [result EXCEPT ![q] = [status |-> r.status, cleanup |-> r.cleanup]]

\* Only an execution that was recorded reports on its cleanup.
Report ==
    [status |-> driver.outcome, identity |-> driver.identity, execution |-> driver.exit,
     cleanup |-> driver.cleanup /\ driver.exit # "none"]

RecordResult ==
    LET q == driver.req
    IN  /\ At("record")
        /\ \/ /\ recordVerificationResult(q, Report)
              /\ driver' = [Idle EXCEPT !.pc = "next", !.left = driver.left,
                                        !.capacity = driver.capacity]
           \/ recordVerificationResult(q, Report) /\ Fails
           \/ UNCHANGED <<group, result>> /\ Fails
        /\ UNCHANGED <<run, box, alarms>>

\* The finalizer of an interrupted sandbox call.
RecordCancelled ==
    LET q == driver.req
        r == [status |-> "cancelled", identity |-> driver.identity, execution |-> "none",
              cleanup |-> FALSE]
    IN  /\ At("cancel")
        /\ recordVerificationResult(q, r) \/ UNCHANGED <<group, result>>
        /\ End("finalize")
        /\ UNCHANGED <<run, box, alarms>>

-----------------------------------------------------------------------------
(* The decision: getVerificationExecutionState and ProposeMergeDecision    *)

PlanComplete == \A q \in Requirement : IsClosed(q) /\ HasResult(q)

ReadState ==
    /\ At("next")
    /\ driver.left = {}
    /\ driver' = IF PlanComplete
                 THEN [driver EXCEPT !.pc = "review", !.seen = Statuses]
                 ELSE Idle
    /\ UNCHANGED <<run, group, result, box, alarms>>

\* The review run and its findings, which nothing guards, are replayed or stored.
RecordReview ==
    /\ At("review")
    /\ Goto("policy") \/ Fails
    /\ UNCHANGED <<run, group, result, box, alarms>>

\* evaluateVerificationCoverage, of the required requirements only.
CoverageFailed(seen) == \E q \in Required : seen[q] = "failed"

\* runReview finds an error in every failed result, and in a failed last execution.
HasErrorFinding(seen) ==
    \/ \E q \in Requirement : seen[q] = "failed"
    \/ run.execution = "failed"

\* Faulty: trusts the coverage.
PolicyOfCoverage(seen) == IF CoverageFailed(seen) THEN "changes-requested" ELSE "manual-review"

\* evaluatePolicy approves nothing by itself.
evaluatePolicy(seen) ==
    IF run.execution = "failed" \/ CoverageFailed(seen) \/ HasErrorFinding(seen)
    THEN "changes-requested"
    ELSE "manual-review"

\* Faulty: does not look whether the execution is still active.
DecisionGrantedLate == run.decision = "none"

DecisionGranted == run.decision = "none" /\ run.status = "running"

recordPolicyDecision(seen) ==
    /\ DecisionGranted
    /\ run' = [run EXCEPT !.status = "reviewed", !.decision = evaluatePolicy(seen), !.basis = seen]

RecordDecision ==
    /\ At("policy")
    /\ \/ recordPolicyDecision(driver.seen) /\ End("done")
       \/ recordPolicyDecision(driver.seen) /\ Fails
       \/ UNCHANGED run /\ Fails
    /\ UNCHANGED <<group, result, box, alarms>>

-----------------------------------------------------------------------------
(* Interruption and crash                                                  *)

markWorkflowExecutionFailed ==
    /\ run.status = "running"
    /\ run' = [run EXCEPT !.status = "failed"]

Finalize ==
    /\ At("finalize")
    /\ \/ markWorkflowExecutionFailed
       \/ UNCHANGED run
    /\ End("done")
    /\ UNCHANGED <<group, result, box, alarms>>

InSandbox == driver.pc \in {"start", "clone", "session", "command", "wait", "delete", "confirm"}

\* The request is aborted.  A sandbox that exists is torn down first.
Interrupt ==
    /\ ~driver.interrupted
    /\ driver.pc \notin {"create", "cancel", "finalize", "done"}
    /\ IF InSandbox
       THEN driver' = [driver EXCEPT !.interrupted = TRUE,
                         !.pc = IF driver.pc = "confirm" THEN "confirm" ELSE "delete"]
       ELSE End("finalize")
    /\ UNCHANGED <<run, group, result, box, alarms>>

\* The isolate dies, and nobody tears down its sandbox.
Crash ==
    /\ ~At("done")
    /\ End("done")
    /\ UNCHANGED <<run, group, result, box, alarms>>

-----------------------------------------------------------------------------
(* Recovery                                                                *)

Supersede ==
    /\ run.latest
    /\ run' = [run EXCEPT !.latest = FALSE]
    /\ UNCHANGED <<group, result, box, driver, alarms>>

\* Groups end as failed, with an error for a result where there is none yet.
CloseGroups(Q) ==
    /\ group' = [q \in Requirement |->
                    IF q \in Q
                    THEN [group[q] EXCEPT !.status = "failed",
                             !.token = IF group[q].token = "none" THEN "recovery" ELSE group[q].token]
                    ELSE group[q]]
    /\ result' = [q \in Requirement |->
                    IF q \in Q /\ ~HasResult(q)
                    THEN [status |-> "error", cleanup |-> FALSE]
                    ELSE result[q]]

ExpiryDue(q) ==
    /\ group[q].status = "running"
    /\ group[q].token = "driver"
    /\ group[q].sandbox

\* Faulty: ends the group without a result, as failVerificationExecutionGroup does.
ExpiryWithoutResult(q) ==
    /\ q \in alarms
    /\ alarms' = alarms \ {q}
    /\ IF ExpiryDue(q) THEN Patch(q, [group[q] EXCEPT !.status = "failed"]) ELSE UNCHANGED group
    /\ UNCHANGED <<run, result, box, driver>>

expireVerificationExecutionGroup(q) ==
    /\ q \in alarms
    /\ alarms' = alarms \ {q}
    /\ IF ExpiryDue(q) THEN CloseGroups({q}) ELSE UNCHANGED <<group, result>>
    /\ UNCHANGED <<run, box, driver>>

\* Faulty: closes the groups there are.
PersistedUnclosed == {q \in Requirement : IsLive(q)}

\* The groups recovery closes: those at work, and those it first creates.
Unclosed == {q \in Requirement : ~IsClosed(q)}

EndRun(recovery) ==
    /\ CloseGroups(Unclosed)
    /\ run' = [run EXCEPT !.status = "failed", !.recovery = recovery,
                          !.settled = run.settled \/ recovery = "deadLetter"]

expireIncomingVerificationDispatch ==
    /\ NoRequirement \in alarms
    /\ alarms' = alarms \ {NoRequirement}
    /\ IF run.status = "running" THEN EndRun("deadline") ELSE UNCHANGED <<run, group, result>>
    /\ UNCHANGED <<box, driver>>

\* The delivery behind the run, if there is one, has come to the end of its retries.
terminalizeQueuedGitHubDelivery ==
    /\ ~run.rerun
    /\ ~run.settled
    /\ IF run.status = "running"
       THEN EndRun("deadLetter")
       ELSE run' = [run EXCEPT !.settled = TRUE] /\ UNCHANGED <<group, result>>
    /\ UNCHANGED <<box, driver, alarms>>

-----------------------------------------------------------------------------
DriverStep ==
    \/ \E q \in Requirement : ClaimGroup(q) \/ TakeRequirement(q)
    \/ GroupsClaimed
    \/ Prepare
    \/ CreateSandbox
    \/ StartGroup
    \/ CloneRepository
    \/ StartCommand
    \/ RecordCommand
    \/ WaitForCommand
    \/ deleteSandboxWithRetries
    \/ confirmSandboxDeleted
    \/ RecordExecution
    \/ RecordResult
    \/ RecordCancelled
    \/ ReadState
    \/ RecordReview
    \/ RecordDecision
    \/ Finalize
    \/ Interrupt
    \/ Crash

Recovery ==
    \/ \E q \in Requirement : expireVerificationExecutionGroup(q)
    \/ expireIncomingVerificationDispatch
    \/ terminalizeQueuedGitHubDelivery

Next == DriverStep \/ Recovery \/ Supersede

Spec == Init /\ [][Next]_vars

\* Convex runs what it has scheduled.  Nothing is assumed of the driver.
Fairness == \A q \in Requirement : WF_vars(expireVerificationExecutionGroup(q))

FairSpec == Spec /\ Fairness

-----------------------------------------------------------------------------
(***************************************************************************)
(* Properties                                                              *)
(***************************************************************************)

\* A group is closed by its result and never without one, whoever of worker and
\* recovery came first, and its status says what the result says.
ClosedHasResult ==
    \A q \in Requirement :
        /\ IsClosed(q) <=> HasResult(q)
        /\ HasResult(q) => group[q].status = GroupStatus(result[q].status)

\* A passed result speaks of a command that ran in the group's own sandbox, was
\* recorded with its success, and whose sandbox is gone; no result claims a cleanup
\* that did not happen.
PassedIsTrusted ==
    \A q \in Requirement :
        /\ result[q].status = "passed" =>
              /\ group[q].token = "driver"
              /\ group[q].sandbox
              /\ group[q].command
              /\ group[q].execution = "succeeded"
              /\ result[q].cleanup
        /\ result[q].cleanup => box[q] = "gone"

\* The decision rests on the final result of every requirement, although they were read
\* some calls earlier, and no failed one, required or not, passes as a mere warning.
DecidedOnFinalResults ==
    run.status = "reviewed" =>
        /\ PlanComplete
        /\ run.basis = Statuses
        /\ (\E q \in Requirement : result[q].status = "failed") => run.decision = "changes-requested"

\* A run that a recovery has ended shows every requirement closed with a result, and
\* no late claim or start of its driver undoes that.
RecoveredIsComplete == run.recovery # "none" => run.status = "failed" /\ PlanComplete

\* A closed group stands still: a worker that comes late with a start, a command, an
\* execution or a result changes nothing of it.
ClosedForGood ==
    [][\A q \in Requirement : IsClosed(q) => group'[q] = group[q] /\ result'[q] = result[q]]_vars

\* A group that was started is closed, whatever becomes of its driver.
StartedGroupEnds == \A q \in Requirement : group[q].status = "running" ~> IsClosed(q)

Outcome == INSTANCE VerificationOutcome
    WITH outcome <- Statuses,
         verdict <- IF run.decision = "none" THEN run.status ELSE run.decision

\* Outcomes and verdict are given once, and the verdict takes every outcome into account.
ImplementsOutcome == Outcome!Spec
=============================================================================
