----------------------- MODULE VerificationGroupsProofs -----------------------
(***************************************************************************)
(* Proofs about VerificationGroups, for every set of requirements.         *)
(***************************************************************************)
EXTENDS VerificationGroups, TLAPS

\* The stages at which the driver works on a requirement.
Working ==
    {"create", "start", "clone", "session", "command", "wait", "delete", "confirm", "cancel",
     "execution", "record"}

\* The driver works on one requirement, which is not among those still to come.
WorksOnOne ==
    /\ driver.pc \in Working => driver.req \in Requirement
    /\ driver.pc \notin Working => driver.req = NoRequirement
    /\ driver.pc \notin {"claim", "prepare"} => driver.mine = {}
    /\ driver.req \notin driver.left

\* The sandboxes to come are not those a result reports as cleaned up.
CleanupAwaited ==
    \A q \in Requirement :
        q \in driver.left \cup driver.mine \cup {driver.req} => ~result[q].cleanup

\* The driver knows of a cleanup only once it has seen it.
CleanupObserved ==
    driver.cleanup =>
        /\ driver.pc \in {"execution", "record", "cancel"}
        /\ box[driver.req] = "gone"

\* What was executed was executed in a sandbox.
ExecutedInSandbox ==
    \A q \in Requirement : group[q].execution # "none" => group[q].sandbox

\* What is reviewed does not change any more.
ReviewsFinalResults ==
    driver.pc \in {"review", "policy"} => PlanComplete /\ driver.seen = Statuses

DecidedIffReviewed == run.decision # "none" <=> run.status = "reviewed"

IInv ==
    /\ TypeOK
    /\ WorksOnOne
    /\ CleanupAwaited
    /\ CleanupObserved
    /\ ExecutedInSandbox
    /\ ReviewsFinalResults
    /\ DecidedIffReviewed
    /\ ClosedHasResult
    /\ PassedIsTrusted
    /\ DecidedOnFinalResults
    /\ RecoveredIsComplete

-----------------------------------------------------------------------------
(* The steps, and types                                                    *)

\* Every step is one of these: the case split of the proofs below.
LEMMA StepCases ==
    ASSUME Next
    PROVE  \/ \E q \in Requirement : ClaimGroup(q) \/ TakeRequirement(q)
           \/ GroupsClaimed \/ Prepare \/ CreateSandbox \/ StartGroup \/ CloneRepository
           \/ StartCommand \/ RecordCommand \/ WaitForCommand \/ deleteSandboxWithRetries
           \/ confirmSandboxDeleted \/ RecordExecution \/ RecordResult \/ RecordCancelled
           \/ ReadState \/ RecordReview \/ RecordDecision \/ Finalize \/ Interrupt \/ Crash
           \/ Supersede
           \/ \E q \in Requirement : expireVerificationExecutionGroup(q)
           \/ expireIncomingVerificationDispatch
           \/ terminalizeQueuedGitHubDelivery
  BY DEF Next, DriverStep, Recovery

LEMMA StatusTypes ==
    /\ Live \cap Closed = {}
    /\ "none" \notin Live \cup Closed \cup ResultStatus
    /\ \A status \in ResultStatus : GroupStatus(status) \in Closed
  BY DEF Live, Closed, ResultStatus, GroupStatus

LEMMA StatusesType == TypeOK => Statuses \in [Requirement -> ResultStatus \cup {"none"}]
  BY DEF TypeOK, Statuses, Result

LEMMA IdleType == Idle \in Driver /\ \A pc \in Stage : [Idle EXCEPT !.pc = pc] \in Driver
  BY GroupConstants DEF Idle, Driver, Stage, ResultStatus, Execution, NoResults

\* The fields of a driver that has just forgotten its requirement.
LEMMA IdleFields ==
    \A pc \in Stage :
        LET d == [Idle EXCEPT !.pc = pc]
        IN  /\ d.pc = pc
            /\ d.left = {}
            /\ d.mine = {}
            /\ d.req = NoRequirement
            /\ ~d.cleanup
  BY DEF Idle, Stage

LEMMA EndEffect ==
    ASSUME NEW pc \in {"finalize", "done"}, End(pc)
    PROVE  /\ driver' \in Driver
           /\ driver'.pc \in {"finalize", "done"}
           /\ driver'.left = {}
           /\ driver'.mine = {}
           /\ driver'.req = NoRequirement
           /\ ~driver'.cleanup
  BY IdleType, IdleFields DEF End, Stage

LEMMA FailsEffect ==
    ASSUME Fails
    PROVE  /\ driver' \in Driver
           /\ driver'.pc \in {"finalize", "done"}
           /\ driver'.left = {}
           /\ driver'.mine = {}
           /\ driver'.req = NoRequirement
           /\ ~driver'.cleanup
  BY EndEffect DEF Fails

LEMMA PatchType ==
    ASSUME NEW q \in Requirement, NEW fields \in Group, TypeOK, Patch(q, fields)
    PROVE  /\ group' \in [Requirement -> Group]
           /\ group'[q] = fields
           /\ \A p \in Requirement \ {q} : group'[p] = group[p]
  BY DEF TypeOK, Patch

LEMMA CloseGroupsEffect ==
    ASSUME NEW Q \in SUBSET Requirement, TypeOK, CloseGroups(Q)
    PROVE  /\ group' \in [Requirement -> Group]
           /\ result' \in [Requirement -> Result]
           /\ \A q \in Requirement \ Q : group'[q] = group[q] /\ result'[q] = result[q]
           /\ \A q \in Q : /\ group'[q].status = "failed"
                           /\ group'[q].execution = group[q].execution
                           /\ group'[q].sandbox = group[q].sandbox
                           /\ ~HasResult(q) => result'[q] = [status |-> "error", cleanup |-> FALSE]
<1>1. \A q \in Requirement : group[q] \in Group /\ result[q] \in Result
  BY DEF TypeOK
<1>2. \A q \in Requirement :
        [group[q] EXCEPT !.status = "failed",
            !.token = IF group[q].token = "none" THEN "recovery" ELSE group[q].token] \in Group
  BY <1>1 DEF Group, Closed
<1>3. [status |-> "error", cleanup |-> FALSE] \in Result
  BY DEF Result, ResultStatus
<1>4. group' \in [Requirement -> Group] /\ result' \in [Requirement -> Result]
  BY <1>1, <1>2, <1>3 DEF CloseGroups
<1>5. \A q \in Requirement \ Q : group'[q] = group[q] /\ result'[q] = result[q]
  BY DEF CloseGroups
<1>6. ASSUME NEW q \in Q
      PROVE  /\ group'[q].status = "failed"
             /\ group'[q].execution = group[q].execution
             /\ group'[q].sandbox = group[q].sandbox
             /\ ~HasResult(q) => result'[q] = [status |-> "error", cleanup |-> FALSE]
  BY <1>1 DEF CloseGroups, Group
<1> QED BY <1>4, <1>5, <1>6

\* A result that is granted ends its group, whatever the worker reports.
LEMMA RecordResultEffect ==
    ASSUME NEW q \in Requirement, NEW r, TypeOK, recordVerificationResult(q, r),
           r.status \in ResultStatus, r.cleanup \in BOOLEAN, r.identity \in BOOLEAN
    PROVE  /\ group' \in [Requirement -> Group]
           /\ result' \in [Requirement -> Result]
           /\ IsLive(q) /\ ~HasResult(q)
           /\ group'[q].status = GroupStatus(r.status)
           /\ group'[q].status \in Closed
           /\ group'[q].token = "driver"
           /\ group'[q].sandbox = group[q].sandbox
           /\ group'[q].command = r.identity
           /\ group'[q].execution = group[q].execution
           /\ result'[q] = [status |-> r.status, cleanup |-> r.cleanup]
           /\ \A p \in Requirement \ {q} : group'[p] = group[p] /\ result'[p] = result[p]
<1> DEFINE new == [group[q] EXCEPT !.status = GroupStatus(r.status), !.command = r.identity]
<1>1. GroupStatus(r.status) \in Closed
  BY StatusTypes
<1>2. group[q] \in Group
  BY DEF TypeOK
<1>3. /\ new \in Group
      /\ new.status = GroupStatus(r.status)
      /\ new.command = r.identity
      /\ new.token = group[q].token
      /\ new.sandbox = group[q].sandbox
      /\ new.execution = group[q].execution
  BY <1>1, <1>2 DEF Group
<1>4. Patch(q, new)
  BY DEF recordVerificationResult
<1> HIDE DEF new
<1>5. /\ group' \in [Requirement -> Group]
      /\ group'[q] = new
      /\ \A p \in Requirement \ {q} : group'[p] = group[p]
  BY <1>3, <1>4, PatchType
<1>6. /\ result' \in [Requirement -> Result]
      /\ result'[q] = [status |-> r.status, cleanup |-> r.cleanup]
      /\ \A p \in Requirement \ {q} : result'[p] = result[p]
  BY DEF recordVerificationResult, TypeOK, Result
<1>7. group[q].token = "driver" /\ IsLive(q) /\ ~HasResult(q)
  BY DEF recordVerificationResult, ResultGranted
<1> QED BY <1>1, <1>3, <1>5, <1>6, <1>7

LEMMA ReportType ==
    TypeOK => /\ Report.status \in ResultStatus
              /\ Report.cleanup \in BOOLEAN
              /\ Report.identity \in BOOLEAN
  BY DEF TypeOK, Report, Driver

\* What the driver patches a group with, other than its result.
LEMMA GroupPatches ==
    ASSUME NEW q \in Requirement, TypeOK
    PROVE  /\ claimVerificationExecutionGroup(q) =>
                Patch(q, [group[q] EXCEPT !.status = "claimed", !.token = "driver"])
           /\ [group[q] EXCEPT !.status = "claimed", !.token = "driver"] \in Group
           /\ [group[q] EXCEPT !.status = "running", !.sandbox = TRUE] \in Group
           /\ [group[q] EXCEPT !.command = TRUE] \in Group
           /\ [group[q] EXCEPT !.execution = driver.exit] \in Group
<1>1. group[q] \in Group /\ driver.exit \in Execution
  BY DEF TypeOK, Driver
<1> QED BY <1>1 DEF Group, Live, claimVerificationExecutionGroup

LEMMA Stages ==
    /\ {"claim", "prepare", "next", "create", "start", "clone", "session", "command", "wait",
        "delete", "confirm"} \subseteq Stage
    /\ {"cancel", "execution", "record", "read", "review", "policy", "finalize", "done"}
         \subseteq Stage
  BY DEF Stage

LEMMA DriverFields ==
    \A d \in Driver :
        /\ \A pc \in Stage : [d EXCEPT !.pc = pc] \in Driver
        /\ \A S \in SUBSET Requirement : [d EXCEPT !.left = S] \in Driver
        /\ \A S \in SUBSET Requirement : [d EXCEPT !.mine = S] \in Driver
        /\ \A q \in Requirement : [d EXCEPT !.req = q] \in Driver
        /\ \A b \in BOOLEAN : /\ [d EXCEPT !.capacity = b] \in Driver
                              /\ [d EXCEPT !.identity = b] \in Driver
                              /\ [d EXCEPT !.ok = b] \in Driver
                              /\ [d EXCEPT !.cleanup = b] \in Driver
                              /\ [d EXCEPT !.interrupted = b] \in Driver
        /\ \A exit \in Execution : [d EXCEPT !.exit = exit] \in Driver
        /\ \A outcome \in ResultStatus : [d EXCEPT !.outcome = outcome] \in Driver
        /\ \A seen \in [Requirement -> ResultStatus \cup {"none"}] : [d EXCEPT !.seen = seen] \in Driver
  BY DEF Driver

LEMMA DriverParts ==
    ASSUME TypeOK
    PROVE  /\ driver \in Driver
           /\ driver.left \in SUBSET Requirement
           /\ driver.mine \in SUBSET Requirement
           /\ driver.capacity \in BOOLEAN
           /\ driver.identity \in BOOLEAN
           /\ driver.cleanup \in BOOLEAN
           /\ driver.exit \in Execution
           /\ driver.outcome \in ResultStatus
           /\ driver.pc \in Stage
  BY DEF TypeOK, Driver

\* What each of the driver's calls makes of the driver is a driver.
LEMMA DriverType ==
    ASSUME TypeOK, DriverStep
    PROVE  driver' \in Driver
<1> DEFINE Typed == driver' \in Driver
<1>0. ASSUME NEW pc \in Stage, Goto(pc) PROVE Typed
  BY <1>0, DriverParts, DriverFields DEF Goto
<1>1. ASSUME CallFails PROVE Typed
  BY <1>1, DriverParts, DriverFields, Stages DEF CallFails
<1>2. Fails => Typed
  BY FailsEffect
<1>3. \A pc \in {"finalize", "done"} : End(pc) => Typed
  BY EndEffect
<1>4. ASSUME NEW q \in Requirement, ClaimGroup(q) PROVE Typed
  <2> DEFINE L == driver.left \ {q}
             M == driver.mine \cup {q}
  <2>1. L \in SUBSET Requirement /\ M \in SUBSET Requirement
    BY DriverParts
  <2>2. \/ driver' = [[driver EXCEPT !.left = L] EXCEPT !.mine = M]
        \/ driver' = [driver EXCEPT !.left = L]
        \/ Fails
    BY <1>4 DEF ClaimGroup
  <2> HIDE DEF L, M
  <2>3. [driver EXCEPT !.left = L] \in Driver
    BY <2>1, DriverParts, DriverFields
  <2> QED BY <2>1, <2>2, <2>3, <1>2, DriverFields
<1>5. ASSUME NEW q \in Requirement, TakeRequirement(q) PROVE Typed
  <2>1. PICK blocked \in BOOLEAN :
          driver' = [driver EXCEPT !.left = @ \ {q}, !.req = q,
                       !.pc = IF blocked THEN "record" ELSE "create",
                       !.outcome = IF blocked THEN "blocked" ELSE "error"]
    BY <1>5 DEF TakeRequirement
  <2> DEFINE L == driver.left \ {q}
             pc == IF blocked THEN "record" ELSE "create"
             outcome == IF blocked THEN "blocked" ELSE "error"
  <2>2. L \in SUBSET Requirement
    BY DriverParts
  <2>3. pc \in Stage
    BY Stages
  <2>4. outcome \in ResultStatus
    BY DEF ResultStatus
  <2>5. driver' = [[[[driver EXCEPT !.left = L] EXCEPT !.req = q] EXCEPT !.pc = pc]
                     EXCEPT !.outcome = outcome]
    BY <2>1
  <2> HIDE DEF L, pc, outcome
  <2>6. [[driver EXCEPT !.left = L] EXCEPT !.req = q] \in Driver
    BY <2>2, DriverParts, DriverFields
  <2> QED BY <2>3, <2>4, <2>5, <2>6, DriverFields
<1>6. GroupsClaimed \/ CreateSandbox \/ deleteSandboxWithRetries => Typed
  BY <1>0, Stages DEF GroupsClaimed, CreateSandbox, deleteSandboxWithRetries
<1>7. CASE Prepare
  <2>1. ASSUME NEW capacity \in BOOLEAN,
               driver' = [Idle EXCEPT !.pc = "next", !.left = driver.mine, !.capacity = capacity]
        PROVE  Typed
    BY <2>1, DriverParts, IdleType, DriverFields, Stages
  <2> QED BY <1>7, <2>1, <1>2 DEF Prepare
<1>8. StartGroup \/ CloneRepository \/ RecordCommand => Typed
  BY <1>0, <1>1, Stages DEF StartGroup, CloneRepository, RecordCommand
<1>9. CASE StartCommand
  <2>1. driver' = [driver EXCEPT !.pc = "command", !.identity = TRUE] => Typed
    BY DriverParts, DriverFields, Stages
  <2> QED BY <1>9, <2>1, <1>0, <1>1, Stages DEF StartCommand
<1>10. CASE WaitForCommand
  <2>1. ASSUME NEW exit \in {"succeeded", "failed"},
               driver' = [driver EXCEPT !.pc = "delete", !.exit = exit]
        PROVE  Typed
    <3>1. exit \in Execution
      BY DEF Execution
    <3> QED BY <2>1, <3>1, DriverParts, DriverFields, Stages
  <2> QED BY <1>10, <2>1, <1>1 DEF WaitForCommand
<1>11. CASE confirmSandboxDeleted
  <2>1. PICK confirmed \in BOOLEAN :
          driver' = [driver EXCEPT !.cleanup = confirmed, !.pc = AfterSandbox]
    BY <1>11 DEF confirmSandboxDeleted
  <2>2. AfterSandbox \in Stage
    BY Stages DEF AfterSandbox
  <2> QED BY <2>1, <2>2, DriverParts, DriverFields
<1>12. CASE RecordExecution
  <2>1. ASSUME NEW outcome \in Judgement, driver' = [driver EXCEPT !.pc = "record", !.outcome = outcome]
        PROVE  Typed
    <3>1. outcome \in ResultStatus
      BY DEF Judgement, ResultStatus
    <3> QED BY <2>1, <3>1, DriverParts, DriverFields, Stages
  <2> QED BY <1>12, <2>1, <1>2 DEF RecordExecution
<1>13. CASE RecordResult
  <2>1. driver' = [Idle EXCEPT !.pc = "next", !.left = driver.left, !.capacity = driver.capacity]
          => Typed
    <3>1. [[Idle EXCEPT !.pc = "next"] EXCEPT !.left = driver.left] \in Driver
      BY DriverParts, IdleType, DriverFields, Stages
    <3> QED BY <3>1, DriverParts, DriverFields
  <2> QED BY <1>13, <2>1, <1>2 DEF RecordResult
<1>14. RecordCancelled \/ Finalize \/ Crash => Typed
  BY <1>3 DEF RecordCancelled, Finalize, Crash
<1>15. CASE ReadState
  <2>1. Statuses \in [Requirement -> ResultStatus \cup {"none"}]
    BY StatusesType
  <2>2. [driver EXCEPT !.pc = "review"] \in Driver
    BY DriverParts, DriverFields, Stages
  <2>3. ASSUME NEW seen \in [Requirement -> ResultStatus \cup {"none"}],
               driver' = [driver EXCEPT !.pc = "review", !.seen = seen]
        PROVE  Typed
    BY <2>2, <2>3, DriverFields
  <2> QED BY <1>15, <2>1, <2>3, IdleType DEF ReadState
<1>16. RecordReview => Typed
  BY <1>0, <1>2, Stages DEF RecordReview
<1>17. RecordDecision => Typed
  BY <1>2, <1>3 DEF RecordDecision
<1>18. CASE Interrupt
  <2> DEFINE pc == IF driver.pc = "confirm" THEN "confirm" ELSE "delete"
  <2>1. pc \in Stage
    BY Stages
  <2>2. \/ driver' = [driver EXCEPT !.interrupted = TRUE, !.pc = pc]
        \/ End("finalize")
    BY <1>18 DEF Interrupt
  <2> HIDE DEF pc
  <2>3. [driver EXCEPT !.interrupted = TRUE] \in Driver
    BY DriverParts, DriverFields
  <2> QED BY <2>1, <2>2, <2>3, <1>3, DriverFields
<1> QED
  BY <1>4, <1>5, <1>6, <1>7, <1>8, <1>9, <1>10, <1>11, <1>12, <1>13, <1>14, <1>15, <1>16,
     <1>17, <1>18 DEF DriverStep

\* How a step may change a run: it is settled, superseded or executed; or it fails, or a
\* recovery ends it; or its decision is recorded.
RunKept ==
    /\ run'.status = run.status
    /\ run'.recovery = run.recovery
    /\ run'.decision = run.decision
    /\ run'.basis = run.basis

RunFailed ==
    /\ run.status = "running"
    /\ run'.status = "failed"
    /\ run'.decision = run.decision

RunDecided ==
    /\ driver.pc = "policy"
    /\ run.status = "running"
    /\ run'.status = "reviewed"
    /\ run'.recovery = run.recovery
    /\ run'.decision = evaluatePolicy(driver.seen)
    /\ run'.basis = driver.seen
    /\ UNCHANGED <<group, result>>

LEMMA RunParts ==
    ASSUME TypeOK
    PROVE  /\ run \in Run
           /\ run.status \in {"running", "reviewed", "failed"}
           /\ run.decision \in Decision
  BY DEF TypeOK, Run

LEMMA RunFields ==
    \A r \in Run :
        /\ \A status \in {"running", "reviewed", "failed"} : [r EXCEPT !.status = status] \in Run
        /\ [r EXCEPT !.latest = FALSE] \in Run
        /\ \A b \in BOOLEAN : [r EXCEPT !.settled = b] \in Run
        /\ \A execution \in Execution : [r EXCEPT !.execution = execution] \in Run
        /\ \A recovery \in {"deadline", "deadLetter"} : [r EXCEPT !.recovery = recovery] \in Run
        /\ \A decision \in Decision : [r EXCEPT !.decision = decision] \in Run
        /\ \A basis \in [Requirement -> ResultStatus \cup {"none"}] : [r EXCEPT !.basis = basis] \in Run
  BY DEF Run

LEMMA EndRunEffect ==
    ASSUME NEW recovery \in {"deadline", "deadLetter"}, TypeOK, run.status = "running",
           EndRun(recovery)
    PROVE  /\ run' \in Run
           /\ RunFailed
           /\ run'.recovery = recovery
           /\ CloseGroups(Unclosed)
<1> DEFINE b == run.settled \/ recovery = "deadLetter"
<1>1. b \in BOOLEAN
  OBVIOUS
<1>2. run' = [[[run EXCEPT !.status = "failed"] EXCEPT !.recovery = recovery] EXCEPT !.settled = b]
  BY DEF EndRun
<1> HIDE DEF b
<1>3. [run EXCEPT !.status = "failed"] \in Run
  BY RunParts, RunFields
<1>4. [[run EXCEPT !.status = "failed"] EXCEPT !.recovery = recovery] \in Run
  BY <1>3, RunFields
<1>5. run' \in Run
  BY <1>1, <1>2, <1>4, RunFields
<1>6. run'.status = "failed" /\ run'.recovery = recovery /\ run'.decision = run.decision
  BY <1>2, RunParts DEF Run
<1> QED BY <1>5, <1>6 DEF RunFailed, EndRun

\* What becomes of the run in a step, apart from recovery.
LEMMA RunStep ==
    ASSUME TypeOK, Next
    PROVE  /\ run' \in Run
           /\ \/ RunKept
              \/ RunFailed /\ run'.recovery = run.recovery
              \/ RunDecided
              \/ /\ RunFailed
                 /\ CloseGroups(Unclosed)
<1> DEFINE Good == /\ run' \in Run
                   /\ \/ RunKept
                      \/ RunFailed /\ run'.recovery = run.recovery
                      \/ RunDecided
                      \/ RunFailed /\ CloseGroups(Unclosed)
<1>0. UNCHANGED run => Good
  BY RunParts DEF RunKept
<1>1. CASE RecordExecution
  <2>1. UNCHANGED run \/ run' = [run EXCEPT !.execution = driver.exit]
    BY <1>1 DEF RecordExecution, recordSandboxExecution
  <2>2. ASSUME run' = [run EXCEPT !.execution = driver.exit] PROVE Good
    <3>1. run' \in Run
      BY <2>2, RunParts, RunFields, DriverParts
    <3>2. RunKept
      BY <2>2, RunParts DEF RunKept, Run
    <3> QED BY <3>1, <3>2
  <2> QED BY <2>1, <2>2, <1>0
<1>2. CASE RecordDecision
  <2>1. UNCHANGED run \/ recordPolicyDecision(driver.seen)
    BY <1>2 DEF RecordDecision
  <2>2. ASSUME recordPolicyDecision(driver.seen) PROVE Good
    <3> DEFINE decision == evaluatePolicy(driver.seen)
               seen == driver.seen
    <3>1. decision \in Decision
      BY DEF evaluatePolicy, Decision
    <3>2. seen \in [Requirement -> ResultStatus \cup {"none"}]
      BY DEF TypeOK, Driver
    <3>3. run' = [[[run EXCEPT !.status = "reviewed"] EXCEPT !.decision = decision] EXCEPT !.basis = seen]
      BY <2>2 DEF recordPolicyDecision
    <3>4. run.status = "running" /\ driver.pc = "policy" /\ UNCHANGED <<group, result>>
      BY <1>2, <2>2 DEF RecordDecision, recordPolicyDecision, DecisionGranted, At
    <3> HIDE DEF decision, seen
    <3>5. [run EXCEPT !.status = "reviewed"] \in Run
      BY RunParts, RunFields
    <3>6. [[run EXCEPT !.status = "reviewed"] EXCEPT !.decision = decision] \in Run
      BY <3>1, <3>5, RunFields
    <3>7. run' \in Run
      BY <3>2, <3>3, <3>6, RunFields
    <3>8. /\ run'.status = "reviewed"
          /\ run'.recovery = run.recovery
          /\ run'.decision = decision
          /\ run'.basis = seen
      BY <3>3, RunParts DEF Run
    <3> QED BY <3>4, <3>7, <3>8 DEF RunDecided, decision, seen
  <2> QED BY <2>1, <2>2, <1>0
<1>3. CASE Finalize
  <2>1. ASSUME markWorkflowExecutionFailed PROVE Good
    <3>1. run' \in Run
      BY <2>1, RunParts, RunFields DEF markWorkflowExecutionFailed
    <3>2. RunFailed /\ run'.recovery = run.recovery
      BY <2>1, RunParts DEF markWorkflowExecutionFailed, RunFailed, Run
    <3> QED BY <3>1, <3>2
  <2> QED BY <1>3, <2>1, <1>0 DEF Finalize
<1>4. CASE Supersede
  <2>1. run' \in Run
    BY <1>4, RunParts, RunFields DEF Supersede
  <2>2. RunKept
    BY <1>4, RunParts DEF Supersede, RunKept, Run
  <2> QED BY <2>1, <2>2
<1>5. CASE expireIncomingVerificationDispatch
  BY <1>5, <1>0, EndRunEffect DEF expireIncomingVerificationDispatch
<1>6. CASE terminalizeQueuedGitHubDelivery
  <2>1. CASE run.status = "running"
    BY <1>6, <2>1, EndRunEffect DEF terminalizeQueuedGitHubDelivery
  <2>2. CASE run.status # "running"
    <3>1. run' = [run EXCEPT !.settled = TRUE]
      BY <1>6, <2>2 DEF terminalizeQueuedGitHubDelivery
    <3>2. run' \in Run
      BY <3>1, RunParts, RunFields
    <3>3. RunKept
      BY <3>1, RunParts DEF RunKept, Run
    <3> QED BY <3>2, <3>3
  <2> QED BY <2>1, <2>2
<1>7. CASE ~(\/ RecordExecution \/ RecordDecision \/ Finalize \/ Supersede
             \/ expireIncomingVerificationDispatch \/ terminalizeQueuedGitHubDelivery)
  <2>1. UNCHANGED run
    BY <1>7, StepCases
       DEF ClaimGroup, TakeRequirement, GroupsClaimed, Prepare, CreateSandbox, StartGroup,
           CloneRepository, StartCommand, RecordCommand, WaitForCommand, deleteSandboxWithRetries,
           confirmSandboxDeleted, RecordResult, RecordCancelled, ReadState, RecordReview,
           Interrupt, Crash, expireVerificationExecutionGroup
  <2> QED BY <2>1, <1>0
<1> QED BY <1>1, <1>2, <1>3, <1>4, <1>5, <1>6, <1>7

-----------------------------------------------------------------------------
(* How a step may change a group: not at all; it opens the group further   *)
(* while it has no result; or it closes it with its first result.          *)

Trusted(q) ==
    /\ result[q].status = "passed" =>
          /\ group[q].token = "driver"
          /\ group[q].sandbox
          /\ group[q].command
          /\ group[q].execution = "succeeded"
          /\ result[q].cleanup
    /\ result[q].cleanup => box[q] = "gone"

Stays(q) == group'[q] = group[q] /\ result'[q] = result[q]

Opens(q) ==
    /\ ~IsClosed(q)
    /\ group'[q].status \notin Closed
    /\ group'[q].execution # "none" => group'[q].sandbox
    /\ result'[q] = result[q]

Closes(q) ==
    /\ ~IsClosed(q)
    /\ group'[q].status \in Closed
    /\ result'[q].status \in ResultStatus
    /\ group'[q].status = GroupStatus(result'[q].status)
    /\ group'[q].execution # "none" => group'[q].sandbox
    /\ Trusted(q)'
    /\ result'[q].cleanup => driver.req = q /\ driver.pc = "record"

Moves == \A q \in Requirement : Stays(q) \/ Opens(q) \/ Closes(q)

\* One group is patched, and is not closed before nor after.
LEMMA PatchOpens ==
    ASSUME NEW q \in Requirement, NEW fields \in Group, TypeOK, Patch(q, fields), UNCHANGED result,
           ~IsClosed(q), fields.status \notin Closed, fields.execution # "none" => fields.sandbox
    PROVE  group' \in [Requirement -> Group] /\ Moves
<1>1. /\ group' \in [Requirement -> Group]
      /\ group'[q] = fields
      /\ \A p \in Requirement \ {q} : group'[p] = group[p]
  BY PatchType
<1>2. Opens(q)
  BY <1>1 DEF Opens
<1>3. \A p \in Requirement \ {q} : Stays(p)
  BY <1>1 DEF Stays
<1> QED BY <1>1, <1>2, <1>3 DEF Moves

\* Recovery closes groups that have no result yet.
LEMMA CloseMoves ==
    ASSUME NEW Q \in SUBSET Requirement, TypeOK, ExecutedInSandbox, ClosedHasResult,
           CloseGroups(Q), \A q \in Q : ~IsClosed(q)
    PROVE  /\ group' \in [Requirement -> Group]
           /\ result' \in [Requirement -> Result]
           /\ Moves
           /\ \A q \in Q : Closes(q)
<1>1. ASSUME NEW q \in Q PROVE Closes(q)
  <2>1. ~HasResult(q)
    BY DEF ClosedHasResult
  <2>2. result'[q].status = "error" /\ ~result'[q].cleanup
    BY <2>1, CloseGroupsEffect
  <2>3. /\ group'[q].status = "failed"
        /\ group'[q].execution = group[q].execution
        /\ group'[q].sandbox = group[q].sandbox
    BY CloseGroupsEffect
  <2>4. GroupStatus("error") = "failed" /\ "failed" \in Closed /\ "error" \in ResultStatus
    BY DEF GroupStatus, Closed, ResultStatus
  <2>5. Trusted(q)'
    BY <2>2 DEF Trusted
  <2> QED BY <2>2, <2>3, <2>4, <2>5 DEF Closes, ExecutedInSandbox
<1>2. \A q \in Requirement \ Q : Stays(q)
  BY CloseGroupsEffect DEF Stays
<1> QED BY <1>1, <1>2, CloseGroupsEffect DEF Moves

\* The driver's result closes its group.
LEMMA ResultMoves ==
    ASSUME NEW q \in Requirement, NEW r, TypeOK, ExecutedInSandbox, UNCHANGED box,
           recordVerificationResult(q, r),
           r.status \in ResultStatus, r.cleanup \in BOOLEAN, r.identity \in BOOLEAN,
           r.cleanup => box[q] = "gone" /\ driver.req = q /\ driver.pc = "record"
    PROVE  /\ group' \in [Requirement -> Group]
           /\ result' \in [Requirement -> Result]
           /\ Moves
<1>r. /\ group' \in [Requirement -> Group]
      /\ result' \in [Requirement -> Result]
      /\ IsLive(q)
      /\ group'[q].status = GroupStatus(r.status)
      /\ group'[q].status \in Closed
      /\ group'[q].token = "driver"
      /\ group'[q].sandbox = group[q].sandbox
      /\ group'[q].command = r.identity
      /\ group'[q].execution = group[q].execution
      /\ result'[q] = [status |-> r.status, cleanup |-> r.cleanup]
      /\ \A p \in Requirement \ {q} : group'[p] = group[p] /\ result'[p] = result[p]
  BY RecordResultEffect
<1>1. result'[q].status = r.status /\ result'[q].cleanup = r.cleanup
  BY <1>r
<1>2. r.execution = group[q].execution
      /\ (r.status = "passed" => r.identity /\ r.execution = "succeeded" /\ r.cleanup)
  BY DEF recordVerificationResult, ResultGranted
<1>3. Trusted(q)'
  BY <1>r, <1>1, <1>2 DEF Trusted, ExecutedInSandbox
<1>4. ~IsClosed(q)
  BY <1>r, <1>1, StatusTypes DEF IsLive, IsClosed
<1>5. Closes(q)
  BY <1>r, <1>1, <1>3, <1>4 DEF Closes, ExecutedInSandbox
<1>6. \A p \in Requirement \ {q} : Stays(p)
  BY <1>r, <1>1 DEF Stays
<1> QED BY <1>r, <1>1, <1>5, <1>6 DEF Moves

LEMMA GroupStep ==
    ASSUME IInv, Next
    PROVE  /\ group' \in [Requirement -> Group]
           /\ result' \in [Requirement -> Result]
           /\ Moves
<1> DEFINE Good == /\ group' \in [Requirement -> Group]
                   /\ result' \in [Requirement -> Result]
                   /\ Moves
<1>i. TypeOK /\ WorksOnOne /\ CleanupObserved /\ ExecutedInSandbox /\ ClosedHasResult
  BY DEF IInv
<1>0. ASSUME UNCHANGED <<group, result>> PROVE Good
  BY <1>0, <1>i DEF TypeOK, Moves, Stays
<1>p. ASSUME NEW q \in Requirement, NEW fields \in Group, Patch(q, fields), UNCHANGED result,
             ~IsClosed(q), fields.status \notin Closed, fields.execution # "none" => fields.sandbox
      PROVE  Good
  BY <1>p, <1>i, PatchOpens DEF TypeOK
<1>g. \A q \in Requirement : group[q] \in Group
  BY <1>i DEF TypeOK
<1>1. ASSUME NEW q \in Requirement, ClaimGroup(q) PROVE Good
  <2>1. CASE claimVerificationExecutionGroup(q)
    <3> DEFINE new == [group[q] EXCEPT !.status = "claimed", !.token = "driver"]
    <3>1. group[q].status = "none"
      BY <2>1 DEF claimVerificationExecutionGroup, ClaimGranted
    <3>2. new \in Group /\ Patch(q, new)
      BY <1>i, <2>1, GroupPatches
    <3>3. new.status = "claimed" /\ new.execution = group[q].execution /\ new.sandbox = group[q].sandbox
      BY <1>g DEF Group
    <3>4. ~IsClosed(q) /\ "claimed" \notin Closed
      BY <3>1 DEF IsClosed, Closed
    <3>5. UNCHANGED result
      BY <1>1 DEF ClaimGroup
    <3> HIDE DEF new
    <3> QED BY <1>i, <3>2, <3>3, <3>4, <3>5, <1>p DEF ExecutedInSandbox
  <2>2. CASE UNCHANGED <<group, result>>
    BY <2>2, <1>0
  <2> QED BY <1>1, <2>1, <2>2 DEF ClaimGroup
<1>2. CASE StartGroup
  <2> DEFINE q == driver.req
             new == [group[q] EXCEPT !.status = "running", !.sandbox = TRUE]
  <2>1. q \in Requirement
    BY <1>2, <1>i DEF StartGroup, At, WorksOnOne, Working
  <2>2. CASE startVerificationExecutionGroup(q)
    <3>1. group[q].status = "claimed" /\ Patch(q, new)
      BY <2>2 DEF startVerificationExecutionGroup, StartGranted
    <3>2. new \in Group
      BY <1>i, <2>1, GroupPatches
    <3>3. new.status = "running" /\ new.sandbox
      BY <1>g, <2>1 DEF Group
    <3>4. ~IsClosed(q) /\ "running" \notin Closed
      BY <3>1 DEF IsClosed, Closed
    <3>5. UNCHANGED result
      BY <1>2 DEF StartGroup
    <3> HIDE DEF new, q
    <3> QED BY <2>1, <3>1, <3>2, <3>3, <3>4, <3>5, <1>p
  <2>3. CASE UNCHANGED <<group, result>>
    BY <2>3, <1>0
  <2> QED BY <1>2, <2>2, <2>3 DEF StartGroup
<1>3. CASE RecordCommand
  <2> DEFINE q == driver.req
             new == [group[q] EXCEPT !.command = TRUE]
  <2>1. q \in Requirement
    BY <1>3, <1>i DEF RecordCommand, At, WorksOnOne, Working
  <2>2. CASE recordVerificationExecutionCommand(q)
    <3>1. group[q].status = "running" /\ group[q].sandbox /\ Patch(q, new)
      BY <2>2 DEF recordVerificationExecutionCommand, CommandGranted
    <3>2. new \in Group
      BY <1>i, <2>1, GroupPatches
    <3>3. new.status = group[q].status /\ new.sandbox = group[q].sandbox
      BY <1>g, <2>1 DEF Group
    <3>4. ~IsClosed(q) /\ "running" \notin Closed
      BY <3>1 DEF IsClosed, Closed
    <3>5. UNCHANGED result
      BY <1>3 DEF RecordCommand
    <3> HIDE DEF new, q
    <3> QED BY <2>1, <3>1, <3>2, <3>3, <3>4, <3>5, <1>p
  <2>3. CASE UNCHANGED <<group, result>>
    BY <2>3, <1>0
  <2> QED BY <1>3, <2>2, <2>3 DEF RecordCommand
<1>4. CASE RecordExecution
  <2> DEFINE q == driver.req
             new == [group[q] EXCEPT !.execution = driver.exit]
  <2>1. q \in Requirement
    BY <1>4, <1>i DEF RecordExecution, At, WorksOnOne, Working
  <2>2. CASE recordSandboxExecution(q)
    <3>1. group[q].status = "running" /\ group[q].sandbox /\ Patch(q, new)
      BY <2>2 DEF recordSandboxExecution, ExecutionGranted
    <3>2. new \in Group
      BY <1>i, <2>1, GroupPatches
    <3>3. new.status = group[q].status /\ new.sandbox = group[q].sandbox
      BY <1>g, <2>1 DEF Group
    <3>4. ~IsClosed(q) /\ "running" \notin Closed
      BY <3>1 DEF IsClosed, Closed
    <3>5. UNCHANGED result
      BY <1>4 DEF RecordExecution
    <3> HIDE DEF new, q
    <3> QED BY <2>1, <3>1, <3>2, <3>3, <3>4, <3>5, <1>p
  <2>3. CASE UNCHANGED <<group, result>>
    BY <2>3, <1>0
  <2> QED BY <1>4, <2>2, <2>3 DEF RecordExecution
<1>5. CASE RecordResult
  <2> DEFINE q == driver.req
  <2>1. q \in Requirement /\ driver.pc = "record" /\ UNCHANGED box
    BY <1>5, <1>i DEF RecordResult, At, WorksOnOne, Working
  <2>2. CASE recordVerificationResult(q, Report)
    <3>1. Report.cleanup => driver.cleanup
      BY DEF Report
    <3>2. Report.cleanup => box[q] = "gone"
      BY <3>1, <1>i DEF CleanupObserved
    <3> HIDE DEF q
    <3>3. driver.req = q
      BY DEF q
    <3> QED BY <1>i, <2>1, <2>2, <3>2, <3>3, ReportType, ResultMoves
  <2>3. CASE UNCHANGED <<group, result>>
    BY <2>3, <1>0
  <2> QED BY <1>5, <2>2, <2>3 DEF RecordResult
<1>6. CASE RecordCancelled
  <2> DEFINE q == driver.req
             r == [status |-> "cancelled", identity |-> driver.identity, execution |-> "none",
                   cleanup |-> FALSE]
  <2>1. q \in Requirement /\ UNCHANGED box
    BY <1>6, <1>i DEF RecordCancelled, At, WorksOnOne, Working
  <2>2. r.status \in ResultStatus /\ r.cleanup = FALSE /\ r.identity \in BOOLEAN
    BY <1>i, DriverParts DEF ResultStatus
  <2>3. recordVerificationResult(q, r) \/ UNCHANGED <<group, result>>
    BY <1>6 DEF RecordCancelled
  <2> HIDE DEF q, r
  <2> QED BY <1>i, <2>1, <2>2, <2>3, <1>0, ResultMoves
<1>7. ASSUME NEW q \in Requirement, expireVerificationExecutionGroup(q) PROVE Good
  <2>1. CASE ExpiryDue(q)
    <3>1. ~IsClosed(q)
      BY <2>1 DEF ExpiryDue, IsClosed, Closed
    <3>2. CloseGroups({q})
      BY <1>7, <2>1 DEF expireVerificationExecutionGroup
    <3> QED BY <1>i, <3>1, <3>2, CloseMoves
  <2>2. CASE ~ExpiryDue(q)
    BY <1>7, <2>2, <1>0 DEF expireVerificationExecutionGroup
  <2> QED BY <2>1, <2>2
<1>8. ASSUME CloseGroups(Unclosed) PROVE Good
  <2>1. Unclosed \in SUBSET Requirement /\ \A q \in Unclosed : ~IsClosed(q)
    BY DEF Unclosed
  <2> QED BY <1>i, <1>8, <2>1, CloseMoves
<1>9. CASE expireIncomingVerificationDispatch
  BY <1>9, <1>0, <1>8 DEF expireIncomingVerificationDispatch, EndRun
<1>10. CASE terminalizeQueuedGitHubDelivery
  BY <1>10, <1>0, <1>8 DEF terminalizeQueuedGitHubDelivery, EndRun
<1>11. CASE \/ \E q \in Requirement : TakeRequirement(q)
            \/ GroupsClaimed \/ Prepare \/ CreateSandbox \/ CloneRepository \/ StartCommand
            \/ WaitForCommand \/ deleteSandboxWithRetries \/ confirmSandboxDeleted \/ ReadState
            \/ RecordReview \/ RecordDecision \/ Finalize \/ Interrupt \/ Crash \/ Supersede
  <2>1. UNCHANGED <<group, result>>
    BY <1>11 DEF TakeRequirement, GroupsClaimed, Prepare, CreateSandbox, CloneRepository,
           StartCommand, WaitForCommand, deleteSandboxWithRetries, confirmSandboxDeleted,
           ReadState, RecordReview, RecordDecision, Finalize, Interrupt, Crash, Supersede
  <2> QED BY <2>1, <1>0
<1> QED
  BY <1>1, <1>2, <1>3, <1>4, <1>5, <1>6, <1>7, <1>9, <1>10, <1>11, StepCases

\* A sandbox that a result reports as cleaned up does not come up again.
LEMMA BoxStep ==
    ASSUME IInv, Next
    PROVE  /\ box' \in [Requirement -> {"none", "up", "gone"}]
           /\ \A q \in Requirement : result[q].cleanup => box'[q] = "gone"
<1> DEFINE Good == /\ box' \in [Requirement -> {"none", "up", "gone"}]
                   /\ \A q \in Requirement : result[q].cleanup => box'[q] = "gone"
<1>i. TypeOK /\ WorksOnOne /\ CleanupAwaited /\ PassedIsTrusted
  BY DEF IInv
<1>b. /\ box \in [Requirement -> {"none", "up", "gone"}]
      /\ \A q \in Requirement : result[q].cleanup => box[q] = "gone"
  BY <1>i DEF TypeOK, PassedIsTrusted
<1>0. UNCHANGED box => Good
  BY <1>b
<1>1. CASE CreateSandbox
  <2>1. driver.req \in Requirement
    BY <1>1, <1>i DEF CreateSandbox, At, WorksOnOne, Working
  <2>2. ~result[driver.req].cleanup
    BY <2>1, <1>i DEF CleanupAwaited
  <2>3. box' = [box EXCEPT ![driver.req] = "up"] \/ UNCHANGED box
    BY <1>1 DEF CreateSandbox
  <2> QED BY <2>1, <2>2, <2>3, <1>b
<1>2. CASE deleteSandboxWithRetries
  <2>1. driver.req \in Requirement
    BY <1>2, <1>i DEF deleteSandboxWithRetries, At, WorksOnOne, Working
  <2>2. PICK left \in {box[driver.req], "gone"} : box' = [box EXCEPT ![driver.req] = left]
    BY <1>2 DEF deleteSandboxWithRetries
  <2>3. left \in {"none", "up", "gone"}
    BY <2>1, <1>b
  <2> QED BY <2>1, <2>2, <2>3, <1>b
<1>3. CASE ~CreateSandbox /\ ~deleteSandboxWithRetries
  <2>1. UNCHANGED box
    BY <1>3, StepCases
       DEF ClaimGroup, TakeRequirement, GroupsClaimed, Prepare, StartGroup, CloneRepository,
           StartCommand, RecordCommand, WaitForCommand, confirmSandboxDeleted, RecordExecution,
           RecordResult, RecordCancelled, ReadState, RecordReview, RecordDecision, Finalize,
           Interrupt, Crash, Supersede, expireVerificationExecutionGroup,
           expireIncomingVerificationDispatch, terminalizeQueuedGitHubDelivery
  <2> QED BY <2>1, <1>0
<1> QED BY <1>1, <1>2, <1>3

LEMMA AlarmsStep ==
    ASSUME IInv, Next
    PROVE  alarms' \in SUBSET (Requirement \cup {NoRequirement})
<1>i. TypeOK /\ WorksOnOne
  BY DEF IInv
<1>b. alarms \in SUBSET (Requirement \cup {NoRequirement})
  BY <1>i DEF TypeOK
<1>1. CASE StartGroup
  <2>1. driver.req \in Requirement
    BY <1>1, <1>i DEF StartGroup, At, WorksOnOne, Working
  <2>2. alarms' = alarms \cup {driver.req} \/ UNCHANGED alarms
    BY <1>1 DEF StartGroup, startVerificationExecutionGroup
  <2> QED BY <2>1, <2>2, <1>b
<1>2. CASE ~StartGroup
  <2>1. UNCHANGED alarms \/ \E a \in Requirement \cup {NoRequirement} : alarms' = alarms \ {a}
    BY <1>2, StepCases
       DEF ClaimGroup, TakeRequirement, GroupsClaimed, Prepare, CreateSandbox, CloneRepository,
           StartCommand, RecordCommand, WaitForCommand, deleteSandboxWithRetries,
           confirmSandboxDeleted, RecordExecution, RecordResult, RecordCancelled, ReadState,
           RecordReview, RecordDecision, Finalize, Interrupt, Crash, Supersede,
           expireVerificationExecutionGroup, expireIncomingVerificationDispatch,
           terminalizeQueuedGitHubDelivery
  <2> QED BY <2>1, <1>b
<1> QED BY <1>1, <1>2

LEMMA TypeStep ==
    ASSUME IInv, Next
    PROVE  TypeOK'
<1>i. TypeOK
  BY DEF IInv
<1>1. driver' \in Driver
  <2>1. CASE DriverStep
    BY <2>1, <1>i, DriverType
  <2>2. CASE ~DriverStep
    <3>1. UNCHANGED driver
      BY <2>2 DEF Next, Recovery, Supersede, expireVerificationExecutionGroup,
                  expireIncomingVerificationDispatch, terminalizeQueuedGitHubDelivery
    <3> QED BY <3>1, <1>i, DriverParts
  <2> QED BY <2>1, <2>2
<1>2. run' \in Run
  BY <1>i, RunStep
<1> QED BY <1>1, <1>2, GroupStep, BoxStep, AlarmsStep DEF TypeOK

\* Nothing of a complete plan changes any more.
LEMMA CompleteStays ==
    ASSUME Moves, PlanComplete
    PROVE  PlanComplete' /\ Statuses' = Statuses
<1>1. \A q \in Requirement : group'[q] = group[q] /\ result'[q] = result[q]
  BY DEF Moves, Stays, Opens, Closes, PlanComplete
<1> QED BY <1>1 DEF PlanComplete, IsClosed, HasResult, Statuses

\* Recovery completes the plan.
LEMMA CloseCompletes ==
    ASSUME TypeOK, ExecutedInSandbox, ClosedHasResult, CloseGroups(Unclosed)
    PROVE  PlanComplete'
<1>1. Unclosed \in SUBSET Requirement /\ \A q \in Unclosed : ~IsClosed(q)
  BY DEF Unclosed
<1>2. \A q \in Unclosed : Closes(q)
  BY <1>1, CloseMoves
<1>3. \A q \in Requirement \ Unclosed : group'[q] = group[q] /\ result'[q] = result[q]
  BY <1>1, CloseGroupsEffect
<1>4. \A q \in Requirement \ Unclosed : IsClosed(q) /\ HasResult(q)
  BY DEF Unclosed, ClosedHasResult
<1> QED BY <1>1, <1>2, <1>3, <1>4, StatusTypes DEF PlanComplete, Closes, IsClosed, HasResult

\* The rows alone: what a group and its result say, and the decision.
LEMMA RowsStep ==
    ASSUME IInv, Next
    PROVE  /\ ExecutedInSandbox'
           /\ ClosedHasResult'
           /\ PassedIsTrusted'
           /\ DecidedIffReviewed'
           /\ DecidedOnFinalResults'
           /\ RecoveredIsComplete'
<1>i. /\ TypeOK /\ ExecutedInSandbox /\ ClosedHasResult /\ PassedIsTrusted /\ ReviewsFinalResults
      /\ DecidedIffReviewed /\ DecidedOnFinalResults /\ RecoveredIsComplete
  BY DEF IInv
<1>m. Moves
  BY GroupStep
<1>1. ExecutedInSandbox'
  BY <1>i, <1>m DEF ExecutedInSandbox, Moves, Stays, Opens, Closes
<1>2. ClosedHasResult'
  <2> SUFFICES ASSUME NEW q \in Requirement
               PROVE  /\ (IsClosed(q) <=> HasResult(q))'
                      /\ HasResult(q)' => group'[q].status = GroupStatus(result'[q].status)
    BY DEF ClosedHasResult
  <2>1. CASE Stays(q)
    BY <2>1, <1>i DEF Stays, ClosedHasResult, IsClosed, HasResult
  <2>2. CASE Opens(q)
    BY <2>2, <1>i DEF Opens, ClosedHasResult, IsClosed, HasResult
  <2>3. CASE Closes(q)
    BY <2>3, StatusTypes DEF Closes, IsClosed, HasResult
  <2> QED BY <2>1, <2>2, <2>3, <1>m DEF Moves
<1>3. PassedIsTrusted'
  <2> SUFFICES ASSUME NEW q \in Requirement PROVE Trusted(q)'
    BY DEF PassedIsTrusted, Trusted
  <2>1. CASE Stays(q)
    BY <2>1, <1>i, BoxStep DEF Stays, PassedIsTrusted, Trusted
  <2>2. CASE Opens(q)
    <3>1. ~HasResult(q)
      BY <2>2, <1>i DEF Opens, ClosedHasResult
    <3>2. result'[q].status # "passed"
      BY <3>1, <2>2 DEF Opens, HasResult
    <3>3. result'[q].cleanup => box'[q] = "gone"
      BY <2>2, BoxStep DEF Opens
    <3> QED BY <3>2, <3>3 DEF Trusted
  <2>3. CASE Closes(q)
    BY <2>3 DEF Closes
  <2> QED BY <2>1, <2>2, <2>3, <1>m DEF Moves
<1>4. CASE RunKept
  <2>1. DecidedIffReviewed' /\ RecoveredIsComplete'
    BY <1>4, <1>i, <1>m, CompleteStays DEF RunKept, DecidedIffReviewed, RecoveredIsComplete
  <2>2. ASSUME run.status = "reviewed" PROVE Statuses' = Statuses /\ PlanComplete'
    BY <2>2, <1>i, <1>m, CompleteStays DEF DecidedOnFinalResults
  <2>3. \A q \in Requirement : Statuses[q] = result[q].status
    BY DEF Statuses
  <2>4. \A q \in Requirement : Statuses'[q] = result'[q].status
    BY DEF Statuses
  <2>5. DecidedOnFinalResults'
    BY <1>4, <1>i, <2>2, <2>3, <2>4 DEF RunKept, DecidedOnFinalResults
  <2> QED BY <2>1, <2>5, <1>1, <1>2, <1>3
<1>5. CASE RunFailed
  <2>1. DecidedIffReviewed' /\ DecidedOnFinalResults'
    BY <1>5, <1>i DEF RunFailed, DecidedIffReviewed, DecidedOnFinalResults
  <2>2. (run'.recovery = run.recovery) => RecoveredIsComplete'
    BY <1>5, <1>i DEF RunFailed, RecoveredIsComplete
  <2>3. CloseGroups(Unclosed) => RecoveredIsComplete'
    BY <1>5, <1>i, CloseCompletes DEF RunFailed, RecoveredIsComplete
  <2>4. (run'.recovery = run.recovery) \/ CloseGroups(Unclosed)
    BY <1>5, <1>i, RunStep DEF RunFailed, RunKept, RunDecided
  <2> QED BY <2>1, <2>2, <2>3, <2>4, <1>1, <1>2, <1>3
<1>6. CASE RunDecided
  <2>1. PlanComplete /\ driver.seen = Statuses
    BY <1>6, <1>i DEF RunDecided, ReviewsFinalResults
  <2>2. PlanComplete' /\ Statuses' = Statuses
    BY <2>1, <1>m, CompleteStays
  <2>3. RecoveredIsComplete'
    BY <1>6, <1>i DEF RunDecided, RecoveredIsComplete
  <2>4. run'.decision # "none"
    BY <1>6 DEF RunDecided, evaluatePolicy
  <2>5. (\E q \in Requirement : Statuses[q] = "failed") => run'.decision = "changes-requested"
    BY <1>6, <2>1 DEF RunDecided, evaluatePolicy, HasErrorFinding
  <2>6. \A q \in Requirement : Statuses'[q] = result'[q].status
    BY DEF Statuses
  <2>7. DecidedOnFinalResults'
    BY <1>6, <2>1, <2>2, <2>5, <2>6 DEF RunDecided, DecidedOnFinalResults
  <2> QED BY <1>6, <2>3, <2>4, <2>7, <1>1, <1>2, <1>3 DEF RunDecided, DecidedIffReviewed
<1> QED BY <1>i, <1>4, <1>5, <1>6, RunStep

\* A cleanup is reported for the requirement at hand only, when it is recorded.
LEMMA CleanupStep ==
    ASSUME Moves, NEW q \in Requirement, ~result[q].cleanup,
           ~(driver.req = q /\ driver.pc = "record")
    PROVE  ~result'[q].cleanup
  BY DEF Moves, Stays, Opens, Closes

\* A driver that works on nothing, and expects nothing but what it expected before.
LEMMA RestsPreserves ==
    ASSUME TypeOK, WorksOnOne, CleanupAwaited, Moves,
           driver'.req = NoRequirement, driver'.pc \notin Working \cup {"review", "policy"},
           ~driver'.cleanup, driver'.left \subseteq driver.left \cup driver.mine,
           driver'.mine \subseteq driver.left \cup driver.mine,
           driver.pc \in Working => driver'.left \subseteq driver.left /\ driver'.mine = {},
           driver'.pc \notin {"claim", "prepare"} => driver'.mine = {}
    PROVE  /\ WorksOnOne'
           /\ CleanupAwaited'
           /\ CleanupObserved'
           /\ ReviewsFinalResults'
<1>1. driver'.left \subseteq Requirement
  BY DriverParts
<1>2. WorksOnOne'
  BY <1>1, GroupConstants DEF WorksOnOne
<1>3. CleanupAwaited'
  <2> SUFFICES ASSUME NEW q \in Requirement, q \in driver'.left \cup driver'.mine
               PROVE  ~result'[q].cleanup
    BY GroupConstants DEF CleanupAwaited
  <2>1. ~result[q].cleanup
    BY DEF CleanupAwaited
  <2>2. ~(driver.req = q /\ driver.pc = "record")
    BY DEF WorksOnOne, Working
  <2> QED BY <2>1, <2>2, CleanupStep
<1>4. CleanupObserved' /\ ReviewsFinalResults'
  BY DEF CleanupObserved, ReviewsFinalResults
<1> QED BY <1>2, <1>3, <1>4

\* A driver that goes on with what it has.
Same == driver'.req = driver.req /\ driver'.left = driver.left /\ driver'.mine = driver.mine

LEMMA ContinuesPreserves ==
    ASSUME TypeOK, WorksOnOne, CleanupAwaited, Moves, Same,
           driver.pc # "record",
           driver'.pc \in Working <=> driver.pc \in Working,
           driver'.pc \notin {"claim", "prepare"} => driver.mine = {},
           driver'.cleanup => /\ driver'.pc \in {"execution", "record", "cancel"}
                              /\ box'[driver.req] = "gone",
           driver'.pc \in {"review", "policy"} => PlanComplete' /\ driver'.seen = Statuses'
    PROVE  /\ WorksOnOne'
           /\ CleanupAwaited'
           /\ CleanupObserved'
           /\ ReviewsFinalResults'
<1>1. WorksOnOne'
  BY DEF WorksOnOne, Same
<1>2. CleanupAwaited'
  BY CleanupStep DEF CleanupAwaited, Same
<1>3. CleanupObserved' /\ ReviewsFinalResults'
  BY DEF CleanupObserved, ReviewsFinalResults, Same
<1> QED BY <1>1, <1>2, <1>3

LEMMA GotoEffect ==
    ASSUME TypeOK, NEW pc \in Stage, Goto(pc)
    PROVE  Same /\ driver'.pc = pc /\ driver'.cleanup = driver.cleanup /\ driver'.seen = driver.seen
  BY DriverParts DEF Goto, Driver, Same

LEMMA CallFailsEffect ==
    ASSUME TypeOK, CallFails
    PROVE  Same /\ driver'.pc = "delete" /\ driver'.cleanup = driver.cleanup
  BY DriverParts DEF CallFails, Driver, Same

DriverInv == WorksOnOne /\ CleanupAwaited /\ CleanupObserved /\ ReviewsFinalResults

LEMMA FailsPreserves ==
    ASSUME TypeOK, WorksOnOne, CleanupAwaited, Moves,
           Fails \/ End("finalize") \/ End("done")
    PROVE  DriverInv'
<1>1. /\ driver'.pc \in {"finalize", "done"}
      /\ driver'.left = {}
      /\ driver'.mine = {}
      /\ driver'.req = NoRequirement
      /\ ~driver'.cleanup
  BY FailsEffect, EndEffect
<1> QED BY <1>1, RestsPreserves DEF Working, DriverInv

\* The steps of the sandbox call, before its cleanup is known.
LEMMA SandboxPreserves ==
    ASSUME IInv, Moves, Same,
           driver.pc \in {"create", "start", "clone", "session", "command", "wait", "delete"},
           driver'.pc \in Working, driver'.cleanup = driver.cleanup
    PROVE  DriverInv'
<1>1. TypeOK /\ WorksOnOne /\ CleanupAwaited /\ CleanupObserved
  BY DEF IInv
<1>2. driver.mine = {} /\ driver.pc \in Working /\ ~driver'.cleanup
  BY <1>1 DEF WorksOnOne, CleanupObserved, Working
<1> QED BY <1>1, <1>2, ContinuesPreserves DEF Working, DriverInv

LEMMA DriverStepPreserves ==
    ASSUME IInv, Moves, DriverStep
    PROVE  DriverInv'
<1>i. TypeOK /\ WorksOnOne /\ CleanupAwaited /\ CleanupObserved /\ ReviewsFinalResults
  BY DEF IInv
<1>f. Fails \/ End("finalize") \/ End("done") => DriverInv'
  BY <1>i, FailsPreserves
<1>1. ASSUME NEW q \in Requirement, ClaimGroup(q) PROVE DriverInv'
  <2>1. \/ driver' = [driver EXCEPT !.left = @ \ {q}, !.mine = @ \cup {q}]
        \/ driver' = [driver EXCEPT !.left = @ \ {q}]
        \/ Fails
    BY <1>1 DEF ClaimGroup
  <2>2. q \in driver.left /\ driver.pc = "claim"
    BY <1>1 DEF ClaimGroup, At
  <2>3. ~driver.cleanup /\ driver.req = NoRequirement
    BY <2>2, <1>i DEF CleanupObserved, WorksOnOne, Working
  <2>4. CASE ~Fails
    <3>1. /\ driver'.pc = "claim"
          /\ driver'.left = driver.left \ {q}
          /\ driver'.mine \subseteq driver.mine \cup {q}
          /\ driver'.req = driver.req
          /\ driver'.cleanup = driver.cleanup
      BY <2>1, <2>2, <2>4, <1>i, DriverParts DEF Driver
    <3> QED BY <1>i, <2>2, <2>3, <3>1, RestsPreserves DEF DriverInv, Working
  <2> QED BY <2>4, <1>f
<1>2. ASSUME NEW q \in Requirement, TakeRequirement(q) PROVE DriverInv'
  <2>1. driver.pc = "next" /\ q \in driver.left
    BY <1>2 DEF TakeRequirement, At
  <2>2. /\ driver'.pc \in {"record", "create"}
        /\ driver'.left = driver.left \ {q}
        /\ driver'.req = q
        /\ driver'.mine = driver.mine
        /\ driver'.cleanup = driver.cleanup
    BY <1>2, <1>i, DriverParts DEF TakeRequirement, Driver
  <2>3. ~driver.cleanup /\ driver.mine = {}
    BY <2>1, <1>i DEF CleanupObserved, WorksOnOne
  <2>4. WorksOnOne'
    BY <2>2, <2>3 DEF WorksOnOne, Working
  <2>5. CleanupAwaited'
    BY <1>i, <2>1, <2>2, <2>3, CleanupStep DEF CleanupAwaited
  <2> QED BY <2>2, <2>3, <2>4, <2>5 DEF DriverInv, CleanupObserved, ReviewsFinalResults
<1>3. CASE GroupsClaimed
  <2>1. driver.pc = "claim" /\ Same /\ driver'.pc = "prepare" /\ driver'.cleanup = driver.cleanup
    BY <1>3, <1>i, GotoEffect, Stages DEF GroupsClaimed, At
  <2>2. ~driver.cleanup
    BY <2>1, <1>i DEF CleanupObserved
  <2> QED BY <1>i, <2>1, <2>2, ContinuesPreserves DEF Working, DriverInv
<1>4. CASE Prepare
  <2>1. ASSUME NEW capacity \in BOOLEAN,
               driver' = [Idle EXCEPT !.pc = "next", !.left = driver.mine, !.capacity = capacity]
        PROVE  DriverInv'
    <3>1. /\ driver'.pc = "next"
          /\ driver'.left = driver.mine
          /\ driver'.mine = {}
          /\ driver'.req = NoRequirement
          /\ ~driver'.cleanup
      BY <2>1 DEF Idle
    <3>2. driver.pc = "prepare"
      BY <1>4 DEF Prepare, At
    <3> QED BY <1>i, <3>1, <3>2, RestsPreserves DEF DriverInv, Working
  <2> QED BY <1>4, <2>1, <1>f DEF Prepare
<1>5. CASE CreateSandbox
  BY <1>5, <1>i, GotoEffect, SandboxPreserves, Stages DEF CreateSandbox, At, Working
<1>6. CASE StartGroup
  BY <1>6, <1>i, GotoEffect, CallFailsEffect, SandboxPreserves, Stages DEF StartGroup, At, Working
<1>7. CASE CloneRepository
  BY <1>7, <1>i, GotoEffect, CallFailsEffect, SandboxPreserves, Stages DEF CloneRepository, At, Working
<1>8. CASE StartCommand
  <2>1. driver' = [driver EXCEPT !.pc = "command", !.identity = TRUE] =>
          Same /\ driver'.pc = "command" /\ driver'.cleanup = driver.cleanup
    BY <1>i, DriverParts DEF Driver, Same
  <2> QED
    BY <1>8, <1>i, <2>1, GotoEffect, CallFailsEffect, SandboxPreserves, Stages
       DEF StartCommand, At, Working
<1>9. CASE RecordCommand
  BY <1>9, <1>i, GotoEffect, CallFailsEffect, SandboxPreserves, Stages DEF RecordCommand, At, Working
<1>10. CASE WaitForCommand
  <2>1. ASSUME NEW exit \in {"succeeded", "failed"},
               driver' = [driver EXCEPT !.pc = "delete", !.exit = exit]
        PROVE  Same /\ driver'.pc = "delete" /\ driver'.cleanup = driver.cleanup
    BY <1>i, <2>1, DriverParts DEF Driver, Same
  <2> QED
    BY <1>10, <1>i, <2>1, CallFailsEffect, SandboxPreserves DEF WaitForCommand, At, Working
<1>11. CASE deleteSandboxWithRetries
  BY <1>11, <1>i, GotoEffect, SandboxPreserves, Stages DEF deleteSandboxWithRetries, At, Working
<1>12. CASE confirmSandboxDeleted
  <2>1. PICK confirmed \in BOOLEAN :
          /\ confirmed => box[driver.req] = "gone"
          /\ driver' = [driver EXCEPT !.cleanup = confirmed, !.pc = AfterSandbox]
    BY <1>12 DEF confirmSandboxDeleted, DeletionObserved
  <2>2. AfterSandbox \in {"cancel", "execution", "record"}
    BY DEF AfterSandbox
  <2>3. Same /\ driver'.pc = AfterSandbox /\ driver'.cleanup = confirmed
    BY <1>i, <2>1, DriverParts DEF Driver, Same
  <2>4. driver.pc = "confirm" /\ UNCHANGED box
    BY <1>12 DEF confirmSandboxDeleted, At
  <2>5. driver.mine = {}
    BY <2>4, <1>i DEF WorksOnOne
  <2> QED BY <1>i, <2>1, <2>2, <2>3, <2>4, <2>5, ContinuesPreserves DEF Working, DriverInv
<1>13. CASE RecordExecution
  <2>1. ASSUME NEW outcome \in Judgement, driver' = [driver EXCEPT !.pc = "record", !.outcome = outcome]
        PROVE  DriverInv'
    <3>1. Same /\ driver'.pc = "record" /\ driver'.cleanup = driver.cleanup
      BY <1>i, <2>1, DriverParts DEF Driver, Same
    <3>2. driver.pc = "execution" /\ UNCHANGED box
      BY <1>13 DEF RecordExecution, At
    <3>3. driver.mine = {} /\ (driver.cleanup => box[driver.req] = "gone")
      BY <3>2, <1>i DEF WorksOnOne, CleanupObserved
    <3> QED BY <1>i, <3>1, <3>2, <3>3, ContinuesPreserves DEF Working, DriverInv
  <2> QED BY <1>13, <2>1, <1>f DEF RecordExecution
<1>14. CASE RecordResult
  <2>1. ASSUME driver' = [Idle EXCEPT !.pc = "next", !.left = driver.left, !.capacity = driver.capacity]
        PROVE  DriverInv'
    <3>1. /\ driver'.pc = "next"
          /\ driver'.left = driver.left
          /\ driver'.mine = {}
          /\ driver'.req = NoRequirement
          /\ ~driver'.cleanup
      BY <2>1 DEF Idle
    <3> QED BY <1>i, <3>1, RestsPreserves DEF DriverInv, Working
  <2> QED BY <1>14, <2>1, <1>f DEF RecordResult
<1>15. RecordCancelled \/ Finalize \/ Crash => DriverInv'
  BY <1>f DEF RecordCancelled, Finalize, Crash
<1>16. CASE ReadState
  <2>1. driver.pc = "next" /\ UNCHANGED <<group, result>>
    BY <1>16 DEF ReadState, At
  <2>2. CASE PlanComplete
    <3>1. Same /\ driver'.pc = "review" /\ driver'.seen = Statuses /\ driver'.cleanup = driver.cleanup
      BY <1>16, <1>i, <2>2, DriverParts DEF ReadState, Driver, Same
    <3>2. PlanComplete' /\ Statuses' = Statuses
      BY <2>1, <2>2 DEF PlanComplete, Statuses, IsClosed, HasResult
    <3>3. ~driver.cleanup /\ driver.mine = {}
      BY <2>1, <1>i DEF CleanupObserved, WorksOnOne
    <3> QED BY <1>i, <2>1, <3>1, <3>2, <3>3, ContinuesPreserves DEF Working, DriverInv
  <2>3. CASE ~PlanComplete
    <3>1. driver' = Idle
      BY <1>16, <2>3 DEF ReadState
    <3>2. /\ driver'.pc = "done"
          /\ driver'.left = {}
          /\ driver'.mine = {}
          /\ driver'.req = NoRequirement
          /\ ~driver'.cleanup
      BY <3>1 DEF Idle
    <3> QED BY <1>i, <3>2, RestsPreserves DEF DriverInv, Working
  <2> QED BY <2>2, <2>3
<1>17. CASE RecordReview
  <2>1. ASSUME Goto("policy") PROVE DriverInv'
    <3>1. /\ Same
          /\ driver'.pc = "policy"
          /\ driver'.cleanup = driver.cleanup
          /\ driver'.seen = driver.seen
      BY <1>i, <2>1, GotoEffect, Stages
    <3>2. driver.pc = "review"
      BY <1>17 DEF RecordReview, At
    <3>3. ~driver.cleanup /\ driver.mine = {} /\ PlanComplete /\ driver.seen = Statuses
      BY <3>2, <1>i DEF CleanupObserved, WorksOnOne, ReviewsFinalResults
    <3>4. PlanComplete' /\ Statuses' = Statuses
      BY <3>3, CompleteStays
    <3> QED BY <1>i, <3>1, <3>2, <3>3, <3>4, ContinuesPreserves DEF Working, DriverInv
  <2> QED BY <1>17, <2>1, <1>f DEF RecordReview
<1>18. CASE RecordDecision
  BY <1>18, <1>f DEF RecordDecision
<1>19. CASE Interrupt
  <2>1. CASE InSandbox
    <3>1. driver' = [driver EXCEPT !.interrupted = TRUE,
                       !.pc = IF driver.pc = "confirm" THEN "confirm" ELSE "delete"]
      BY <1>19, <2>1 DEF Interrupt
    <3>2. Same /\ driver'.pc \in {"confirm", "delete"} /\ driver'.cleanup = driver.cleanup
      BY <3>1, <1>i, DriverParts DEF Driver, Same
    <3>3. driver.pc \in Working /\ driver.pc # "record" /\ driver.mine = {} /\ ~driver.cleanup
      BY <2>1, <1>i DEF InSandbox, Working, WorksOnOne, CleanupObserved
    <3> QED BY <1>i, <3>2, <3>3, ContinuesPreserves DEF Working, DriverInv
  <2>2. CASE ~InSandbox
    BY <1>19, <2>2, <1>f DEF Interrupt
  <2> QED BY <2>1, <2>2
<1> QED
  BY <1>1, <1>2, <1>3, <1>4, <1>5, <1>6, <1>7, <1>8, <1>9, <1>10, <1>11, <1>12, <1>13, <1>14,
     <1>15, <1>16, <1>17, <1>18, <1>19 DEF DriverStep

\* Recovery reports no cleanup.
LEMMA OthersCleanNothing ==
    ASSUME IInv, Next, ~DriverStep, NEW q \in Requirement, ~result[q].cleanup
    PROVE  ~result'[q].cleanup
<1>i. TypeOK /\ ClosedHasResult
  BY DEF IInv
<1>1. ASSUME NEW Q \in SUBSET Requirement, CloseGroups(Q), \A p \in Q : ~IsClosed(p)
      PROVE  ~result'[q].cleanup
  <2>1. CASE q \in Q
    <3>1. ~HasResult(q)
      BY <1>1, <1>i, <2>1 DEF ClosedHasResult
    <3>2. result'[q] = [status |-> "error", cleanup |-> FALSE]
      BY <1>1, <1>i, <2>1, <3>1, CloseGroupsEffect
    <3> QED BY <3>2
  <2>2. CASE q \notin Q
    BY <1>1, <1>i, <2>2, CloseGroupsEffect
  <2> QED BY <2>1, <2>2
<1>2. ASSUME CloseGroups(Unclosed) PROVE ~result'[q].cleanup
  <2>1. Unclosed \in SUBSET Requirement /\ \A p \in Unclosed : ~IsClosed(p)
    BY DEF Unclosed
  <2> QED BY <1>1, <1>2, <2>1
<1>3. ASSUME NEW p \in Requirement, expireVerificationExecutionGroup(p)
      PROVE  ~result'[q].cleanup
  <2>1. CASE ExpiryDue(p)
    <3>1. CloseGroups({p}) /\ ~IsClosed(p)
      BY <1>3, <2>1 DEF expireVerificationExecutionGroup, ExpiryDue, IsClosed, Closed
    <3> QED BY <3>1, <1>1
  <2>2. CASE ~ExpiryDue(p)
    BY <1>3, <2>2 DEF expireVerificationExecutionGroup
  <2> QED BY <2>1, <2>2
<1>4. expireIncomingVerificationDispatch \/ terminalizeQueuedGitHubDelivery \/ Supersede
        => ~result'[q].cleanup
  BY <1>2 DEF expireIncomingVerificationDispatch, terminalizeQueuedGitHubDelivery, Supersede, EndRun
<1> QED BY <1>3, <1>4 DEF Next, Recovery

\* Meanwhile the rows may change.
LEMMA OthersPreserve ==
    ASSUME IInv, Next, ~DriverStep
    PROVE  WorksOnOne' /\ CleanupAwaited' /\ CleanupObserved' /\ ReviewsFinalResults'
<1>i. TypeOK /\ WorksOnOne /\ CleanupAwaited /\ CleanupObserved /\ ReviewsFinalResults
  BY DEF IInv
<1>0. UNCHANGED <<driver, box>>
  BY DEF Next, Recovery, Supersede, expireVerificationExecutionGroup,
         expireIncomingVerificationDispatch, terminalizeQueuedGitHubDelivery
<1>1. WorksOnOne' /\ CleanupObserved'
  BY <1>0, <1>i DEF WorksOnOne, CleanupObserved
<1>2. CleanupAwaited'
  BY <1>0, <1>i, OthersCleanNothing DEF CleanupAwaited
<1>3. ReviewsFinalResults'
  BY <1>0, <1>i, GroupStep, CompleteStays DEF ReviewsFinalResults
<1> QED BY <1>1, <1>2, <1>3

-----------------------------------------------------------------------------
(* The invariant                                                           *)

LEMMA InitInvariant == Init => IInv
<1> SUFFICES ASSUME Init PROVE IInv
  OBVIOUS
<1>1. PICK rerun \in BOOLEAN :
        run = [status |-> "running", latest |-> TRUE, rerun |-> rerun, recovery |-> "none",
               settled |-> FALSE, execution |-> "none", decision |-> "none", basis |-> NoResults]
  BY DEF Init
<1>2. /\ group = [q \in Requirement |->
                    [status |-> "none", token |-> "none", sandbox |-> FALSE, command |-> FALSE,
                     execution |-> "none"]]
      /\ result = [q \in Requirement |-> [status |-> "none", cleanup |-> FALSE]]
      /\ box = [q \in Requirement |-> "none"]
      /\ alarms = {NoRequirement}
  BY DEF Init
<1>3. driver = [[Idle EXCEPT !.pc = "claim"] EXCEPT !.left = Requirement]
  BY DEF Init
<1>4. [Idle EXCEPT !.pc = "claim"] \in Driver
  BY IdleType, Stages
<1>5. driver \in Driver
  BY <1>3, <1>4, DriverFields
<1>6. /\ driver.pc = "claim" /\ driver.mine = {} /\ driver.req = NoRequirement /\ ~driver.cleanup
  BY <1>3 DEF Idle
<1>7. run \in Run
  BY <1>1 DEF Run, Execution, Decision, NoResults
<1>8. group \in [Requirement -> Group] /\ result \in [Requirement -> Result]
  BY <1>2 DEF Group, Execution, Result
<1>9. TypeOK
  BY <1>2, <1>5, <1>7, <1>8 DEF TypeOK
<1>10. \A q \in Requirement :
         /\ group[q].status = "none" /\ group[q].execution = "none"
         /\ result[q].status = "none" /\ ~result[q].cleanup
  BY <1>2
<1>11. run.status = "running" /\ run.decision = "none" /\ run.recovery = "none"
  BY <1>1
<1>12. driver.left \subseteq Requirement
  BY <1>5 DEF Driver
<1>13. WorksOnOne /\ CleanupObserved /\ ReviewsFinalResults
  BY <1>6, <1>12, GroupConstants DEF WorksOnOne, Working, CleanupObserved, ReviewsFinalResults
<1>14. CleanupAwaited /\ ExecutedInSandbox /\ PassedIsTrusted
  BY <1>10 DEF CleanupAwaited, ExecutedInSandbox, PassedIsTrusted
<1>15. ClosedHasResult
  BY <1>10, StatusTypes DEF ClosedHasResult, IsClosed, HasResult
<1>16. DecidedIffReviewed /\ DecidedOnFinalResults /\ RecoveredIsComplete
  BY <1>11 DEF DecidedIffReviewed, DecidedOnFinalResults, RecoveredIsComplete
<1> QED BY <1>9, <1>13, <1>14, <1>15, <1>16 DEF IInv

LEMMA StepInvariant == IInv /\ [Next]_vars => IInv'
<1>1. ASSUME IInv, Next PROVE IInv'
  <2>1. WorksOnOne' /\ CleanupAwaited' /\ CleanupObserved' /\ ReviewsFinalResults'
    <3>1. CASE DriverStep
      BY <1>1, <3>1, GroupStep, DriverStepPreserves DEF DriverInv
    <3>2. CASE ~DriverStep
      BY <1>1, <3>2, OthersPreserve
    <3> QED BY <3>1, <3>2
  <2> QED BY <1>1, <2>1, TypeStep, RowsStep DEF IInv
<1>2. ASSUME IInv, UNCHANGED vars PROVE IInv'
  BY <1>2
     DEF vars, IInv, TypeOK, WorksOnOne, CleanupAwaited, CleanupObserved, ExecutedInSandbox,
         ReviewsFinalResults, DecidedIffReviewed, ClosedHasResult, PassedIsTrusted,
         DecidedOnFinalResults, RecoveredIsComplete, PlanComplete, Statuses, IsClosed, HasResult
<1> QED BY <1>1, <1>2

\* In every reachable state the rows, the driver and what they say of each other are as
\* the calls of the driver and of recovery leave them.
THEOREM Invariance == Spec => []IInv
  BY InitInvariant, StepInvariant, PTL DEF Spec

\* The rows and the driver keep their types.
THEOREM TypeCorrect == Spec => []TypeOK
<1>1. IInv => TypeOK
  BY DEF IInv
<1> QED BY <1>1, Invariance, PTL

\* Whoever closes a group, the worker or a recovery, leaves exactly one result that
\* agrees with the status of the group.
THEOREM ClosedWithResult == Spec => []ClosedHasResult
<1>1. IInv => ClosedHasResult
  BY DEF IInv
<1> QED BY <1>1, Invariance, PTL

\* A passed result speaks of an execution that was recorded and of a sandbox that is gone.
THEOREM PassedTrusted == Spec => []PassedIsTrusted
<1>1. IInv => PassedIsTrusted
  BY DEF IInv
<1> QED BY <1>1, Invariance, PTL

\* The decision rests on the final result of every requirement.
THEOREM DecidedOnFinal == Spec => []DecidedOnFinalResults
<1>1. IInv => DecidedOnFinalResults
  BY DEF IInv
<1> QED BY <1>1, Invariance, PTL

\* A recovered run shows every requirement closed with a result, for good.
THEOREM RecoveredComplete == Spec => []RecoveredIsComplete
<1>1. IInv => RecoveredIsComplete
  BY DEF IInv
<1> QED BY <1>1, Invariance, PTL

-----------------------------------------------------------------------------
(* Steps                                                                   *)

\* No call that comes late changes a closed group or its result.
THEOREM ClosedStands == Spec => ClosedForGood
<1> DEFINE Keeps == \A q \in Requirement : IsClosed(q) => group'[q] = group[q] /\ result'[q] = result[q]
<1>1. IInv /\ [Next]_vars => [Keeps]_vars
  <2>1. ASSUME IInv, Next PROVE Keeps
    <3>1. Moves
      BY <2>1, GroupStep
    <3> QED BY <3>1 DEF Moves, Stays, Opens, Closes
  <2> QED BY <2>1
<1>2. [][Keeps]_vars <=> ClosedForGood
  BY DEF ClosedForGood
<1> HIDE DEF Keeps
<1> QED BY <1>1, <1>2, Invariance, PTL DEF Spec

-----------------------------------------------------------------------------
(* Refinement: the calls of the driver and of recovery are those of        *)
(* VerificationOutcome, or do not show in outcomes and verdict             *)

verdict == IF run.decision = "none" THEN run.status ELSE run.decision

\* One requirement gets its first result.
OneResult(q) ==
    /\ ~HasResult(q)
    /\ result'[q].status \in ResultStatus
    /\ \A p \in Requirement \ {q} : result'[p] = result[p]

LEMMA ResultStep ==
    ASSUME IInv, Next
    PROVE  \/ UNCHANGED result
           \/ UNCHANGED run /\ \E q \in Requirement : OneResult(q)
           \/ RunFailed /\ CloseGroups(Unclosed)
<1> DEFINE Good == \/ UNCHANGED result
                   \/ UNCHANGED run /\ \E q \in Requirement : OneResult(q)
                   \/ RunFailed /\ CloseGroups(Unclosed)
<1>i. TypeOK /\ WorksOnOne /\ ClosedHasResult
  BY DEF IInv
<1>1. ASSUME NEW q \in Requirement, NEW r, recordVerificationResult(q, r), UNCHANGED run,
             r.status \in ResultStatus, r.cleanup \in BOOLEAN, r.identity \in BOOLEAN
      PROVE  Good
  <2>1. /\ ~HasResult(q)
        /\ result'[q] = [status |-> r.status, cleanup |-> r.cleanup]
        /\ \A p \in Requirement \ {q} : result'[p] = result[p]
    BY <1>i, <1>1, RecordResultEffect
  <2>2. result'[q].status = r.status
    BY <2>1
  <2>3. OneResult(q)
    BY <1>1, <2>1, <2>2 DEF OneResult
  <2> QED BY <1>1, <2>3
<1>2. CASE RecordResult
  <2>1. driver.req \in Requirement /\ UNCHANGED run
    BY <1>2, <1>i DEF RecordResult, At, WorksOnOne, Working
  <2>2. recordVerificationResult(driver.req, Report) \/ UNCHANGED result
    BY <1>2 DEF RecordResult
  <2> QED BY <1>i, <1>1, <2>1, <2>2, ReportType
<1>3. CASE RecordCancelled
  <2> DEFINE q == driver.req
             r == [status |-> "cancelled", identity |-> driver.identity, execution |-> "none",
                   cleanup |-> FALSE]
  <2>1. q \in Requirement /\ UNCHANGED run
    BY <1>3, <1>i DEF RecordCancelled, At, WorksOnOne, Working
  <2>2. r.status \in ResultStatus /\ r.cleanup = FALSE /\ r.identity \in BOOLEAN
    BY <1>i, DriverParts DEF ResultStatus
  <2>3. recordVerificationResult(q, r) \/ UNCHANGED result
    BY <1>3 DEF RecordCancelled
  <2> HIDE DEF q, r
  <2> QED BY <1>1, <2>1, <2>2, <2>3
<1>4. ASSUME NEW q \in Requirement, expireVerificationExecutionGroup(q) PROVE Good
  <2>1. CASE ExpiryDue(q)
    <3>1. CloseGroups({q}) /\ ~IsClosed(q) /\ UNCHANGED run
      BY <1>4, <2>1 DEF expireVerificationExecutionGroup, ExpiryDue, IsClosed, Closed
    <3>2. ~HasResult(q)
      BY <1>i, <3>1 DEF ClosedHasResult
    <3>3. result'[q].status = "error" /\ \A p \in Requirement \ {q} : result'[p] = result[p]
      BY <1>i, <3>1, <3>2, CloseGroupsEffect
    <3>4. OneResult(q)
      BY <3>2, <3>3 DEF OneResult, ResultStatus
    <3> QED BY <3>1, <3>4
  <2>2. CASE ~ExpiryDue(q)
    BY <1>4, <2>2 DEF expireVerificationExecutionGroup
  <2> QED BY <2>1, <2>2
<1>5. expireIncomingVerificationDispatch \/ terminalizeQueuedGitHubDelivery => Good
  BY <1>i, EndRunEffect DEF expireIncomingVerificationDispatch, terminalizeQueuedGitHubDelivery
<1>6. CASE \/ \E q \in Requirement : ClaimGroup(q) \/ TakeRequirement(q)
           \/ GroupsClaimed \/ Prepare \/ CreateSandbox \/ StartGroup \/ CloneRepository
           \/ StartCommand \/ RecordCommand \/ WaitForCommand \/ deleteSandboxWithRetries
           \/ confirmSandboxDeleted \/ RecordExecution \/ ReadState \/ RecordReview
           \/ RecordDecision \/ Finalize \/ Interrupt \/ Crash \/ Supersede
  BY <1>6 DEF ClaimGroup, TakeRequirement, GroupsClaimed, Prepare, CreateSandbox, StartGroup,
       CloneRepository, StartCommand, RecordCommand, WaitForCommand, deleteSandboxWithRetries,
       confirmSandboxDeleted, RecordExecution, ReadState, RecordReview, RecordDecision, Finalize,
       Interrupt, Crash, Supersede
<1> QED BY <1>2, <1>3, <1>4, <1>5, <1>6, StepCases

\* A verdict, as the run and its decision spell it.
LEMMA VerdictParts ==
    ASSUME DecidedIffReviewed
    PROVE  /\ run.status = "running" => verdict = "running"
           /\ run.status = "failed" => verdict = "failed"
           /\ run.status = "reviewed" => verdict = run.decision
  BY DEF DecidedIffReviewed, verdict

LEMMA ConcludeStep ==
    ASSUME NEW q \in Requirement, TypeOK, OneResult(q), UNCHANGED run
    PROVE  Outcome!Conclude(q, result'[q].status)
<1>1. Statuses' = [Statuses EXCEPT ![q] = result'[q].status]
  BY DEF OneResult, Statuses
<1>2. Statuses[q] = "none"
  BY DEF OneResult, HasResult, Statuses
<1> QED BY <1>1, <1>2 DEF Outcome!Conclude

LEMMA RecoverStep ==
    ASSUME IInv, DecidedIffReviewed', RunFailed, CloseGroups(Unclosed)
    PROVE  Outcome!Recover
<1>1. TypeOK /\ ClosedHasResult /\ DecidedIffReviewed
  BY DEF IInv
<1>2. verdict = "running" /\ verdict' = "failed"
  BY <1>1, VerdictParts DEF RunFailed, DecidedIffReviewed, verdict
<1>3. ASSUME NEW q \in Requirement
      PROVE  result'[q].status = IF result[q].status = "none" THEN "error" ELSE result[q].status
  BY <1>1 DEF CloseGroups, Unclosed, ClosedHasResult, HasResult
<1>4. Statuses' = [q \in Requirement |-> IF Statuses[q] = "none" THEN "error" ELSE Statuses[q]]
  BY <1>3 DEF Statuses
<1> QED BY <1>2, <1>4 DEF Outcome!Recover, verdict

LEMMA DecideStep ==
    ASSUME IInv, RunDecided
    PROVE  Outcome!Decide(run'.decision) /\ run'.decision \in {"changes-requested", "manual-review"}
<1>1. DecidedIffReviewed /\ ReviewsFinalResults
  BY DEF IInv
<1>2. PlanComplete /\ driver.seen = Statuses
  BY <1>1 DEF RunDecided, ReviewsFinalResults
<1>3. run'.decision \in {"changes-requested", "manual-review"}
  BY DEF RunDecided, evaluatePolicy
<1>4. \A q \in Requirement : Statuses[q] # "none"
  BY <1>2 DEF PlanComplete, HasResult, Statuses
<1>5. (\E q \in Requirement : Statuses[q] = "failed") => run'.decision = "changes-requested"
  BY <1>2 DEF RunDecided, evaluatePolicy, HasErrorFinding
<1>6. verdict = "running" /\ verdict' = run'.decision
  BY <1>1, <1>3, VerdictParts DEF RunDecided, verdict
<1>7. UNCHANGED Statuses
  BY DEF RunDecided, Statuses
<1> QED BY <1>3, <1>4, <1>5, <1>6, <1>7 DEF Outcome!Decide, verdict

LEMMA AbandonStep ==
    ASSUME IInv, RunFailed, UNCHANGED result
    PROVE  Outcome!Abandon
<1>1. DecidedIffReviewed
  BY DEF IInv
<1>2. verdict = "running" /\ verdict' = "failed"
  BY <1>1, VerdictParts DEF RunFailed, DecidedIffReviewed, verdict
<1>3. UNCHANGED Statuses
  BY DEF Statuses
<1> QED BY <1>2, <1>3 DEF Outcome!Abandon, verdict

\* Every call of the driver and of recovery is one of VerificationOutcome: outcomes and
\* verdict are given once, and the verdict takes every outcome into account.
THEOREM OutcomeImplemented == Spec => ImplementsOutcome
<1>1. Init => Outcome!Init
  BY DEF Init, Outcome!Init, Statuses
<1>2. ASSUME IInv, [Next]_vars PROVE [Outcome!Next]_<<Statuses, verdict>>
  <2>i. TypeOK
    BY <1>2 DEF IInv
  <2>1. CASE Next
    <3>1. DecidedIffReviewed'
      BY <1>2, <2>1, RowsStep
    <3>2. CASE RunDecided
      BY <1>2, <3>2, DecideStep DEF Outcome!Next
    <3>3. CASE RunFailed /\ CloseGroups(Unclosed)
      BY <1>2, <3>1, <3>3, RecoverStep DEF Outcome!Next
    <3>4. CASE UNCHANGED run /\ \E q \in Requirement : OneResult(q)
      <4>1. PICK q \in Requirement : OneResult(q)
        BY <3>4
      <4>2. result'[q].status \in Outcome!ResultStatus
        BY <4>1 DEF OneResult, ResultStatus, Outcome!ResultStatus
      <4> QED BY <2>i, <3>4, <4>1, <4>2, ConcludeStep DEF Outcome!Next
    <3>5. CASE RunFailed /\ UNCHANGED result
      BY <1>2, <3>5, AbandonStep DEF Outcome!Next
    <3>6. CASE RunKept /\ UNCHANGED result
      BY <3>6 DEF RunKept, Statuses, verdict
    <3> QED BY <1>2, <2>1, <2>i, <3>2, <3>3, <3>4, <3>5, <3>6, RunStep, ResultStep
  <2>2. CASE UNCHANGED vars
    BY <2>2 DEF vars, Statuses, verdict
  <2> QED BY <1>2, <2>1, <2>2
<1>3. Outcome!Spec <=> Outcome!Init /\ [][Outcome!Next]_<<Statuses, verdict>>
  BY DEF Outcome!Spec, verdict
<1> QED BY <1>1, <1>2, <1>3, Invariance, PTL DEF Spec, ImplementsOutcome
=============================================================================
