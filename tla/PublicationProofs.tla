--------------------------- MODULE PublicationProofs ---------------------------
(***************************************************************************)
(* Proofs about Publication, for every set of publishers, every set of     *)
(* verdicts and any number of attempts.                                    *)
(***************************************************************************)
EXTENDS Publication, TLAPS

Active(p) == program[p].pc \notin {"idle", "done"}

IsDecided(a) == decision[a].status # "none"

\* The publisher looks for the object of the kind, or waits for GitHub.
Asks(p, k) == program[p].pc \in {"list", "wait"} /\ program[p].kind = k

IsUnderWay(p, k) == flight[p][k].method # "none"

\* The request may still be what makes the object: the kind is not published yet.
IsPending(p, k) == IsUnderWay(p, k) /\ row[flight[p][k].of][k].status # "published"

IsBusy(p, k) == Asks(p, k) \/ IsPending(p, k)

-----------------------------------------------------------------------------
(* The inductive invariant                                                 *)

\* Attempts still to come are blank.
LaterIsBlank ==
    \A a \in Attempt : a > latest =>
        /\ attempt[a].status = "absent"
        /\ attempt[a].trigger = "intake"
        /\ ~IsDecided(a)

\* What a decision was given for does not change, and was fit for the verdict.
DecidedIsReviewed ==
    \A a \in Attempt :
        /\ attempt[a].status = "reviewed" => attempt[a].policy # "none"
        /\ IsDecided(a) =>
            /\ decision[a].status \in Verdict
            /\ attempt[a].status = "reviewed"
            /\ decision[a].status = "approved" =>
                /\ attempt[a].policy # "changes-requested"
                /\ decision[a].override = (attempt[a].verification # "passed")

\* A publisher speaks for an attempt that was decided, and says what was decided.
ProgramSpeaksTrue ==
    \A p \in Publisher : Active(p) =>
        /\ IsDecided(program[p].of)
        /\ program[p].report = decisionCheckConclusion(program[p].of)

RequestSpeaksTrue ==
    \A p \in Publisher, k \in Kind : IsUnderWay(p, k) =>
        /\ IsDecided(flight[p][k].of)
        /\ flight[p][k].report = decisionCheckConclusion(flight[p][k].of)

GithubSpeaksTrue ==
    \A a \in Attempt, k \in Kind : github[a][k].report # "none" =>
        /\ IsDecided(a)
        /\ github[a][k].report = decisionCheckConclusion(a)

\* A publisher takes each kind up once: a request of its is for a kind it has listed.
KindsOnce ==
    \A p \in Publisher :
        /\ Active(p) => program[p].kind \notin program[p].left
        /\ \A k \in Kind : IsUnderWay(p, k) =>
            /\ program[p].pc # "idle"
            /\ k \notin program[p].left
            /\ program[p].pc \in {"claim", "list"} => program[p].kind # k

\* Who may be the first to publish a kind has the live claim of the kind.
BusyHasClaim ==
    \A p \in Publisher, k \in Kind : IsBusy(p, k) => claim[k] = p /\ p \in leased[k]

AsksForUnpublished ==
    \A p \in Publisher, k \in Kind : Asks(p, k) => row[program[p].of][k].status # "published"

\* The requests of a publisher are for the attempt it publishes, and it waits for one
\* that is under way.
RequestsAreOwn ==
    \A p \in Publisher, k \in Kind :
        /\ Active(p) /\ IsUnderWay(p, k) => flight[p][k].of = program[p].of
        /\ Waits(p, k) => IsUnderWay(p, k)
        /\ IsUnderWay(p, k) <=> flight[p][k].copies > 0

CreatesSame(p, q, k) ==
    /\ flight[p][k].method = "create"
    /\ flight[q][k].method = "create"
    /\ flight[p][k].of = flight[q][k].of

\* Who creates an object is the only one that does, and that did.
CreatesAlone ==
    \A p \in Publisher, k \in Kind : flight[p][k].method = "create" =>
        /\ github[flight[p][k].of][k].by \subseteq {p}
        /\ \A q \in Publisher : CreatesSame(p, q, k) => q = p

\* Every object, and every request that will make one, is one of the times the
\* request was sent.
CreatesAsSent ==
    \A p \in Publisher, k \in Kind : flight[p][k].method = "create" =>
        LET sent == github[flight[p][k].of][k].count + flight[p][k].copies IN
        /\ sent <= MaxResends + 1
        /\ Waits(p, k) => sent <= program[p].resends + 1

UpdatesWhatIsThere ==
    \A p \in Publisher, k \in Kind : flight[p][k].method = "update" =>
        github[flight[p][k].of][k].count > 0

HasCreator ==
    \A a \in Attempt, k \in Kind : github[a][k].by = {} <=> github[a][k].count = 0

\* What is about to be recorded as published is published.
RecordsWhatIsThere ==
    \A p \in Publisher : program[p].pc = "record" =>
        LET object == github[program[p].of][program[p].kind] IN
        /\ object.count > 0
        /\ object.report = decisionCheckConclusion(program[p].of)

PublishedIsDecided ==
    \A a \in Attempt, k \in Kind : row[a][k].status = "published" => IsDecided(a)

\* An attempt that was decided, or that a rerun made: its predecessors are done with.
ClosesEarlier(b) == IsDecided(b) \/ attempt[b].trigger = "rerun"

BusyForCurrent ==
    \A b \in Attempt : ClosesEarlier(b) =>
        \A p \in Publisher, k \in Kind :
            /\ Asks(p, k) => program[p].of >= b
            /\ IsPending(p, k) => flight[p][k].of >= b

IInv ==
    /\ TypeOK
    /\ LaterIsBlank
    /\ DecidedIsReviewed
    /\ ProgramSpeaksTrue
    /\ RequestSpeaksTrue
    /\ GithubSpeaksTrue
    /\ KindsOnce
    /\ BusyHasClaim
    /\ AsksForUnpublished
    /\ RequestsAreOwn
    /\ CreatesAlone
    /\ CreatesAsSent
    /\ UpdatesWhatIsThere
    /\ HasCreator
    /\ RecordsWhatIsThere
    /\ BusyForCurrent
    /\ OneCreator
    /\ PublishedIsDecided
    /\ PublishedIsTrue

-----------------------------------------------------------------------------
(* The steps                                                               *)

\* Every step is one of these: the case split of the proofs below.
LEMMA StepCases ==
    ASSUME Next
    PROVE  \/ \E finding \in Finding : recordPolicyDecision(finding)
           \/ markWorkflowExecutionFailed
           \/ createFromExternalIntake
           \/ createRerun
           \/ \E verdict \in Verdict : recordHumanDecision(verdict)
           \/ \E p \in Publisher :
                \/ ReadFixture(p) \/ Claim(p) \/ List(p) \/ Resend(p) \/ TimeOut(p)
                \/ Renew(p) \/ Record(p) \/ Interrupt(p) \/ Crash(p)
                \/ \E k \in Kind : Process(p, k) \/ Refuse(p, k) \/ LeasePasses(p, k)
BY DEF Next, Lineage, Publish, Fault, Elsewhere

Stage == {"idle", "claim", "list", "wait", "renew", "record", "done"}

LEMMA ProgramFields ==
    ASSUME NEW prog \in Program
    PROVE  /\ prog.pc \in Stage /\ prog.of \in Attempt /\ prog.kind \in Kind
           /\ prog.left \in SUBSET Kind /\ prog.report \in Conclusion
           /\ prog.resends \in 0..MaxResends
BY DEF Program, Stage

LEMMA IdleProgram ==
    ASSUME NEW pc \in Stage
    PROVE  /\ Idle(pc) \in Program
           /\ Idle(pc).pc = pc /\ Idle(pc).left = {}
BY PublicationConstants DEF Idle, Program, Stage, Attempt, Kind, Conclusion

\* What becomes of the program of p, when nothing else is written of it than its stage.
LEMMA GotoEffect ==
    ASSUME TypeOK, NEW p \in Publisher, NEW pc \in Stage, Goto(p, pc) \/ Leave(p, pc)
    PROVE  /\ program' \in [Publisher -> Program]
           /\ program'[p].pc = pc
           /\ program'[p].of = program[p].of
           /\ program'[p].kind = program[p].kind
           /\ program'[p].left = program[p].left
           /\ program'[p].report = program[p].report
           /\ \A q \in Publisher \ {p} : program'[q] = program[q]
<1>0. 0 \in 0..MaxResends
  BY PublicationConstants
<1>1. program[p] \in Program
  BY DEF TypeOK
<1>2. CASE Goto(p, pc)
  <2>1. [program[p] EXCEPT !.pc = pc] \in Program
    BY <1>1 DEF Program, Stage
  <2> QED BY <1>1, <1>2, <2>1 DEF TypeOK, Goto, Program
<1>3. CASE Leave(p, pc)
  <2>1. [program[p] EXCEPT !.pc = pc, !.resends = 0] \in Program
    BY <1>0, <1>1 DEF Program, Stage
  <2> QED BY <1>1, <1>3, <2>1 DEF TypeOK, Leave, Program
<1> QED BY <1>2, <1>3

LEMMA SendAgainEffect ==
    ASSUME TypeOK, NEW p \in Publisher, SendAgain(p)
    PROVE  /\ program' \in [Publisher -> Program]
           /\ program'[p].pc = program[p].pc
           /\ program'[p].of = program[p].of
           /\ program'[p].kind = program[p].kind
           /\ program'[p].left = program[p].left
           /\ program'[p].report = program[p].report
           /\ program'[p].resends = program[p].resends + 1
           /\ program'[p].resends <= MaxResends
           /\ \A q \in Publisher \ {p} : program'[q] = program[q]
<1>1. /\ program[p] \in Program /\ MaxResends \in Nat
      /\ program[p].resends \in 0..MaxResends /\ program[p].resends < MaxResends
  BY PublicationConstants, ProgramFields DEF TypeOK, SendAgain
<1>2. program[p].resends + 1 \in 0..MaxResends
  BY <1>1
<1>3. [program[p] EXCEPT !.resends = @ + 1] \in Program
  BY <1>1, <1>2 DEF Program
<1>4. program' = [program EXCEPT ![p] = [program[p] EXCEPT !.resends = @ + 1]]
  BY DEF SendAgain
<1>5. /\ program'[p] = [program[p] EXCEPT !.resends = @ + 1]
      /\ program' \in [Publisher -> Program]
      /\ \A q \in Publisher \ {p} : program'[q] = program[q]
  BY <1>3, <1>4 DEF TypeOK
<1> QED BY <1>1, <1>2, <1>5 DEF Program

LEMMA EndEffect ==
    ASSUME TypeOK, NEW p \in Publisher, End(p)
    PROVE  /\ program' \in [Publisher -> Program]
           /\ program'[p].pc = "done"
           /\ program'[p].left = {}
           /\ \A q \in Publisher \ {p} : program'[q] = program[q]
BY IdleProgram DEF TypeOK, End, Stage

LEMMA PublishingEffect ==
    ASSUME NEW prog \in Program, NEW kinds \in SUBSET Kind
    PROVE  LET next == Publishing(prog, kinds) IN
           /\ next \in Program
           /\ \/ next.pc = "done" /\ next.left = {}
              \/ /\ next.pc = "claim"
                 /\ next.of = prog.of
                 /\ next.report = prog.report
                 /\ next.kind \in kinds
                 /\ next.left = kinds \ {next.kind}
<1>1. CASE kinds = {}
  BY <1>1, IdleProgram DEF Publishing, Stage
<1>2. CASE kinds # {}
  <2>1. FirstOf(kinds) \in kinds
    BY <1>2 DEF FirstOf, Kind
  <2>2. Publishing(prog, kinds) = [prog EXCEPT !.pc = "claim", !.kind = FirstOf(kinds),
                                               !.left = kinds \ {FirstOf(kinds)}]
    BY <1>2 DEF Publishing
  <2> QED BY <2>1, <2>2 DEF Program
<1> QED BY <1>1, <1>2

LEMMA NextKindEffect ==
    ASSUME TypeOK, NEW p \in Publisher, NextKind(p)
    PROVE  /\ program' \in [Publisher -> Program]
           /\ \/ program'[p].pc = "done" /\ program'[p].left = {}
              \/ /\ program'[p].pc = "claim"
                 /\ program'[p].of = program[p].of
                 /\ program'[p].report = program[p].report
                 /\ program'[p].kind \in program[p].left
                 /\ program'[p].left = program[p].left \ {program'[p].kind}
           /\ \A q \in Publisher \ {p} : program'[q] = program[q]
<1>1. program[p] \in Program /\ program[p].left \in SUBSET Kind
  BY ProgramFields DEF TypeOK
<1>2. program'[p] = Publishing(program[p], program[p].left)
  BY DEF TypeOK, NextKind
<1> QED BY <1>1, <1>2, PublishingEffect DEF TypeOK, NextKind

-----------------------------------------------------------------------------
(* The attempts                                                            *)

LEMMA RunFields ==
    ASSUME NEW r \in Run
    PROVE  /\ r.status \in {"absent", "running", "reviewed", "failed"}
           /\ r.trigger \in {"intake", "rerun"}
           /\ r.verification \in {"none", "passed", "incomplete", "failed"}
           /\ r.policy \in {"none", "manual-review", "changes-requested"}
BY DEF Run

LEMMA RequestFields ==
    ASSUME NEW r \in Request
    PROVE  /\ r.method \in {"none", "create", "update"}
           /\ r.of \in Attempt /\ r.report \in Conclusion /\ r.copies \in Nat
BY DEF Request

\* Nobody asks GitHub anything while no claim is live.
LEMMA NobodyBusy ==
    ASSUME IInv, NoPublication, NEW p \in Publisher, NEW k \in Kind
    PROVE  ~IsBusy(p, k)
BY DEF IInv, BusyHasClaim, NoPublication, IsLive

LEMMA NewRunType == \A trigger \in {"intake", "rerun"} :
    /\ NewRun(trigger) \in Run
    /\ NewRun(trigger).status = "running" /\ NewRun(trigger).trigger = trigger
BY DEF NewRun, Run

\* What was decided stays decided, and comes to the same conclusion.
DecisionsStay ==
    \A a \in Attempt : IsDecided(a) =>
        /\ decision'[a] = decision[a]
        /\ attempt'[a].verification = attempt[a].verification
        /\ attempt'[a].status = attempt[a].status
        /\ attempt'[a].policy = attempt[a].policy

\* An attempt closes the earlier ones only where nothing is being published.
ClosesInTime ==
    \A b \in Attempt : ClosesEarlier(b)' => ClosesEarlier(b) \/ NoPublication

LEMMA ConclusionStays ==
    ASSUME DecisionsStay, NEW a \in Attempt, IsDecided(a)
    PROVE  IsDecided(a)' /\ (decisionCheckConclusion(a))' = decisionCheckConclusion(a)
BY DEF DecisionsStay, IsDecided, decisionCheckConclusion

LEMMA ConclusionType ==
    ASSUME DecidedIsReviewed, NEW a \in Attempt, IsDecided(a)
    PROVE  decisionCheckConclusion(a) \in Conclusion \ {"none"}
<1>1. decision[a].status \in {"approved", "rejected", "changes-requested"}
  BY PublicationConstants DEF DecidedIsReviewed
<1> QED BY <1>1 DEF decisionCheckConclusion, Conclusion

LEMMA ReviewEffect ==
    ASSUME IInv, NEW finding \in Finding, recordPolicyDecision(finding)
    PROVE  /\ TypeOK' /\ LaterIsBlank' /\ DecidedIsReviewed'
           /\ DecisionsStay /\ ClosesInTime
<1> DEFINE policy == IF finding.error THEN "changes-requested" ELSE "manual-review"
<1>t. TypeOK /\ LaterIsBlank /\ DecidedIsReviewed
  BY DEF IInv
<1>0. latest \in Attempt /\ attempt \in [Attempt -> Run]
  BY <1>t DEF TypeOK
<1>1. policy \in {"changes-requested", "manual-review"}
      /\ finding.verification \in {"passed", "incomplete", "failed"}
  BY DEF Finding
<1>2. attempt[latest].status = "running"
  BY DEF recordPolicyDecision
<1>3. attempt' = [attempt EXCEPT ![latest] =
                    [@ EXCEPT !.status = "reviewed", !.verification = finding.verification,
                              !.policy = policy]]
  BY DEF recordPolicyDecision
<1>4. attempt'[latest] \in Run
      /\ attempt'[latest].status = "reviewed"
      /\ attempt'[latest].policy = policy
      /\ attempt'[latest].trigger = attempt[latest].trigger
  BY <1>0, <1>1, <1>3 DEF Run
<1>5. attempt' \in [Attempt -> Run] /\ \A a \in Attempt \ {latest} : attempt'[a] = attempt[a]
  BY <1>0, <1>3, <1>4
<1>6. UNCHANGED <<latest, decision, claim, leased, row, program, flight, github>>
  BY DEF recordPolicyDecision
<1>7. ~IsDecided(latest)
  BY <1>t, <1>0, <1>2 DEF DecidedIsReviewed
<1>8. TypeOK'
  BY <1>t, <1>5, <1>6 DEF TypeOK
<1>9. LaterIsBlank'
  BY <1>t, <1>0, <1>5, <1>6 DEF LaterIsBlank, IsDecided, Attempt
<1>10. DecidedIsReviewed'
  BY <1>t, <1>0, <1>1, <1>4, <1>5, <1>6, <1>7 DEF DecidedIsReviewed, IsDecided
<1>11. DecisionsStay
  BY <1>5, <1>6, <1>7 DEF DecisionsStay
<1>12. ClosesInTime
  BY <1>0, <1>4, <1>5, <1>6 DEF ClosesInTime, ClosesEarlier, IsDecided
<1> QED BY <1>8, <1>9, <1>10, <1>11, <1>12

LEMMA FailureEffect ==
    ASSUME IInv, markWorkflowExecutionFailed
    PROVE  /\ TypeOK' /\ LaterIsBlank' /\ DecidedIsReviewed'
           /\ DecisionsStay /\ ClosesInTime
<1>t. TypeOK /\ LaterIsBlank /\ DecidedIsReviewed
  BY DEF IInv
<1>0. latest \in Attempt /\ attempt \in [Attempt -> Run]
  BY <1>t DEF TypeOK
<1>2. attempt[latest].status = "running"
  BY DEF markWorkflowExecutionFailed
<1>4. attempt'[latest] \in Run
      /\ attempt'[latest].status = "failed"
      /\ attempt'[latest].trigger = attempt[latest].trigger
  BY <1>0 DEF Run, markWorkflowExecutionFailed
<1>5. attempt' \in [Attempt -> Run] /\ \A a \in Attempt \ {latest} : attempt'[a] = attempt[a]
  BY <1>0, <1>4 DEF markWorkflowExecutionFailed
<1>6. UNCHANGED <<latest, decision, claim, leased, row, program, flight, github>>
  BY DEF markWorkflowExecutionFailed
<1>7. ~IsDecided(latest)
  BY <1>t, <1>0, <1>2 DEF DecidedIsReviewed
<1>8. TypeOK'
  BY <1>t, <1>5, <1>6 DEF TypeOK
<1>9. LaterIsBlank'
  BY <1>t, <1>0, <1>5, <1>6 DEF LaterIsBlank, IsDecided, Attempt
<1>10. DecidedIsReviewed'
  BY <1>t, <1>0, <1>4, <1>5, <1>6, <1>7 DEF DecidedIsReviewed, IsDecided
<1>11. DecisionsStay
  BY <1>5, <1>6, <1>7 DEF DecisionsStay
<1>12. ClosesInTime
  BY <1>0, <1>4, <1>5, <1>6 DEF ClosesInTime, ClosesEarlier, IsDecided
<1> QED BY <1>8, <1>9, <1>10, <1>11, <1>12

LEMMA SupersedeEffect ==
    ASSUME IInv, NEW trigger \in {"intake", "rerun"}, Supersede(trigger),
           trigger = "intake" \/ NoPublication
    PROVE  /\ TypeOK' /\ LaterIsBlank' /\ DecidedIsReviewed'
           /\ DecisionsStay /\ ClosesInTime
<1>t. TypeOK /\ LaterIsBlank /\ DecidedIsReviewed
  BY DEF IInv
<1>0. latest \in Attempt /\ attempt \in [Attempt -> Run] /\ MaxAttempts \in Nat
  BY <1>t, PublicationConstants DEF TypeOK
<1>1. latest + 1 \in Attempt /\ latest' = latest + 1
  BY <1>0 DEF Supersede, Attempt
<1>4. attempt'[latest + 1] = NewRun(trigger)
  BY <1>0, <1>1 DEF Supersede
<1>5. attempt' \in [Attempt -> Run] /\ \A a \in Attempt \ {latest + 1} : attempt'[a] = attempt[a]
  BY <1>0, <1>1, NewRunType DEF Supersede
<1>6. UNCHANGED <<decision, claim, leased, row, program, flight, github>>
  BY DEF Supersede
<1>7. ~IsDecided(latest + 1)
  BY <1>t, <1>0, <1>1 DEF LaterIsBlank, Attempt
<1>8. TypeOK'
  BY <1>t, <1>1, <1>5, <1>6 DEF TypeOK
<1>9. LaterIsBlank'
  BY <1>t, <1>0, <1>1, <1>5, <1>6 DEF LaterIsBlank, IsDecided, Attempt
<1>10. DecidedIsReviewed'
  BY <1>t, <1>1, <1>4, <1>5, <1>6, <1>7, NewRunType DEF DecidedIsReviewed, IsDecided
<1>11. DecisionsStay
  BY <1>5, <1>6, <1>7 DEF DecisionsStay
<1>12. ClosesInTime
  BY <1>1, <1>4, <1>5, <1>6, NewRunType DEF ClosesInTime, ClosesEarlier, IsDecided
<1> QED BY <1>8, <1>9, <1>10, <1>11, <1>12

LEMMA DecisionEffect ==
    ASSUME IInv, NEW verdict \in Verdict, recordHumanDecision(verdict)
    PROVE  /\ TypeOK' /\ LaterIsBlank' /\ DecidedIsReviewed'
           /\ DecisionsStay /\ ClosesInTime
<1>t. TypeOK /\ LaterIsBlank /\ DecidedIsReviewed
  BY DEF IInv
<1>0. /\ latest \in Attempt /\ attempt \in [Attempt -> Run]
      /\ decision \in [Attempt -> [status : Verdict \cup {"none"}, override : BOOLEAN]]
  BY <1>t DEF TypeOK
<1>1. /\ attempt[latest].status = "reviewed" /\ ~IsDecided(latest) /\ NoPublication
      /\ verdict = "approved" => attempt[latest].policy # "changes-requested"
  BY DEF recordHumanDecision, DecisionGranted, ApprovalGranted, IsDecided
<1>2. decision' = [decision EXCEPT ![latest] =
                     [status |-> verdict,
                      override |-> verdict = "approved" /\ attempt[latest].verification # "passed"]]
  BY DEF recordHumanDecision
<1>4. /\ decision'[latest].status = verdict
      /\ verdict = "approved" =>
            decision'[latest].override = (attempt[latest].verification # "passed")
  BY <1>0, <1>2
<1>5. /\ decision' \in [Attempt -> [status : Verdict \cup {"none"}, override : BOOLEAN]]
      /\ \A a \in Attempt \ {latest} : decision'[a] = decision[a]
  BY <1>0, <1>2
<1>6. UNCHANGED <<latest, attempt, claim, leased, row, program, flight, github>>
  BY DEF recordHumanDecision
<1>8. TypeOK'
  BY <1>t, <1>5, <1>6 DEF TypeOK
<1>9. LaterIsBlank'
  BY <1>t, <1>0, <1>5, <1>6 DEF LaterIsBlank, IsDecided, Attempt
<1>10. DecidedIsReviewed'
  BY <1>t, <1>0, <1>1, <1>4, <1>5, <1>6 DEF DecidedIsReviewed, IsDecided
<1>11. DecisionsStay
  BY <1>1, <1>5, <1>6 DEF DecisionsStay
<1>12. ClosesInTime
  BY <1>1 DEF ClosesInTime
<1> QED BY <1>8, <1>9, <1>10, <1>11, <1>12

\* Publishers, and what they have sent, do not notice a new attempt or decision.
LEMMA LineagePreserves ==
    ASSUME IInv, TypeOK', LaterIsBlank', DecidedIsReviewed', DecisionsStay, ClosesInTime,
           UNCHANGED <<claim, leased, row, program, flight, github>>
    PROVE  IInv'
<1>t. TypeOK
  BY DEF IInv
<1>1. ProgramSpeaksTrue'
  <2> SUFFICES ASSUME NEW p \in Publisher, Active(p)
               PROVE  /\ IsDecided(program[p].of)'
                      /\ program[p].report = (decisionCheckConclusion(program[p].of))'
    BY DEF ProgramSpeaksTrue, Active
  <2>1. program[p].of \in Attempt
    BY <1>t, ProgramFields DEF TypeOK
  <2>2. IsDecided(program[p].of) /\ program[p].report = decisionCheckConclusion(program[p].of)
    BY DEF IInv, ProgramSpeaksTrue
  <2> QED BY <2>1, <2>2, ConclusionStays
<1>2. RequestSpeaksTrue'
  <2> SUFFICES ASSUME NEW p \in Publisher, NEW k \in Kind, IsUnderWay(p, k)
               PROVE  /\ IsDecided(flight[p][k].of)'
                      /\ flight[p][k].report = (decisionCheckConclusion(flight[p][k].of))'
    BY DEF RequestSpeaksTrue, IsUnderWay
  <2>1. flight[p][k].of \in Attempt
    BY <1>t, RequestFields DEF TypeOK
  <2>2. IsDecided(flight[p][k].of) /\ flight[p][k].report = decisionCheckConclusion(flight[p][k].of)
    BY DEF IInv, RequestSpeaksTrue
  <2> QED BY <2>1, <2>2, ConclusionStays
<1>3. GithubSpeaksTrue'
  <2> SUFFICES ASSUME NEW a \in Attempt, NEW k \in Kind, github[a][k].report # "none"
               PROVE  IsDecided(a)' /\ github[a][k].report = (decisionCheckConclusion(a))'
    BY DEF GithubSpeaksTrue
  <2> QED BY ConclusionStays DEF IInv, GithubSpeaksTrue
<1>4. KindsOnce'
  BY DEF IInv, KindsOnce, Active, IsUnderWay
<1>5. BusyHasClaim'
  BY DEF IInv, BusyHasClaim, IsBusy, Asks, IsPending, IsUnderWay
<1>6. AsksForUnpublished' /\ RequestsAreOwn'
  BY DEF IInv, AsksForUnpublished, RequestsAreOwn, Asks, Active, Waits, At, IsUnderWay
<1>7. RecordsWhatIsThere'
  <2> SUFFICES ASSUME NEW p \in Publisher, program[p].pc = "record"
               PROVE  /\ github[program[p].of][program[p].kind].count > 0
                      /\ github[program[p].of][program[p].kind].report
                            = (decisionCheckConclusion(program[p].of))'
    BY DEF RecordsWhatIsThere
  <2>1. program[p].of \in Attempt
    BY <1>t, ProgramFields DEF TypeOK
  <2>2. IsDecided(program[p].of)
    BY DEF IInv, ProgramSpeaksTrue, Active
  <2> QED BY <2>1, <2>2, ConclusionStays DEF IInv, RecordsWhatIsThere
<1>8. BusyForCurrent'
  <2> SUFFICES ASSUME NEW b \in Attempt, ClosesEarlier(b)', NEW p \in Publisher, NEW k \in Kind
               PROVE  /\ Asks(p, k) => program[p].of >= b
                      /\ IsPending(p, k) => flight[p][k].of >= b
    BY DEF BusyForCurrent, Asks, IsPending, IsUnderWay
  <2>1. CASE ClosesEarlier(b)
    BY <2>1 DEF IInv, BusyForCurrent
  <2>2. CASE NoPublication
    BY <2>2, NobodyBusy DEF IsBusy
  <2> QED BY <2>1, <2>2 DEF ClosesInTime
<1>9. OneCreator' /\ CreatesAlone' /\ CreatesAsSent' /\ UpdatesWhatIsThere' /\ HasCreator'
  BY DEF IInv, OneCreator, CreatesAlone, CreatesSame, CreatesAsSent, UpdatesWhatIsThere,
         HasCreator, Waits, At
<1>10. PublishedIsTrue'
  <2> SUFFICES ASSUME NEW a \in Attempt, NEW k \in Kind, row[a][k].status = "published"
               PROVE  /\ github[a][k].count > 0
                      /\ github[a][k].report = (decisionCheckConclusion(a))'
    BY DEF PublishedIsTrue
  <2>1. IsDecided(a)
    BY DEF IInv, PublishedIsDecided
  <2> QED BY <2>1, ConclusionStays DEF IInv, PublishedIsTrue
<1>11. PublishedIsDecided'
  BY ConclusionStays DEF IInv, PublishedIsDecided
<1> QED BY <1>1, <1>2, <1>3, <1>4, <1>5, <1>6, <1>7, <1>8, <1>9, <1>10, <1>11 DEF IInv

-----------------------------------------------------------------------------
(* The records of a publisher                                              *)

\* No publisher loses a claim it needs.
KeepsClaims ==
    \A p \in Publisher, k \in Kind :
        \/ Asks(p, k)
        \/ IsUnderWay(p, k) /\ row'[flight[p][k].of][k].status # "published"
        => claim'[k] = p /\ p \in leased'[k]

\* What is published stays so, and is not what a publisher asks for.
PublishesOnce ==
    /\ \A a \in Attempt, k \in Kind :
          row[a][k].status = "published" => row'[a][k].status = "published"
    /\ \A p \in Publisher, k \in Kind :
          Asks(p, k) => row'[program[p].of][k].status # "published"

\* Nothing is recorded as published that GitHub does not show.
PublishesTruth ==
    \A a \in Attempt, k \in Kind : row'[a][k].status = "published" =>
        \/ row[a][k].status = "published"
        \/ /\ IsDecided(a)
           /\ github[a][k].count > 0
           /\ github[a][k].report = decisionCheckConclusion(a)

StorageType ==
    /\ claim \in [Kind -> Publisher \cup {NoPublisher}]
    /\ leased \in [Kind -> SUBSET Publisher]
    /\ row \in [Attempt -> [Kind -> Row]]

\* What a call may do to the tables.
StorageStep ==
    /\ StorageType'
    /\ UNCHANGED <<latest, attempt, decision>>
    /\ KeepsClaims
    /\ PublishesOnce
    /\ PublishesTruth

LEMMA StorageUnchanged ==
    ASSUME IInv, UNCHANGED storage
    PROVE  StorageStep
BY DEF IInv, TypeOK, storage, StorageStep, StorageType, KeepsClaims, BusyHasClaim, IsBusy,
       IsPending, PublishesOnce, AsksForUnpublished, PublishesTruth

LEMMA PendingEffect ==
    ASSUME IInv, NEW p \in Publisher, NEW k \in Kind, RecordPending(p, k)
    PROVE  /\ StorageStep
           /\ program[p].of = latest
           /\ MayPublish(p, k) => /\ claim'[k] = p /\ p \in leased'[k]
                                  /\ row'[program[p].of][k].status # "published"
<1>t. TypeOK /\ StorageType
  BY DEF IInv, TypeOK, StorageType
<1> DEFINE a == program[p].of
           r == [status |-> "pending", token |-> IF ClaimGranted(p, k) THEN p ELSE NoPublisher]
<1>1. a \in Attempt /\ a = latest
  BY <1>t, ProgramFields DEF TypeOK, RecordPending, Superseded
<1>2. UNCHANGED <<latest, attempt, decision>>
  BY DEF RecordPending
<1>5. /\ row' \in [Attempt -> [Kind -> Row]]
      /\ \A b \in Attempt, j \in Kind :
            row'[b][j].status = "published" <=> row[b][j].status = "published"
  <2>1. r \in Row /\ r.status # "published"
    BY DEF Row
  <2>2. row[a] \in [Kind -> Row]
    BY <1>t, <1>1 DEF StorageType
  <2>3. CASE IsHeld(p, k)
    BY <1>t, <2>3 DEF RecordPending, StorageType
  <2>4. CASE ~IsHeld(p, k)
    <3>1. row' = [row EXCEPT ![a][k] = r]
      BY <2>4 DEF RecordPending
    <3>2. [row[a] EXCEPT ![k] = r] \in [Kind -> Row]
      BY <2>1, <2>2
    <3>3. row[a][k].status # "published"
      BY <2>4 DEF IsHeld
    <3> HIDE DEF r
    <3> QED BY <1>t, <1>1, <2>1, <2>2, <3>1, <3>2, <3>3 DEF StorageType
  <2> QED BY <2>3, <2>4
<1>6. PublishesTruth
  BY <1>5 DEF PublishesTruth
<1>7. PublishesOnce
  <2>1. \A q \in Publisher : program[q].of \in Attempt
    BY <1>t, ProgramFields DEF TypeOK
  <2> QED BY <1>5, <2>1 DEF PublishesOnce, IInv, AsksForUnpublished
<1>8. MayPublish(p, k) => row'[a][k].status # "published"
  BY <1>1, <1>5 DEF MayPublish, IsHeld
<1>9. \A q \in Publisher, j \in Kind :
        \/ Asks(q, j)
        \/ IsUnderWay(q, j) /\ row'[flight[q][j].of][j].status # "published"
        => claim[j] = q /\ q \in leased[j]
  <2>1. \A q \in Publisher, j \in Kind : flight[q][j].of \in Attempt
    BY <1>t, RequestFields DEF TypeOK
  <2> QED BY <1>5, <2>1 DEF IInv, BusyHasClaim, IsBusy, IsPending
<1>3. CASE ClaimGranted(p, k)
  <2>1. claim' = [claim EXCEPT ![k] = p] /\ leased' = [leased EXCEPT ![k] = @ \cup {p}]
    BY <1>3 DEF RecordPending
  <2>2. claim' \in [Kind -> Publisher \cup {NoPublisher}] /\ leased' \in [Kind -> SUBSET Publisher]
    BY <1>t, <2>1 DEF StorageType
  <2>3. KeepsClaims
    BY <1>t, <1>3, <1>9, <2>1 DEF KeepsClaims, ClaimGranted, IsLive, StorageType
  <2>4. claim'[k] = p /\ p \in leased'[k]
    BY <1>t, <2>1 DEF StorageType
  <2> QED BY <2>2, <2>3, <2>4, <1>5, <1>6, <1>7, <1>8, <1>1, <1>2 DEF StorageStep, StorageType
<1>4. CASE ~ClaimGranted(p, k)
  <2>1. UNCHANGED <<claim, leased>> /\ ~MayPublish(p, k)
    BY <1>4 DEF RecordPending, MayPublish
  <2>2. KeepsClaims
    BY <1>9, <2>1 DEF KeepsClaims
  <2> QED BY <1>t, <1>1, <1>2, <1>5, <1>6, <1>7, <2>1, <2>2 DEF StorageStep, StorageType
<1> QED BY <1>3, <1>4

\* The publisher gives its claim up; the requests it may still have under way are
\* for what is published now.
LEMMA PublishedEffect ==
    ASSUME IInv, NEW p \in Publisher, At(p, "record"), RecordPublished(p, program[p].kind)
    PROVE  StorageStep
<1> DEFINE a == program[p].of
           k == program[p].kind
           r == [status |-> "published", token |-> p]
<1>t. TypeOK /\ StorageType
  BY DEF IInv, TypeOK, StorageType
<1>1. a \in Attempt /\ k \in Kind /\ claim[k] = p
  BY <1>t, ProgramFields DEF TypeOK, RecordPublished, RecordGranted
<1>2. UNCHANGED <<latest, attempt, decision>>
  BY DEF RecordPublished
<1>3. CASE UNCHANGED <<claim, leased, row>>
  BY <1>2, <1>3, StorageUnchanged DEF storage
<1>4. CASE /\ row' = [row EXCEPT ![a][k] = r]
           /\ claim' = [claim EXCEPT ![k] = NoPublisher]
           /\ leased' = [leased EXCEPT ![k] = @ \ {p}]
  <2>r. /\ row' \in [Attempt -> [Kind -> Row]]
        /\ row'[a][k].status = "published"
        /\ \A b \in Attempt, j \in Kind : b # a \/ j # k => row'[b][j] = row[b][j]
    <3>1. r \in Row /\ r.status = "published"
      BY DEF Row
    <3>2. [row[a] EXCEPT ![k] = r] \in [Kind -> Row]
      BY <1>t, <1>1, <3>1 DEF StorageType
    <3> HIDE DEF r
    <3> QED BY <1>t, <1>1, <1>4, <3>1, <3>2 DEF StorageType
  <2>1. StorageType'
    BY <1>t, <1>1, <1>4, <2>r DEF StorageType
  <2>2. \A q \in Publisher, j \in Kind :
          /\ program[q].of \in Attempt
          /\ flight[q][j].of \in Attempt
    BY <1>t, ProgramFields, RequestFields DEF TypeOK
  <2>3. ~Asks(p, k) /\ (IsUnderWay(p, k) => flight[p][k].of = a)
    BY <1>1 DEF IInv, RequestsAreOwn, Asks, At, Active
  <2>4. \A q \in Publisher, j \in Kind :
          \/ Asks(q, j)
          \/ IsUnderWay(q, j) /\ row'[flight[q][j].of][j].status # "published"
          => claim[j] = q /\ q \in leased[j] /\ j # k
    <3> SUFFICES ASSUME NEW q \in Publisher, NEW j \in Kind,
                        \/ Asks(q, j)
                        \/ IsUnderWay(q, j) /\ row'[flight[q][j].of][j].status # "published"
                 PROVE  claim[j] = q /\ q \in leased[j] /\ j # k
      OBVIOUS
    <3>1. IsBusy(q, j)
      BY <2>r, <2>2 DEF IsBusy, IsPending
    <3>2. claim[j] = q /\ q \in leased[j]
      BY <3>1 DEF IInv, BusyHasClaim
    <3>3. ASSUME j = k PROVE FALSE
      <4>1. q = p
        BY <1>1, <3>2, <3>3
      <4> QED BY <2>r, <2>3, <3>3, <4>1
    <3> QED BY <3>2, <3>3
  <2>5. KeepsClaims
    BY <1>t, <1>1, <1>4, <2>4 DEF KeepsClaims, StorageType
  <2>6. PublishesOnce
    BY <2>r, <2>2, <2>4 DEF PublishesOnce, IInv, AsksForUnpublished
  <2>7. PublishesTruth
    <3>1. IsDecided(a) /\ github[a][k].count > 0 /\ github[a][k].report = decisionCheckConclusion(a)
      BY DEF IInv, RecordsWhatIsThere, ProgramSpeaksTrue, Active, At
    <3> QED BY <2>r, <3>1 DEF PublishesTruth
  <2> QED BY <1>2, <2>1, <2>5, <2>6, <2>7 DEF StorageStep
<1> QED BY <1>3, <1>4 DEF RecordPublished

-----------------------------------------------------------------------------
(* The steps of a publisher                                                *)

\* What the invariant asks of a program at its next stage, but for what is on GitHub.
ProgramFits(p) ==
    /\ program' \in [Publisher -> Program]
    /\ \A q \in Publisher \ {p} : program'[q] = program[q]
    /\ Active(p)' =>
        /\ IsDecided(program'[p].of)
        /\ program'[p].report = decisionCheckConclusion(program'[p].of)
        /\ program'[p].kind \notin program'[p].left
    /\ \A k \in Kind : IsUnderWay(p, k)' =>
        /\ program'[p].pc # "idle"
        /\ k \notin program'[p].left
        /\ program'[p].pc \in {"claim", "list"} => program'[p].kind # k
        /\ Active(p)' => flight'[p][k].of = program'[p].of
    /\ \A k \in Kind : Asks(p, k)' =>
        /\ claim'[k] = p /\ p \in leased'[k]
        /\ row'[program'[p].of][k].status # "published"
        /\ \A b \in Attempt : ClosesEarlier(b) => program'[p].of >= b

LEMMA ClosesSame ==
    ASSUME UNCHANGED <<attempt, decision>>, NEW b \in Attempt
    PROVE  ClosesEarlier(b)' <=> ClosesEarlier(b)
BY DEF ClosesEarlier, IsDecided

\* A step of a publisher that neither sends a request nor is about GitHub's answer.
LEMMA ProgramStep ==
    ASSUME IInv, NEW p \in Publisher, StorageStep, ProgramFits(p),
           program'[p].pc \notin {"wait", "record"},
           UNCHANGED <<flight, github>>
    PROVE  IInv'
<1>0. UNCHANGED <<latest, attempt, decision>>
  BY DEF StorageStep
<1>c. \A a : /\ (decisionCheckConclusion(a))' = decisionCheckConclusion(a)
             /\ (IsDecided(a)' <=> IsDecided(a))
  BY <1>0 DEF decisionCheckConclusion, IsDecided
<1>1. TypeOK'
  BY <1>0 DEF IInv, TypeOK, StorageStep, StorageType, ProgramFits
<1>2. LaterIsBlank' /\ DecidedIsReviewed'
  BY <1>0 DEF IInv, LaterIsBlank, DecidedIsReviewed, IsDecided
<1>3. ProgramSpeaksTrue'
  BY <1>c DEF IInv, ProgramSpeaksTrue, ProgramFits, Active
<1>4. RequestSpeaksTrue'
  BY <1>c DEF IInv, RequestSpeaksTrue, IsUnderWay
<1>5. GithubSpeaksTrue'
  BY <1>c DEF IInv, GithubSpeaksTrue
<1>6. KindsOnce'
  <2> SUFFICES ASSUME NEW q \in Publisher
               PROVE  /\ Active(q)' => program'[q].kind \notin program'[q].left
                      /\ \A k \in Kind : IsUnderWay(q, k)' =>
                          /\ program'[q].pc # "idle"
                          /\ k \notin program'[q].left
                          /\ program'[q].pc \in {"claim", "list"} => program'[q].kind # k
    BY DEF KindsOnce, Active, IsUnderWay
  <2>1. CASE q = p
    BY <2>1 DEF ProgramFits
  <2>2. CASE q # p
    <3>1. program'[q] = program[q]
      BY <2>2 DEF ProgramFits
    <3> QED BY <3>1 DEF IInv, KindsOnce, Active, IsUnderWay
  <2> QED BY <2>1, <2>2
<1>7. BusyHasClaim'
  <2> SUFFICES ASSUME NEW q \in Publisher, NEW k \in Kind, IsBusy(q, k)'
               PROVE  claim'[k] = q /\ q \in leased'[k]
    BY DEF BusyHasClaim
  <2>1. CASE q = p /\ Asks(p, k)'
    BY <2>1 DEF ProgramFits
  <2>2. CASE ~(q = p /\ Asks(p, k)')
    <3>1. \/ Asks(q, k)
          \/ IsUnderWay(q, k) /\ row'[flight[q][k].of][k].status # "published"
      BY <2>2 DEF IsBusy, IsPending, Asks, IsUnderWay, ProgramFits
    <3> QED BY <3>1 DEF StorageStep, KeepsClaims
  <2> QED BY <2>1, <2>2
<1>8. AsksForUnpublished'
  BY DEF AsksForUnpublished, Asks, ProgramFits, StorageStep, PublishesOnce
<1>9. RecordsWhatIsThere'
  BY <1>c DEF IInv, RecordsWhatIsThere, ProgramFits
<1>10. BusyForCurrent'
  <2> SUFFICES ASSUME NEW b \in Attempt, ClosesEarlier(b)', NEW q \in Publisher, NEW k \in Kind
               PROVE  /\ Asks(q, k)' => program'[q].of >= b
                      /\ IsPending(q, k)' => flight'[q][k].of >= b
    BY DEF BusyForCurrent
  <2>1. ClosesEarlier(b)
    BY <1>0, ClosesSame
  <2>2. IsPending(q, k)' => IsPending(q, k)
    <3>1. flight[q][k].of \in Attempt
      BY RequestFields DEF IInv, TypeOK
    <3> QED BY <3>1 DEF IsPending, IsUnderWay, StorageStep, PublishesOnce
  <2>3. IsPending(q, k)' => flight'[q][k].of >= b
    BY <2>1, <2>2 DEF IInv, BusyForCurrent
  <2>4. Asks(q, k)' => program'[q].of >= b
    BY <2>1 DEF IInv, BusyForCurrent, Asks, ProgramFits
  <2> QED BY <2>3, <2>4
<1>11. OneCreator' /\ CreatesAlone' /\ UpdatesWhatIsThere' /\ HasCreator'
  <2>1. OneCreator' /\ HasCreator'
    BY DEF IInv, OneCreator, HasCreator
  <2>2. CreatesAlone' /\ UpdatesWhatIsThere'
    BY DEF IInv, CreatesAlone, CreatesSame, UpdatesWhatIsThere
  <2> QED BY <2>1, <2>2
<1>12. PublishedIsDecided' /\ PublishedIsTrue'
  BY <1>c DEF IInv, PublishedIsDecided, PublishedIsTrue, StorageStep, PublishesTruth
<1>13. CreatesAsSent'
  BY DEF IInv, CreatesAsSent, Waits, At, ProgramFits
<1>14. RequestsAreOwn'
  <2> SUFFICES ASSUME NEW q \in Publisher, NEW k \in Kind
               PROVE  /\ Active(q)' /\ IsUnderWay(q, k)' => flight'[q][k].of = program'[q].of
                      /\ Waits(q, k)' => IsUnderWay(q, k)'
                      /\ IsUnderWay(q, k)' <=> flight'[q][k].copies > 0
    BY DEF RequestsAreOwn
  <2>1. CASE q = p
    BY <2>1 DEF ProgramFits, Waits, At, IInv, RequestsAreOwn, IsUnderWay
  <2>2. CASE q # p
    <3>1. program'[q] = program[q]
      BY <2>2 DEF ProgramFits
    <3> QED BY <3>1 DEF Waits, At, IInv, RequestsAreOwn, IsUnderWay, Active
  <2> QED BY <2>1, <2>2
<1> QED BY <1>1, <1>2, <1>3, <1>4, <1>5, <1>6, <1>7, <1>8, <1>9, <1>10, <1>11, <1>12, <1>13, <1>14
      DEF IInv

\* A program that ends, or turns to its next kind.
LEMMA RestFits ==
    ASSUME IInv, NEW p \in Publisher, Active(p), End(p) \/ NextKind(p),
           UNCHANGED flight
    PROVE  ProgramFits(p) /\ program'[p].pc \notin {"wait", "record"}
<1>t. TypeOK
  BY DEF IInv
<1>1. CASE End(p)
  BY <1>t, <1>1, EndEffect DEF ProgramFits, Active, IsUnderWay, Asks, IInv, KindsOnce
<1>2. CASE NextKind(p)
  BY <1>t, <1>2, NextKindEffect
        DEF ProgramFits, Active, IsUnderWay, Asks, IInv, KindsOnce, ProgramSpeaksTrue,
            RequestsAreOwn
<1> QED BY <1>1, <1>2

\* A program that gives GitHub up.
LEMMA RenewFits ==
    ASSUME IInv, NEW p \in Publisher, Active(p), Goto(p, "renew") \/ Leave(p, "renew"),
           UNCHANGED flight
    PROVE  ProgramFits(p) /\ program'[p].pc = "renew"
<1>1. TypeOK /\ "renew" \in Stage
  BY DEF IInv, Stage
<1>2. /\ program' \in [Publisher -> Program]
      /\ program'[p].pc = "renew"
      /\ program'[p].of = program[p].of
      /\ program'[p].kind = program[p].kind
      /\ program'[p].left = program[p].left
      /\ program'[p].report = program[p].report
      /\ \A q \in Publisher \ {p} : program'[q] = program[q]
  BY <1>1, GotoEffect
<1> QED BY <1>2
      DEF ProgramFits, Active, IsUnderWay, Asks, IInv, KindsOnce, ProgramSpeaksTrue, RequestsAreOwn

LEMMA FixturePreserves ==
    ASSUME IInv, NEW p \in Publisher, ReadFixture(p)
    PROVE  IInv'
<1> DEFINE kinds == {k \in Kind : row[latest][k].status # "published"}
           prog == [program[p] EXCEPT !.of = latest, !.report = decisionCheckConclusion(latest)]
<1>t. TypeOK
  BY DEF IInv
<1>1. /\ program[p] \in Program /\ latest \in Attempt /\ IsDecided(latest)
      /\ program' = [program EXCEPT ![p] = Publishing(prog, kinds)]
      /\ UNCHANGED <<storage, flight, github>>
      /\ program[p].pc = "idle"
  BY <1>t DEF TypeOK, ReadFixture, At, IsDecided
<1>2. decisionCheckConclusion(latest) \in Conclusion
  BY <1>1, ConclusionType DEF IInv
<1>3. prog \in Program /\ prog.of = latest /\ prog.report = decisionCheckConclusion(latest)
  BY <1>1, <1>2 DEF Program
<1>4. kinds \in SUBSET Kind
  OBVIOUS
<1>5. Publishing(prog, kinds) \in Program
  BY <1>3, <1>4, PublishingEffect
<1>6. /\ program' \in [Publisher -> Program] /\ program'[p] = Publishing(prog, kinds)
      /\ \A q \in Publisher \ {p} : program'[q] = program[q]
  BY <1>t, <1>1, <1>5 DEF TypeOK
<1>7. \/ program'[p].pc = "done" /\ program'[p].left = {}
      \/ /\ program'[p].pc = "claim"
         /\ program'[p].of = latest
         /\ program'[p].report = decisionCheckConclusion(latest)
         /\ program'[p].kind \notin program'[p].left
  <2> HIDE DEF prog, kinds
  <2> QED BY <1>3, <1>4, <1>6, PublishingEffect
<1>8. \A k \in Kind : ~IsUnderWay(p, k)
  BY <1>1 DEF IInv, KindsOnce
<1>9. ProgramFits(p) /\ program'[p].pc \notin {"wait", "record"}
  <2>1. UNCHANGED <<decision, attempt, flight>>
    BY <1>1 DEF storage
  <2> QED BY <1>1, <1>6, <1>7, <1>8, <2>1 DEF ProgramFits, Active, IsUnderWay, Asks
<1> QED BY <1>1, <1>9, StorageUnchanged, ProgramStep

LEMMA ClaimPreserves ==
    ASSUME IInv, NEW p \in Publisher, Claim(p)
    PROVE  IInv'
<1> DEFINE k == program[p].kind
<1>t. TypeOK
  BY DEF IInv
<1>1. Active(p) /\ UNCHANGED <<flight, github>> /\ k \in Kind /\ program[p].of \in Attempt
  BY <1>t, ProgramFields DEF TypeOK, Claim, At, Active
<1>2. StorageStep
  BY <1>1, PendingEffect, StorageUnchanged DEF Claim
<1>3. CASE End(p) \/ NextKind(p)
  BY <1>1, <1>2, <1>3, RestFits, ProgramStep
<1>4. CASE RecordPending(p, k) /\ MayPublish(p, k) /\ Goto(p, "list")
  <2>1. /\ program[p].of = latest /\ claim'[k] = p /\ p \in leased'[k]
        /\ row'[program[p].of][k].status # "published"
    BY <1>1, <1>4, PendingEffect
  <2>2. \A b \in Attempt : ClosesEarlier(b) => latest >= b
    BY <1>t DEF IInv, LaterIsBlank, ClosesEarlier, TypeOK, Attempt
  <2>3. /\ program' \in [Publisher -> Program]
        /\ program'[p].pc = "list"
        /\ program'[p].of = program[p].of
        /\ program'[p].kind = program[p].kind
        /\ program'[p].left = program[p].left
        /\ program'[p].report = program[p].report
        /\ \A q \in Publisher \ {p} : program'[q] = program[q]
    BY <1>t, <1>4, GotoEffect DEF Stage
  <2>4. ProgramFits(p)
    BY <1>1, <2>1, <2>2, <2>3
       DEF ProgramFits, Active, IsUnderWay, Asks, IInv, KindsOnce, ProgramSpeaksTrue,
           RequestsAreOwn, Claim, At
  <2> QED BY <1>1, <1>2, <2>3, <2>4, ProgramStep
<1> QED BY <1>3, <1>4 DEF Claim

LEMMA TimeOutPreserves ==
    ASSUME IInv, NEW p \in Publisher, TimeOut(p)
    PROVE  IInv'
<1>1. Active(p) /\ Leave(p, "renew") /\ UNCHANGED <<storage, flight, github>>
  BY DEF TimeOut, At, Active
<1>2. ProgramFits(p) /\ program'[p].pc = "renew"
  BY <1>1, RenewFits
<1> QED BY <1>1, <1>2, StorageUnchanged, ProgramStep

LEMMA RenewPreserves ==
    ASSUME IInv, NEW p \in Publisher, Renew(p)
    PROVE  IInv'
<1>t. TypeOK
  BY DEF IInv
<1>1. Active(p) /\ UNCHANGED <<flight, github>> /\ program[p].kind \in Kind
  BY <1>t, ProgramFields DEF TypeOK, Renew, At, Active
<1>2. StorageStep
  BY <1>1, PendingEffect, StorageUnchanged DEF Renew
<1>3. End(p) \/ NextKind(p)
  BY DEF Renew
<1> QED BY <1>1, <1>2, <1>3, RestFits, ProgramStep

LEMMA RecordPreserves ==
    ASSUME IInv, NEW p \in Publisher, Record(p)
    PROVE  IInv'
<1>1. Active(p) /\ At(p, "record") /\ UNCHANGED <<flight, github>>
  BY DEF Record, At, Active
<1>2. StorageStep
  BY <1>1, PublishedEffect, StorageUnchanged DEF Record
<1>3. End(p) \/ NextKind(p)
  BY DEF Record
<1> QED BY <1>1, <1>2, <1>3, RestFits, ProgramStep

LEMMA InterruptPreserves ==
    ASSUME IInv, NEW p \in Publisher, Interrupt(p)
    PROVE  IInv'
<1> DEFINE prog == [program[p] EXCEPT !.pc = "renew", !.left = {}, !.resends = 0]
<1>t. TypeOK
  BY DEF IInv
<1>1. /\ Active(p) /\ UNCHANGED <<storage, flight, github>> /\ program[p] \in Program
      /\ program' = [program EXCEPT ![p] = prog]
  BY <1>t DEF TypeOK, Interrupt, Active
<1>2. /\ prog \in Program /\ prog.pc = "renew" /\ prog.left = {}
      /\ prog.of = program[p].of /\ prog.report = program[p].report
  <2>1. 0 \in 0..MaxResends
    BY PublicationConstants
  <2> QED BY <1>1, <2>1 DEF Program
<1>3. /\ program' \in [Publisher -> Program] /\ program'[p] = prog
      /\ \A q \in Publisher \ {p} : program'[q] = program[q]
  BY <1>t, <1>1, <1>2 DEF TypeOK
<1>4. ProgramFits(p)
  BY <1>1, <1>2, <1>3 DEF ProgramFits, Active, IsUnderWay, Asks, IInv, ProgramSpeaksTrue, RequestsAreOwn
<1> QED BY <1>1, <1>2, <1>3, <1>4, StorageUnchanged, ProgramStep

LEMMA CrashPreserves ==
    ASSUME IInv, NEW p \in Publisher, Crash(p)
    PROVE  IInv'
<1>1. Active(p) /\ End(p) /\ UNCHANGED <<storage, flight, github>>
  BY DEF Crash, Active
<1> QED BY <1>1, RestFits, StorageUnchanged, ProgramStep

-----------------------------------------------------------------------------
(* The requests                                                            *)

\* A request of a publisher that lists the kind is made for what it found.
LEMMA SendPreserves ==
    ASSUME IInv, NEW p \in Publisher, At(p, "list"),
           flight' = [flight EXCEPT ![p][program[p].kind] =
                        [method |-> UpsertMethod(program[p].of, program[p].kind),
                         of |-> program[p].of, report |-> program[p].report,
                         copies |-> 1]],
           Goto(p, "wait"), UNCHANGED <<storage, github>>
    PROVE  IInv'
<1> DEFINE k == program[p].kind
           a == program[p].of
           request == [method |-> UpsertMethod(a, k), of |-> a, report |-> program[p].report,
                       copies |-> 1]
<1>t. TypeOK
  BY DEF IInv
<1>0. /\ UNCHANGED <<latest, attempt, decision, claim, leased, row, github>>
      /\ a \in Attempt /\ k \in Kind /\ program[p].report \in Conclusion
      /\ program[p].pc = "list"
  BY <1>t, ProgramFields DEF TypeOK, storage, At
<1>c. \A b : /\ (decisionCheckConclusion(b))' = decisionCheckConclusion(b)
             /\ (IsDecided(b)' <=> IsDecided(b))
  BY <1>0 DEF decisionCheckConclusion, IsDecided
<1>m. /\ request.method \in {"create", "update"} /\ request \in Request
      /\ request.of = a /\ request.copies = 1
  BY <1>0 DEF UpsertMethod, Request
<1>f. /\ flight' \in [Publisher -> [Kind -> Request]]
      /\ flight'[p][k] = request
      /\ \A q \in Publisher, j \in Kind : q # p \/ j # k => flight'[q][j] = flight[q][j]
  <2>1. [flight[p] EXCEPT ![k] = request] \in [Kind -> Request]
    BY <1>t, <1>0, <1>m DEF TypeOK
  <2> QED BY <1>t, <1>0, <1>m, <2>1 DEF TypeOK
<1>p. /\ program' \in [Publisher -> Program]
      /\ program'[p].pc = "wait"
      /\ program'[p].of = a
      /\ program'[p].kind = k
      /\ program'[p].left = program[p].left
      /\ program'[p].report = program[p].report
      /\ program'[p].resends \in 0..MaxResends
      /\ \A q \in Publisher \ {p} : program'[q] = program[q]
  BY <1>t, GotoEffect, ProgramFields DEF Stage
<1>s. IsDecided(a) /\ program[p].report = decisionCheckConclusion(a) /\ k \notin program[p].left
  BY <1>0 DEF IInv, ProgramSpeaksTrue, KindsOnce, Active
<1>h. Asks(p, k)
  BY <1>0 DEF Asks
<1>1. TypeOK'
  BY <1>t, <1>0, <1>f, <1>p DEF TypeOK
<1>2. LaterIsBlank' /\ DecidedIsReviewed'
  BY <1>0 DEF IInv, LaterIsBlank, DecidedIsReviewed, IsDecided
<1>3. ProgramSpeaksTrue'
  BY <1>c, <1>p, <1>s DEF IInv, ProgramSpeaksTrue, Active
<1>4. RequestSpeaksTrue'
  BY <1>c, <1>f, <1>m, <1>s DEF IInv, RequestSpeaksTrue, IsUnderWay
<1>5. GithubSpeaksTrue'
  BY <1>0, <1>c DEF IInv, GithubSpeaksTrue
<1>6. KindsOnce'
  <2> SUFFICES ASSUME NEW q \in Publisher
               PROVE  /\ Active(q)' => program'[q].kind \notin program'[q].left
                      /\ \A j \in Kind : IsUnderWay(q, j)' =>
                          /\ program'[q].pc # "idle"
                          /\ j \notin program'[q].left
                          /\ program'[q].pc \in {"claim", "list"} => program'[q].kind # j
    BY DEF KindsOnce, Active, IsUnderWay
  <2>1. CASE q = p
    BY <2>1, <1>f, <1>p, <1>s DEF IInv, KindsOnce, Active, IsUnderWay
  <2>2. CASE q # p
    BY <2>2, <1>f, <1>p DEF IInv, KindsOnce, Active, IsUnderWay
  <2> QED BY <2>1, <2>2
<1>7. BusyHasClaim'
  <2> SUFFICES ASSUME NEW q \in Publisher, NEW j \in Kind, IsBusy(q, j)'
               PROVE  claim[j] = q /\ q \in leased[j]
    BY <1>0 DEF BusyHasClaim
  <2>1. IsBusy(q, j)
    BY <1>0, <1>f, <1>h, <1>p DEF IsBusy, IsPending, Asks, IsUnderWay
  <2> QED BY <2>1 DEF IInv, BusyHasClaim
<1>8. AsksForUnpublished'
  BY <1>0, <1>h, <1>p DEF IInv, AsksForUnpublished, Asks
<1>9. RecordsWhatIsThere'
  BY <1>0, <1>c, <1>p DEF IInv, RecordsWhatIsThere
<1>10. BusyForCurrent'
  <2> SUFFICES ASSUME NEW b \in Attempt, ClosesEarlier(b)', NEW q \in Publisher, NEW j \in Kind
               PROVE  /\ Asks(q, j)' => program'[q].of >= b
                      /\ IsPending(q, j)' => flight'[q][j].of >= b
    BY DEF BusyForCurrent
  <2>1. ClosesEarlier(b)
    BY <1>0, ClosesSame
  <2>2. a >= b
    BY <2>1, <1>0, <1>h DEF IInv, BusyForCurrent
  <2> QED BY <1>0, <1>f, <1>m, <1>p, <2>1, <2>2
        DEF IInv, BusyForCurrent, Asks, IsPending, IsUnderWay
<1>11. OneCreator' /\ HasCreator' /\ PublishedIsDecided' /\ PublishedIsTrue'
  BY <1>0, <1>c DEF IInv, OneCreator, HasCreator, PublishedIsDecided, PublishedIsTrue
<1>12. RequestsAreOwn'
  <2> SUFFICES ASSUME NEW q \in Publisher, NEW j \in Kind
               PROVE  /\ Active(q)' /\ IsUnderWay(q, j)' => flight'[q][j].of = program'[q].of
                      /\ Waits(q, j)' => IsUnderWay(q, j)'
                      /\ IsUnderWay(q, j)' <=> flight'[q][j].copies > 0
    BY DEF RequestsAreOwn
  <2>1. CASE q = p /\ j = k
    BY <1>f, <1>m, <1>p, <2>1 DEF IsUnderWay
  <2>2. CASE ~(q = p /\ j = k)
    <3>1. flight'[q][j] = flight[q][j]
      BY <1>f, <2>2
    <3>2. /\ Waits(q, j)' => Waits(q, j)
          /\ Active(q)' => Active(q)
          /\ program'[q].of = program[q].of
      BY <1>0, <1>p, <2>2 DEF Waits, At, Active
    <3> QED BY <3>1, <3>2 DEF IInv, RequestsAreOwn, IsUnderWay
  <2> QED BY <2>1, <2>2
<1>13. CreatesAlone'
  <2>1. request.method = "create" => github[a][k].by = {}
    BY <1>0 DEF UpsertMethod, IInv, HasCreator
  <2>2. \A q \in Publisher \ {p} : flight[q][k].method = "create" => flight[q][k].of # a
    <3> SUFFICES ASSUME NEW q \in Publisher \ {p}, flight[q][k].method = "create",
                        flight[q][k].of = a
                 PROVE  FALSE
      OBVIOUS
    <3>1. IsPending(q, k)
      <4>1. row[a][k].status # "published"
        BY <1>0, <1>h DEF IInv, AsksForUnpublished
      <4> QED BY <4>1 DEF IsPending, IsUnderWay
    <3> QED BY <1>0, <1>h, <3>1 DEF IInv, BusyHasClaim, IsBusy
  <2> SUFFICES ASSUME NEW q \in Publisher, NEW j \in Kind, flight'[q][j].method = "create"
               PROVE  /\ github[flight'[q][j].of][j].by \subseteq {q}
                      /\ \A o \in Publisher : CreatesSame(q, o, j)' => o = q
    BY <1>0 DEF CreatesAlone
  <2> HIDE DEF request
  <2>3. CASE j # k
    BY <1>f, <2>3 DEF IInv, CreatesAlone, CreatesSame
  <2>4. CASE j = k /\ q = p
    BY <1>0, <1>f, <1>m, <2>1, <2>2, <2>4 DEF CreatesSame
  <2>5. CASE j = k /\ q # p
    <3>1. flight'[q][k] = flight[q][k] /\ flight[q][k].method = "create"
      BY <1>0, <1>f, <2>5
    <3>2. flight[q][k].of # a
      BY <2>2, <2>5, <3>1
    <3>3. github[flight[q][k].of][k].by \subseteq {q}
      BY <1>0, <3>1 DEF IInv, CreatesAlone
    <3>4. \A o \in Publisher : CreatesSame(q, o, j)' => o # p /\ CreatesSame(q, o, j)
      BY <1>0, <1>f, <1>m, <2>5, <3>1, <3>2 DEF CreatesSame
    <3>5. \A o \in Publisher : CreatesSame(q, o, j) => o = q
      BY <1>0, <2>5, <3>1 DEF IInv, CreatesAlone
    <3> QED BY <2>5, <3>1, <3>3, <3>4, <3>5
  <2> QED BY <2>3, <2>4, <2>5
<1>14. CreatesAsSent' /\ UpdatesWhatIsThere'
  <2>1. /\ github[a][k].count \in Nat /\ MaxResends \in Nat
        /\ request.method = "create" => github[a][k].count = 0
        /\ request.method = "update" => github[a][k].count > 0
    BY <1>t, <1>0, PublicationConstants DEF TypeOK, UpsertMethod
  <2> HIDE DEF request
  <2>2. ASSUME NEW q \in Publisher, NEW j \in Kind, ~(q = p /\ j = k)
        PROVE  flight'[q][j] = flight[q][j] /\ (Waits(q, j)' => Waits(q, j) /\ program'[q] = program[q])
    BY <1>f, <1>p, <2>2 DEF Waits, At
  <2>3. CreatesAsSent'
    <3> SUFFICES ASSUME NEW q \in Publisher, NEW j \in Kind, flight'[q][j].method = "create"
                 PROVE  LET sent == github[flight'[q][j].of][j].count + flight'[q][j].copies IN
                        /\ sent <= MaxResends + 1
                        /\ Waits(q, j)' => sent <= program'[q].resends + 1
      BY <1>0 DEF CreatesAsSent
    <3>1. CASE q = p /\ j = k
      BY <1>f, <1>m, <1>p, <2>1, <3>1
    <3>2. CASE ~(q = p /\ j = k)
      BY <2>2, <3>2 DEF IInv, CreatesAsSent
    <3> QED BY <3>1, <3>2
  <2>4. UpdatesWhatIsThere'
    BY <1>0, <1>f, <1>m, <2>1 DEF IInv, UpdatesWhatIsThere
  <2> QED BY <2>3, <2>4
<1> QED BY <1>1, <1>2, <1>3, <1>4, <1>5, <1>6, <1>7, <1>8, <1>9, <1>10, <1>11, <1>12, <1>13, <1>14
      DEF IInv

LEMMA ListPreserves ==
    ASSUME IInv, NEW p \in Publisher, List(p)
    PROVE  IInv'
<1>1. At(p, "list") /\ Active(p) /\ UNCHANGED <<storage, github>>
  BY DEF List, At, Active
<1>2. CASE UNCHANGED flight /\ Goto(p, "renew")
  <2>1. ProgramFits(p) /\ program'[p].pc = "renew"
    BY <1>1, <1>2, RenewFits
  <2> QED BY <1>1, <1>2, <2>1, StorageUnchanged, ProgramStep
<1>3. CASE ~(UNCHANGED flight /\ Goto(p, "renew"))
  BY <1>1, <1>3, SendPreserves DEF List
<1> QED BY <1>2, <1>3

\* What becomes of the request of p for the kind: it is over, or some copies are left.
RequestGoesOn(p, k) ==
    /\ flight' \in [Publisher -> [Kind -> Request]]
    /\ \A q \in Publisher, j \in Kind : q # p \/ j # k => flight'[q][j] = flight[q][j]
    /\ \/ flight'[p][k].method = "none" /\ flight'[p][k].copies = 0
       \/ /\ flight'[p][k].method = flight[p][k].method
          /\ flight'[p][k].of = flight[p][k].of
          /\ flight'[p][k].report = flight[p][k].report
          /\ flight'[p][k].copies > 0

\* What GitHub shows then: the same, or what the request asked for.
Answered(p, k) ==
    LET request == flight[p][k]
        old == github[request.of][k]
        new == github'[request.of][k]
    IN
    /\ github' \in [Attempt -> [Kind -> [count : Nat, report : Conclusion, by : SUBSET Publisher]]]
    /\ \A a \in Attempt, j \in Kind : a # request.of \/ j # k => github'[a][j] = github[a][j]
    /\ \/ new = old
       \/ /\ new.report = request.report
          /\ \/ request.method = "create" /\ new.count = old.count + 1 /\ new.by = old.by \cup {p}
             \/ request.method = "update" /\ new.count = old.count /\ new.by = old.by

\* What becomes of the program of p: it waits for the request no longer, perhaps with
\* an answer, or waits for a copy that is under way.
WaitGoesOn(p, k) ==
    /\ program' \in [Publisher -> Program]
    /\ \A q \in Publisher \ {p} : program'[q] = program[q]
    /\ \/ UNCHANGED program /\ (Waits(p, k) => IsUnderWay(p, k)')
       \/ /\ Waits(p, k)
          /\ program'[p].of = program[p].of
          /\ program'[p].kind = program[p].kind
          /\ program'[p].left = program[p].left
          /\ program'[p].report = program[p].report
          /\ \/ program'[p].pc = "wait" /\ IsUnderWay(p, k)'
             \/ program'[p].pc = "renew"
             \/ /\ program'[p].pc = "record"
                /\ github'[flight[p][k].of][k].count > 0
                /\ github'[flight[p][k].of][k].report = flight[p][k].report

\* The objects and the copies that may make more are no more than the client has sent.
SentSoOften(p, k) ==
    flight'[p][k].method = "create" =>
        LET sent == github'[flight'[p][k].of][k].count + flight'[p][k].copies IN
        /\ sent <= MaxResends + 1
        /\ Waits(p, k)' => sent <= program'[p].resends + 1

LEMMA RequestPreserves ==
    ASSUME IInv, NEW p \in Publisher, NEW k \in Kind, IsUnderWay(p, k), UNCHANGED storage,
           RequestGoesOn(p, k), Answered(p, k), WaitGoesOn(p, k), SentSoOften(p, k)
    PROVE  IInv'
<1>t. TypeOK
  BY DEF IInv
<1>0. UNCHANGED <<latest, attempt, decision, claim, leased, row>>
  BY DEF storage
<1>c. \A b : /\ (decisionCheckConclusion(b))' = decisionCheckConclusion(b)
             /\ (IsDecided(b)' <=> IsDecided(b))
  BY <1>0 DEF decisionCheckConclusion, IsDecided
<1>r. /\ flight[p][k].of \in Attempt
      /\ IsDecided(flight[p][k].of)
      /\ flight[p][k].report = decisionCheckConclusion(flight[p][k].of)
      /\ flight[p][k].copies > 0
  BY <1>t, RequestFields DEF IInv, TypeOK, RequestSpeaksTrue, RequestsAreOwn
<1>f. \A q \in Publisher, j \in Kind :
        IsUnderWay(q, j)' => /\ IsUnderWay(q, j)
                             /\ flight'[q][j].method = flight[q][j].method
                             /\ flight'[q][j].of = flight[q][j].of
                             /\ flight'[q][j].report = flight[q][j].report
                             /\ flight[q][j].of \in Attempt
  BY <1>t, RequestFields DEF RequestGoesOn, IsUnderWay, TypeOK
<1>p. \A q \in Publisher :
        /\ program'[q].of = program[q].of
        /\ program'[q].kind = program[q].kind
        /\ program'[q].left = program[q].left
        /\ program'[q].report = program[q].report
        /\ \/ program'[q].pc = program[q].pc
           \/ program[q].pc = "wait" /\ program'[q].pc \in {"renew", "record"}
  BY DEF WaitGoesOn, Waits, At
<1>g. \A a \in Attempt, j \in Kind :
        /\ github[a][j].count > 0 => github'[a][j].count > 0
        /\ \/ github'[a][j].report = github[a][j].report
           \/ IsDecided(a) /\ github'[a][j].report = decisionCheckConclusion(a)
  <2> SUFFICES ASSUME NEW a \in Attempt, NEW j \in Kind
               PROVE  /\ github[a][j].count > 0 => github'[a][j].count > 0
                      /\ \/ github'[a][j].report = github[a][j].report
                         \/ IsDecided(a) /\ github'[a][j].report = decisionCheckConclusion(a)
    OBVIOUS
  <2>1. github[a][j].count \in Nat
    BY <1>t DEF TypeOK
  <2>2. CASE github'[a][j] = github[a][j]
    BY <2>2
  <2>3. CASE github'[a][j] # github[a][j]
    <3>1. /\ a = flight[p][k].of /\ j = k
          /\ github'[a][j].report = flight[p][k].report
          /\ \/ github'[a][j].count = github[a][j].count + 1
             \/ github'[a][j].count = github[a][j].count
      BY <2>3 DEF Answered
    <3> QED BY <1>r, <2>1, <3>1
  <2> QED BY <2>2, <2>3
<1>1. TypeOK'
  BY <1>t, <1>0 DEF TypeOK, RequestGoesOn, Answered, WaitGoesOn
<1>2. LaterIsBlank' /\ DecidedIsReviewed'
  BY <1>0 DEF IInv, LaterIsBlank, DecidedIsReviewed, IsDecided
<1>3. ProgramSpeaksTrue'
  BY <1>c, <1>p DEF IInv, ProgramSpeaksTrue, Active
<1>4. RequestSpeaksTrue'
  BY <1>c, <1>f DEF IInv, RequestSpeaksTrue
<1>5. GithubSpeaksTrue'
  BY <1>c, <1>g DEF IInv, GithubSpeaksTrue
<1>6. KindsOnce'
  <2> SUFFICES ASSUME NEW q \in Publisher
               PROVE  /\ Active(q)' => program'[q].kind \notin program'[q].left
                      /\ \A j \in Kind : IsUnderWay(q, j)' =>
                          /\ program'[q].pc # "idle"
                          /\ j \notin program'[q].left
                          /\ program'[q].pc \in {"claim", "list"} => program'[q].kind # j
    BY DEF KindsOnce, Active
  <2> QED BY <1>f, <1>p DEF IInv, KindsOnce, Active
<1>b. \A q \in Publisher, j \in Kind :
        /\ Asks(q, j)' => Asks(q, j)
        /\ IsPending(q, j)' => IsPending(q, j)
  BY <1>0, <1>f, <1>p DEF Asks, IsPending
<1>7. BusyHasClaim' /\ AsksForUnpublished'
  BY <1>0, <1>b, <1>p DEF IInv, BusyHasClaim, IsBusy, AsksForUnpublished
<1>8. RequestsAreOwn'
  <2> SUFFICES ASSUME NEW q \in Publisher, NEW j \in Kind
               PROVE  /\ Active(q)' /\ IsUnderWay(q, j)' => flight'[q][j].of = program'[q].of
                      /\ Waits(q, j)' => IsUnderWay(q, j)'
                      /\ IsUnderWay(q, j)' <=> flight'[q][j].copies > 0
    BY DEF RequestsAreOwn
  <2>1. Active(q)' /\ IsUnderWay(q, j)' => flight'[q][j].of = program'[q].of
    BY <1>f, <1>p DEF IInv, RequestsAreOwn, Active
  <2>2. CASE q = p /\ j = k
    BY <2>1, <2>2 DEF RequestGoesOn, WaitGoesOn, IsUnderWay, Waits, At
  <2>3. CASE ~(q = p /\ j = k)
    <3>1. flight'[q][j] = flight[q][j]
      BY <2>3 DEF RequestGoesOn
    <3>2. Waits(q, j)' => Waits(q, j)
      BY <1>p DEF Waits, At
    <3> QED BY <2>1, <3>1, <3>2 DEF IInv, RequestsAreOwn, IsUnderWay
  <2> QED BY <2>2, <2>3
<1>9. RecordsWhatIsThere'
  <2> SUFFICES ASSUME NEW q \in Publisher, program'[q].pc = "record"
               PROVE  /\ github'[program'[q].of][program'[q].kind].count > 0
                      /\ github'[program'[q].of][program'[q].kind].report
                            = decisionCheckConclusion(program'[q].of)
    BY <1>c DEF RecordsWhatIsThere
  <2>1. CASE program[q].pc = "record"
    <3>1. program[q].of \in Attempt /\ program[q].kind \in Kind
      BY <1>t, ProgramFields DEF TypeOK
    <3> QED BY <1>g, <1>p, <2>1, <3>1 DEF IInv, RecordsWhatIsThere
  <2>2. CASE program[q].pc # "record"
    <3>1. /\ Waits(p, k) /\ q = p
          /\ github'[flight[p][k].of][k].count > 0
          /\ github'[flight[p][k].of][k].report = flight[p][k].report
      BY <2>2 DEF WaitGoesOn
    <3>2. flight[p][k].of = program[p].of
      BY <3>1 DEF IInv, RequestsAreOwn, Waits, At, Active
    <3>3. program[p].kind = k
      BY <3>1 DEF Waits
    <3> QED BY <1>p, <1>r, <3>1, <3>2, <3>3
  <2> QED BY <2>1, <2>2
<1>10. BusyForCurrent'
  <2> SUFFICES ASSUME NEW b \in Attempt, ClosesEarlier(b)', NEW q \in Publisher, NEW j \in Kind
               PROVE  /\ Asks(q, j)' => program'[q].of >= b
                      /\ IsPending(q, j)' => flight'[q][j].of >= b
    BY DEF BusyForCurrent
  <2>1. ClosesEarlier(b)
    BY <1>0, ClosesSame
  <2>2. IsPending(q, j)' => flight'[q][j].of = flight[q][j].of
    BY <1>f DEF IsPending
  <2> QED BY <1>b, <1>p, <2>1, <2>2 DEF IInv, BusyForCurrent
<1>11. PublishedIsDecided' /\ PublishedIsTrue'
  BY <1>0, <1>c, <1>g DEF IInv, PublishedIsDecided, PublishedIsTrue
<1>12. UpdatesWhatIsThere'
  BY <1>f, <1>g DEF IInv, UpdatesWhatIsThere, IsUnderWay
<1>13. CreatesAlone'
  <2> SUFFICES ASSUME NEW q \in Publisher, NEW j \in Kind, flight'[q][j].method = "create"
               PROVE  /\ github'[flight'[q][j].of][j].by \subseteq {q}
                      /\ \A o \in Publisher : CreatesSame(q, o, j)' => o = q
    BY DEF CreatesAlone
  <2>1. /\ flight[q][j].method = "create"
        /\ flight'[q][j].of = flight[q][j].of
        /\ flight[q][j].of \in Attempt
    BY <1>f DEF IsUnderWay
  <2>2. \A o \in Publisher : CreatesSame(q, o, j)' => CreatesSame(q, o, j)
    BY <1>f DEF CreatesSame, IsUnderWay
  <2>3. github[flight[q][j].of][j].by \subseteq {q}
    BY <2>1 DEF IInv, CreatesAlone
  <2>4. github'[flight[q][j].of][j].by \subseteq {q}
    <3>1. CASE github'[flight[q][j].of][j].by = github[flight[q][j].of][j].by
      BY <2>3, <3>1
    <3>2. CASE github'[flight[q][j].of][j].by # github[flight[q][j].of][j].by
      <4>1. /\ flight[q][j].of = flight[p][k].of /\ j = k
            /\ flight[p][k].method = "create"
            /\ github'[flight[q][j].of][j].by = github[flight[q][j].of][j].by \cup {p}
        BY <2>1, <3>2 DEF Answered
      <4>2. p = q
        BY <2>1, <4>1 DEF IInv, CreatesAlone, CreatesSame
      <4> QED BY <2>3, <4>1, <4>2
    <3> QED BY <3>1, <3>2
  <2>5. \A o \in Publisher : CreatesSame(q, o, j) => o = q
    BY <2>1 DEF IInv, CreatesAlone
  <2> QED BY <2>1, <2>2, <2>4, <2>5
<1>14. CreatesAsSent'
  <2> SUFFICES ASSUME NEW q \in Publisher, NEW j \in Kind, flight'[q][j].method = "create"
               PROVE  LET sent == github'[flight'[q][j].of][j].count + flight'[q][j].copies IN
                      /\ sent <= MaxResends + 1
                      /\ Waits(q, j)' => sent <= program'[q].resends + 1
    BY DEF CreatesAsSent
  <2>1. CASE q = p /\ j = k
    BY <2>1 DEF SentSoOften
  <2>2. CASE ~(q = p /\ j = k)
    <3>1. flight'[q][j] = flight[q][j] /\ flight[q][j].of \in Attempt
      BY <1>f, <2>2 DEF RequestGoesOn, IsUnderWay
    <3>2. Waits(q, j)' => Waits(q, j) /\ program'[q] = program[q]
      BY <2>2 DEF WaitGoesOn, Waits, At
    <3>3. github'[flight[q][j].of][j].count = github[flight[q][j].of][j].count
      <4>1. CASE flight[q][j].of = flight[p][k].of /\ j = k
        <5>1. flight[p][k].method # "create"
          BY <2>2, <3>1, <4>1 DEF IInv, CreatesAlone, CreatesSame
        <5> QED BY <4>1, <5>1 DEF Answered
      <4>2. CASE ~(flight[q][j].of = flight[p][k].of /\ j = k)
        BY <3>1, <4>2 DEF Answered
      <4> QED BY <4>1, <4>2
    <3> QED BY <3>1, <3>2, <3>3 DEF IInv, CreatesAsSent
  <2> QED BY <2>1, <2>2
<1>15. OneCreator' /\ HasCreator'
  <2> SUFFICES ASSUME NEW a \in Attempt, NEW j \in Kind
               PROVE  /\ \A q, o \in github'[a][j].by : q = o
                      /\ github'[a][j].count <= MaxResends + 1
                      /\ github'[a][j].by = {} <=> github'[a][j].count = 0
    BY DEF OneCreator, HasCreator
  <2>1. github[a][j].count \in Nat
    BY <1>t DEF TypeOK
  <2>2. CASE github'[a][j].count = github[a][j].count /\ github'[a][j].by = github[a][j].by
    BY <2>2 DEF IInv, OneCreator, HasCreator
  <2>3. CASE ~(github'[a][j].count = github[a][j].count /\ github'[a][j].by = github[a][j].by)
    <3>1. /\ a = flight[p][k].of /\ j = k
          /\ flight[p][k].method = "create"
          /\ github'[a][j].count = github[a][j].count + 1
          /\ github'[a][j].by = github[a][j].by \cup {p}
      BY <2>3 DEF Answered
    <3>2. github[a][j].by \subseteq {p}
      BY <3>1 DEF IInv, CreatesAlone
    <3>3. github[a][j].count + flight[p][k].copies <= MaxResends + 1
      BY <3>1 DEF IInv, CreatesAsSent
    <3>4. flight[p][k].copies \in Nat /\ MaxResends \in Nat
      BY <1>t, RequestFields, PublicationConstants DEF TypeOK
    <3>5. github'[a][j].count <= MaxResends + 1 /\ github'[a][j].count # 0
      BY <1>r, <2>1, <3>1, <3>3, <3>4
    <3>6. github'[a][j].by = {p}
      BY <3>1, <3>2
    <3> QED BY <3>5, <3>6
  <2> QED BY <2>2, <2>3
<1> QED BY <1>1, <1>2, <1>3, <1>4, <1>5, <1>6, <1>7, <1>8, <1>9, <1>10, <1>11, <1>12, <1>13, <1>14,
      <1>15 DEF IInv

\* One copy less, of those there were.
LEMMA LandEffect ==
    ASSUME IInv, NEW p \in Publisher, NEW k \in Kind, IsUnderWay(p, k), Land(p, k)
    PROVE  /\ RequestGoesOn(p, k)
           /\ IsUnderWay(p, k)' => flight'[p][k].copies = flight[p][k].copies - 1
           /\ flight[p][k].copies > 1 => IsUnderWay(p, k)'
<1>1. /\ flight \in [Publisher -> [Kind -> Request]]
      /\ flight[p][k] \in Request
      /\ flight[p][k].copies \in Nat /\ flight[p][k].copies > 0
  BY RequestFields DEF IInv, TypeOK, RequestsAreOwn
<1>2. NoRequest \in Request /\ NoRequest.method = "none" /\ NoRequest.copies = 0
  BY PublicationConstants DEF NoRequest, Request, Attempt, Conclusion
<1> DEFINE next == OneLess(flight[p][k])
<1>3. CASE flight[p][k].copies = 1
  <2>1. next \in Request /\ next.method = "none" /\ next.copies = 0
    BY <1>2, <1>3 DEF OneLess
  <2>2. flight' = [flight EXCEPT ![p][k] = next]
    BY DEF Land
  <2> HIDE DEF next
  <2>3. [flight[p] EXCEPT ![k] = next] \in [Kind -> Request]
    BY <1>1, <2>1
  <2> QED BY <1>1, <1>3, <2>1, <2>2, <2>3 DEF RequestGoesOn, IsUnderWay
<1>4. CASE flight[p][k].copies # 1
  <2>1. flight[p][k].copies - 1 \in Nat /\ flight[p][k].copies - 1 > 0
    BY <1>1, <1>4
  <2>2. next = [flight[p][k] EXCEPT !.copies = flight[p][k].copies - 1]
    BY <1>4 DEF OneLess
  <2>3. /\ next \in Request
        /\ next.method = flight[p][k].method /\ next.of = flight[p][k].of
        /\ next.report = flight[p][k].report /\ next.copies = flight[p][k].copies - 1
    BY <1>1, <2>1, <2>2 DEF Request
  <2>4. flight' = [flight EXCEPT ![p][k] = next]
    BY DEF Land
  <2> HIDE DEF next
  <2>5. [flight[p] EXCEPT ![k] = next] \in [Kind -> Request]
    BY <1>1, <2>3
  <2>6. flight' \in [Publisher -> [Kind -> Request]] /\ flight'[p][k] = next
        /\ \A q \in Publisher, j \in Kind : q # p \/ j # k => flight'[q][j] = flight[q][j]
    BY <1>1, <2>4, <2>5
  <2> QED BY <2>1, <2>3, <2>6 DEF RequestGoesOn, IsUnderWay
<1> QED BY <1>3, <1>4

\* What GitHub has made of the request, and what becomes of the copies of it, come
\* to no more objects than the client has sent copies.
LEMMA NotAnsweredEffect ==
    ASSUME IInv, NEW p \in Publisher, NEW k \in Kind, IsUnderWay(p, k), NotAnswered(p, k),
           Answered(p, k)
    PROVE  RequestGoesOn(p, k) /\ WaitGoesOn(p, k) /\ SentSoOften(p, k)
<1>t. TypeOK
  BY DEF IInv
<1> DEFINE request == flight[p][k]
           old == github[request.of][k].count
           new == github'[request.of][k].count
<1>1. /\ request \in Request /\ request.of \in Attempt /\ request.copies \in Nat
      /\ request.copies > 0
      /\ old \in Nat /\ new \in Nat /\ (new = old \/ new = old + 1)
      /\ MaxResends \in Nat /\ program[p].resends \in Nat
      /\ program[p] \in Program
  <2>1. request \in Request
    BY <1>t DEF TypeOK
  <2>2. request.of \in Attempt /\ request.copies \in Nat /\ request.copies > 0
    BY <2>1, RequestFields DEF IInv, RequestsAreOwn
  <2>3. old \in Nat
    BY <1>t, <2>2 DEF TypeOK
  <2>4. new \in Nat /\ (new = old \/ new = old + 1)
    BY <2>2, <2>3 DEF Answered
  <2>5. MaxResends \in Nat /\ program[p] \in Program /\ program[p].resends \in 0..MaxResends
    BY <1>t, ProgramFields, PublicationConstants DEF TypeOK
  <2> QED BY <2>1, <2>2, <2>3, <2>4, <2>5
<1>2. request.method = "create" =>
        /\ old + request.copies <= MaxResends + 1
        /\ Waits(p, k) => old + request.copies <= program[p].resends + 1
  BY DEF IInv, CreatesAsSent
<1>3. CASE Land(p, k) /\ UNCHANGED program /\ (~Waits(p, k) \/ request.copies > 1)
  <2>1. RequestGoesOn(p, k) /\ (request.copies > 1 => IsUnderWay(p, k)')
    BY <1>3, LandEffect
  <2>2. WaitGoesOn(p, k)
    BY <1>t, <1>3, <2>1 DEF WaitGoesOn, TypeOK
  <2>3. SentSoOften(p, k)
    <3>1. SUFFICES ASSUME flight'[p][k].method = "create"
                   PROVE  /\ new + flight'[p][k].copies <= MaxResends + 1
                          /\ Waits(p, k) => new + flight'[p][k].copies <= program[p].resends + 1
                          /\ flight'[p][k].of = request.of
      BY <1>3 DEF SentSoOften, Waits, At
    <3>2. flight'[p][k].copies = request.copies - 1
      BY <1>3, <3>1, LandEffect DEF IsUnderWay
    <3>3. request.method = "create" /\ flight'[p][k].of = request.of
      BY <2>1, <3>1 DEF RequestGoesOn
    <3> HIDE DEF old, new, request
    <3> QED BY <1>1, <1>2, <3>2, <3>3
  <2> QED BY <2>1, <2>2, <2>3
<1>4. CASE Waits(p, k) /\ Land(p, k) /\ Leave(p, "renew")
  <2>1. RequestGoesOn(p, k)
    BY <1>4, LandEffect
  <2>2. WaitGoesOn(p, k) /\ program'[p].pc = "renew"
    BY <1>t, <1>4, GotoEffect DEF WaitGoesOn, Stage
  <2>3. SentSoOften(p, k)
    <3>1. SUFFICES ASSUME flight'[p][k].method = "create"
                   PROVE  /\ new + flight'[p][k].copies <= MaxResends + 1
                          /\ flight'[p][k].of = request.of
      BY <2>2 DEF SentSoOften, Waits, At
    <3>2. flight'[p][k].copies = request.copies - 1
      BY <1>4, <3>1, LandEffect DEF IsUnderWay
    <3>3. request.method = "create" /\ flight'[p][k].of = request.of
      BY <2>1, <3>1 DEF RequestGoesOn
    <3> HIDE DEF old, new, request
    <3> QED BY <1>1, <1>2, <3>2, <3>3
  <2> QED BY <2>1, <2>2, <2>3
<1>5. CASE Waits(p, k) /\ SendAgain(p) /\ UNCHANGED flight
  <2>1. RequestGoesOn(p, k)
    BY <1>t, <1>1, <1>5 DEF RequestGoesOn, TypeOK
  <2>2. /\ program'[p].resends = program[p].resends + 1
        /\ program'[p].resends <= MaxResends
        /\ WaitGoesOn(p, k)
    <3>1. program[p].pc = "wait"
      BY <1>5 DEF Waits, At
    <3>2. IsUnderWay(p, k)'
      BY <1>5 DEF IsUnderWay
    <3> QED BY <1>t, <1>5, <3>1, <3>2, SendAgainEffect DEF WaitGoesOn
  <2>3. SentSoOften(p, k)
    <3>1. SUFFICES ASSUME request.method = "create"
                   PROVE  /\ new + request.copies <= MaxResends + 1
                          /\ new + request.copies <= program'[p].resends + 1
      BY <1>5 DEF SentSoOften
    <3> HIDE DEF old, new, request
    <3> QED BY <1>1, <1>2, <1>5, <2>2, <3>1
  <2> QED BY <2>1, <2>2, <2>3
<1> QED BY <1>3, <1>4, <1>5 DEF NotAnswered

LEMMA ProcessedAnswer ==
    ASSUME IInv, NEW p \in Publisher, NEW k \in Kind, Process(p, k)
    PROVE  /\ Answered(p, k)
           /\ github'[flight[p][k].of][k].count > 0
           /\ github'[flight[p][k].of][k].report = flight[p][k].report
<1> DEFINE request == flight[p][k]
           object == github[request.of][k]
           creates == request.method = "create"
           next == [count |-> IF creates THEN object.count + 1 ELSE object.count,
                    report |-> request.report,
                    by |-> IF creates THEN object.by \cup {p} ELSE object.by]
           Object == [count : Nat, report : Conclusion, by : SUBSET Publisher]
<1>t. TypeOK
  BY DEF IInv
<1>1. /\ request.of \in Attempt /\ request.report \in Conclusion
      /\ request.method \in {"create", "update"}
  BY <1>t, RequestFields DEF TypeOK, Process
<1>2. object \in Object /\ object.count \in Nat /\ object.by \in SUBSET Publisher
      /\ github[request.of] \in [Kind -> Object]
  BY <1>t, <1>1 DEF TypeOK
<1>3. github' = [github EXCEPT ![request.of][k] = next]
  BY <1>1, <1>2 DEF Process, TypeOK
<1>4. next \in Object /\ next.report = request.report
  BY <1>1, <1>2
<1>5. /\ creates => next.count = object.count + 1 /\ next.by = object.by \cup {p}
      /\ ~creates => next.count = object.count /\ next.by = object.by /\ object.count > 0
  BY <1>1 DEF IInv, UpdatesWhatIsThere
<1>6. /\ github' \in [Attempt -> [Kind -> Object]]
      /\ github'[request.of][k] = next
      /\ \A a \in Attempt, j \in Kind : a # request.of \/ j # k => github'[a][j] = github[a][j]
  <2>1. [github[request.of] EXCEPT ![k] = next] \in [Kind -> Object]
    BY <1>2, <1>4
  <2>2. github \in [Attempt -> [Kind -> Object]]
    BY <1>t DEF TypeOK
  <2> HIDE DEF next, object, Object
  <2> QED BY <1>1, <1>3, <1>4, <2>1, <2>2
<1>7. next.count > 0
  <2> HIDE DEF next
  <2> QED BY <1>1, <1>2, <1>5
<1> HIDE DEF next
<1> QED BY <1>1, <1>4, <1>5, <1>6, <1>7 DEF Answered

LEMMA ProcessPreserves ==
    ASSUME IInv, NEW p \in Publisher, NEW k \in Kind, Process(p, k)
    PROVE  IInv'
<1>1. IsUnderWay(p, k) /\ UNCHANGED storage
  BY DEF Process, IsUnderWay
<1>2. Answered(p, k)
  BY ProcessedAnswer
<1>3. CASE NotAnswered(p, k)
  BY <1>1, <1>2, <1>3, NotAnsweredEffect, RequestPreserves
<1>4. CASE Waits(p, k) /\ Land(p, k) /\ Leave(p, "record")
  <2>1. RequestGoesOn(p, k)
    BY <1>1, <1>4, LandEffect
  <2>2. WaitGoesOn(p, k) /\ program'[p].pc = "record"
    BY <1>4, GotoEffect, ProcessedAnswer DEF WaitGoesOn, Stage, IInv
  <2>3. SentSoOften(p, k)
    <3> SUFFICES ASSUME flight'[p][k].method = "create"
                 PROVE  github'[flight'[p][k].of][k].count + flight'[p][k].copies <= MaxResends + 1
      BY <2>2 DEF SentSoOften, Waits, At
    <3>1. flight'[p][k].copies = flight[p][k].copies - 1
      BY <1>1, <1>4, LandEffect DEF IsUnderWay
    <3>2. flight[p][k].method = "create" /\ flight'[p][k].of = flight[p][k].of
      BY <2>1 DEF RequestGoesOn
    <3>3. github[flight[p][k].of][k].count + flight[p][k].copies <= MaxResends + 1
      BY <3>2 DEF IInv, CreatesAsSent
    <3>4. /\ flight[p][k].copies \in Nat /\ MaxResends \in Nat
          /\ github[flight[p][k].of][k].count \in Nat
      BY RequestFields, PublicationConstants DEF IInv, TypeOK
    <3>5. \/ github'[flight[p][k].of][k].count = github[flight[p][k].of][k].count
          \/ github'[flight[p][k].of][k].count = github[flight[p][k].of][k].count + 1
      BY <1>2 DEF Answered
    <3> QED BY <3>1, <3>2, <3>3, <3>4, <3>5
  <2> QED BY <1>1, <1>2, <2>1, <2>2, <2>3, RequestPreserves
<1> QED BY <1>3, <1>4 DEF Process

LEMMA RefusePreserves ==
    ASSUME IInv, NEW p \in Publisher, NEW k \in Kind, Refuse(p, k)
    PROVE  IInv'
<1>1. /\ IsUnderWay(p, k) /\ NotAnswered(p, k)
      /\ UNCHANGED <<storage, github>>
  BY DEF Refuse, IsUnderWay
<1>2. Answered(p, k)
  BY <1>1 DEF Answered, IInv, TypeOK
<1> QED BY <1>1, <1>2, NotAnsweredEffect, RequestPreserves

LEMMA ResendPreserves ==
    ASSUME IInv, NEW p \in Publisher, NEW k \in Kind, program[p].kind = k, Resend(p)
    PROVE  IInv'
<1> DEFINE request == flight[p][k]
           next == [request EXCEPT !.copies = @ + 1]
<1>t. TypeOK
  BY DEF IInv
<1>1. /\ program[p].pc = "wait" /\ SendAgain(p) /\ UNCHANGED <<storage, github>>
      /\ program[p].resends \in 0..MaxResends /\ MaxResends \in Nat
      /\ Waits(p, k)
  BY <1>t, ProgramFields, PublicationConstants DEF TypeOK, Resend, At, Waits
<1>2. IsUnderWay(p, k) /\ request \in Request /\ request.copies \in Nat /\ request.of \in Attempt
  BY <1>t, <1>1, RequestFields DEF IInv, RequestsAreOwn, TypeOK
<1>3. /\ next \in Request
      /\ next.method = request.method /\ next.of = request.of
      /\ next.report = request.report /\ next.copies = request.copies + 1
  BY <1>2 DEF Request
<1>4. /\ flight' \in [Publisher -> [Kind -> Request]]
      /\ flight'[p][k] = next
      /\ \A q \in Publisher, j \in Kind : q # p \/ j # k => flight'[q][j] = flight[q][j]
  <2>1. flight' = [flight EXCEPT ![p][k] = next]
    BY <1>t, <1>1 DEF Resend, TypeOK
  <2>2. [flight[p] EXCEPT ![k] = next] \in [Kind -> Request]
    BY <1>t, <1>1, <1>3 DEF TypeOK
  <2> HIDE DEF next, request
  <2> QED BY <1>t, <1>1, <1>3, <2>1, <2>2 DEF TypeOK
<1> HIDE DEF next
<1>5. RequestGoesOn(p, k) /\ IsUnderWay(p, k)'
  <2>1. flight'[p][k].method = request.method /\ flight'[p][k].of = request.of
        /\ flight'[p][k].report = request.report
        /\ flight'[p][k].copies = request.copies + 1
    BY <1>3, <1>4
  <2>2. request.copies + 1 > 0
    BY <1>2
  <2> QED BY <1>2, <1>4, <2>1, <2>2 DEF RequestGoesOn, IsUnderWay
<1>6. Answered(p, k)
  BY <1>1 DEF Answered, IInv, TypeOK
<1>7. /\ WaitGoesOn(p, k)
      /\ program'[p].resends = program[p].resends + 1
      /\ program'[p].resends <= MaxResends
  BY <1>t, <1>1, <1>5, SendAgainEffect DEF WaitGoesOn
<1>8. SentSoOften(p, k)
  <2> SUFFICES ASSUME next.method = "create"
               PROVE  /\ github[request.of][k].count + next.copies <= MaxResends + 1
                      /\ github[request.of][k].count + next.copies <= program'[p].resends + 1
    BY <1>1, <1>3, <1>4 DEF SentSoOften
  <2>1. github[request.of][k].count + request.copies <= program[p].resends + 1
    BY <1>1, <1>3 DEF IInv, CreatesAsSent
  <2>2. github[request.of][k].count \in Nat
    BY <1>t, <1>1, <1>2 DEF TypeOK
  <2> QED BY <1>1, <1>2, <1>3, <1>7, <2>1, <2>2
<1> QED BY <1>1, <1>2, <1>5, <1>6, <1>7, <1>8, RequestPreserves

\* Only a lease passes that nobody needs.
LEMMA LeasePreserves ==
    ASSUME IInv, NEW p \in Publisher, NEW k \in Kind, LeasePasses(p, k)
    PROVE  IInv'
<1>t. TypeOK
  BY DEF IInv
<1>1. /\ ~IsBusy(p, k)
      /\ leased' = [leased EXCEPT ![k] = @ \ {p}]
      /\ UNCHANGED <<latest, attempt, decision, claim, row, program, flight, github>>
  BY DEF LeasePasses, IsBusy, Asks, IsPending, IsUnderWay
<1>2. TypeOK'
  BY <1>t, <1>1 DEF TypeOK
<1>3. BusyHasClaim'
  BY <1>t, <1>1 DEF IInv, TypeOK, BusyHasClaim, IsBusy, Asks, IsPending, IsUnderWay
<1>4. UNCHANGED <<LaterIsBlank, DecidedIsReviewed, ProgramSpeaksTrue, RequestSpeaksTrue,
                  GithubSpeaksTrue, KindsOnce, AsksForUnpublished, RequestsAreOwn>>
  BY <1>1 DEF LaterIsBlank, DecidedIsReviewed, ProgramSpeaksTrue, RequestSpeaksTrue,
              GithubSpeaksTrue, KindsOnce, AsksForUnpublished, RequestsAreOwn, IsDecided, Active,
              IsUnderWay, Asks, Waits, At, decisionCheckConclusion
<1>5. UNCHANGED <<CreatesAlone, CreatesAsSent, UpdatesWhatIsThere, HasCreator, OneCreator>>
  BY <1>1 DEF CreatesAlone, CreatesSame, CreatesAsSent, UpdatesWhatIsThere, HasCreator,
              OneCreator, Waits, At
<1>6. UNCHANGED <<RecordsWhatIsThere, BusyForCurrent, PublishedIsDecided, PublishedIsTrue>>
  BY <1>1 DEF RecordsWhatIsThere, BusyForCurrent, PublishedIsDecided, PublishedIsTrue, IsDecided,
              IsUnderWay, IsPending, Asks, ClosesEarlier, decisionCheckConclusion
<1> QED BY <1>2, <1>3, <1>4, <1>5, <1>6 DEF IInv

-----------------------------------------------------------------------------
(* The theorems                                                            *)

LEMMA InitInvariant == Init => IInv
<1> SUFFICES ASSUME Init PROVE IInv
  OBVIOUS
<1>0. 1 \in Attempt /\ MaxAttempts \in Nat
  BY PublicationConstants DEF Attempt
<1>1. TypeOK
  <2>1. \A trigger \in {"intake"} : [NewRun(trigger) EXCEPT !.status = "absent"] \in Run
    BY DEF NewRun, Run
  <2>2. attempt \in [Attempt -> Run]
    BY <2>1, NewRunType DEF Init
  <2>3. program \in [Publisher -> Program]
    BY IdleProgram DEF Init, Stage
  <2>4. NoRequest \in Request
    BY <1>0 DEF NoRequest, Request, Conclusion
  <2>5. flight \in [Publisher -> [Kind -> Request]]
    BY <2>4 DEF Init
  <2>6. row \in [Attempt -> [Kind -> Row]]
    BY DEF Init, Row
  <2>7. github \in [Attempt -> [Kind -> [count : Nat, report : Conclusion,
                                      by : SUBSET Publisher]]]
    BY DEF Init, Conclusion
  <2>8. /\ decision \in [Attempt -> [status : Verdict \cup {"none"}, override : BOOLEAN]]
        /\ claim \in [Kind -> Publisher \cup {NoPublisher}]
        /\ leased \in [Kind -> SUBSET Publisher]
        /\ latest \in Attempt
    BY <1>0 DEF Init
  <2> QED BY <2>2, <2>3, <2>5, <2>6, <2>7, <2>8 DEF TypeOK
<1>2. \A a \in Attempt : /\ ~IsDecided(a)
                         /\ attempt[a].status # "reviewed"
                         /\ attempt[a].trigger = "intake"
  BY DEF Init, IsDecided, NewRun
<1>3. \A p \in Publisher : /\ program[p].pc = "idle"
                           /\ \A k \in Kind : /\ ~Asks(p, k)
                                              /\ flight[p][k].method = "none"
                                              /\ flight[p][k].copies = 0
  BY IdleProgram DEF Init, Stage, Asks, NoRequest
<1>4. LaterIsBlank /\ DecidedIsReviewed
  BY <1>0, <1>2 DEF LaterIsBlank, DecidedIsReviewed, Init, NewRun, Attempt
<1>5. /\ ProgramSpeaksTrue /\ RequestSpeaksTrue /\ KindsOnce /\ BusyHasClaim
      /\ AsksForUnpublished /\ RequestsAreOwn /\ CreatesAlone /\ CreatesAsSent
      /\ UpdatesWhatIsThere /\ RecordsWhatIsThere /\ BusyForCurrent
  BY <1>2, <1>3 DEF ProgramSpeaksTrue, RequestSpeaksTrue, KindsOnce, BusyHasClaim, IsBusy,
     IsPending, AsksForUnpublished, RequestsAreOwn, CreatesAlone, CreatesAsSent,
     UpdatesWhatIsThere, RecordsWhatIsThere, BusyForCurrent, Active, IsUnderWay, Waits, At,
     ClosesEarlier
<1>6. GithubSpeaksTrue /\ HasCreator /\ OneCreator /\ PublishedIsDecided /\ PublishedIsTrue
  BY PublicationConstants DEF Init, GithubSpeaksTrue, HasCreator, OneCreator,
     PublishedIsDecided, PublishedIsTrue
<1> QED BY <1>1, <1>4, <1>5, <1>6 DEF IInv

LEMMA StepInvariant == IInv /\ [Next]_vars => IInv'
<1> SUFFICES ASSUME IInv, [Next]_vars PROVE IInv'
  OBVIOUS
<1>1. ASSUME NEW finding \in Finding, recordPolicyDecision(finding) PROVE IInv'
  BY <1>1, ReviewEffect, LineagePreserves DEF recordPolicyDecision
<1>2. CASE markWorkflowExecutionFailed
  BY <1>2, FailureEffect, LineagePreserves DEF markWorkflowExecutionFailed
<1>3. CASE createFromExternalIntake
  BY <1>3, SupersedeEffect, LineagePreserves DEF createFromExternalIntake, Supersede
<1>4. CASE createRerun
  BY <1>4, SupersedeEffect, LineagePreserves DEF createRerun, RerunGranted, Supersede
<1>5. ASSUME NEW verdict \in Verdict, recordHumanDecision(verdict) PROVE IInv'
  BY <1>5, DecisionEffect, LineagePreserves DEF recordHumanDecision
<1>6. ASSUME NEW p \in Publisher,
             \/ ReadFixture(p) \/ Claim(p) \/ List(p) \/ TimeOut(p) \/ Renew(p)
             \/ Record(p) \/ Interrupt(p) \/ Crash(p)
      PROVE  IInv'
  BY <1>6, FixturePreserves, ClaimPreserves, ListPreserves, TimeOutPreserves, RenewPreserves,
     RecordPreserves, InterruptPreserves, CrashPreserves
<1>9. ASSUME NEW p \in Publisher, Resend(p) PROVE IInv'
  <2>1. program[p].kind \in Kind
    BY ProgramFields DEF IInv, TypeOK
  <2>2. PICK k \in Kind : program[p].kind = k
    BY <2>1
  <2> QED BY <1>9, <2>2, ResendPreserves
<1>7. ASSUME NEW p \in Publisher, NEW k \in Kind, Process(p, k) \/ Refuse(p, k) \/ LeasePasses(p, k)
      PROVE  IInv'
  BY <1>7, ProcessPreserves, RefusePreserves, LeasePreserves
<1>8. CASE UNCHANGED vars
  <2>1. UNCHANGED <<latest, attempt, decision, claim, leased, row, program, flight, github>>
    BY <1>8 DEF vars
  <2>2. TypeOK' /\ LaterIsBlank' /\ DecidedIsReviewed' /\ DecisionsStay /\ ClosesInTime
    BY <2>1 DEF IInv, TypeOK, LaterIsBlank, DecidedIsReviewed, DecisionsStay, ClosesInTime,
                ClosesEarlier, IsDecided
  <2> QED BY <2>1, <2>2, LineagePreserves
<1> QED BY <1>1, <1>2, <1>3, <1>4, <1>5, <1>6, <1>7, <1>8, <1>9, StepCases

\* The inductive invariant: who looks for an object, or may yet be the first to make
\* it, holds the live claim of its kind and speaks for the attempt that was decided
\* last; who creates an object is its only creator, with every copy of the request
\* counted.
THEOREM Invariance == Spec => []IInv
  BY InitInvariant, StepInvariant, PTL DEF Spec

\* Attempts, decisions, claims, rows, programs, requests and GitHub keep their types.
THEOREM TypeCorrect == Spec => []TypeOK
<1>1. IInv => TypeOK
  BY DEF IInv
<1> QED BY <1>1, Invariance, PTL

\* However many publishers look for the object and then create it, all comments and
\* all check runs of a decision come from one call of one of them, which makes no
\* more than its client sends requests.
THEOREM PublishedByOne == Spec => []OneCreator
<1>1. IInv => OneCreator
  BY DEF IInv
<1> QED BY <1>1, Invariance, PTL

\* What is recorded as published is on GitHub, and says what was decided.
THEOREM RecordedIsTrue == Spec => []PublishedIsTrue
<1>1. IInv => PublishedIsTrue
  BY DEF IInv
<1> QED BY <1>1, Invariance, PTL

\* A green check run is an approval without an override of a verified attempt to
\* which the policy had no objection.
THEOREM GreenIsEarned == Spec => []SuccessIsEarned
<1>1. IInv => SuccessIsEarned
  <2> SUFFICES ASSUME IInv, NEW a \in Attempt, NEW k \in Kind, github[a][k].report = "success"
               PROVE  /\ decision[a] = [status |-> "approved", override |-> FALSE]
                      /\ attempt[a].verification = "passed"
                      /\ attempt[a].policy = "manual-review"
    BY DEF SuccessIsEarned
  <2>1. IsDecided(a) /\ decisionCheckConclusion(a) = "success"
    BY DEF IInv, GithubSpeaksTrue
  <2>2. decision[a].status \in {"approved", "rejected", "changes-requested"}
    BY <2>1, PublicationConstants DEF IInv, DecidedIsReviewed
  <2>3. attempt[a] \in Run /\ decision[a] \in [status : Verdict \cup {"none"}, override : BOOLEAN]
    BY DEF IInv, TypeOK
  <2>4. /\ decision[a].status = "approved" /\ ~decision[a].override
        /\ attempt[a].verification = "passed"
    BY <2>1, <2>2, <2>3, RunFields DEF decisionCheckConclusion
  <2>5. attempt[a].policy = "manual-review"
    BY <2>1, <2>3, <2>4, RunFields DEF IInv, DecidedIsReviewed
  <2> QED BY <2>3, <2>4, <2>5
<1> QED BY <1>1, Invariance, PTL

\* Once a rerun has followed an attempt, nobody publishes for that attempt, and what
\* is still under way repeats what was published.
THEOREM RerunAwaited == Spec => []RerunWaits
<1>1. IInv => RerunWaits
  <2> SUFFICES ASSUME IInv, NEW a \in 1..latest - 1, attempt[a + 1].trigger = "rerun",
                      NEW p \in Publisher, NEW k \in Kind
               PROVE  /\ ~(program[p].pc \in {"list", "wait"} /\ program[p].of = a)
                      /\ flight[p][k].method # "none" /\ flight[p][k].of = a =>
                            row[a][k].status = "published"
    BY DEF RerunWaits
  <2>1. a \in Nat /\ a + 1 \in Attempt
    BY PublicationConstants DEF IInv, TypeOK, Attempt
  <2>2. ClosesEarlier(a + 1)
    BY DEF ClosesEarlier
  <2>3. program[p].kind \in Kind
    BY ProgramFields DEF IInv, TypeOK
  <2>4. program[p].pc \in {"list", "wait"} => program[p].of >= a + 1
    BY <2>1, <2>2, <2>3 DEF IInv, BusyForCurrent, Asks
  <2>5. IsPending(p, k) => flight[p][k].of >= a + 1
    BY <2>1, <2>2 DEF IInv, BusyForCurrent
  <2> QED BY <2>1, <2>4, <2>5 DEF IsPending, IsUnderWay
<1> QED BY <1>1, Invariance, PTL

\* Once a later attempt is decided, GitHub says the same of the earlier ones for good.
THEOREM NothingStale == Spec => NoStaleWrite
<1> DEFINE SaysTheSame ==
        \A a, b \in Attempt, k \in Kind :
            a < b /\ decision[b].status # "none" => github'[a][k].report = github[a][k].report
<1>1. ASSUME IInv, [Next]_vars PROVE SaysTheSame
  <2> SUFFICES ASSUME NEW a \in Attempt, NEW b \in Attempt, NEW k \in Kind, a < b, IsDecided(b)
               PROVE  github'[a][k].report = github[a][k].report
    BY DEF IsDecided
  <2>1. CASE UNCHANGED github
    BY <2>1
  <2>2. ASSUME NEW p \in Publisher, NEW j \in Kind, Process(p, j)
        PROVE  github'[a][k].report = github[a][k].report
    <3>1. IsUnderWay(p, j) /\ flight[p][j].of \in Attempt
      BY <1>1, <2>2, RequestFields DEF IInv, TypeOK, Process, IsUnderWay
    <3>2. Answered(p, j)
      BY <1>1, <2>2, ProcessedAnswer
    <3>3. CASE flight[p][j].of = a /\ j = k
      <4>1. ~IsPending(p, j)
        BY <1>1, <3>1, <3>3, PublicationConstants DEF IInv, BusyForCurrent, ClosesEarlier, Attempt
      <4>2. github[a][k].report = decisionCheckConclusion(a)
        BY <1>1, <3>1, <3>3, <4>1 DEF IsPending, IInv, PublishedIsTrue
      <4>3. flight[p][j].report = decisionCheckConclusion(a)
        BY <1>1, <3>1, <3>3 DEF IInv, RequestSpeaksTrue
      <4> QED BY <3>2, <3>3, <4>2, <4>3 DEF Answered
    <3>4. CASE ~(flight[p][j].of = a /\ j = k)
      BY <3>2, <3>4 DEF Answered
    <3> QED BY <3>3, <3>4
  <2>3. UNCHANGED github \/ \E p \in Publisher, j \in Kind : Process(p, j)
    BY <1>1, StepCases DEF vars, recordPolicyDecision, markWorkflowExecutionFailed,
       createFromExternalIntake, createRerun, Supersede, recordHumanDecision, ReadFixture, Claim,
       List, Resend, TimeOut, Renew, Record, Interrupt, Crash, Refuse, LeasePasses
  <2> QED BY <2>1, <2>2, <2>3
<1>2. IInv /\ [Next]_vars => [SaysTheSame]_vars
  BY <1>1
<1> QED BY <1>2, Invariance, PTL DEF Spec, NoStaleWrite

=============================================================================
