------------------------- MODULE VerificationOutcome -------------------------
(***************************************************************************)
(* What executing a verification plan promises to whoever reads the run:   *)
(* every requirement gets at most one outcome and keeps it, and the run    *)
(* gets one verdict and keeps it.  A review takes every outcome into       *)
(* account; a recovery leaves no requirement without one.                  *)
(***************************************************************************)
CONSTANT Requirement

VARIABLES
    outcome,   \* requirement -> status of its verificationResults row
    verdict    \* status of the run, refined by that of its policy decision

ResultStatus == {"passed", "failed", "blocked", "cancelled", "invalidated", "error"}
Verdict == {"running", "failed", "changes-requested", "manual-review"}

TypeOK ==
    /\ outcome \in [Requirement -> ResultStatus \cup {"none"}]
    /\ verdict \in Verdict

Init ==
    /\ outcome = [q \in Requirement |-> "none"]
    /\ verdict = "running"

\* An outcome may still arrive after the run was given up.
Conclude(q, status) ==
    /\ outcome[q] = "none"
    /\ outcome' = [outcome EXCEPT ![q] = status]
    /\ UNCHANGED verdict

\* The interrupted worker gives the run up.
Abandon ==
    /\ verdict = "running"
    /\ verdict' = "failed"
    /\ UNCHANGED outcome

\* A deadline or the dead letters end the run.
Recover ==
    /\ verdict = "running"
    /\ verdict' = "failed"
    /\ outcome' = [q \in Requirement |-> IF outcome[q] = "none" THEN "error" ELSE outcome[q]]

Decide(decision) ==
    /\ verdict = "running"
    /\ \A q \in Requirement : outcome[q] # "none"
    /\ (\E q \in Requirement : outcome[q] = "failed") => decision = "changes-requested"
    /\ verdict' = decision
    /\ UNCHANGED outcome

Next ==
    \/ \E q \in Requirement, status \in ResultStatus : Conclude(q, status)
    \/ Abandon
    \/ Recover
    \/ \E decision \in {"changes-requested", "manual-review"} : Decide(decision)

Spec == Init /\ [][Next]_<<outcome, verdict>>
=============================================================================
