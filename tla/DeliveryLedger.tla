--------------------------- MODULE DeliveryLedger ---------------------------
(***************************************************************************)
(* What the webhook outbox promises about a GitHub delivery, with no       *)
(* tokens, leases, queues or retries in it: a delivery is accepted once,   *)
(* at most one pending delivery answers for a workflow run, a delivery of  *)
(* a run that already has one joins it, and nothing settles as finished    *)
(* before its run is over.  DeliveryReceipts implements this ledger.       *)
(***************************************************************************)
CONSTANTS
    Delivery,   \* GitHub delivery ids
    Run,        \* workflow runs
    NoRun       \* "this delivery answers for no run"

VARIABLES
    phase,      \* delivery -> where it stands in the ledger
    owned,      \* delivery -> the run it answers for, or NoRun
    verdict,    \* delivery -> how it was settled
    over        \* run -> TRUE once the run is reviewed or failed

vars == <<phase, owned, verdict, over>>

Phase == {"unseen", "pending", "settled"}
Verdict == {"none", "completed", "ignored", "failed", "coalesced"}

LedgerTypeOK ==
    /\ phase \in [Delivery -> Phase]
    /\ owned \in [Delivery -> Run \cup {NoRun}]
    /\ verdict \in [Delivery -> Verdict]
    /\ over \in [Run -> BOOLEAN]

\* The deliveries other than d that are pending for run r.
Rivals(d, r) == {e \in Delivery \ {d} : phase[e] = "pending" /\ owned[e] = r}

Init ==
    /\ phase = [d \in Delivery |-> "unseen"]
    /\ owned = [d \in Delivery |-> NoRun]
    /\ verdict = [d \in Delivery |-> "none"]
    /\ over = [r \in Run |-> FALSE]

Accept(d) ==
    /\ phase[d] = "unseen"
    /\ phase' = [phase EXCEPT ![d] = "pending"]
    /\ UNCHANGED <<owned, verdict, over>>

\* A pending delivery takes a run no other pending delivery answers for.
Attach(d, r) ==
    /\ phase[d] = "pending"
    /\ owned[d] = NoRun
    /\ Rivals(d, r) = {}
    /\ owned' = [owned EXCEPT ![d] = r]
    /\ UNCHANGED <<phase, verdict, over>>

SettleAs(d, r, v) ==
    /\ phase[d] = "pending"
    /\ phase' = [phase EXCEPT ![d] = "settled"]
    /\ owned' = [owned EXCEPT ![d] = r]
    /\ verdict' = [verdict EXCEPT ![d] = v]

\* A delivery that answers for nothing yet joins the one that does.
Join(d, r) ==
    /\ owned[d] = NoRun
    /\ Rivals(d, r) # {}
    /\ SettleAs(d, r, "coalesced")
    /\ UNCHANGED over

\* The event turned out to concern nobody.
Dismiss(d) ==
    /\ SettleAs(d, owned[d], "ignored")
    /\ UNCHANGED over

\* The run is over, and so is the delivery that answers for it alone.
Conclude(d, r) ==
    /\ owned[d] \in {NoRun, r}
    /\ Rivals(d, r) = {}
    /\ over[r]
    /\ SettleAs(d, r, "completed") \/ SettleAs(d, r, "failed")
    /\ UNCHANGED over

\* The budget is spent: run (if there is one) and delivery end together.
Exhaust(d, r) ==
    /\ owned[d] \in {NoRun, r}
    /\ Rivals(d, r) = {}
    /\ over' = [over EXCEPT ![r] = TRUE]
    /\ SettleAs(d, r, "failed")

ExhaustUnowned(d) ==
    /\ owned[d] = NoRun
    /\ SettleAs(d, NoRun, "failed")
    /\ UNCHANGED over

Finish(r) ==
    /\ over' = [over EXCEPT ![r] = TRUE]
    /\ UNCHANGED <<phase, owned, verdict>>

Next ==
    \/ \E d \in Delivery :
        \/ Accept(d)
        \/ Dismiss(d)
        \/ ExhaustUnowned(d)
        \/ \E r \in Run : Attach(d, r) \/ Join(d, r) \/ Conclude(d, r) \/ Exhaust(d, r)
    \/ \E r \in Run : Finish(r)

Spec == Init /\ [][Next]_vars
=============================================================================
