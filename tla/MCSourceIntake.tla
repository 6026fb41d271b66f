----------------------------- MODULE MCSourceIntake -----------------------------
(* Two workspaces whose users administer one installation, and             *)
(* interchangeable installation flows.                                     *)
EXTENDS SourceIntake, TLC

CONSTANTS configured, connecting, app

MCControls == [u \in Workspace |-> {app}]

\* The configured workspace has one attempt at most.
MCMaxAttempts == (configured :> 1) @@ (connecting :> 3)

Symmetry == Permutations(Intent)
=============================================================================
