------------------------- MODULE RepositoryConnections -------------------------
(***************************************************************************)
(* How a workspace comes to own the webhooks of a repository.  A user      *)
(* starts with an intent, comes back from GitHub with an installation,     *)
(* which is staged in the intent, and comes back again with a user         *)
(* authorization, which consumes it.  The callback that consumed the       *)
(* intent has the user's control of the installation verified, reads the   *)
(* repositories GitHub grants it, and upserts them: a repository belongs   *)
(* to the workspace that first connected it, for ever.                     *)
(*                                                                         *)
(* The inventory is read outside the transaction that applies it, so two   *)
(* callbacks may apply theirs in either order.  A caller is known by its   *)
(* workspace: the actor of an intent is the one who may use it.  An intent *)
(* that expired or was used up is never told from one that was deleted.    *)
(***************************************************************************)

CONSTANTS
    Workspace,
    NoWorkspace,
    Installation,       \* installations of the GitHub App
    NoInstallation,
    Repository,
    Intent,             \* bound: the intents at one time
    Controls            \* workspace -> the installations its user administers

ASSUME ConnectionConstants ==
    /\ NoWorkspace \notin Workspace
    /\ NoInstallation \notin Installation
    /\ Controls \in [Workspace -> SUBSET Installation]

VARIABLES
    granted,            \* GitHub: repository -> the installation that may see it
    intent,             \* state -> its intent, and the callback that consumed it
    account,            \* installation -> the workspace of its account
    repository          \* repository -> its row

connections == <<granted, intent, account, repository>>

IntentRow ==
    [status : {"absent", "created", "staged", "consumed", "listed"},
     workspace : Workspace \cup {NoWorkspace},
     installation : Installation \cup {NoInstallation},
     inventory : SUBSET Repository]

NoRow == [workspace |-> NoWorkspace, installation |-> NoInstallation, active |-> FALSE]

RepositoryRow ==
    [workspace : Workspace, installation : Installation, active : BOOLEAN] \cup {NoRow}

ConnectionsTypeOK ==
    /\ granted \in [Repository -> Installation \cup {NoInstallation}]
    /\ intent \in [Intent -> IntentRow]
    /\ account \in [Installation -> Workspace \cup {NoWorkspace}]
    /\ repository \in [Repository -> RepositoryRow]

NoIntent ==
    [status |-> "absent", workspace |-> NoWorkspace, installation |-> NoInstallation,
     inventory |-> {}]

ConnectionsInit ==
    /\ granted \in [Repository -> Installation \cup {NoInstallation}]
    /\ intent = [n \in Intent |-> NoIntent]
    /\ account = [i \in Installation |-> NoWorkspace]
    /\ repository = [r \in Repository |-> NoRow]

-----------------------------------------------------------------------------
(* The installation flow                                                   *)

createGitHubConnectionIntent(n, w) ==
    /\ intent[n].status = "absent"
    /\ intent' = [intent EXCEPT ![n] = [@ EXCEPT !.status = "created", !.workspace = w]]
    /\ UNCHANGED <<granted, account, repository>>

\* Whatever installation the redirect names, once.
stageGitHubConnectionInstallation(n, w, i) ==
    /\ intent[n].status = "created"
    /\ intent[n].workspace = w
    /\ intent' = [intent EXCEPT ![n] = [@ EXCEPT !.status = "staged", !.installation = i]]
    /\ UNCHANGED <<granted, account, repository>>

consumeGitHubConnectionIntent(n, w) ==
    /\ intent[n].status = "staged"
    /\ intent[n].workspace = w
    /\ intent' = [intent EXCEPT ![n].status = "consumed"]
    /\ UNCHANGED <<granted, account, repository>>

\* verifyGitHubInstallationOwnership, then listInstallationRepositories; the
\* proof signs what they found.
syncGitHubInstallation(n) ==
    /\ intent[n].status = "consumed"
    /\ intent[n].installation \in Controls[intent[n].workspace]
    /\ intent' = [intent EXCEPT ![n] =
                    [@ EXCEPT !.status = "listed",
                              !.inventory = {r \in Repository :
                                               granted[r] = intent[n].installation}]]
    /\ UNCHANGED <<granted, account, repository>>

\* Faulty: an account or a repository of another workspace is taken over.
UpsertGrantedToAnyone(n) == intent[n].status = "listed"

\* The proof is good for any upsert of five minutes, so GitHub may have moved
\* on.  What another workspace connected refuses the whole upsert.
UpsertGranted(n) ==
    /\ intent[n].status = "listed"
    /\ account[intent[n].installation] \in {intent[n].workspace, NoWorkspace}
    /\ \A r \in intent[n].inventory :
         repository[r].workspace \in {intent[n].workspace, NoWorkspace}

\* Faulty: a repository that is removed no longer belongs to its workspace.
UpsertedReleasing(w, i, inventory) ==
    [r \in Repository |->
        IF r \in inventory
        THEN [workspace |-> w, installation |-> i, active |-> TRUE]
        ELSE IF repository[r].workspace = w /\ repository[r].installation = i
             THEN [repository[r] EXCEPT !.workspace = NoWorkspace, !.active = FALSE]
             ELSE repository[r]]

\* The repositories the installation no longer lists are removed.
Upserted(w, i, inventory) ==
    [r \in Repository |->
        IF r \in inventory
        THEN [workspace |-> w, installation |-> i, active |-> TRUE]
        ELSE IF repository[r].workspace = w /\ repository[r].installation = i
             THEN [repository[r] EXCEPT !.active = FALSE]
             ELSE repository[r]]

upsertGitHubInstallationRepositories(n) ==
    /\ UpsertGranted(n)
    /\ account' = [account EXCEPT ![intent[n].installation] = intent[n].workspace]
    /\ repository' = Upserted(intent[n].workspace, intent[n].installation, intent[n].inventory)
    /\ intent' = [intent EXCEPT ![n] = NoIntent]
    /\ UNCHANGED granted

\* The intent expires, GitHub or the upsert refuses, the proof grows old, the
\* callback is lost: the user starts again with another intent.
Abandon(n) ==
    /\ intent[n].status # "absent"
    /\ intent' = [intent EXCEPT ![n] = NoIntent]
    /\ UNCHANGED <<granted, account, repository>>

\* GitHub: a repository is transferred, or withdrawn from the installation.
Grant(r, i) ==
    /\ granted[r] # i
    /\ granted' = [granted EXCEPT ![r] = i]
    /\ UNCHANGED <<intent, account, repository>>

\* The workspace of a webhook, if one connected its repository.
lookupGitHubWebhookRoute(i, r) ==
    IF repository[r].installation = i /\ repository[r].active
    THEN repository[r].workspace ELSE NoWorkspace

ConnectionStep ==
    \/ \E n \in Intent, w \in Workspace :
         \/ createGitHubConnectionIntent(n, w)
         \/ \E i \in Installation : stageGitHubConnectionInstallation(n, w, i)
         \/ consumeGitHubConnectionIntent(n, w)
    \/ \E n \in Intent :
         \/ syncGitHubInstallation(n)
         \/ upsertGitHubInstallationRepositories(n)
         \/ Abandon(n)
    \/ \E r \in Repository, i \in Installation \cup {NoInstallation} : Grant(r, i)

-----------------------------------------------------------------------------

\* Webhooks are routed to a workspace that controls their installation:
\* whatever callbacks raced, the row of a connected repository names an
\* installation whose account belongs to the same workspace, and that the
\* workspace proved to control.
RoutesToController ==
    \A r \in Repository :
        LET row == repository[r]
        IN row.workspace # NoWorkspace =>
             /\ account[row.installation] = row.workspace
             /\ row.installation \in Controls[row.workspace]
=============================================================================
