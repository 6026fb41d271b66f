----------------------------- MODULE SourceIntake -----------------------------
(***************************************************************************)
(* From the events of a pull request on GitHub to the attempts that verify *)
(* its candidates.  GitHub sends an event when the pull request is opened  *)
(* and when it is pushed to; the worker routes an event to the workspace   *)
(* that connected the repository, or to the configured one, and then takes *)
(* it in.  Between the two the connection may change, the worker may       *)
(* crash; events arrive in any order, some never, and any of them again.   *)
(*                                                                         *)
(* The attempts of a pull request in a workspace form one chain: a run is  *)
(* given another root only when its workspace has no attempt yet.  A rerun *)
(* adds an attempt with the candidate of the last one; when it may is told *)
(* in Publication.                                                         *)
(***************************************************************************)
EXTENDS RepositoryConnections, Naturals, Sequences

CONSTANTS
    PullRequested,      \* the repository of the pull request
    Fallback,           \* PATCHPLANE_GITHUB_WORKSPACE_ID
    Worker,             \* calls of the webhook worker that run at once
    Allowlisted,        \* its repository is on the configured allowlist
    ForcePush,          \* the branch may go back to a commit it had
    SameSecond,         \* two events may have one updated_at, which counts seconds
    MaxEvents,          \* bound: events of the pull request
    MaxBases,           \* bound: commits of the base branch
    MaxAttempts         \* bound: workspace -> attempts in it

ASSUME IntakeConstants ==
    /\ PullRequested \in Repository
    /\ Fallback \in Workspace
    /\ Allowlisted \in BOOLEAN
    /\ ForcePush \in BOOLEAN
    /\ SameSecond \in BOOLEAN
    /\ MaxEvents \in Nat \ {0}
    /\ MaxBases \in Nat \ {0}
    /\ MaxAttempts \in [Workspace -> Nat]

VARIABLES
    history,            \* GitHub: the events of the pull request, in their order
    worker,             \* worker -> the event it handles, and its workspace
    answered,           \* event -> the workspaces that answered it with a run
    chain               \* workspace -> the attempts, in their order

vars == <<granted, intent, account, repository, history, worker, answered, chain>>

Event == 1..MaxEvents
Sent == 1..Len(history)

\* installation is the one GitHub sends the event for.  An event sent for none
\* is like one that never arrives, as any event may.
PullRequestEvent ==
    [kind : {"opened", "synchronize"}, installation : Installation,
     previous : Nat, head : Nat, base : Nat, updated : Nat]

\* event 0 is a rerun.
Attempt == [event : 0..MaxEvents, head : Nat, base : Nat]

Idle == [event |-> 0, workspace |-> NoWorkspace]

Program == [event : Event, workspace : Workspace] \cup {Idle}

TypeOK ==
    /\ ConnectionsTypeOK
    /\ history \in Seq(PullRequestEvent)
    /\ worker \in [Worker -> Program]
    /\ answered \in [Event -> SUBSET Workspace]
    /\ chain \in [Workspace -> Seq(Attempt)]

Init ==
    /\ ConnectionsInit
    /\ history = <<>>
    /\ worker = [x \in Worker |-> Idle]
    /\ answered = [e \in Event |-> {}]
    /\ chain = [w \in Workspace |-> <<>>]

-----------------------------------------------------------------------------
(* GitHub                                                                  *)

Open ==
    /\ history = <<>>
    /\ granted[PullRequested] # NoInstallation
    /\ history' = <<[kind |-> "opened", installation |-> granted[PullRequested],
                     previous |-> 0, head |-> 1, base |-> 1, updated |-> 1]>>
    /\ UNCHANGED <<connections, worker, answered, chain>>

Last == history[Len(history)]

Newest == CHOOSE h \in {history[e].head : e \in Sent} :
            \A e \in Sent : history[e].head <= h

\* The head moves to a new commit, or back to an old one; or it stays and the
\* base moves.
Synchronize(head, base, updated) ==
    /\ history # <<>>
    /\ Len(history) < MaxEvents
    /\ granted[PullRequested] # NoInstallation
    /\ \/ head = Newest + 1
       \/ head = Last.head /\ base # Last.base
       \/ ForcePush /\ head \in 1..Newest /\ head # Last.head
    /\ base \in {Last.base, Last.base + 1} \cap 1..MaxBases
    /\ \/ updated = Last.updated + 1
       \/ updated = Last.updated /\ SameSecond
    /\ history' = Append(history,
                    [kind |-> "synchronize", installation |-> granted[PullRequested],
                     previous |-> Last.head, head |-> head, base |-> base,
                     updated |-> updated])
    /\ UNCHANGED <<connections, worker, answered, chain>>

-----------------------------------------------------------------------------
(* The worker                                                              *)

resolveGitHubWebhookWorkspace(route) ==
    IF route = NoWorkspace /\ Allowlisted THEN Fallback ELSE route

\* An event of an unconnected repository is ignored.
Route(x, e) ==
    LET event == history[e]
        w == resolveGitHubWebhookWorkspace(
                lookupGitHubWebhookRoute(event.installation, PullRequested))
    IN /\ worker[x] = Idle
       /\ w # NoWorkspace
       /\ worker' = [worker EXCEPT ![x] = [event |-> e, workspace |-> w]]
       /\ UNCHANGED <<connections, history, answered, chain>>

\* The worker crashes, or its call fails: the message is there again.
Crash(x) ==
    /\ worker[x] # Idle
    /\ worker' = [worker EXCEPT ![x] = Idle]
    /\ UNCHANGED <<connections, history, answered, chain>>

HasLineage(w) == chain[w] # <<>>

latestAttempt(w) == chain[w][Len(chain[w])]

\* The time of the newest attempt that an event created; reruns have none.
pullRequestUpdatedAt(w) ==
    LET n == CHOOSE n \in 1..Len(chain[w]) :
               /\ chain[w][n].event # 0
               /\ \A m \in n + 1..Len(chain[w]) : chain[w][m].event = 0
    IN history[chain[w][n].event].updated

FollowsHead(event, w) ==
    /\ HasLineage(w)
    /\ event.kind = "synchronize"
    /\ event.previous = latestAttempt(w).head

advancesCurrentHead(event, w) ==
    /\ FollowsHead(event, w)
    /\ event.head # latestAttempt(w).head

advancesCurrentBase(event, w) ==
    /\ FollowsHead(event, w)
    /\ event.head = latestAttempt(w).head
    /\ event.base # latestAttempt(w).base
    /\ event.updated > pullRequestUpdatedAt(w)

permitRepeatedCandidatePair(event, w) ==
    \/ advancesCurrentBase(event, w)
    \/ advancesCurrentHead(event, w) /\ event.updated >= pullRequestUpdatedAt(w)

BoundIn(e, w) == \E n \in 1..Len(chain[w]) : chain[w][n].event = e

\* Faulty: only the workspace the event was routed to is looked into.
BoundElsewhereUnread(e, w) == FALSE

\* The delivery is bound to a run of another workspace, which refuses it.
BoundElsewhere(e, w) == \E v \in Workspace \ {w} : BoundIn(e, v)

\* Some event of this workspace had the same candidate; reruns have no event.
MatchesCandidate(event, w) ==
    \E n \in 1..Len(chain[w]) :
        /\ chain[w][n].event # 0
        /\ chain[w][n].head = event.head
        /\ chain[w][n].base = event.base

existingExternalWorkflowRef(e, w) ==
    \/ BoundIn(e, w)
    \/ ~permitRepeatedCandidatePair(history[e], w) /\ MatchesCandidate(history[e], w)

\* Faulty: whatever is not older than the current attempt supersedes it.
InOrderByTime(event, w) == HasLineage(w) => event.updated >= pullRequestUpdatedAt(w)

InOrder(event, w) ==
    HasLineage(w) =>
        /\ \/ event.updated > pullRequestUpdatedAt(w)
           \/ event.updated = pullRequestUpdatedAt(w) /\ advancesCurrentHead(event, w)
        /\ FollowsHead(event, w)

\* The run that is there already, or a new attempt; what is refused fails.  The
\* worker may lose the answer: the event is always there to be taken in again.
createFromExternalIntake(x) ==
    LET e == worker[x].event
        w == worker[x].workspace
    IN /\ worker[x] # Idle
       /\ ~BoundElsewhere(e, w)
       /\ \/ /\ existingExternalWorkflowRef(e, w)
             /\ UNCHANGED chain
          \/ /\ ~existingExternalWorkflowRef(e, w)
             /\ InOrder(history[e], w)
             /\ Len(chain[w]) < MaxAttempts[w]
             /\ chain' = [chain EXCEPT ![w] = Append(@,
                            [event |-> e, head |-> history[e].head, base |-> history[e].base])]
       /\ answered' = [answered EXCEPT ![e] = @ \cup {w}]
       /\ worker' = [worker EXCEPT ![x] = Idle]
       /\ UNCHANGED <<connections, history>>

createRerun(w) ==
    /\ HasLineage(w)
    /\ Len(chain[w]) < MaxAttempts[w]
    /\ chain' = [chain EXCEPT ![w] = Append(@, [latestAttempt(w) EXCEPT !.event = 0])]
    /\ UNCHANGED <<connections, history, worker, answered>>

-----------------------------------------------------------------------------

PullRequest ==
    \/ Open
    \/ \E head, base, updated \in 1..MaxEvents : Synchronize(head, base, updated)

WorkerStep ==
    \E x \in Worker :
        \/ \E e \in Sent : Route(x, e)
        \/ Crash(x)
        \/ createFromExternalIntake(x)

Next ==
    \/ ConnectionStep /\ UNCHANGED <<history, worker, answered, chain>>
    \/ PullRequest
    \/ WorkerStep
    \/ \E w \in Workspace : createRerun(w)

Spec == Init /\ [][Next]_vars

-----------------------------------------------------------------------------

\* An event makes one attempt at most, in one workspace, though it is delivered
\* again after the repository changed hands or was first connected.
BoundOnce ==
    \A v, w \in Workspace : \A m \in DOMAIN chain[v], n \in DOMAIN chain[w] :
        chain[v][m].event = chain[w][n].event =>
            \/ chain[v][m].event = 0
            \/ v = w /\ m = n

\* The attempts of a pull request are in the configured workspace, or in the one
\* its repository belongs to for ever: an event routed before the connection
\* changed does not leave a run with a workspace that lost the repository.
RunsStayHome ==
    \A w \in Workspace :
        HasLineage(w) => \/ w = Fallback /\ Allowlisted
                        \/ w = repository[PullRequested].workspace

\* An out-of-order event cannot supersede the current candidate: once a newer
\* event of the pull request was answered with a run, no older one gets a new
\* attempt, in whatever order, and however often, the events arrive.
SupersededOnlyByNewer ==
    [][\A w \in Workspace :
          Len(chain'[w]) > Len(chain[w]) =>
             LET e == latestAttempt(w).event'
             IN e # 0 => \A f \in e + 1..MaxEvents : w \notin answered[f]]_vars
=============================================================================
