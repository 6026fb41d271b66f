--------------------------- MODULE SourceIntakeProofs ---------------------------
(***************************************************************************)
(* Proofs about SourceIntake and the RepositoryConnections it extends, for *)
(* every set of workspaces, installations, repositories, intents and       *)
(* workers, and any number of events, base commits and attempts.           *)
(***************************************************************************)
EXTENDS SourceIntake, TLAPS

-----------------------------------------------------------------------------
(* The inductive invariant                                                 *)

\* An intent has a workspace; a staged one has an installation, which the workspace
\* was found to control before its inventory was read.
IntentsVerified ==
    \A n \in Intent :
        /\ intent[n].status # "absent" => intent[n].workspace \in Workspace
        /\ intent[n].status \in {"staged", "consumed", "listed"} =>
              intent[n].installation \in Installation
        /\ intent[n].status = "listed" =>
              intent[n].installation \in Controls[intent[n].workspace]

\* Where the attempts of the pull request may be.
IsHome(w) ==
    \/ w = Fallback /\ Allowlisted
    \/ w = repository[PullRequested].workspace

\* A worker handles an event that was sent, for a workspace it may be sent to.
WorkersGoHome ==
    \A x \in Worker : worker[x] # Idle =>
        /\ worker[x].event \in Sent
        /\ IsHome(worker[x].workspace)

HistoryIsBounded == Len(history) <= MaxEvents

IInv ==
    /\ TypeOK
    /\ IntentsVerified
    /\ RoutesToController
    /\ HistoryIsBounded
    /\ WorkersGoHome
    /\ RunsStayHome
    /\ BoundOnce

-----------------------------------------------------------------------------
(* What orders the events, as long as the branch never goes back           *)

\* Heads, bases and times never decrease, and head and base together tell the event.
HistoryIsOrdered ==
    \A d, e \in Sent : d < e =>
        /\ history[d].head <= history[e].head
        /\ history[d].base <= history[e].base
        /\ history[d].updated <= history[e].updated
        /\ history[d].head < history[e].head \/ history[d].base < history[e].base

\* A push names the head of the event before it.
HistoryIsLinked ==
    \A e \in Sent : history[e].kind = "synchronize" =>
        e > 1 /\ history[e].previous = history[e - 1].head

IsEvent(w, n) == chain[w][n].event # 0

\* An attempt that an event made has the candidate of the event.
AttemptsOfEvents ==
    \A w \in Workspace : \A n \in 1..Len(chain[w]) : IsEvent(w, n) =>
        /\ chain[w][n].event \in Sent
        /\ chain[w][n].head = history[chain[w][n].event].head
        /\ chain[w][n].base = history[chain[w][n].event].base

\* Heads never decrease along the attempts, nor do the times of their events.
ChainIsOrdered ==
    \A w \in Workspace : \A m, n \in 1..Len(chain[w]) : m < n =>
        /\ chain[w][m].head <= chain[w][n].head
        /\ IsEvent(w, m) /\ IsEvent(w, n) =>
              history[chain[w][m].event].updated <= history[chain[w][n].event].updated

\* The newest attempt of an event; those after it are reruns.
IsNewestEvent(w, n) ==
    /\ n \in 1..Len(chain[w])
    /\ IsEvent(w, n)
    /\ \A m \in n + 1..Len(chain[w]) : chain[w][m].event = 0

ChainHasEvent ==
    \A w \in Workspace : HasLineage(w) => \E n \in 1..Len(chain[w]) : IsNewestEvent(w, n)

\* An event was answered with a run of its candidate.
AnsweredWithCandidate ==
    \A e \in Event : \A w \in answered[e] :
        /\ e \in Sent
        /\ MatchesCandidate(history[e], w)

IOrder ==
    /\ HistoryIsOrdered
    /\ HistoryIsLinked
    /\ AttemptsOfEvents
    /\ ChainIsOrdered
    /\ ChainHasEvent
    /\ AnsweredWithCandidate
-----------------------------------------------------------------------------
(* Connections                                                             *)

\* A repository belongs to the workspace that first connected it, for ever.
OwnersStay ==
    \A r \in Repository :
        repository[r].workspace # NoWorkspace => repository'[r].workspace = repository[r].workspace

Connected == ConnectionsTypeOK /\ IntentsVerified /\ RoutesToController

LEMMA IntentFields ==
    ASSUME NEW row \in IntentRow
    PROVE  /\ row.status \in {"absent", "created", "staged", "consumed", "listed"}
           /\ row.workspace \in Workspace \cup {NoWorkspace}
           /\ row.installation \in Installation \cup {NoInstallation}
           /\ row.inventory \in SUBSET Repository
BY DEF IntentRow

LEMMA RepositoryFields ==
    ASSUME NEW row \in RepositoryRow, row.workspace # NoWorkspace
    PROVE  row \in [workspace : Workspace, installation : Installation, active : BOOLEAN]
BY DEF RepositoryRow, NoRow

\* A step of one intent, which leaves accounts and repositories alone.
LEMMA IntentStep ==
    ASSUME Connected, NEW n \in Intent, NEW row \in IntentRow,
           intent' = [intent EXCEPT ![n] = row],
           UNCHANGED <<granted, account, repository>>,
           row.status # "absent" => row.workspace \in Workspace,
           row.status \in {"staged", "consumed", "listed"} => row.installation \in Installation,
           row.status = "listed" => row.installation \in Controls[row.workspace]
    PROVE  Connected' /\ OwnersStay
<1>1. intent'[n] = row /\ \A m \in Intent \ {n} : intent'[m] = intent[m]
  BY DEF Connected, ConnectionsTypeOK
<1>2. ConnectionsTypeOK'
  BY DEF Connected, ConnectionsTypeOK
<1>3. IntentsVerified'
  BY <1>1 DEF Connected, IntentsVerified
<1>4. RoutesToController' /\ OwnersStay
  BY DEF Connected, RoutesToController, OwnersStay
<1> QED BY <1>2, <1>3, <1>4 DEF Connected

LEMMA NoIntentType == NoIntent \in IntentRow /\ NoIntent.status = "absent"
BY DEF NoIntent, IntentRow

LEMMA CreateIntent ==
    ASSUME Connected, NEW n \in Intent, NEW w \in Workspace, createGitHubConnectionIntent(n, w)
    PROVE  Connected' /\ OwnersStay
<1> DEFINE row == [intent[n] EXCEPT !.status = "created", !.workspace = w]
<1>1. intent \in [Intent -> IntentRow]
  BY DEF Connected, ConnectionsTypeOK
<1>2. row \in IntentRow /\ row.status = "created" /\ row.workspace = w
  BY <1>1 DEF IntentRow
<1>3. intent' = [intent EXCEPT ![n] = row] /\ UNCHANGED <<granted, account, repository>>
  BY DEF createGitHubConnectionIntent
<1> HIDE DEF row
<1> QED BY <1>2, <1>3, IntentStep

LEMMA StageInstallation ==
    ASSUME Connected, NEW n \in Intent, NEW w \in Workspace, NEW i \in Installation,
           stageGitHubConnectionInstallation(n, w, i)
    PROVE  Connected' /\ OwnersStay
<1> DEFINE row == [intent[n] EXCEPT !.status = "staged", !.installation = i]
<1>1. intent \in [Intent -> IntentRow] /\ intent[n].workspace \in Workspace
  BY DEF Connected, ConnectionsTypeOK, stageGitHubConnectionInstallation
<1>2. /\ row \in IntentRow /\ row.status = "staged" /\ row.installation = i
      /\ row.workspace = intent[n].workspace
  BY <1>1 DEF IntentRow
<1>3. intent' = [intent EXCEPT ![n] = row] /\ UNCHANGED <<granted, account, repository>>
  BY DEF stageGitHubConnectionInstallation
<1> HIDE DEF row
<1> QED BY <1>1, <1>2, <1>3, IntentStep

LEMMA ConsumeIntent ==
    ASSUME Connected, NEW n \in Intent, NEW w \in Workspace, consumeGitHubConnectionIntent(n, w)
    PROVE  Connected' /\ OwnersStay
<1> DEFINE row == [intent[n] EXCEPT !.status = "consumed"]
<1>1. /\ intent \in [Intent -> IntentRow] /\ intent[n].workspace \in Workspace
      /\ intent[n].installation \in Installation
  BY DEF Connected, ConnectionsTypeOK, IntentsVerified, consumeGitHubConnectionIntent
<1>2. /\ row \in IntentRow /\ row.status = "consumed"
      /\ row.workspace = intent[n].workspace /\ row.installation = intent[n].installation
  BY <1>1 DEF IntentRow
<1>3. intent' = [intent EXCEPT ![n] = row] /\ UNCHANGED <<granted, account, repository>>
  BY DEF consumeGitHubConnectionIntent
<1> HIDE DEF row
<1> QED BY <1>1, <1>2, <1>3, IntentStep

LEMMA SyncInstallation ==
    ASSUME Connected, NEW n \in Intent, syncGitHubInstallation(n)
    PROVE  Connected' /\ OwnersStay
<1> DEFINE inventory == {r \in Repository : granted[r] = intent[n].installation}
           row == [intent[n] EXCEPT !.status = "listed", !.inventory = inventory]
<1>1. /\ intent \in [Intent -> IntentRow] /\ intent[n].workspace \in Workspace
      /\ intent[n].installation \in Installation
      /\ intent[n].installation \in Controls[intent[n].workspace]
  BY DEF Connected, ConnectionsTypeOK, IntentsVerified, syncGitHubInstallation
<1>2. /\ row \in IntentRow /\ row.status = "listed"
      /\ row.workspace = intent[n].workspace /\ row.installation = intent[n].installation
  BY <1>1 DEF IntentRow
<1>3. intent' = [intent EXCEPT ![n] = row] /\ UNCHANGED <<granted, account, repository>>
  BY DEF syncGitHubInstallation
<1> HIDE DEF row
<1> QED BY <1>1, <1>2, <1>3, IntentStep

LEMMA AbandonIntent ==
    ASSUME Connected, NEW n \in Intent, Abandon(n)
    PROVE  Connected' /\ OwnersStay
BY NoIntentType, IntentStep DEF Abandon

\* What the upsert does to a repository: it is the workspace's, or stays as it was
\* but perhaps for being active.
LEMMA UpsertedRow ==
    ASSUME repository \in [Repository -> RepositoryRow], NEW w \in Workspace,
           NEW i \in Installation, NEW inventory \in SUBSET Repository, NEW r \in Repository
    PROVE  /\ Upserted(w, i, inventory)[r] \in RepositoryRow
           /\ \/ /\ r \in inventory
                 /\ Upserted(w, i, inventory)[r].workspace = w
                 /\ Upserted(w, i, inventory)[r].installation = i
              \/ /\ r \notin inventory
                 /\ Upserted(w, i, inventory)[r].workspace = repository[r].workspace
                 /\ Upserted(w, i, inventory)[r].installation = repository[r].installation
<1>1. CASE r \in inventory
  BY <1>1 DEF Upserted, RepositoryRow
<1>2. CASE r \notin inventory /\ repository[r].workspace = w /\ repository[r].installation = i
  <2>1. repository[r] \in [workspace : Workspace, installation : Installation, active : BOOLEAN]
    BY <1>2, RepositoryFields, ConnectionConstants
  <2>2. Upserted(w, i, inventory)[r] = [repository[r] EXCEPT !.active = FALSE]
    BY <1>2 DEF Upserted
  <2> QED BY <1>2, <2>1, <2>2 DEF RepositoryRow
<1>3. CASE r \notin inventory /\ ~(repository[r].workspace = w /\ repository[r].installation = i)
  BY <1>3 DEF Upserted
<1> QED BY <1>1, <1>2, <1>3

\* An upsert that takes no other workspace's account or repository takes none of its
\* rows away from an account: the rows of the installation are all the workspace's.
LEMMA UpsertRepositories ==
    ASSUME Connected, NEW n \in Intent, upsertGitHubInstallationRepositories(n)
    PROVE  Connected' /\ OwnersStay
<1> DEFINE w == intent[n].workspace
           i == intent[n].installation
           inventory == intent[n].inventory
<1>1. /\ w \in Workspace /\ i \in Installation /\ i \in Controls[w]
      /\ inventory \in SUBSET Repository
      /\ account[i] \in {w, NoWorkspace}
      /\ \A r \in inventory : repository[r].workspace \in {w, NoWorkspace}
  BY IntentFields DEF Connected, ConnectionsTypeOK, IntentsVerified, UpsertGranted,
                      upsertGitHubInstallationRepositories
<1>2. /\ account' = [account EXCEPT ![i] = w]
      /\ repository' = Upserted(w, i, inventory)
      /\ intent' = [intent EXCEPT ![n] = NoIntent]
      /\ UNCHANGED granted
  BY DEF upsertGitHubInstallationRepositories
<1>t. ConnectionsTypeOK /\ repository \in [Repository -> RepositoryRow]
  BY DEF Connected, ConnectionsTypeOK
<1>3. \A r \in Repository :
        /\ repository'[r] \in RepositoryRow
        /\ \/ r \in inventory /\ repository'[r].workspace = w /\ repository'[r].installation = i
           \/ /\ r \notin inventory
              /\ repository'[r].workspace = repository[r].workspace
              /\ repository'[r].installation = repository[r].installation
  BY <1>t, <1>1, <1>2, UpsertedRow
<1>4. DOMAIN repository' = Repository /\ repository' = [r \in Repository |-> repository'[r]]
  BY <1>2 DEF Upserted
<1> HIDE DEF w, i, inventory
<1>5. ConnectionsTypeOK'
  <2>1. repository' \in [Repository -> RepositoryRow]
    BY <1>3, <1>4
  <2> QED BY <1>t, <1>1, <1>2, <2>1, NoIntentType DEF ConnectionsTypeOK
<1>6. IntentsVerified'
  BY <1>2, NoIntentType DEF Connected, ConnectionsTypeOK, IntentsVerified
<1>7. OwnersStay
  BY <1>1, <1>3 DEF OwnersStay
<1>8. RoutesToController'
  <2> SUFFICES ASSUME NEW r \in Repository, repository'[r].workspace # NoWorkspace
               PROVE  /\ account'[repository'[r].installation] = repository'[r].workspace
                      /\ repository'[r].installation \in Controls[repository'[r].workspace]
    BY DEF RoutesToController
  <2>1. CASE r \in inventory
    BY <1>1, <1>2, <1>3, <1>t, <2>1 DEF ConnectionsTypeOK
  <2>2. CASE r \notin inventory
    <3>1. /\ repository[r].workspace # NoWorkspace
          /\ account[repository[r].installation] = repository[r].workspace
          /\ repository[r].installation \in Controls[repository[r].workspace]
      BY <1>3, <2>2 DEF Connected, RoutesToController
    <3>2. account'[repository[r].installation] = repository[r].workspace
      BY <1>1, <1>2, <1>t, <3>1 DEF ConnectionsTypeOK
    <3> QED BY <1>3, <2>2, <3>1, <3>2
  <2> QED BY <2>1, <2>2
<1> QED BY <1>5, <1>6, <1>7, <1>8 DEF Connected

LEMMA GrantStep ==
    ASSUME Connected, NEW r \in Repository, NEW i \in Installation \cup {NoInstallation},
           Grant(r, i)
    PROVE  Connected' /\ OwnersStay
BY DEF Grant, Connected, ConnectionsTypeOK, IntentsVerified, RoutesToController, OwnersStay

LEMMA ConnectionsStep ==
    ASSUME Connected, ConnectionStep
    PROVE  Connected' /\ OwnersStay
BY CreateIntent, StageInstallation, ConsumeIntent, SyncInstallation, UpsertRepositories,
   AbandonIntent, GrantStep DEF ConnectionStep

-----------------------------------------------------------------------------
(* The steps of the intake                                                 *)

LEMMA SentAreEvents ==
    ASSUME TypeOK, HistoryIsBounded
    PROVE  /\ Len(history) \in Nat
           /\ Sent \subseteq Event
           /\ \A e \in Sent : history[e] \in PullRequestEvent
BY IntakeConstants DEF TypeOK, HistoryIsBounded, Sent, Event

LEMMA IdleIsProgram == Idle \in Program /\ Idle.event = 0
BY DEF Idle, Program

LEMMA BusyProgram ==
    ASSUME TypeOK, NEW x \in Worker, worker[x] # Idle
    PROVE  worker[x].event \in Event /\ worker[x].workspace \in Workspace
BY DEF TypeOK, Program

\* A step of the connections.
LEMMA ConnectionsKeep ==
    ASSUME IInv, ConnectionStep, UNCHANGED <<history, worker, answered, chain>>
    PROVE  IInv'
<1>1. Connected' /\ OwnersStay
  BY ConnectionsStep DEF IInv, TypeOK, Connected
<1>2. \A w \in Workspace : IsHome(w) => IsHome(w)'
  BY <1>1, ConnectionConstants, IntakeConstants DEF OwnersStay, IsHome
<1>3. TypeOK' /\ HistoryIsBounded' /\ BoundOnce'
  BY <1>1 DEF IInv, TypeOK, Connected, HistoryIsBounded, BoundOnce
<1>4. WorkersGoHome'
  BY <1>2, BusyProgram DEF IInv, WorkersGoHome, Sent
<1>5. RunsStayHome'
  BY <1>2 DEF IInv, RunsStayHome, HasLineage, IsHome
<1> QED BY <1>1, <1>3, <1>4, <1>5 DEF IInv, Connected

\* GitHub sends another event.
LEMMA SendKeeps ==
    ASSUME IInv, UNCHANGED <<connections, worker, answered, chain>>,
           NEW event \in PullRequestEvent, Len(history) < MaxEvents,
           history' = Append(history, event)
    PROVE  IInv'
<1>1. TypeOK'
  BY DEF IInv, TypeOK, ConnectionsTypeOK, connections
<1>2. HistoryIsBounded' /\ Sent \subseteq Sent'
  BY IntakeConstants DEF IInv, TypeOK, HistoryIsBounded, Sent
<1>3. IntentsVerified' /\ RoutesToController'
  BY DEF IInv, connections, IntentsVerified, RoutesToController
<1>4. WorkersGoHome'
  BY <1>2 DEF IInv, WorkersGoHome, IsHome, connections
<1>5. RunsStayHome' /\ BoundOnce'
  BY DEF IInv, RunsStayHome, HasLineage, BoundOnce, connections
<1> QED BY <1>1, <1>2, <1>3, <1>4, <1>5 DEF IInv

LEMMA OpenKeeps ==
    ASSUME IInv, Open
    PROVE  IInv'
<1> DEFINE event == [kind |-> "opened", installation |-> granted[PullRequested],
                     previous |-> 0, head |-> 1, base |-> 1, updated |-> 1]
<1>1. event \in PullRequestEvent
  BY IntakeConstants DEF Open, PullRequestEvent, IInv, TypeOK, ConnectionsTypeOK
<1>2. history' = Append(history, event) /\ Len(history) < MaxEvents
  BY IntakeConstants DEF Open
<1>3. UNCHANGED <<connections, worker, answered, chain>>
  BY DEF Open
<1> HIDE DEF event
<1> QED BY <1>1, <1>2, <1>3, SendKeeps

LEMMA SynchronizeKeeps ==
    ASSUME IInv, NEW head \in 1..MaxEvents, NEW base \in 1..MaxEvents,
           NEW updated \in 1..MaxEvents, Synchronize(head, base, updated)
    PROVE  IInv'
<1> DEFINE event == [kind |-> "synchronize", installation |-> granted[PullRequested],
                     previous |-> Last.head, head |-> head, base |-> base,
                     updated |-> updated]
<1>1. Last \in PullRequestEvent
  BY DEF Synchronize, Last, IInv, TypeOK
<1>2. event \in PullRequestEvent
  BY <1>1, IntakeConstants DEF Synchronize, PullRequestEvent, IInv, TypeOK, ConnectionsTypeOK
<1>3. history' = Append(history, event) /\ Len(history) < MaxEvents
  BY DEF Synchronize
<1>4. UNCHANGED <<connections, worker, answered, chain>>
  BY DEF Synchronize
<1> HIDE DEF event
<1> QED BY <1>2, <1>3, <1>4, SendKeeps

\* An event is routed to the configured workspace, or to the one its repository
\* belongs to at that moment.
LEMMA RouteIsHome ==
    ASSUME TypeOK, NEW i \in Installation,
           NEW w, w = resolveGitHubWebhookWorkspace(lookupGitHubWebhookRoute(i, PullRequested)),
           w # NoWorkspace
    PROVE  w \in Workspace /\ IsHome(w)
<1>1. repository[PullRequested] \in RepositoryRow
  BY IntakeConstants DEF TypeOK, ConnectionsTypeOK
<1>2. repository[PullRequested].workspace \in Workspace \cup {NoWorkspace}
  BY <1>1 DEF RepositoryRow, NoRow
<1> QED BY <1>2, IntakeConstants, ConnectionConstants
        DEF resolveGitHubWebhookWorkspace, lookupGitHubWebhookRoute, IsHome

LEMMA RouteKeeps ==
    ASSUME IInv, NEW x \in Worker, NEW e \in Sent, Route(x, e)
    PROVE  IInv'
<1> DEFINE w == resolveGitHubWebhookWorkspace(
                   lookupGitHubWebhookRoute(history[e].installation, PullRequested))
<1>1. e \in Event /\ history[e].installation \in Installation
  BY SentAreEvents DEF IInv, PullRequestEvent
<1>2. w # NoWorkspace
  BY DEF Route
<1>3. w \in Workspace /\ IsHome(w)
  BY <1>1, <1>2, RouteIsHome DEF IInv
<1>4. /\ worker' = [worker EXCEPT ![x] = [event |-> e, workspace |-> w]]
      /\ UNCHANGED <<connections, history, answered, chain>>
  BY DEF Route
<1> HIDE DEF w
<1>5. TypeOK'
  BY <1>1, <1>3, <1>4 DEF IInv, TypeOK, ConnectionsTypeOK, connections, Program
<1>6. WorkersGoHome'
  BY <1>3, <1>4 DEF IInv, TypeOK, WorkersGoHome, IsHome, connections, Sent
<1>7. /\ IntentsVerified' /\ RoutesToController' /\ HistoryIsBounded'
      /\ RunsStayHome' /\ BoundOnce'
  BY <1>4 DEF IInv, connections, IntentsVerified, RoutesToController, HistoryIsBounded,
              RunsStayHome, HasLineage, BoundOnce
<1> QED BY <1>5, <1>6, <1>7 DEF IInv

LEMMA CrashKeeps ==
    ASSUME IInv, NEW x \in Worker, Crash(x)
    PROVE  IInv'
<1>1. /\ worker' = [worker EXCEPT ![x] = Idle]
      /\ UNCHANGED <<connections, history, answered, chain>>
  BY DEF Crash
<1>2. TypeOK'
  BY <1>1, IdleIsProgram DEF IInv, TypeOK, ConnectionsTypeOK, connections
<1>3. WorkersGoHome'
  BY <1>1 DEF IInv, TypeOK, WorkersGoHome, IsHome, connections, Sent
<1>4. /\ IntentsVerified' /\ RoutesToController' /\ HistoryIsBounded'
      /\ RunsStayHome' /\ BoundOnce'
  BY <1>1 DEF IInv, connections, IntentsVerified, RoutesToController, HistoryIsBounded,
              RunsStayHome, HasLineage, BoundOnce
<1> QED BY <1>2, <1>3, <1>4 DEF IInv

\* What appending an attempt does to the chains.
LEMMA AppendedChain ==
    ASSUME TypeOK, NEW w \in Workspace, NEW attempt \in Attempt,
           chain' = [chain EXCEPT ![w] = Append(@, attempt)]
    PROVE  /\ chain' \in [Workspace -> Seq(Attempt)]
           /\ Len(chain[w]) \in Nat
           /\ Len(chain'[w]) = Len(chain[w]) + 1
           /\ chain'[w][Len(chain[w]) + 1] = attempt
           /\ Len(chain'[w]) \in 1..Len(chain'[w]) /\ chain'[w][Len(chain'[w])] = attempt
           /\ \A n \in 1..Len(chain[w]) : chain'[w][n] = chain[w][n]
           /\ \A v \in Workspace \ {w} : chain'[v] = chain[v]
           /\ \A v \in Workspace :
                 /\ DOMAIN chain[v] = 1..Len(chain[v])
                 /\ DOMAIN chain'[v] = 1..Len(chain'[v])
<1>1. chain \in [Workspace -> Seq(Attempt)] /\ chain[w] \in Seq(Attempt)
  BY DEF TypeOK
<1>2. chain'[w] = Append(chain[w], attempt) /\ \A v \in Workspace \ {w} : chain'[v] = chain[v]
  BY <1>1
<1>3. chain' \in [Workspace -> Seq(Attempt)]
  BY <1>1, <1>2
<1> QED BY <1>1, <1>2, <1>3

\* An attempt is added to a chain that may have it.
LEMMA AttemptKeeps ==
    ASSUME IInv, NEW w \in Workspace, NEW attempt \in Attempt,
           HasLineage(w) \/ IsHome(w),
           attempt.event # 0 => \A v \in Workspace : ~ BoundIn(attempt.event, v),
           chain' = [chain EXCEPT ![w] = Append(@, attempt)],
           UNCHANGED <<connections, history>>
    PROVE  RunsStayHome' /\ BoundOnce' /\ chain' \in [Workspace -> Seq(Attempt)]
<1> TypeOK
  BY DEF IInv
<1>1. RunsStayHome'
  BY AppendedChain DEF IInv, RunsStayHome, HasLineage, IsHome, connections
<1>2. BoundOnce'
  <2> SUFFICES ASSUME NEW u \in Workspace, NEW v \in Workspace,
                      NEW m \in DOMAIN chain'[u], NEW n \in DOMAIN chain'[v],
                      chain'[u][m].event = chain'[v][n].event, chain'[u][m].event # 0
               PROVE  u = v /\ m = n
    BY DEF BoundOnce
  <2> m \in 1..Len(chain'[u]) /\ n \in 1..Len(chain'[v])
    BY AppendedChain
  <2>1. CASE (u = w /\ m = Len(chain[w]) + 1) /\ (v = w /\ n = Len(chain[w]) + 1)
    BY <2>1
  <2>2. CASE (u = w /\ m = Len(chain[w]) + 1) /\ ~ (v = w /\ n = Len(chain[w]) + 1)
    <3>1. n \in 1..Len(chain[v]) /\ chain'[v][n] = chain[v][n]
      BY <2>2, AppendedChain
    <3>2. chain'[u][m] = attempt
      BY <2>2, AppendedChain
    <3> QED BY <3>1, <3>2 DEF BoundIn
  <2>3. CASE ~ (u = w /\ m = Len(chain[w]) + 1) /\ (v = w /\ n = Len(chain[w]) + 1)
    <3>1. m \in 1..Len(chain[u]) /\ chain'[u][m] = chain[u][m]
      BY <2>3, AppendedChain
    <3>2. chain'[v][n] = attempt
      BY <2>3, AppendedChain
    <3> QED BY <3>1, <3>2 DEF BoundIn
  <2>4. CASE ~ (u = w /\ m = Len(chain[w]) + 1) /\ ~ (v = w /\ n = Len(chain[w]) + 1)
    <3>1. m \in 1..Len(chain[u]) /\ chain'[u][m] = chain[u][m]
      BY <2>4, AppendedChain
    <3>2. n \in 1..Len(chain[v]) /\ chain'[v][n] = chain[v][n]
      BY <2>4, AppendedChain
    <3>3. m \in DOMAIN chain[u] /\ n \in DOMAIN chain[v]
      BY <3>1, <3>2, AppendedChain
    <3> QED BY <3>1, <3>2, <3>3 DEF IInv, BoundOnce
  <2> QED BY <2>1, <2>2, <2>3, <2>4
<1> QED BY <1>1, <1>2, AppendedChain

\* The attempt an event makes.
AttemptOf(e) == [event |-> e, head |-> history[e].head, base |-> history[e].base]

LEMMA AttemptOfType ==
    ASSUME TypeOK, HistoryIsBounded, NEW e \in Sent
    PROVE  AttemptOf(e) \in Attempt /\ AttemptOf(e).event # 0
BY SentAreEvents, IntakeConstants DEF AttemptOf, Attempt, Event, PullRequestEvent

LEMMA IntakeKeeps ==
    ASSUME IInv, NEW x \in Worker, createFromExternalIntake(x)
    PROVE  IInv'
<1> DEFINE e == worker[x].event
           w == worker[x].workspace
<1>1. /\ e \in Event /\ e \in Sent /\ w \in Workspace /\ IsHome(w)
      /\ ~ BoundElsewhere(e, w)
  BY BusyProgram DEF IInv, WorkersGoHome, createFromExternalIntake
<1>2. /\ answered' = [answered EXCEPT ![e] = @ \cup {w}]
      /\ worker' = [worker EXCEPT ![x] = Idle]
      /\ UNCHANGED <<connections, history>>
  BY DEF createFromExternalIntake
<1>3. \/ UNCHANGED chain
      \/ /\ ~ BoundIn(e, w)
         /\ chain' = [chain EXCEPT ![w] = Append(@, AttemptOf(e))]
  BY DEF createFromExternalIntake, existingExternalWorkflowRef, AttemptOf
<1> HIDE DEF e, w
<1>4. RunsStayHome' /\ BoundOnce' /\ chain' \in [Workspace -> Seq(Attempt)]
  <2>1. CASE UNCHANGED chain
    BY <1>2, <2>1 DEF IInv, TypeOK, RunsStayHome, HasLineage, BoundOnce, connections
  <2>2. CASE ~ BoundIn(e, w) /\ chain' = [chain EXCEPT ![w] = Append(@, AttemptOf(e))]
    <3>1. AttemptOf(e) \in Attempt
      BY <1>1, AttemptOfType DEF IInv
    <3>2. AttemptOf(e).event = e
      BY DEF AttemptOf
    <3>3. \A v \in Workspace : ~ BoundIn(e, v)
      BY <1>1, <2>2 DEF BoundElsewhere
    <3> QED BY <1>1, <1>2, <2>2, <3>1, <3>2, <3>3, AttemptKeeps
  <2> QED BY <1>3, <2>1, <2>2
<1>5. TypeOK'
  BY <1>1, <1>2, <1>4, IdleIsProgram DEF IInv, TypeOK, ConnectionsTypeOK, connections
<1>6. WorkersGoHome'
  BY <1>2 DEF IInv, TypeOK, WorkersGoHome, IsHome, connections, Sent
<1>7. IntentsVerified' /\ RoutesToController' /\ HistoryIsBounded'
  BY <1>2 DEF IInv, connections, IntentsVerified, RoutesToController, HistoryIsBounded
<1> QED BY <1>4, <1>5, <1>6, <1>7 DEF IInv

\* A rerun has the candidate of the latest attempt, and no event.
LEMMA RerunAttempt ==
    ASSUME TypeOK, NEW w \in Workspace, HasLineage(w)
    PROVE  /\ latestAttempt(w) \in Attempt
           /\ [latestAttempt(w) EXCEPT !.event = 0] \in Attempt
           /\ [latestAttempt(w) EXCEPT !.event = 0].event = 0
           /\ [latestAttempt(w) EXCEPT !.event = 0].head = latestAttempt(w).head
<1>1. latestAttempt(w) \in Attempt
  BY DEF TypeOK, HasLineage, latestAttempt
<1> QED BY <1>1, IntakeConstants DEF Attempt

LEMMA RerunKeeps ==
    ASSUME IInv, NEW w \in Workspace, createRerun(w)
    PROVE  IInv'
<1> DEFINE attempt == [latestAttempt(w) EXCEPT !.event = 0]
<1>1. /\ HasLineage(w) /\ UNCHANGED <<connections, history, worker, answered>>
      /\ chain' = [chain EXCEPT ![w] = Append(@, attempt)]
  BY DEF createRerun
<1>2. attempt \in Attempt /\ attempt.event = 0
  BY <1>1, RerunAttempt DEF IInv
<1> HIDE DEF attempt
<1>3. RunsStayHome' /\ BoundOnce' /\ chain' \in [Workspace -> Seq(Attempt)]
  BY <1>1, <1>2, AttemptKeeps
<1>4. TypeOK' /\ WorkersGoHome'
  BY <1>1, <1>3 DEF IInv, TypeOK, ConnectionsTypeOK, connections, WorkersGoHome, IsHome, Sent
<1>5. IntentsVerified' /\ RoutesToController' /\ HistoryIsBounded'
  BY <1>1 DEF IInv, connections, IntentsVerified, RoutesToController, HistoryIsBounded
<1> QED BY <1>3, <1>4, <1>5 DEF IInv

LEMMA StutterKeeps == IInv /\ UNCHANGED vars => IInv'
BY DEF vars, IInv, TypeOK, ConnectionsTypeOK, IntentsVerified, RoutesToController,
       HistoryIsBounded, WorkersGoHome, RunsStayHome, HasLineage, BoundOnce, IsHome, Sent

LEMMA InitInvariant == Init => IInv
<1> SUFFICES ASSUME Init PROVE IInv
  OBVIOUS
<1>1. TypeOK
  BY NoIntentType, IdleIsProgram DEF Init, ConnectionsInit, TypeOK, ConnectionsTypeOK, RepositoryRow
<1>2. IntentsVerified /\ RoutesToController
  BY DEF Init, ConnectionsInit, IntentsVerified, RoutesToController, NoIntent, NoRow
<1>3. HistoryIsBounded /\ WorkersGoHome /\ RunsStayHome /\ BoundOnce
  BY IntakeConstants DEF Init, HistoryIsBounded, WorkersGoHome, RunsStayHome, HasLineage, BoundOnce
<1> QED BY <1>1, <1>2, <1>3 DEF IInv

LEMMA StepInvariant == IInv /\ [Next]_vars => IInv'
BY ConnectionsKeep, OpenKeeps, SynchronizeKeeps, RouteKeeps, CrashKeeps, IntakeKeeps,
   RerunKeeps, StutterKeeps DEF Next, PullRequest, WorkerStep

-----------------------------------------------------------------------------
(* Theorems                                                                *)

\* The inductive invariant holds in every reachable state.
THEOREM Invariance == Spec => []IInv
BY InitInvariant, StepInvariant, PTL DEF Spec

\* Every variable has its type.
THEOREM TypeCorrect == Spec => []TypeOK
<1>1. IInv => TypeOK
  BY DEF IInv
<1> QED BY <1>1, Invariance, PTL

\* Webhooks are routed to a workspace that proved to control their installation, in
\* whatever order the callbacks of the installation flow come back.
THEOREM RoutedToController == Spec => []RoutesToController
<1>1. IInv => RoutesToController
  BY DEF IInv
<1> QED BY <1>1, Invariance, PTL

\* A pull request is verified in the configured workspace, or in the one its
\* repository belongs to for ever.
THEOREM VerifiedAtHome == Spec => []RunsStayHome
<1>1. IInv => RunsStayHome
  BY DEF IInv
<1> QED BY <1>1, Invariance, PTL

\* An event makes one attempt at most, in one workspace.
THEOREM VerifiedOnce == Spec => []BoundOnce
<1>1. IInv => BoundOnce
  BY DEF IInv
<1> QED BY <1>1, Invariance, PTL

-----------------------------------------------------------------------------
(* The order of the attempts                                               *)

\* A step of nothing that the order of the attempts is about.
LEMMA OrderStays ==
    ASSUME IOrder, UNCHANGED <<history, answered, chain>>
    PROVE  IOrder'
BY DEF IOrder, Sent, HistoryIsOrdered, HistoryIsLinked, AttemptsOfEvents, IsEvent, ChainIsOrdered,
       ChainHasEvent, HasLineage, IsNewestEvent, AnsweredWithCandidate, MatchesCandidate

LEMMA EventFields ==
    ASSUME TypeOK, NEW e \in Sent
    PROVE  /\ Len(history) \in Nat /\ e \in 1..Len(history)
           /\ history[e].previous \in Nat /\ history[e].head \in Nat
           /\ history[e].base \in Nat /\ history[e].updated \in Nat
<1>1. Len(history) \in Nat /\ e \in 1..Len(history)
  BY DEF TypeOK, Sent
<1>2. history[e] \in PullRequestEvent
  BY <1>1 DEF TypeOK
<1> QED BY <1>1, <1>2 DEF PullRequestEvent

LEMMA AttemptFields ==
    ASSUME TypeOK, NEW w \in Workspace, NEW n \in 1..Len(chain[w])
    PROVE  /\ Len(chain[w]) \in Nat
           /\ chain[w][n].event \in 0..MaxEvents
           /\ chain[w][n].head \in Nat /\ chain[w][n].base \in Nat
<1>1. chain[w] \in Seq(Attempt)
  BY DEF TypeOK
<1>2. chain[w][n] \in Attempt
  BY <1>1
<1> QED BY <1>1, <1>2 DEF Attempt

\* The newest commit of the branch is its head.
LEMMA NewestIsLast ==
    ASSUME TypeOK, HistoryIsOrdered, history # <<>>
    PROVE  Newest = Last.head
<1> DEFINE heads == {history[e].head : e \in Sent}
           Top(h) == \A e \in Sent : history[e].head <= h
<1>1. Len(history) \in Sent
  BY DEF TypeOK, Sent
<1>2. Last.head \in heads /\ Top(Last.head)
  <2>1. \A e \in Sent : history[e].head <= history[Len(history)].head
    BY <1>1, EventFields DEF HistoryIsOrdered, Sent
  <2> QED BY <1>1, <2>1 DEF Last
<1>3. \A h \in heads : Top(h) => h = Last.head
  BY <1>1, <1>2, EventFields DEF Last
<1>4. Newest = CHOOSE h \in heads : Top(h)
  BY DEF Newest
<1> HIDE DEF heads, Top
<1> QED BY <1>2, <1>3, <1>4

\* Another event does not come before those that were sent.
LEMMA SendKeepsOrder ==
    ASSUME IInv, IOrder, UNCHANGED <<answered, chain>>,
           NEW event \in PullRequestEvent, history' = Append(history, event),
           event.kind = "synchronize" => history # <<>> /\ event.previous = Last.head,
           history # <<>> =>
              /\ event.head >= Last.head /\ event.base >= Last.base
              /\ event.updated >= Last.updated
              /\ event.head > Last.head \/ event.base > Last.base
    PROVE  IOrder'
<1>1. /\ Len(history) \in Nat /\ Len(history') = Len(history) + 1
      /\ history'[Len(history) + 1] = event
      /\ \A e \in Sent : history'[e] = history[e]
      /\ Sent \subseteq Sent'
  BY DEF IInv, TypeOK, Sent
<1>2. \A e \in Sent' : e \in Sent \/ e = Len(history) + 1
  BY <1>1 DEF Sent
<1>3. HistoryIsOrdered'
  <2> SUFFICES ASSUME NEW d \in Sent', NEW e \in Sent', d < e
               PROVE  /\ history'[d].head <= history'[e].head
                      /\ history'[d].base <= history'[e].base
                      /\ history'[d].updated <= history'[e].updated
                      /\ \/ history'[d].head < history'[e].head
                         \/ history'[d].base < history'[e].base
    BY DEF HistoryIsOrdered
  <2>1. d \in Sent /\ history'[d] = history[d]
    BY <1>1, <1>2 DEF Sent
  <2>2. CASE e \in Sent
    BY <1>1, <2>1, <2>2 DEF IOrder, HistoryIsOrdered
  <2>3. CASE e = Len(history) + 1
    <3>1. history # <<>> /\ Len(history) \in Sent
      BY <1>1, <2>1 DEF Sent
    <3>2. /\ history[d].head <= Last.head /\ history[d].base <= Last.base
          /\ history[d].updated <= Last.updated
      BY <2>1, <3>1, EventFields DEF IInv, IOrder, HistoryIsOrdered, Last, Sent
    <3>3. history'[e] = event
      BY <1>1, <2>3
    <3>4. /\ history[d].head \in Nat /\ history[d].base \in Nat /\ history[d].updated \in Nat
          /\ Last.head \in Nat /\ Last.base \in Nat /\ Last.updated \in Nat
      BY <2>1, <3>1, EventFields DEF IInv, Last
    <3>5. event.head \in Nat /\ event.base \in Nat /\ event.updated \in Nat
      BY DEF PullRequestEvent
    <3>6. /\ event.head >= Last.head /\ event.base >= Last.base
          /\ event.updated >= Last.updated
          /\ event.head > Last.head \/ event.base > Last.base
      BY <3>1
    <3>7. /\ history[d].head <= event.head /\ history[d].base <= event.base
          /\ history[d].updated <= event.updated
          /\ history[d].head < event.head \/ history[d].base < event.base
      BY <3>2, <3>4, <3>5, <3>6
    <3> QED BY <2>1, <3>3, <3>7
  <2> QED BY <1>2, <2>2, <2>3
<1>4. HistoryIsLinked'
  <2> SUFFICES ASSUME NEW e \in Sent', history'[e].kind = "synchronize"
               PROVE  e > 1 /\ history'[e].previous = history'[e - 1].head
    BY DEF HistoryIsLinked
  <2>1. CASE e \in Sent
    <3>1. e > 1 /\ history[e].previous = history[e - 1].head /\ e - 1 \in Sent
      BY <1>1, <2>1 DEF IOrder, HistoryIsLinked, Sent
    <3> QED BY <1>1, <2>1, <3>1
  <2>2. CASE e = Len(history) + 1
    <3>1. history # <<>> /\ history'[e].previous = Last.head
      BY <1>1, <2>2
    <3>2. Len(history) \in Sent /\ e - 1 = Len(history) /\ e > 1
      BY <1>1, <2>2, <3>1 DEF Sent, IInv, TypeOK
    <3> QED BY <1>1, <3>1, <3>2 DEF Last
  <2> QED BY <1>2, <2>1, <2>2
<1>5. AttemptsOfEvents'
  BY <1>1 DEF IOrder, AttemptsOfEvents, IsEvent
<1>6. ChainIsOrdered'
  <2>1. \A w \in Workspace : \A n \in 1..Len(chain[w]) :
          IsEvent(w, n) => history'[chain[w][n].event] = history[chain[w][n].event]
    BY <1>1 DEF IOrder, AttemptsOfEvents
  <2> SUFFICES ASSUME NEW w \in Workspace, NEW m \in 1..Len(chain[w]), NEW n \in 1..Len(chain[w]),
                      m < n
               PROVE  /\ chain[w][m].head <= chain[w][n].head
                      /\ IsEvent(w, m) /\ IsEvent(w, n) =>
                            history'[chain[w][m].event].updated
                               <= history'[chain[w][n].event].updated
    BY DEF ChainIsOrdered, IsEvent
  <2> QED BY <2>1 DEF IOrder, ChainIsOrdered
<1>7. ChainHasEvent'
  BY DEF IOrder, ChainHasEvent, HasLineage, IsNewestEvent, IsEvent
<1>8. AnsweredWithCandidate'
  <2> SUFFICES ASSUME NEW e \in Event, NEW w \in answered[e]
               PROVE  e \in Sent' /\ MatchesCandidate(history[e], w)'
    BY DEF AnsweredWithCandidate
  <2>1. e \in Sent /\ MatchesCandidate(history[e], w)
    BY DEF IOrder, AnsweredWithCandidate
  <2>2. e \in Sent' /\ history'[e] = history[e]
    BY <1>1, <2>1
  <2> QED BY <2>1, <2>2 DEF MatchesCandidate
<1> QED BY <1>3, <1>4, <1>5, <1>6, <1>7, <1>8 DEF IOrder

LEMMA OpenKeepsOrder ==
    ASSUME IInv, IOrder, Open
    PROVE  IOrder'
<1> DEFINE event == [kind |-> "opened", installation |-> granted[PullRequested],
                     previous |-> 0, head |-> 1, base |-> 1, updated |-> 1]
<1>1. event \in PullRequestEvent /\ event.kind # "synchronize"
  BY IntakeConstants DEF Open, PullRequestEvent, IInv, TypeOK, ConnectionsTypeOK
<1>2. history = <<>> /\ history' = Append(history, event) /\ UNCHANGED <<answered, chain>>
  BY DEF Open
<1> HIDE DEF event
<1> QED BY <1>1, <1>2, SendKeepsOrder

LEMMA SynchronizeKeepsOrder ==
    ASSUME ~ ForcePush, IInv, IOrder,
           NEW head \in 1..MaxEvents, NEW base \in 1..MaxEvents, NEW updated \in 1..MaxEvents,
           Synchronize(head, base, updated)
    PROVE  IOrder'
<1> DEFINE event == [kind |-> "synchronize", installation |-> granted[PullRequested],
                     previous |-> Last.head, head |-> head, base |-> base,
                     updated |-> updated]
<1>1. history # <<>> /\ Last \in PullRequestEvent
  BY DEF Synchronize, Last, IInv, TypeOK
<1>2. event \in PullRequestEvent
  BY <1>1, IntakeConstants DEF Synchronize, PullRequestEvent, IInv, TypeOK, ConnectionsTypeOK
<1>3. history' = Append(history, event) /\ UNCHANGED <<answered, chain>>
  BY DEF Synchronize
<1>4. Last.head \in Nat /\ Last.base \in Nat /\ Last.updated \in Nat
  BY <1>1 DEF PullRequestEvent
<1>5. Newest = Last.head
  BY <1>1, NewestIsLast DEF IInv, IOrder
<1>6. head = Last.head + 1 \/ (head = Last.head /\ base # Last.base)
  <2>1. \/ head = Newest + 1
        \/ head = Last.head /\ base # Last.base
        \/ ForcePush
    BY DEF Synchronize
  <2> QED BY <1>5, <2>1
<1>b. base \in {Last.base, Last.base + 1} /\ updated \in {Last.updated, Last.updated + 1}
  BY DEF Synchronize
<1>7. /\ head >= Last.head /\ base >= Last.base /\ updated >= Last.updated
      /\ head > Last.head \/ base > Last.base
  BY <1>4, <1>6, <1>b
<1>8. /\ event.kind = "synchronize" /\ event.previous = Last.head
      /\ event.head = head /\ event.base = base /\ event.updated = updated
  OBVIOUS
<1> HIDE DEF event
<1> QED BY <1>1, <1>2, <1>3, <1>7, <1>8, SendKeepsOrder

\* The newest event of a chain, where it is one.
LEMMA UpdatedAt ==
    ASSUME TypeOK, NEW w \in Workspace, NEW n, IsNewestEvent(w, n)
    PROVE  pullRequestUpdatedAt(w) = history[chain[w][n].event].updated
<1> DEFINE Newer(k) == /\ chain[w][k].event # 0
                       /\ \A m \in k + 1..Len(chain[w]) : chain[w][m].event = 0
<1>1. n \in 1..Len(chain[w]) /\ Newer(n) /\ Len(chain[w]) \in Nat
  BY DEF IsNewestEvent, IsEvent, TypeOK
<1>2. \A k \in 1..Len(chain[w]) : Newer(k) => k = n
  BY <1>1
<1> DEFINE k == CHOOSE k \in 1..Len(chain[w]) : Newer(k)
<1>3. pullRequestUpdatedAt(w) = history[chain[w][k].event].updated
  BY DEF pullRequestUpdatedAt
<1> HIDE DEF Newer
<1>4. k = n
  BY <1>1, <1>2
<1> QED BY <1>3, <1>4

\* In a chain that has attempts, the time of the newest event is a time of the chain
\* that no attempt exceeds.
LEMMA UpdatedAtIsLatest ==
    ASSUME IInv, IOrder, NEW w \in Workspace, HasLineage(w)
    PROVE  /\ pullRequestUpdatedAt(w) \in Nat
           /\ \A n \in 1..Len(chain[w]) : IsEvent(w, n) =>
                 history[chain[w][n].event].updated <= pullRequestUpdatedAt(w)
<1>1. PICK k \in 1..Len(chain[w]) : IsNewestEvent(w, k)
  BY DEF IOrder, ChainHasEvent
<1>2. pullRequestUpdatedAt(w) = history[chain[w][k].event].updated
  BY <1>1, UpdatedAt DEF IInv
<1>3. chain[w][k].event \in Sent /\ IsEvent(w, k)
  BY <1>1 DEF IOrder, AttemptsOfEvents, IsNewestEvent
<1>4. pullRequestUpdatedAt(w) \in Nat
  BY <1>2, <1>3, EventFields DEF IInv
<1>5. ASSUME NEW n \in 1..Len(chain[w]), IsEvent(w, n)
      PROVE  history[chain[w][n].event].updated <= pullRequestUpdatedAt(w)
  <2>1. Len(chain[w]) \in Nat
    BY AttemptFields DEF IInv
  <2>2. n <= k
    BY <1>1, <1>5, <2>1 DEF IsNewestEvent, IsEvent
  <2>3. CASE n = k
    BY <1>2, <1>4, <2>3
  <2>4. CASE n < k
    BY <1>2, <1>3, <1>5, <2>4 DEF IOrder, ChainIsOrdered
  <2> QED BY <2>1, <2>2, <2>3, <2>4
<1> QED BY <1>4, <1>5

\* No attempt has a newer head than the latest one.
LEMMA LatestHead ==
    ASSUME IInv, IOrder, NEW w \in Workspace, HasLineage(w)
    PROVE  /\ Len(chain[w]) \in 1..Len(chain[w])
           /\ latestAttempt(w).head \in Nat
           /\ \A n \in 1..Len(chain[w]) : chain[w][n].head <= latestAttempt(w).head
<1>1. Len(chain[w]) \in 1..Len(chain[w])
  BY DEF IInv, TypeOK, HasLineage
<1>2. latestAttempt(w).head \in Nat
  BY <1>1, AttemptFields DEF IInv, latestAttempt
<1>3. ASSUME NEW n \in 1..Len(chain[w])
      PROVE  chain[w][n].head <= latestAttempt(w).head
  <2>1. CASE n = Len(chain[w])
    BY <1>2, <2>1 DEF latestAttempt
  <2>2. CASE n < Len(chain[w])
    BY <1>1, <2>2 DEF IOrder, ChainIsOrdered, latestAttempt
  <2> QED BY <1>1, <2>1, <2>2
<1> QED BY <1>1, <1>2, <1>3

\* An event that follows the head of a chain has no older head than any attempt.
LEMMA FollowerIsNewer ==
    ASSUME IInv, IOrder, NEW w \in Workspace, NEW e \in Sent, FollowsHead(history[e], w)
    PROVE  latestAttempt(w).head <= history[e].head
<1>1. /\ HasLineage(w) /\ e > 1 /\ history[e].previous = history[e - 1].head
      /\ history[e].previous = latestAttempt(w).head
  BY DEF FollowsHead, IOrder, HistoryIsLinked
<1>2. e - 1 \in Sent /\ e - 1 < e
  BY <1>1 DEF Sent
<1>3. history[e - 1].head <= history[e].head
  BY <1>2 DEF IOrder, HistoryIsOrdered
<1> QED BY <1>1, <1>3

\* What createFromExternalIntake adds to a chain is not older than what is there.
LEMMA InOrderIsNewer ==
    ASSUME IInv, IOrder, NEW w \in Workspace, NEW e \in Sent, InOrder(history[e], w),
           NEW n \in 1..Len(chain[w])
    PROVE  /\ chain[w][n].head <= history[e].head
           /\ IsEvent(w, n) => history[chain[w][n].event].updated <= history[e].updated
<1>1. HasLineage(w)
  BY DEF IInv, TypeOK, HasLineage
<1>2. FollowsHead(history[e], w) /\ history[e].updated >= pullRequestUpdatedAt(w)
  BY <1>1, UpdatedAtIsLatest, EventFields DEF InOrder, IInv
<1>3. /\ history[e].head \in Nat /\ history[e].updated \in Nat
      /\ chain[w][n].head \in Nat
  BY EventFields, AttemptFields DEF IInv
<1>4. chain[w][n].head <= history[e].head
  BY <1>1, <1>2, <1>3, LatestHead, FollowerIsNewer
<1>5. ASSUME IsEvent(w, n)
      PROVE  history[chain[w][n].event].updated <= history[e].updated
  <2>1. chain[w][n].event \in Sent
    BY <1>5 DEF IOrder, AttemptsOfEvents
  <2>2. history[chain[w][n].event].updated \in Nat
    BY <2>1, EventFields DEF IInv
  <2>3. /\ history[chain[w][n].event].updated <= pullRequestUpdatedAt(w)
        /\ pullRequestUpdatedAt(w) \in Nat
    BY <1>1, <1>5, UpdatedAtIsLatest
  <2> QED BY <1>2, <1>3, <2>2, <2>3
<1> QED BY <1>4, <1>5

\* An attempt is added that is not older than any of its chain.
LEMMA AttemptKeepsOrder ==
    ASSUME IInv, IOrder, NEW w \in Workspace, NEW attempt \in Attempt,
           chain' = [chain EXCEPT ![w] = Append(@, attempt)], UNCHANGED history,
           attempt.event # 0 \/ HasLineage(w),
           attempt.event # 0 => attempt.event \in Sent /\ attempt = AttemptOf(attempt.event),
           \A n \in 1..Len(chain[w]) :
              /\ chain[w][n].head <= attempt.head
              /\ IsEvent(w, n) /\ attempt.event # 0 =>
                    history[chain[w][n].event].updated <= history[attempt.event].updated
    PROVE  AttemptsOfEvents' /\ ChainIsOrdered' /\ ChainHasEvent'
<1> TypeOK
  BY DEF IInv
<1>0. /\ Len(chain[w]) \in Nat /\ Len(chain'[w]) = Len(chain[w]) + 1
      /\ chain'[w][Len(chain[w]) + 1] = attempt
      /\ \A n \in 1..Len(chain[w]) : chain'[w][n] = chain[w][n]
      /\ \A v \in Workspace \ {w} : chain'[v] = chain[v]
  BY AppendedChain
<1>1. \A v \in Workspace : \A n \in 1..Len(chain'[v]) :
         \/ n \in 1..Len(chain[v]) /\ chain'[v][n] = chain[v][n]
         \/ v = w /\ n = Len(chain[w]) + 1 /\ chain'[v][n] = attempt
  BY <1>0
<1>2. AttemptsOfEvents'
  <2> SUFFICES ASSUME NEW v \in Workspace, NEW n \in 1..Len(chain'[v]), chain'[v][n].event # 0
               PROVE  /\ chain'[v][n].event \in Sent
                      /\ chain'[v][n].head = history[chain'[v][n].event].head
                      /\ chain'[v][n].base = history[chain'[v][n].event].base
    BY DEF AttemptsOfEvents, IsEvent, Sent
  <2>1. CASE n \in 1..Len(chain[v]) /\ chain'[v][n] = chain[v][n]
    BY <2>1 DEF IOrder, AttemptsOfEvents, IsEvent
  <2>2. CASE chain'[v][n] = attempt
    BY <2>2 DEF AttemptOf
  <2> QED BY <1>1, <2>1, <2>2
<1>3. ChainIsOrdered'
  <2> SUFFICES ASSUME NEW v \in Workspace, NEW m \in 1..Len(chain'[v]), NEW n \in 1..Len(chain'[v]),
                      m < n
               PROVE  /\ chain'[v][m].head <= chain'[v][n].head
                      /\ chain'[v][m].event # 0 /\ chain'[v][n].event # 0 =>
                            history[chain'[v][m].event].updated
                               <= history[chain'[v][n].event].updated
    BY DEF ChainIsOrdered, IsEvent
  <2>1. m \in 1..Len(chain[v]) /\ chain'[v][m] = chain[v][m]
    BY <1>0, <1>1
  <2>2. CASE n \in 1..Len(chain[v]) /\ chain'[v][n] = chain[v][n]
    BY <2>1, <2>2 DEF IOrder, ChainIsOrdered, IsEvent
  <2>3. CASE v = w /\ chain'[v][n] = attempt
    BY <2>1, <2>3 DEF IsEvent
  <2> QED BY <1>1, <2>1, <2>2, <2>3
<1>4. ChainHasEvent'
  <2> SUFFICES ASSUME NEW v \in Workspace, HasLineage(v)'
               PROVE  \E n \in 1..Len(chain'[v]) : IsNewestEvent(v, n)'
    BY DEF ChainHasEvent
  <2>1. CASE v # w
    <3>1. PICK n \in 1..Len(chain[v]) : IsNewestEvent(v, n)
      BY <1>0, <2>1 DEF IOrder, ChainHasEvent, HasLineage
    <3>2. chain'[v] = chain[v]
      BY <1>0, <2>1
    <3> QED BY <3>1, <3>2 DEF IsNewestEvent, IsEvent
  <2>2. CASE v = w /\ attempt.event # 0
    <3>1. PICK n \in Nat : n = Len(chain[w]) + 1
      BY <1>0
    <3>2. n \in 1..Len(chain'[w]) /\ chain'[w][n].event # 0 /\ Len(chain'[w]) = n
      BY <1>0, <2>2, <3>1
    <3> QED BY <2>2, <3>2 DEF IsNewestEvent, IsEvent
  <2>3. CASE v = w /\ attempt.event = 0
    <3>1. PICK n \in 1..Len(chain[w]) : IsNewestEvent(w, n)
      BY <2>3 DEF IOrder, ChainHasEvent
    <3>2. \A m \in n + 1..Len(chain'[w]) : chain'[w][m].event = 0
      BY <1>0, <2>3, <3>1 DEF IsNewestEvent
    <3>3. n \in 1..Len(chain'[w]) /\ chain'[w][n].event # 0
      BY <1>0, <3>1 DEF IsNewestEvent, IsEvent
    <3> QED BY <2>3, <3>2, <3>3 DEF IsNewestEvent, IsEvent
  <2> QED BY <2>1, <2>2, <2>3
<1> QED BY <1>2, <1>3, <1>4

\* What was the candidate of an attempt of a chain that grows is one still.
LEMMA MatchStays ==
    ASSUME IInv, NEW w \in Workspace, NEW attempt \in Attempt, NEW v \in Workspace, NEW event,
           chain' = [chain EXCEPT ![w] = Append(@, attempt)], MatchesCandidate(event, v)
    PROVE  \E n \in 1..Len(chain'[v]) :
              /\ chain'[v][n].event # 0
              /\ chain'[v][n].head = event.head
              /\ chain'[v][n].base = event.base
<1>1. PICK n \in 1..Len(chain[v]) :
         chain[v][n].event # 0 /\ chain[v][n].head = event.head /\ chain[v][n].base = event.base
  BY DEF MatchesCandidate
<1>2. n \in 1..Len(chain'[v]) /\ chain'[v][n] = chain[v][n]
  BY AppendedChain DEF IInv
<1> QED BY <1>1, <1>2

LEMMA RerunKeepsOrder ==
    ASSUME IInv, IOrder, NEW w \in Workspace, createRerun(w)
    PROVE  IOrder'
<1> DEFINE attempt == [latestAttempt(w) EXCEPT !.event = 0]
<1>1. /\ HasLineage(w) /\ UNCHANGED <<history, answered>>
      /\ chain' = [chain EXCEPT ![w] = Append(@, attempt)]
  BY DEF createRerun
<1>2. attempt \in Attempt /\ attempt.event = 0 /\ attempt.head = latestAttempt(w).head
  BY <1>1, RerunAttempt DEF IInv
<1>3. \A n \in 1..Len(chain[w]) : chain[w][n].head <= attempt.head
  BY <1>1, <1>2, LatestHead
<1> HIDE DEF attempt
<1>4. AttemptsOfEvents' /\ ChainIsOrdered' /\ ChainHasEvent'
  BY <1>1, <1>2, <1>3, AttemptKeepsOrder
<1>5. HistoryIsOrdered' /\ HistoryIsLinked'
  BY <1>1 DEF IOrder, HistoryIsOrdered, HistoryIsLinked, Sent
<1>6. AnsweredWithCandidate'
  <2> SUFFICES ASSUME NEW e \in Event, NEW v \in answered[e]
               PROVE  e \in Sent /\ MatchesCandidate(history[e], v)'
    BY <1>1 DEF AnsweredWithCandidate, Sent
  <2>1. e \in Sent /\ MatchesCandidate(history[e], v) /\ v \in Workspace
    BY DEF IInv, TypeOK, IOrder, AnsweredWithCandidate
  <2> QED BY <1>1, <1>2, <2>1, MatchStays DEF MatchesCandidate
<1> QED BY <1>4, <1>5, <1>6 DEF IOrder

\* An event that is answered without another attempt has the candidate of one.
LEMMA ExistingMatches ==
    ASSUME IOrder, NEW w \in Workspace, NEW e \in Event, existingExternalWorkflowRef(e, w)
    PROVE  MatchesCandidate(history[e], w)
<1>1. CASE BoundIn(e, w)
  <2>1. PICK n \in 1..Len(chain[w]) : chain[w][n].event = e
    BY <1>1 DEF BoundIn
  <2>2. IsEvent(w, n)
    BY <2>1 DEF IsEvent, Event
  <2> QED BY <2>1, <2>2 DEF IOrder, AttemptsOfEvents, MatchesCandidate, IsEvent
<1> QED BY <1>1 DEF existingExternalWorkflowRef

LEMMA IntakeKeepsOrder ==
    ASSUME IInv, IOrder, NEW x \in Worker, createFromExternalIntake(x)
    PROVE  IOrder'
<1>0. PICK e \in Event, w \in Workspace : worker[x].event = e /\ worker[x].workspace = w
  BY BusyProgram DEF IInv, createFromExternalIntake
<1>1. e \in Event /\ e \in Sent /\ w \in Workspace
  BY <1>0 DEF IInv, WorkersGoHome, createFromExternalIntake
<1>2. answered' = [answered EXCEPT ![e] = @ \cup {w}] /\ UNCHANGED history
  BY <1>0 DEF createFromExternalIntake
<1>3. \/ existingExternalWorkflowRef(e, w) /\ UNCHANGED chain
      \/ /\ InOrder(history[e], w)
         /\ chain' = [chain EXCEPT ![w] = Append(@, AttemptOf(e))]
  BY <1>0 DEF createFromExternalIntake, AttemptOf
<1>4. /\ AttemptsOfEvents' /\ ChainIsOrdered' /\ ChainHasEvent'
      /\ MatchesCandidate(history[e], w)'
      /\ \A v \in Workspace, f \in Sent :
            MatchesCandidate(history[f], v) => MatchesCandidate(history[f], v)'
  <2>1. CASE existingExternalWorkflowRef(e, w) /\ UNCHANGED chain
    <3>1. MatchesCandidate(history[e], w)
      BY <1>1, <2>1, ExistingMatches
    <3> QED BY <1>2, <2>1, <3>1 DEF IOrder, AttemptsOfEvents, ChainIsOrdered, ChainHasEvent,
                 IsEvent, IsNewestEvent, HasLineage, MatchesCandidate, Sent
  <2>2. CASE /\ InOrder(history[e], w)
             /\ chain' = [chain EXCEPT ![w] = Append(@, AttemptOf(e))]
    <3>1. /\ AttemptOf(e) \in Attempt /\ AttemptOf(e).event = e /\ e # 0
          /\ AttemptOf(e).head = history[e].head
      BY <1>1, AttemptOfType DEF IInv, AttemptOf
    <3>2. \A n \in 1..Len(chain[w]) :
             /\ chain[w][n].head <= AttemptOf(e).head
             /\ IsEvent(w, n) => history[chain[w][n].event].updated <= history[e].updated
      BY <1>1, <2>2, <3>1, InOrderIsNewer
    <3>3. AttemptsOfEvents' /\ ChainIsOrdered' /\ ChainHasEvent'
      BY <1>1, <1>2, <2>2, <3>1, <3>2, AttemptKeepsOrder
    <3>4. MatchesCandidate(history[e], w)'
      <4>1. PICK n \in Nat : n \in 1..Len(chain'[w]) /\ chain'[w][n] = AttemptOf(e)
        <5>1. Len(chain'[w]) \in 1..Len(chain'[w]) /\ chain'[w][Len(chain'[w])] = AttemptOf(e)
          BY <1>1, <2>2, <3>1, AppendedChain DEF IInv
        <5> QED BY <5>1
      <4> QED BY <1>2, <3>1, <4>1 DEF MatchesCandidate, AttemptOf
    <3>5. \A v \in Workspace, f \in Sent :
             MatchesCandidate(history[f], v) => MatchesCandidate(history[f], v)'
      BY <1>1, <1>2, <2>2, <3>1, MatchStays DEF MatchesCandidate
    <3> QED BY <3>3, <3>4, <3>5
  <2> QED BY <1>3, <2>1, <2>2
<1>5. HistoryIsOrdered' /\ HistoryIsLinked'
  BY <1>2 DEF IOrder, HistoryIsOrdered, HistoryIsLinked, Sent
<1>6. AnsweredWithCandidate'
  <2> SUFFICES ASSUME NEW f \in Event, NEW v \in answered'[f]
               PROVE  f \in Sent /\ MatchesCandidate(history[f], v)'
    BY <1>2 DEF AnsweredWithCandidate, Sent
  <2>1. CASE f = e /\ v = w
    BY <1>1, <1>2, <1>4, <2>1
  <2>2. CASE v \in answered[f]
    <3>1. f \in Sent /\ MatchesCandidate(history[f], v) /\ v \in Workspace
      BY <2>2 DEF IInv, TypeOK, IOrder, AnsweredWithCandidate
    <3> QED BY <1>4, <3>1
  <2> QED BY <1>1, <1>2, <2>1, <2>2 DEF IInv, TypeOK
<1> QED BY <1>4, <1>5, <1>6 DEF IOrder

LEMMA InitOrder == Init => IOrder
BY DEF Init, IOrder, HistoryIsOrdered, HistoryIsLinked, AttemptsOfEvents, ChainIsOrdered,
       ChainHasEvent, HasLineage, AnsweredWithCandidate, Sent

LEMMA StepOrder ==
    ASSUME ~ ForcePush, IInv, IOrder, [Next]_vars
    PROVE  IOrder'
<1>1. CASE ConnectionStep /\ UNCHANGED <<history, worker, answered, chain>>
  BY <1>1, OrderStays
<1>2. CASE PullRequest
  BY <1>2, OpenKeepsOrder, SynchronizeKeepsOrder DEF PullRequest
<1>3. CASE \E x \in Worker, e \in Sent : Route(x, e)
  BY <1>3, OrderStays DEF Route
<1>4. CASE \E x \in Worker : Crash(x)
  BY <1>4, OrderStays DEF Crash
<1>5. CASE \E x \in Worker : createFromExternalIntake(x)
  BY <1>5, IntakeKeepsOrder
<1>6. CASE \E w \in Workspace : createRerun(w)
  BY <1>6, RerunKeepsOrder
<1>7. CASE UNCHANGED vars
  BY <1>7, OrderStays DEF vars
<1> QED BY <1>1, <1>2, <1>3, <1>4, <1>5, <1>6, <1>7 DEF Next, WorkerStep

\* Two events of the pull request have not both the head and the base of one another.
LEMMA CandidateTellsEvent ==
    ASSUME IInv, IOrder, NEW d \in Sent, NEW e \in Sent,
           history[d].head = history[e].head, history[d].base = history[e].base
    PROVE  d = e
<1>1. d < e \/ e < d \/ d = e
  BY EventFields DEF IInv
<1> QED BY <1>1, EventFields DEF IInv, IOrder, HistoryIsOrdered

\* The event of another attempt is not older than any that was answered with a run.
LEMMA NoOlderAttempt ==
    ASSUME IInv, IOrder, NEW w \in Workspace, NEW e \in Sent, InOrder(history[e], w),
           NEW f \in Event, f > e
    PROVE  w \notin answered[f]
<1> SUFFICES ASSUME w \in answered[f] PROVE FALSE
  OBVIOUS
<1>1. f \in Sent /\ MatchesCandidate(history[f], w)
  BY DEF IOrder, AnsweredWithCandidate
<1>2. PICK n \in 1..Len(chain[w]) :
         IsEvent(w, n) /\ chain[w][n].head = history[f].head /\ chain[w][n].base = history[f].base
  BY <1>1 DEF MatchesCandidate, IsEvent
<1>3. chain[w][n].event = f
  BY <1>1, <1>2, CandidateTellsEvent DEF IOrder, AttemptsOfEvents
<1>4. /\ history[e].head <= history[f].head /\ history[e].updated <= history[f].updated
      /\ history[e].head \in Nat /\ history[f].head \in Nat
      /\ history[e].updated \in Nat /\ history[f].updated \in Nat
  BY <1>1, EventFields DEF IInv, IOrder, HistoryIsOrdered
<1>5. HasLineage(w)
  BY <1>2 DEF IInv, TypeOK, HasLineage
<1>6. /\ FollowsHead(history[e], w)
      /\ \/ history[e].updated > pullRequestUpdatedAt(w)
         \/ history[e].head # latestAttempt(w).head
  BY <1>5 DEF InOrder, advancesCurrentHead
<1>7. history[f].head <= latestAttempt(w).head /\ latestAttempt(w).head \in Nat
  BY <1>2, <1>5, LatestHead
<1>8. latestAttempt(w).head <= history[e].head
  BY <1>6, FollowerIsNewer
<1>9. history[f].updated <= pullRequestUpdatedAt(w) /\ pullRequestUpdatedAt(w) \in Nat
  BY <1>2, <1>3, <1>5, UpdatedAtIsLatest
<1> QED BY <1>4, <1>6, <1>7, <1>8, <1>9

\* An attempt that no newer event, answered with a run before, should have prevented.
SupersedesOlder(w) ==
    Len(chain'[w]) > Len(chain[w]) =>
       LET e == latestAttempt(w).event'
       IN e # 0 => \A f \in e + 1..MaxEvents : w \notin answered[f]

LEMMA UnchangedSupersedes ==
    ASSUME TypeOK, NEW w \in Workspace, chain'[w] = chain[w]
    PROVE  SupersedesOlder(w)
BY DEF TypeOK, SupersedesOlder

LEMMA StepSupersedes ==
    ASSUME IInv, IOrder, [Next]_vars, NEW w \in Workspace
    PROVE  SupersedesOlder(w)
<1>1. CASE UNCHANGED chain
  BY <1>1, UnchangedSupersedes DEF IInv
<1>2. CASE \E x \in Worker : createFromExternalIntake(x)
  <2>1. PICK x \in Worker : createFromExternalIntake(x)
    BY <1>2
  <2>0. PICK e \in Event, v \in Workspace : worker[x].event = e /\ worker[x].workspace = v
    BY <2>1, BusyProgram DEF IInv, createFromExternalIntake
  <2>2. e \in Event /\ e \in Sent /\ v \in Workspace
    BY <2>0, <2>1 DEF IInv, WorkersGoHome, createFromExternalIntake
  <2>3. \/ UNCHANGED chain
        \/ /\ InOrder(history[e], v)
           /\ chain' = [chain EXCEPT ![v] = Append(@, AttemptOf(e))]
    BY <2>0, <2>1 DEF createFromExternalIntake, AttemptOf
  <2>4. CASE /\ InOrder(history[e], v)
             /\ chain' = [chain EXCEPT ![v] = Append(@, AttemptOf(e))]
    <3>1. AttemptOf(e) \in Attempt
      BY <2>2, AttemptOfType DEF IInv
    <3>2. CASE w # v
      BY <2>2, <2>4, <3>1, <3>2, AppendedChain, UnchangedSupersedes DEF IInv
    <3>3. CASE w = v
      <4>0. chain'[w][Len(chain'[w])] = AttemptOf(e)
        BY <2>2, <2>4, <3>1, <3>3, AppendedChain DEF IInv
      <4>1. latestAttempt(w).event' = e
        BY <4>0 DEF latestAttempt, AttemptOf
      <4>2. \A f \in Event : f > e => w \notin answered[f]
        BY <2>2, <2>4, <3>3, NoOlderAttempt
      <4>3. \A f \in e + 1..MaxEvents : f \in Event /\ f > e
        BY <2>2, IntakeConstants DEF Event
      <4> QED BY <4>1, <4>2, <4>3 DEF SupersedesOlder
    <3> QED BY <3>2, <3>3
  <2> QED BY <1>1, <2>3, <2>4
<1>3. CASE \E v \in Workspace : createRerun(v)
  <2>1. PICK v \in Workspace : createRerun(v)
    BY <1>3
  <2> DEFINE attempt == [latestAttempt(v) EXCEPT !.event = 0]
  <2>2. /\ attempt \in Attempt /\ attempt.event = 0
        /\ chain' = [chain EXCEPT ![v] = Append(@, attempt)]
    BY <2>1, RerunAttempt DEF IInv, createRerun
  <2> HIDE DEF attempt
  <2>3. CASE w # v
    BY <2>2, <2>3, AppendedChain, UnchangedSupersedes DEF IInv
  <2>4. CASE w = v
    <3>0. chain'[w][Len(chain'[w])] = attempt
      BY <2>2, <2>4, AppendedChain DEF IInv
    <3>1. latestAttempt(w).event' = 0
      BY <2>2, <3>0 DEF latestAttempt
    <3> QED BY <3>1 DEF SupersedesOlder
  <2> QED BY <2>3, <2>4
<1> QED BY <1>1, <1>2, <1>3 DEF Next, PullRequest, WorkerStep, Open, Synchronize, Route, Crash, vars

\* An out-of-order event never supersedes the current candidate: once a newer event of
\* the pull request was answered with a run, no older one gets another attempt.  It
\* needs a branch that never goes back to a commit it had; for one that does, TLC finds
\* the older event that gets one.
THEOREM SupersededInOrder ==
    ASSUME ~ ForcePush
    PROVE  Spec => SupersededOnlyByNewer
<1>1. Init => IInv /\ IOrder
  BY InitInvariant, InitOrder
<1>2. IInv /\ IOrder /\ [Next]_vars => IInv' /\ IOrder'
  BY StepInvariant, StepOrder
<1>3. IInv /\ IOrder /\ [Next]_vars => \A w \in Workspace : SupersedesOlder(w)
  BY StepSupersedes
<1>4. (\A w \in Workspace : SupersedesOlder(w)) =>
         [\A w \in Workspace :
            Len(chain'[w]) > Len(chain[w]) =>
               LET e == latestAttempt(w).event'
               IN e # 0 => \A f \in e + 1..MaxEvents : w \notin answered[f]]_vars
  BY DEF SupersedesOlder
<1> QED BY <1>1, <1>2, <1>3, <1>4, PTL DEF Spec, SupersededOnlyByNewer

=============================================================================
