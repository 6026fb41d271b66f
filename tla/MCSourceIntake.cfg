\* Two installation flows; three events, of which every head is a new commit.
CONSTANTS
    configured = configured
    connecting = connecting
    app = app
    Workspace = {configured, connecting}
    NoWorkspace = NoWorkspace
    Installation = {app}
    NoInstallation = NoInstallation
    Repository = {r}
    Intent = {m, n}
    Controls <- MCControls
    PullRequested = r
    Fallback = configured
    Worker = {x}
    Allowlisted = TRUE
    ForcePush = FALSE
    SameSecond = TRUE
    MaxEvents = 3
    MaxBases = 2
    MaxAttempts <- MCMaxAttempts
SPECIFICATION Spec
SYMMETRY Symmetry
INVARIANTS
    TypeOK
    RoutesToController
    RunsStayHome
    BoundOnce
PROPERTY SupersededOnlyByNewer
