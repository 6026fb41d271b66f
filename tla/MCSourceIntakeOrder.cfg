\* The branch is forced back to a commit it had, a second or more between pushes.
CONSTANTS
    configured = configured
    connecting = connecting
    app = app
    Workspace = {configured, connecting}
    NoWorkspace = NoWorkspace
    Installation = {app}
    NoInstallation = NoInstallation
    Repository = {r}
    Intent = {m}
    Controls <- MCControls
    PullRequested = r
    Fallback = configured
    Worker = {x}
    Allowlisted = TRUE
    ForcePush = TRUE
    SameSecond = FALSE
    MaxEvents = 3
    MaxBases = 1
    MaxAttempts <- MCMaxAttempts
SPECIFICATION Spec
SYMMETRY Symmetry
PROPERTY SupersededOnlyByNewer
