CONSTANTS
    Requirement = {build, test}
    Required = {build}
    NoRequirement = none
    build = build
    test = test
SPECIFICATION FairSpec
CHECK_DEADLOCK FALSE
INVARIANTS
    TypeOK
    ClosedHasResult
    PassedIsTrusted
    DecidedOnFinalResults
    RecoveredIsComplete
PROPERTIES
    ClosedForGood
    ImplementsOutcome
    StartedGroupEnds
