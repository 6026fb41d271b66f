\* Two attempts; two publishers meet at every step, and one follows another.  Octokit
\* would repeat a request three times; once makes two copies of it.
CONSTANTS
    Publisher = {p1, p2}
    NoPublisher = NoPublisher
    Verdict = {"approved"}
    MaxResends = 1
    MaxAttempts = 2
SPECIFICATION Spec
SYMMETRY Symmetry
CHECK_DEADLOCK FALSE
INVARIANTS
    TypeOK
    OneCreator
    PublishedIsTrue
    SuccessIsEarned
    RerunWaits
PROPERTY NoStaleWrite
