\* One publisher of one attempt, whose client may send a request again.
CONSTANTS
    Publisher = {p1}
    NoPublisher = NoPublisher
    Verdict = {"approved"}
    MaxResends = 1
    MaxAttempts = 1
SPECIFICATION Spec
CHECK_DEADLOCK FALSE
INVARIANT OneObject
