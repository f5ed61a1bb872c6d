\* The review with and without the advanced stages; a tool is missing; workers die.
CONSTANTS
    w1 = w1
    w2 = w2
    Workers = {w1, w2}
    None = None
    Required = {"static", "clamav", "yara", "category"}
    Ready = {"static", "clamav", "yara"}
    Modes = {TRUE, FALSE}
    FailClosed = FALSE
    AutoApprove = TRUE
    Attempts = 2
    MaxRetries = 0
    Events = {"crash", "pause", "refusal", "person"}
    MaxEvents = 1
SPECIFICATION Spec
SYMMETRY WorkerSymmetry
INVARIANTS TypeOK ManualApprovalEndsReview
PROPERTIES ImplementsReviewContract
CHECK_DEADLOCK FALSE
