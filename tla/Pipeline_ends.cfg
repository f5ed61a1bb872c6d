\* Parallel scanners, failures that are final, a new version, a manual retry.
CONSTANTS
    w1 = w1
    w2 = w2
    Workers = {w1, w2}
    None = None
    Required = {"static", "clamav", "yara", "dependency"}
    Ready = {"static", "clamav", "yara", "dependency"}
    Modes = {TRUE}
    FailClosed = TRUE
    AutoApprove = TRUE
    Attempts = 1
    MaxRetries = 1
    Events = {"outage", "refusal", "release"}
    MaxEvents = 1
SPECIFICATION FairSpec
INVARIANT SkipHasCause
PROPERTY ReviewEnds
CHECK_DEADLOCK FALSE
