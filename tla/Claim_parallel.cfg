\* A scanner fails for the first time while its parallel one goes on.
CONSTANTS
    w1 = w1
    w2 = w2
    Workers = {w1, w2}
    None = None
    Required = {"static", "clamav", "yara", "dependency"}
    Ready = {"static", "clamav", "yara", "dependency"}
    Modes = {TRUE}
    FailClosed = TRUE
    AutoApprove = TRUE
    Attempts = 2
    MaxRetries = 0
    Events = {"outage"}
    MaxEvents = 1
SPECIFICATION Spec
INVARIANT RouteWaitsForStages
CHECK_DEADLOCK FALSE
