SPECIFICATION FairRunnerSpec
CONSTANTS
    r1 = r1
    r2 = r2
    w1 = w1
    w2 = w2
    None = None
    Runners = {r1}
    Workers = {w1}
    MaxAttempts = 1
    JobAttempts = 2
    MaxPolls = 1
    ClaimLimit = 1
    MaxRetries = 0
    Events = {"crash", "elsewhere"}
    MaxEvents = 2
CHECK_DEADLOCK FALSE
PROPERTIES DispatchesEnd
