SPECIFICATION FairSpec
CONSTANTS
    r1 = r1
    r2 = r2
    w1 = w1
    w2 = w2
    None = None
    Runners = {r1}
    Workers = {w1}
    MaxAttempts = 2
    JobAttempts = 2
    MaxPolls = 1
    ClaimLimit = 2
    MaxRetries = 1
    Events = {"crash", "shutdown", "stall", "storage", "outage", "unseen", "elsewhere", "approve"}
    MaxEvents = 1
CHECK_DEADLOCK FALSE
INVARIANTS OneOpenDispatch
PROPERTIES RunsSettle
