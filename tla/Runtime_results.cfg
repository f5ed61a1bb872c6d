SPECIFICATION Spec
CONSTANTS
    r1 = r1
    r2 = r2
    w1 = w1
    w2 = w2
    None = None
    Runners = {r1}
    Workers = {w1, w2}
    MaxAttempts = 2
    JobAttempts = 2
    MaxPolls = 1
    ClaimLimit = 2
    MaxRetries = 0
    Events = {"crash", "shutdown", "stall", "storage", "pause", "outage", "unseen", "elsewhere", "approve"}
    MaxEvents = 2
CHECK_DEADLOCK FALSE
INVARIANTS TypeOK CreditIsEarned ApprovalEndsRuntime CompletedResultIsStored
PROPERTIES ImplementsRuntimeContract
SYMMETRY Symmetric
