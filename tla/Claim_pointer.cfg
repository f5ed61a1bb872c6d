SPECIFICATION Spec
CONSTANTS
    a1 = a1
    a2 = a2
    v1 = v1
    v2 = v2
    w1 = w1
    w2 = w2
    None = None
    Gone = Gone
    Artifacts = {a1}
    Workers = {w1, w2}
    Versions = {v1}
    VersionOf <- OneVersion
    MaxAttempts = 2
    BatchLimit = 1
    MaxRetries = 1
    MaxRevokes = 1
    MaxGeneration = 0
    Events = {"fault"}
    MaxEvents = 1
CHECK_DEADLOCK FALSE
INVARIANT StablePointerHasObject
