SPECIFICATION Spec
CONSTANTS
    a1 = a1
    a2 = a2
    v1 = v1
    v2 = v2
    w1 = w1
    w2 = w2
    None = None
    Gone = Gone
    Artifacts = {a1, a2}
    Workers = {w1}
    Versions = {v1, v2}
    VersionOf <- TwoVersions
    MaxAttempts = 1
    BatchLimit = 1
    MaxRetries = 0
    MaxRevokes = 1
    MaxGeneration = 1
    Events = {"sync", "resume", "listing"}
    MaxEvents = 2
CHECK_DEADLOCK FALSE
PROPERTIES ReleaseFitsPlugin
