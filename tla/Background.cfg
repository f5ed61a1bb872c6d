\* Every worker on its own; Troubles, faults, breaks and upsets are what may go wrong.
CONSTANTS
    Foci = {"outbox", "cdn", "containers"}
    Unused = Unused
    Messages = {1, 2}
    Users = {u1, u2}
    Dispatchers = {1, 2}
    Nobody = Nobody
    Batch = 2
    Tries = 2
    MaxTroubles = 2
    Syncers = {s1}
    Reviewers = {1}
    Owners = {o1, o2}
    Versions = {1, 2}
    MaxGen = 2
    MaxFaults = 1
    Attempts = {1, 2}
    Runners = {1, 2}
    NoAttempt = NoAttempt
    MaxBreaks = 2
SPECIFICATION FairSpec
INVARIANTS TypeOK ReportedCleanIsClean
PROPERTIES DeliveredHasReachedAll 
CHECK_DEADLOCK FALSE
