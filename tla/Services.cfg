\* Every service on its own; sets of the same size share their members.
CONSTANTS
    p1 = p1
    p2 = p2
    q1 = q1
    q2 = q2
    r1 = r1
    r2 = r2
    t1 = t1
    Foci = {"accounts", "listing", "community", "policies", "discussion", "uploads", "workspace", "cdn", "llm", "scope", "category", "malware", "history"}
    Unused = Unused
    Identities = {p1, p2}
    Internals = {root}
    Tokens = {q1, q2}
    Requests = {r1, r2}
    Nobody = Nobody
    Authors = {p1, p2}
    Names = {q1, q2}
    Spare = {x1}
    Repos = {r1, r2}
    Writers = {w1}
    None = None
    MaxTickets = 2
    Comments = {q1, q2}
    Readers = {p1, p2}
    Missing = Missing
    Policies = {d1, d2}
    NoPolicy = NoPolicy
    Drafted = {d1}
    Calls = {p1, p2, t1}
    Reviewed = {a1}
    MaxUpsets = 1
    Threads = {c1}
    Asks = {p1, p2}
    Releases = {v1, v2}
    NoRelease = NoRelease
    MaxRepeats = 1
    MaxTurns = 2
    Uploads = {p1, p2}
    Packages = {q1, q2}
    NoUpload = NoUpload
    MaxMishaps = 2
    Artifacts = {p1, p2}
    Nowhere = Nowhere
    Files = {q1, q2}
    Slots = {r1, r2}
    Pages = 2
    CacheLimit = 1
    MaxReads = 3
    MaxMoves = 2
    MaxVersion = 2
    Syncers = {s1}
    Reviewers = {1, 2}
    Owners = {o1}
    Versions = {1, 2}
    MaxGen = 2
    MaxFaults = 1
    Sources = {1, 2}
    Askers = {1, 2}
    NoAsker = NoAsker
    Trials = {1, 2}
    Limit = 4
    Reserve = 1
    Need = 1
    MaxFiles = 2
    MaxSlips = 1
    Order <- ScopeOrder
    ModuleOf <- ScopeModule
    Inits <- ScopeInits
    Above <- ScopeAbove
    Trees <- ScopeTrees
    ImportsOf <- ScopeImports
    Entrypoints <- ScopeEntries
    MaxText = 4
    MaxHunks = 3
    Analysts = {1, 2}
    Rounds = {1, 2}
    Tries = {1, 2}
    MaxSetbacks = 1
    Official = {q1, q2}
    MaxChanges = 2
    Parcels <- MalwareParcels
    MaxTargets = 2
    FileRoom = 2
    TotalRoom = 3
    MaxHits = 2
    Bases = {1, 2}
    Passes = {1, 2}
    MaxLapses = 1
    Entries = {1, 2, 3}
    PageRoom = 1
    EventLimit = 2
    MaxHour = 2
    MaxSaid = 3
SPECIFICATION Spec
SYMMETRY ServiceSymmetry
INVARIANTS TypeOK
    PublicationIsTheSubmitters OwnersAndAdminsStay PoliciesAddUp ThreadsAddUp
    PackagesAreKept SubmittedIsReviewed  ScopeIsWhole
PROPERTIES LogoutEndsAccess   WithdrawalIsWarranted
    ReadersSeeTheReview ModelKeepsChoices
CHECK_DEADLOCK FALSE
