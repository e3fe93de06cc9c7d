SPECIFICATION AtRestSpec
CONSTANTS
    Documents = {d1, d2}
    Versions <- TwoVersions
    Hashes = {h1, h2}
    Chunks <- TwoChunks
    Workers = {w1}
    Cleaners = {}
    Uploaders = {u1}
    Deleters = {}
    Readers = {q1}
    MaxAttempts = 1
    FaultKinds = {}
    MaxFaults = 0
    MaxCleanups = 1
    IndexAtStart = {TRUE}
    RrfK = 1
    FusedTopK = 3
    RerankTopN = 3
    MaxItems = 2
    TokenBudget = 5
    TextSize <- Sizes
    TopK = 3
    MaxInFlight = 1
    None = None
INVARIANTS FusionIsFair EvidenceIsFull AnsweredIsGrounded
