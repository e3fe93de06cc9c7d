SPECIFICATION FairSystemSpec
CONSTANTS
    Documents = {d1}
    Versions <- OneVersion
    Hashes = {h1}
    Chunks <- OneChunk
    Workers = {w1, w2}
    Cleaners = {}
    Uploaders = {u1}
    Deleters = {r1}
    Readers = {q1, q2}
    MaxAttempts = 2
    FaultKinds = {}
    MaxFaults = 0
    MaxCleanups = 1
    IndexAtStart = {TRUE}
    RrfK = 1
    FusedTopK = 1
    RerankTopN = 1
    MaxItems = 1
    TokenBudget = 5
    TextSize <- Sizes
    TopK = 1
    MaxInFlight = 1
    None = None
PROPERTIES PendingJobSettles QueriesFinish
