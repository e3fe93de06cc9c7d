SPECIFICATION SystemSpec
CONSTANTS
    Documents = {d1}
    Versions <- TwoVersions
    Hashes = {h1, h2}
    Chunks <- OneChunk
    Workers = {w1}
    Cleaners = {k1}
    Uploaders = {u1}
    Deleters = {r1}
    Readers = {q1}
    MaxAttempts = 1
    FaultKinds = {}
    MaxFaults = 0
    MaxCleanups = 1
    IndexAtStart = {TRUE}
    RrfK = 1
    FusedTopK = 1
    RerankTopN = 1
    MaxItems = 1
    TokenBudget = 5
    TextSize <- Sizes
    TopK = 1
    MaxInFlight = 1
    None = None
INVARIANTS ActiveIsReady QueryTypeOK OneVersionPerDocument RowsAreFound
PROPERTIES CorpusSpec
SYMMETRY HashSymmetry
