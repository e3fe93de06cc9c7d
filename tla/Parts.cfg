SPECIFICATION PartsSpec
CONSTANTS
    Target = 4
    Overlap = 2
    Chars = 6
    Documents <- MCDocuments
    Ingestions = {1, 2, 3}
    Fields = {f1, f2}
    Dimension <- MCDimension
    Existing <- MCExisting
    MaxTries = 3
    MaxCallFaults = 1
    Clients = {c1, c2, c3}
    Nobody = Nobody
    Datasets <- MCDatasets
    CorpusSize = 3
    Gain <- MCGain
    RrfK = 1
    FusedTopK = 2
    RerankTopN = 2
    MaxItems = 2
    TokenBudget = 5
    TextSize <- OneToken
    Callers = {q1, q2, q3}
    Workforce = {t1, t2}
    Connections = 2
    InFlight = 1
    Free = Free
    Stray = Stray
    ShadowEnabled = TRUE
INVARIANTS
    PartsTypeOK CallsWaitForStrays
    NothingIsLost ChunksFit ReadingOrder
    IndexedIsWhole RaceCostsOneAttempt
    FirstRequestsAreServed
    ReportIsSound
PROPERTIES WindowsAdvance IngestionsSettle FirstRequestsEnd 
