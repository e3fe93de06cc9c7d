SPECIFICATION Spec
CONSTANTS
    Documents = {d1}
    Versions <- OneVersion
    Hashes = {h1}
    Chunks = {c1}
    Workers = {w1, w2}
    Cleaners = {k1, k2}
    Uploaders = {u1}
    Deleters = {r1}
    MaxAttempts = 3
    FaultKinds = {"crash", "timeout", "qdrant", "storage", "redis"}
    MaxFaults = 2
    MaxCleanups = 1
    IndexAtStart = {FALSE}
    None = None
SYMMETRY Symmetry
INVARIANTS TypeOK SingleIngestion PublishedIsSucceeded SearchableIsIndexed OnlyErrorsLoseWork
PROPERTIES LifecycleSteps
