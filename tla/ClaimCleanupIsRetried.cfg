SPECIFICATION Spec
CONSTANTS
    Documents = {d1}
    Versions <- TwoVersions
    Hashes = {h1, h2}
    Chunks = {c1}
    Workers = {}
    Cleaners = {k1, k2}
    Uploaders = {u1}
    Deleters = {r1, r2}
    MaxAttempts = 1
    FaultKinds = {}
    MaxFaults = 0
    MaxCleanups = 1
    IndexAtStart = {TRUE}
    None = None
SYMMETRY Symmetry
INVARIANTS CleanupIsRetried
