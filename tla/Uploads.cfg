SPECIFICATION Spec
CONSTANTS
    Documents = {d1, d2}
    Versions <- ThreeVersions
    Hashes = {h1, h2}
    Chunks = {c1}
    Workers = {w1}
    Cleaners = {}
    Uploaders = {u1, u2}
    Deleters = {r1}
    MaxAttempts = 1
    FaultKinds = {"storage"}
    MaxFaults = 1
    MaxCleanups = 1
    IndexAtStart = {TRUE}
    None = None
SYMMETRY Symmetry
INVARIANTS SourceKept OrphansCostFaults
PROPERTIES KeepsServing
