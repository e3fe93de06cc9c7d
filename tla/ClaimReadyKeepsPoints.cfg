SPECIFICATION Spec
CONSTANTS
    Documents = {d1}
    Versions <- OneVersion
    Hashes = {h1}
    Chunks = {c1}
    Workers = {w1}
    Cleaners = {k1}
    Uploaders = {u1}
    Deleters = {r1}
    MaxAttempts = 1
    FaultKinds = {}
    MaxFaults = 0
    MaxCleanups = 1
    IndexAtStart = {TRUE}
    None = None
SYMMETRY Symmetry
INVARIANTS ReadyKeepsPoints
