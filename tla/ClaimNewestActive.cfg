SPECIFICATION Spec
CONSTANTS
    Documents = {d1}
    Versions <- TwoVersions
    Hashes = {h1, h2}
    Chunks = {c1}
    Workers = {w1, w2}
    Cleaners = {}
    Uploaders = {u1}
    Deleters = {}
    MaxAttempts = 1
    FaultKinds = {}
    MaxFaults = 0
    MaxCleanups = 1
    IndexAtStart = {TRUE}
    None = None
SYMMETRY Symmetry
PROPERTIES NewestActive
