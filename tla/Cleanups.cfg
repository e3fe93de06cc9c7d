SPECIFICATION StronglyFairSpec
CONSTANTS
    Documents = {d1}
    Versions <- ThreeVersions
    Hashes = {h1, h2}
    Chunks = {c1}
    Workers = {}
    Cleaners = {k1, k2}
    Uploaders = {u1, u2}
    Deleters = {r1}
    MaxAttempts = 1
    FaultKinds = {}
    MaxFaults = 0
    MaxCleanups = 1
    IndexAtStart = {TRUE, FALSE}
    None = None
PROPERTIES DeletingIsPurged RequestsFinish
