\* Progress of one polled key, with files that fail and tear; no symmetry, as the property is temporal.
SPECIFICATION LiveSpec
CONSTANTS
    kA = kA
    kB = kB
    h1 = h1
    h2 = h2
    j1 = j1
    j2 = j2
    j3 = j3
    Keys = {kA}
    Requests <- SingleKey
    Handlers = {h1, h2}
    JobIds = {j1, j2}
    Workers = 1
    TTL = 0
    DiskFaults = TRUE
    TornWrites = TRUE
    MaxCrashes = 1
    NoSnap = NoSnap
    NoJob = NoJob
    NoHandler = NoHandler
INVARIANT NoOrphanJob
PROPERTIES CollectionCompletes FailuresHeal
