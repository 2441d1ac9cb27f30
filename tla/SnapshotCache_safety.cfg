\* Two regions polled together, two handler threads, a crash at any point, in the midst of a write as well.
SPECIFICATION Spec
CONSTANTS
    kA = kA
    kB = kB
    h1 = h1
    h2 = h2
    j1 = j1
    j2 = j2
    j3 = j3
    Keys = {kA, kB}
    Requests <- TwoKeys
    Handlers = {h1, h2}
    JobIds = {j1, j2, j3}
    Workers = 1
    TTL = 1
    DiskFaults = FALSE
    TornWrites = TRUE
    MaxCrashes = 1
    NoSnap = NoSnap
    NoJob = NoJob
    NoHandler = NoHandler
SYMMETRY Symmetry
INVARIANTS TypeOK OneCollectionPerKey DiskBacksMemory
PROPERTIES NeverShowsOlder ImplementsFeed ImplementsApi LostOnlyIfUnseen
