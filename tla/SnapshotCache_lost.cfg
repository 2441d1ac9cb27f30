\* A job that finishes between the two calls of done().
SPECIFICATION Spec
CONSTANTS
    kA = kA
    kB = kB
    h1 = h1
    h2 = h2
    j1 = j1
    j2 = j2
    j3 = j3
    Keys = {kA}
    Requests <- SingleKey
    Handlers = {h1, h2}
    JobIds = {j1, j2}
    Workers = 1
    TTL = 0
    DiskFaults = FALSE
    TornWrites = FALSE
    MaxCrashes = 0
    NoSnap = NoSnap
    NoJob = NoJob
    NoHandler = NoHandler
PROPERTY CompletedIsInstalled
