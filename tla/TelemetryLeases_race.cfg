\* Two requests enable telemetry for one VCN at the same time.
SPECIFICATION LiveSpec
CONSTANTS
    vA = vA
    vB = vB
    i1 = i1
    i2 = i2
    i3 = i3
    r1 = r1
    r2 = r2
    Vcns = {vA}
    LogIds = {i1, i2}
    Requests = {r1, r2}
    Sweeper = Sweeper
    MaxLease = 1
    CloudFaults = FALSE
    DiskFaults = FALSE
    TornWrites = FALSE
    Crashes = FALSE
    NoLog = NoLog
    NoVcn = NoVcn
PROPERTIES IngestionStops
