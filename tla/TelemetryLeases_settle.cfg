\* Requests, sweeps, faults, torn writes and crashes, in any interleaving.
SPECIFICATION LiveSpec
CONSTANTS
    vA = vA
    vB = vB
    i1 = i1
    i2 = i2
    i3 = i3
    r1 = r1
    r2 = r2
    Vcns = {vA, vB}
    LogIds = {i1, i2}
    Requests = {r1}
    Sweeper = Sweeper
    MaxLease = 1
    CloudFaults = TRUE
    DiskFaults = TRUE
    TornWrites = TRUE
    Crashes = TRUE
    NoLog = NoLog
    NoVcn = NoVcn
INVARIANTS TypeOK UniqueLeases EnabledLogsAreLeased LeasesAreHonoured
PROPERTIES ImplementsBook LeasesSettle IngestionStopsIfOrderly
