\* Two regions, one of which is in DEMO_DATA; a failure; /demodata.
SPECIFICATION LiveSpec
CONSTANTS
    rA = rA
    rB = rB
    rC = rC
    Regions = {rA, rB}
    Subscribed = {rA, rB}
    Ready = {rA, rB}
    Known = {rA}
    Configured = {rA}
    DemoRegions = {rA}
    Paths = {TRUE, FALSE}
    MaxFaults = 1
    NoRegion = NoRegion
INVARIANTS PollsWhileCollecting ScopeIsKept
PROPERTIES PageCatchesUp
