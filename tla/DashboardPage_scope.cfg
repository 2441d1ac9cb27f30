\* Two regions, one of which is in DEMO_DATA, and a failure.
SPECIFICATION Spec
CONSTANTS
    rA = rA
    rB = rB
    rC = rC
    Regions = {rA, rB}
    Subscribed = {rA, rB}
    Ready = {rA, rB}
    Known = {rA}
    Configured = {rA}
    DemoRegions = {rA}
    Paths = {FALSE}
    MaxFaults = 1
    NoRegion = NoRegion
INVARIANTS ScopeIsStored
