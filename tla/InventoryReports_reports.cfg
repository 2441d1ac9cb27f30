\* Reports of a region that changes while it is read, with calls that fail.
SPECIFICATION Spec
CONSTANTS
    vA = vA
    vB = vB
    subnet = subnet
    igw = igw
    drg = drg
    table = table
    list = list
    group = group
    anywhere = anywhere
    office = office
    Elsewhere = Elsewhere
    NoId = NoId
    NoVcn = NoVcn
    Vcns = {vA, vB}
    Subnets = {subnet}
    Gateways = {igw, drg}
    RouteTables = {table}
    SecurityGuards = {list, group}
    Destinations = {anywhere, office}
    DefaultRoutes = {anywhere}
    Resources <- SomeResources
    Starts <- SomeStarts
    MaxChanges = 1
    MaxFailed = 1
INVARIANTS UnresolvedIsMissing GoodStatusIsEarned PostureIsComplete RoutesAreDrawn GraphIsWhole
