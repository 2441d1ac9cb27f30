\* Two jobs of one request that share the inventory service.
SPECIFICATION Spec
CONSTANTS
    rA = rA
    rB = rB
    routeTables = routeTables
    securityLists = securityLists
    Regions = {rA, rB}
    Types = {routeTables, securityLists}
    Plan <- SomeListings
    AnyType = AnyType
SYMMETRY Symmetry
INVARIANTS NoForeignBlame OneView UndisturbedReports WarningsHaveCauses ReadyIsClean ZeroIsZero
