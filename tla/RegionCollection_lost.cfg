\* A job starts while another one has failed listings.
SPECIFICATION Spec
CONSTANTS
    rA = rA
    rB = rB
    routeTables = routeTables
    securityLists = securityLists
    Regions = {rA, rB}
    Types = {routeTables, securityLists}
    Plan <- SomeListings
    AnyType = AnyType
SYMMETRY Symmetry
INVARIANTS FailuresAreReported
