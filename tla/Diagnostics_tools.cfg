\* A page that uses either of its two diagnostic tools.
SPECIFICATION Spec
CONSTANTS
    c1 = c1
    c2 = c2
    h = h
    a = a
    Compartments = {c1, c2}
    Tenancy = Tenancy
    MaxEvents = 2
    CallTime = 1
    Wait = 1
    Regions = {h, a}
    Kinds = {vcns, Groups}
    Groups = Groups
    Rules = Rules
    MaxRevokes = 1
INVARIANTS CheckTypeOK VerdictsAreTrue HandlersReturnInTime AnswerIsShown PassIsReliable
PROPERTIES ChecksReturn
