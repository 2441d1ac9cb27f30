\* Posts that overlap, downloads and uploads that fail, and crashes.
SPECIFICATION Spec
CONSTANTS
    a1 = a1
    a2 = a2
    a3 = a3
    a4 = a4
    t1 = t1
    t2 = t2
    Actions = {a1, a2, a3, a4}
    Threads = {t1, t2}
    MaxCrashes = 1
    NoAction = NoAction
SYMMETRY Symmetry
INVARIANTS HistoryInOrder RetainedWhileAlone
PROPERTIES ArchiveWhileAlone
