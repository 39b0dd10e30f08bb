CONSTANTS
    N = 2
    Content = {c1, c2}
    c1 = c1
    c2 = c2
    Absent = Absent
    Foreign = Foreign
    MaxTxn = 2
    MaxCrashes = 1
    MaxEdits = 1
    MaxFaults = 1
    TornStage = TRUE
SPECIFICATION Spec
SYMMETRY ContentSymmetry
INVARIANTS
    JournalTruth
PROPERTIES
    RotatesOnlyApplied
    ForeignKept
