CONSTANTS
    Procs = {p1, p2}
    Requests = {r1, r2, r3}
    Nobody = Nobody
    Absent = Absent
    Torn = Torn
    MaxInstalls = 2
    MaxEdits = 2
    MaxFaults = 2
    MaxGen = 16
SPECIFICATION Spec
SYMMETRY MCSymmetry
INVARIANTS
    NeverBothPending
    DeletesOnce
    GapOnRecord
    OthersKept
    RefusedOnlyWhen
CHECK_DEADLOCK FALSE
