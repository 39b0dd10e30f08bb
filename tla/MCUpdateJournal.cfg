CONSTANTS
    Procs = {p1, p2}
    Nobody = Nobody
    MaxGen = 4
SPECIFICATION Spec
SYMMETRY ProcSymmetry
INVARIANTS
    AckedSurvives
PROPERTIES
    NoStaleContinuation
    CellSpec
