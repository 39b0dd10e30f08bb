CONSTANTS
    N = 2
    Content = {c1, c2}
    c1 = c1
    c2 = c2
    Absent = Absent
    Foreign = Foreign
    MaxTxn = 2
    MaxCrashes = 1
    MaxEdits = 0
    MaxFaults = 1
    TornStage = FALSE
SPECIFICATION FairSpec
INVARIANTS
    NeverUnwritable
PROPERTIES
    OrphansOnlyUnnamed
    Settles
