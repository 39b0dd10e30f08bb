CONSTANTS
    Jobs = {j1, j2}
    Reqs = {r1, r2}
    Alike = {r1, r2}
    Nothing = Nothing
    MaxGen = 1
    Redirected = j1
    MaxHops <- MCMaxHops
SPECIFICATION FairSpec
INVARIANTS
    FrameAlive
    BuffersHeld
    OneJob
PROPERTIES
    SettledStays
    JobsEnd
CHECK_DEADLOCK FALSE
