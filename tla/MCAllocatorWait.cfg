CONSTANTS
    Threads = {t1, t2, t3}
    Nobody = Nobody
    MaxRefs = 2
    StoreBuffer = TRUE
SPECIFICATION Spec
SYMMETRY ThreadSymmetry
INVARIANTS
    TicketKeepsHandle
    VmTokenKept
    SleepsForVm
