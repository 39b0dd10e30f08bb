CONSTANTS
    Threads = {t1, t2}
    Nobody = Nobody
    MaxRefs = 2
    StoreBuffer = FALSE
SPECIFICATION FairSpec
PROPERTIES
    WakesUp
