SPECIFICATION Spec
CONSTANTS
    p1 = p1
    p2 = p2
    kernel = kernel
    drivers = drivers
    Procs = {p1}
    Pkgs = {kernel, drivers}
    Kernel = kernel
    Ver = ver
    Recovery = recovery
    Nobody = nobody
    Absent = absent
    Torn = torn
    MaxFaults = 2
INVARIANTS
    PreparingUnbound
