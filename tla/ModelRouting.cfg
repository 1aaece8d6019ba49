SPECIFICATION FairSpec
CONSTANTS
    t1 = t1
    t2 = t2
    t3 = t3
    Threads = {t1, t2, t3}
    Threshold = 2
    Cooldown = 2
    CpuSlots = 1
    HasGpu = TRUE
    HasCpu = TRUE
INVARIANTS
    CpuLoadBounded
PROPERTIES
    BreakerRecovers
