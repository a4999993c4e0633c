SPECIFICATION FairSpec
CONSTANTS
    m1 = m1  m2 = m2
    h1 = h1  h2 = h2
    g1 = g1  g2 = g2  g3 = g3
    Machine = {m1, m2}
    GPU = {g1, g2, g3}
    Host = {h1, h2}
    HostOf <- VGPUHostOf
    Cap <- VGPUCap
    Need <- VGPUNeed
    Passthrough = FALSE
    FaultKinds = {"patch", "api", "taskfail", "user", "crash", "expire", "memory", "delete"}
    MaxFaults = 2
INVARIANTS TypeOK LockedWithinCapacity TasksWithinCapacity
PROPERTIES EveryVMRuns
CHECK_DEADLOCK FALSE
