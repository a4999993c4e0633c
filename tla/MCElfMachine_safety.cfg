SPECIFICATION Spec
CONSTANTS
    VM = {v1, v2}
    Task = {t1, t2, t3}
    None = None
    Dup = TRUE
    Graceful = TRUE
    FaultKinds = {"stale", "patch", "api", "taskfail", "user", "edit", "wait", "force"}
    MaxFaults = 2
SYMMETRY Symmetry
INVARIANTS TypeOK OneOperationPerVM NoRunningVMDestroyed
CHECK_DEADLOCK FALSE
