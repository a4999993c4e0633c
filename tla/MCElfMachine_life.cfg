SPECIFICATION FairSpec
CONSTANTS
    VM = {v1, v2}
    Task = {t1, t2}
    None = None
    Dup = FALSE
    Graceful = TRUE
    FaultKinds = {"crash", "api", "taskfail", "purge", "disconnect", "patch"}
    MaxFaults = 2
INVARIANTS NoOrphanVM
PROPERTIES ImplementsLife NeverForgetsVM DeletionCompletes ProvisioningCompletes
CHECK_DEADLOCK FALSE
