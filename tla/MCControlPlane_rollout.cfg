SPECIFICATION FairSpec
CONSTANTS
    Host = {h1, h2}
    Replicas = 2
    MaxMachine = 6
    Room = 2
    FaultKinds = {"down", "taskfail", "crash", "patch"}
    MaxFaults = 1
INVARIANTS TypeOK
PROPERTIES MigratesLast RolloutCompletes
CHECK_DEADLOCK FALSE
