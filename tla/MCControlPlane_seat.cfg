SPECIFICATION FairSpec
CONSTANTS
    Host = {h1, h2}
    Replicas = 2
    MaxMachine = 6
    Room = 2
    FaultKinds = {}
    MaxFaults = 0
PROPERTIES EmptySeat
CHECK_DEADLOCK FALSE
