SPECIFICATION FairSpec
CONSTANTS
    zoneA = zoneA  zoneB = zoneB  NoCluster = NoCluster
    Machine = {m1}
    Domains <- OneDomain
    FaultKinds = {"force"}
    MaxFaults = 1
PROPERTIES ForceDeleteCompletes
CHECK_DEADLOCK FALSE
