SPECIFICATION FairSpec
CONSTANTS
    zoneA = zoneA  zoneB = zoneB  NoCluster = NoCluster
    Machine = {m1}
    Domains <- SomeDomains
    FaultKinds = {"patch", "crash", "api", "taskfail", "down", "template", "force"}
    MaxFaults = 2
INVARIANTS TypeOK NothingLeftBehind
PROPERTIES LabelsKept ClusterDeletionCompletes VMsGetLabelled FailureDomainsFollow
CHECK_DEADLOCK FALSE
