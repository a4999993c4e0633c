SPECIFICATION FairSpec
CONSTANTS
    MaxCPU = 2
    MaxDisk = 2
    MaxDev = 2
    Type <- DHCPAndStatic
    Host = {h1, h2}
    NoHost = NoHost
    MaxTask = 2
    FaultKinds = {"patch", "crash", "api", "taskfail", "jobfail", "ip", "ha"}
    MaxFaults = 1
    MaxEdits = 1
INVARIANTS TypeOK GuestFollowsVM OperationsSerialized
PROPERTIES HotUpdateCompletes NodeLabelsFollow
