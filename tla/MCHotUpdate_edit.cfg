SPECIFICATION Spec
CONSTANTS
    MaxCPU = 2
    MaxDisk = 2
    MaxDev = 2
    Type <- DHCPAndStatic
    Host = {h1, h2}
    NoHost = NoHost
    MaxTask = 2
    FaultKinds = {"edit"}
    MaxFaults = 0
    MaxEdits = 2
INVARIANT GuestFollowsVM
