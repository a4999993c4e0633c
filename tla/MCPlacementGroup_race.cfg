SPECIFICATION Spec
CONSTANTS
    Machine = {m1, m2, m3}
    None = None
    MaxGroups = 4
    FaultKinds = {"slow"}
    MaxFaults = 1
INVARIANTS JoinedIsMember
CHECK_DEADLOCK FALSE
