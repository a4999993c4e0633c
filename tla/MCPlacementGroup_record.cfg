SPECIFICATION FairSpec
CONSTANTS
    Machine = {m1, m2}
    None = None
    MaxGroups = 4
    FaultKinds = {"duplicate", "record"}
    MaxFaults = 2
PROPERTIES CreateIsSilenced
CHECK_DEADLOCK FALSE
