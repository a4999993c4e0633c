SPECIFICATION FairSpec
CONSTANTS
    Machine = {m1, m2}
    None = None
    MaxGroups = 4
    FaultKinds = {"timeout", "taskfail", "duplicate", "api", "slow", "crash", "record", "scale", "wait"}
    MaxFaults = 2
INVARIANTS TypeOK UpdatesSerialized TicketKeepsMembers
PROPERTIES EveryoneJoins
CHECK_DEADLOCK FALSE
