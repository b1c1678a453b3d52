CONSTANTS
    None = None
    Bases = {x}
    Others = {"apply", "refresh", "orphan"}
    Faults = {"timeout", "restart", "lag", "save", "refused"}
    MaxUser = 2
    MaxOther = 1
    MaxFaults = 1
SPECIFICATION FairSpec
INVARIANTS AppliedIsApplied SettledShowsDaemon
PROPERTIES OperationEnds
CHECK_DEADLOCK FALSE
