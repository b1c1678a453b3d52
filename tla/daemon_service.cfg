CONSTANTS
    a1 = a1
    a2 = a2
    b = b
    None = None
    Clients = {c1, c2}
    Profiles <- MCProfiles
    IdOf <- MCIdOf
    Toggled <- MCToggled
    Valid <- MCValid
    Leftovers = {"none", "orphan", "legacy"}
    Faults = {"call", "denied", "save", "drift", "crash"}
    MaxRequests = 2
    MaxFaults = 1
    MaxRefreshes = 1
SPECIFICATION FairSpec
INVARIANTS NoRevival HealthyIsTrue
PROPERTIES RequestsAnswered FailedApplyKeepsPrevious
CHECK_DEADLOCK FALSE
