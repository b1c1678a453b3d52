CONSTANTS
    a1 = a1
    a2 = a2
    b = b
    None = None
    Clients = {c1}
    Profiles <- MCProfiles
    IdOf <- MCIdOf
    Toggled <- MCToggled
    Valid <- MCValid
    Leftovers = {"none"}
    Faults = {"crash"}
    MaxRequests = 2
    MaxFaults = 1
    MaxRefreshes = 1
SPECIFICATION Spec
INVARIANT SettledAgrees
CHECK_DEADLOCK FALSE
