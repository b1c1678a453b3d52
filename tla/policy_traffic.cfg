SPECIFICATION Spec
CONSTANTS
    v4 = v4
    v6 = v6
    wan = wan
    vpn = vpn
    web = web
    lan = lan
    six = six
    None = None
    Ambiguous = Ambiguous
    Families = {v4, v6}
    Interfaces = {wan, vpn}
    Dests = {web, lan, six}
    DestFamily <- MCDestFamily
    DestLink <- MCDestLink
    MaxLanes = 2
    MaxRules = 6
    V4 = v4
    Profiles <- MCProfiles
    Flows <- MCFlows
    Nets <- MCNets
    Changes = {"gone", "back", "carrier", "address", "route", "rule", "foreign"}
    MaxChanges = 2
    MaxPlans = 2
    MaxFaults = 1
INVARIANTS ProfileMeaning NoEscape FlowsStay HealthyDelivers
PROPERTY ForeignKept
CHECK_DEADLOCK FALSE
