SPECIFICATION FairSpec
CONSTANTS
  Families = {4}
  Lanes <- MCLanes
  Interfaces <- MCInterfaces
  LaneInterface <- MCLaneInterface
  Idents = {d1}
  Defaults = {"eth", "wlan", ambiguous}
  Policies <- MCPolicies
  Delay = 2
  Follow = follow
  Ambiguous = ambiguous
  None = none
  FirstWait = 1
  MaxWait = 2
  Faults = {"commit", "restart"}
  MaxFaults = 2
  MaxChanges = 2
  MaxActivations = 1
INVARIANTS
  SettledDecision
PROPERTIES
  FailbackWaited
  FailsBack
