SPECIFICATION Spec
CONSTANTS
  Families = {4}
  Lanes <- MCLanes
  Interfaces <- MCInterfaces
  LaneInterface <- MCLaneInterface
  Idents = {d1}
  Defaults = {none}
  Policies <- MCPinned
  Delay = 1
  Follow = follow
  Ambiguous = ambiguous
  None = none
  FirstWait = 1
  MaxWait = 2
  Faults = {"commit", "rollback", "capture", "close", "late", "device", "drop", "restart"}
  MaxFaults = 3
  MaxChanges = 2
  MaxActivations = 2
INVARIANTS
  ExitApproved
  PublishedIsCommitted
