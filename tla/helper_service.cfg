SPECIFICATION Spec
SYMMETRY UserSymmetry
CONSTANTS
  Users = {alice, bob}
  Rules = {web}
  Ops = {"activate", "restore", "cleanup", "apply1", "cleanup1", "recover", "launch", "adopt"}
  Nobody = nobody
  MaxCalls = 3
  MaxCommits = 3
  MaxChanges = 1
  MaxFaults = 1
  MaxStarts = 2
CHECK_DEADLOCK FALSE
INVARIANTS
  RulesBound
  MembersMatch
  ChangesAnnounced
  TopologyFollowed
PROPERTIES
  ReplacesSeen
