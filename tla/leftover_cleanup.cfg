SPECIFICATION Spec
CONSTANTS
  Devices = {"eth", "wan"}
  Layouts <- MCLayouts
  MaxGen = 2
  Leftovers = {"orphan", "v1", "v2", "wrapped"}
  Disturbances = {"route", "default", "rule", "table", "link"}
  Defaults <- MCDefaults
  MaxFaults = 2
  MaxOthers = 1
INVARIANTS
  StillCleanable
  EvidenceKept
  StartsFresh
PROPERTIES
  RemovesDeclared
  ForeignUntouched
