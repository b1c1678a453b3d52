SPECIFICATION WalkSpec
CONSTANTS
  Devices <- MCDevices
  Layouts <- MCLayouts
  MaxGen = 2
INVARIANTS
  WalkEndsInNext
  SharedLanesStayRouted
