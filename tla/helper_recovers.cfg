SPECIFICATION FairSpec
CONSTANTS
  Devices <- MCDevices
  Layouts <- MCOneLane
  MaxGen = 2
  Strict = {"eth"}
  Authorities = {alice}
  NoAuth = none
  Requests = {"apply", "activate", "refresh", "cleanup"}
  MaxFaults = 2
  LateSaves = TRUE
  LinkLossInFlight = FALSE
INVARIANTS
  CleanupRevokesGrant
PROPERTIES
  InterruptedIsResolved
