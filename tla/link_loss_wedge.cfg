SPECIFICATION Spec
CONSTANTS
  Devices <- MCDevices
  Layouts <- MCLayouts
  MaxGen = 2
  Strict = {"eth"}
  Authorities = {}
  NoAuth = none
  Requests = {"apply", "cleanup"}
  MaxFaults = 1
  LateSaves = FALSE
  LinkLossInFlight = TRUE
INVARIANT InterruptedJournalRecoverable
