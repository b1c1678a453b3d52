SPECIFICATION Spec
CONSTANTS
  Devices <- MCDevices
  Layouts <- MCLayouts
  MaxGen = 3
  Strict = {"eth"}
  Authorities = {alice, bob}
  NoAuth = none
  Requests = {"apply", "restore", "activate", "restore_runtime", "cleanup"}
  MaxFaults = 2
  LateSaves = FALSE
  LinkLossInFlight = FALSE
INVARIANTS
  CommittedPlanIsLive
  InterruptedJournalRecoverable
  GuardCoversUpdate
  MemoryMatchesJournal
  ArmedGrantIsJournaled
  SettingsAccounted
PROPERTIES
  MutationsAreJournaled
  ImplementsRegister
  GrantCommitsWithItsPlan
