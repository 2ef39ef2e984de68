SPECIFICATION FairSpec
CONSTANTS
  LossAfter = 1
  DeadAfter = 2
  SustainedLimit = 2
  RealDrivers = FALSE
  NudgeFromPark = TRUE
  MaxBatch = 1
  MaxRuns = 2
  MaxFaults = 1
INVARIANTS
  SafetyIsKept
PROPERTIES
  DeadLinkParks
  RefusingParks
CHECK_DEADLOCK FALSE
