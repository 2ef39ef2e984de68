SPECIFICATION MCSpec
CONSTANTS
  AgentStates = {"OBSERVING", "CAPTURING", "PROCESSING", "COMPLETE", "WEATHER_HOLD"}
  Captures = {c1}
  MaxCaptures = 1
  EndTelemetry = 1
  SlotLength = 1
  MaxReports = 3
  MaxFaults = 1
  Viewers = {v1}
  Spectators = {x1, x2}
  Capacity = 1
  Size <- MCSize
  MaxFrames = 2
  MaxGrants = 1
INVARIANTS
  ToldOnce
  InOrderMeansInStep
  ViewIsTrue
PROPERTIES
  EndIsAnnounced
  WithdrawnStopsWatching
CHECK_DEADLOCK FALSE
