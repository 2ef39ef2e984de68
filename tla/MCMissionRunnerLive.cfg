SPECIFICATION FairSpec
CONSTANTS
  MaxMissions = 1
  MaxCaptures = 1
  MaxTime = 1
  MaxObserving = 1
  RetargetClose = 1
  MaxSolveAttempts = 1
  MaxCenteringIterations = 1
  RequestedFrames = 1
PROPERTIES
  SessionEndsMission
