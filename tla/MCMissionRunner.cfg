SPECIFICATION Spec
CONSTANTS
  MaxMissions = 2
  MaxCaptures = 2
  MaxTime = 1
  MaxObserving = 1
  RetargetClose = 1
  MaxSolveAttempts = 2
  MaxCenteringIterations = 1
  RequestedFrames = 2
INVARIANTS
  EndingIsTrue
  CapturesAreSound
  AwaitedExposureIsRunning
PROPERTIES
  LifecycleSpec
