SPECIFICATION MCSpec
CONSTANTS
  PeriodLength = 2
  RenewalAttempts = 2
  RetryGap = 1
  RenewalGrace = 2
  MinutesPerPeriod = 1
  Outings = {o1}
  MaxSubClock = 5
  MaxDues = 3
  Persons = {u1, u2}
  Places <- MCPlaces
  Passes = {p1}
  MaxActivePlaces = 3
  OfferLength = 1
  HoldLength = 1
  MaxLine = 2
  MaxAsks = 1
  MaxLineClock = 2
  Emails = {1, 2}
  Dispatches = {d1, d2}
  MaxAttempts = 2
  ClaimLease = 2
  RetryDelay = 1
  BatchSize = 2
  MaxFaults = 1
INVARIANTS
  MinutesAreEarned
  
  OneAttemptAtATime
PROPERTIES
  LapsedIsResolved
  FreedSlotIsOffered
  EveryEmailIsDecided
CHECK_DEADLOCK FALSE
