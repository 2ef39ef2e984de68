SPECIFICATION MCSpec
CONSTANTS
  Buyers = {b1, b2}
  PrizeHolders = {b2}
  SeatCapacity = 1
  PackPrice = 3
  SessionLength = 2
  MaxPackClock = 2
  MaxPackPayments = 2
  Players = {u1, u2}
  Reads = {r1, r2}
  Spends = {s1, s2}
  NoPlayer = none
  Rolls = {"LEGENDARY", "COMMON"}
  Cards = 2
  FreeSlotsPerWeek = 1
  PrizeValid = 1
  RestoredMin = 2
  WeekLength = 1
  MaxDrawClock = 1
  ann = ann
  bob = bob
  ka = ka
  kb = kb
  Members <- MCMembers
  Referrer <- MCReferrer
  Sales = {ka, kb}
  Buyer <- MCBuyer
  Txs = {x1, x2}
  Noone = noone
  EarnedPoints = 2
  RedeemedPoints = 1
  BonusPoints = 1
  TierThreshold = 2
  Addresses = {a, b}
  FirstAddress = a
  MaxLinks = 2
  MaxInFlight = 2
  MaxSessions = 2
  Nights = {m1, t1}
  TestNights = {t1}
  Desks = {d1, d2}
  Nothing = nothing
  Demo = TRUE
  HardwareTest = TRUE
  MaxNotices = 5
  MaxOrders = 3
  Circle = 6
  MinSunExclusion = 1
  MaxAltitude = 2
  MaxSamples = 3
  NotANumber = NaN
  Unmeasured = unmeasured
  Limit = 2
  Window = 3
  Block = 2
  MaxMeterClock = 8
  Allowance = 2
INVARIANTS
  PacksAreHonoured
  PrizesAccounted
  LedgerAddsUp
  
  
  
  PermittedIsSafe
CHECK_DEADLOCK FALSE
