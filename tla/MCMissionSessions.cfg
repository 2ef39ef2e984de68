SPECIFICATION Spec
SYMMETRY RequestSymmetry
CONSTANTS
  m1 = m1
  m2 = m2
  alice = alice
  bob = bob
  t1 = t1
  t2 = t2
  Missions <- MCMissions
  Owner <- MCOwner
  SlotStart <- MCSlotStart
  SlotEnd <- MCSlotEnd
  Operator = operator
  Nobody = nobody
  Requests = {r1, r2}
  Targets <- MCTargets
  Booked <- MCBooked
  NoTarget = none
  Visible <- MCVisible
  CommandTtl = 1
  DwellTime = 1
  RetargetClose = 1
  MaxClock = 2
  MaxSessions = 2
  MaxCommands = 2
  MaxFaults = 1
INVARIANTS
  TelescopeIsFreeOrOwned
  

  
CHECK_DEADLOCK FALSE
