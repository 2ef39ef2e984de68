SPECIFICATION Spec
CONSTANTS
  MaxBookings = 3
  MaxReservations = 2
  Slots = {0, 1, 2}
  SessionLength = 1
  Turnaround = 1
  MaxRescheduleChain = 12
  MaxJobs = 2
  Customers <- MCCustomers
  None = None
INVARIANTS
  
  OneClaimPerTender
  GivenBackWhenDue
CHECK_DEADLOCK FALSE
