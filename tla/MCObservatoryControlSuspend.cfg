SPECIFICATION ControlSpec
CONSTANTS
  Nights = {m1, t1}
  TestNights = {t1}
  Desks = {d1, d2}
  Nothing = nothing
  Demo = TRUE
  HardwareTest = TRUE
  MaxNotices = 5
  MaxOrders = 4
INVARIANTS CancelledIsParked
CHECK_DEADLOCK FALSE
