CONSTANTS
  Settle = 1
  Confirm = 1
  MaxAge = 1
  Hold = 2
  Latency = 0
  Lag = 0
  Tracked = FALSE
  Modes = {"solar_surplus"}
  Policies = {"yield"}
  Happens = {"user_stop"}
  MaxRestarts = 2
  MaxTime = 4
  None = None
SPECIFICATION Spec
CHECK_DEADLOCK FALSE
PROPERTY SavedHoldHolds
