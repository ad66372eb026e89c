CONSTANTS
  Settle = 2
  Confirm = 3
  MaxAge = 3
  Hold = 3
  Latency = 1
  Lag = 1
  Tracked = TRUE
  Modes = {"solar_surplus"}
  Policies = {"yield"}
  Happens = {"outside_charge"}
  MaxRestarts = 1
  MaxTime = 5
  None = None
SPECIFICATION Spec
CHECK_DEADLOCK FALSE
PROPERTY OwnChargingStaysOwn
