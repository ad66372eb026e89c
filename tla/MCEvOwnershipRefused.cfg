CONSTANTS
  Settle = 2
  Confirm = 4
  MaxAge = 4
  Hold = 3
  Latency = 1
  Lag = 1
  Tracked = TRUE
  Modes = {"smart_schedule", "solar_surplus", "manual"}
  Policies = {"yield"}
  Happens = {"refused_start"}
  MaxRestarts = 0
  MaxTime = 7
  None = None
SPECIFICATION Spec
CHECK_DEADLOCK FALSE
PROPERTY OwnChargingStaysOwn
