CONSTANTS
  Settle = 2
  Confirm = 4
  MaxAge = 4
  Hold = 3
  Latency = 1
  Lag = 1
  Tracked = FALSE
  Modes = {"smart_schedule", "solar_surplus", "manual"}
  Policies = {"yield", "override"}
  Happens = {}
  MaxRestarts = 0
  MaxTime = 8
  None = None
SPECIFICATION Spec
CHECK_DEADLOCK FALSE
INVARIANT SettlingLapses
