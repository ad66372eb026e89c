CONSTANTS
  Settle = 1
  Confirm = 2
  MaxAge = 2
  Hold = 1
  Latency = 0
  Lag = 1
  Tracked = TRUE
  Modes = {"smart_schedule", "solar_surplus", "manual"}
  Policies = {"yield", "override"}
  Happens = {"refused_start", "outside_charge"}
  MaxRestarts = 0
  MaxTime = 6
  None = None
SPECIFICATION Spec
CHECK_DEADLOCK FALSE
PROPERTY ExternalLasts
INVARIANT OverrideKeepsControl
INVARIANT SettlingLapses
