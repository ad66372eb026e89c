SPECIFICATION Spec
CONSTANTS
  Slots = {1, 2}
  Owns <- OneOwn
  Tariffs = {TRUE, FALSE}
  Sources = {"user"}
  MaxRetries = 1
  Happens = {"switched", "restarted"}
  MaxMishaps = 2
  MaxCommands = 3
  MaxReserves = 1
  MaxRestarts = 1
  MaxFailures = 3
INVARIANTS
  BaselineAlways
CHECK_DEADLOCK FALSE
