SPECIFICATION Spec
CONSTANTS
  Slots = {1, 2}
  Owns <- OneOwn
  Tariffs = {TRUE, FALSE}
  Sources = {"user"}
  MaxRetries = 1
  Happens = {"reserve", "reserve_refused"}
  MaxMishaps = 1
  MaxCommands = 2
  MaxReserves = 1
  MaxRestarts = 1
  MaxFailures = 2
INVARIANTS
  ReserveAlways
CHECK_DEADLOCK FALSE
