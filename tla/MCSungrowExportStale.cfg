SPECIFICATION Spec
CONSTANTS
  MaxFaults = 2
  MaxRestarts = 1
  MaxChanges = 1
  Overlap = FALSE
  HeadroomFails = FALSE
  UserWaits = FALSE
  Early = FALSE
  Lag = FALSE
PROPERTY GivenBack
CHECK_DEADLOCK FALSE
