SPECIFICATION Spec
CONSTANTS
  MaxFaults = 0
  MaxRestarts = 1
  MaxChanges = 1
  Overlap = TRUE
  HeadroomFails = FALSE
  UserWaits = TRUE
  Early = FALSE
  Lag = FALSE
INVARIANT CurtailedIsCurtailed
CHECK_DEADLOCK FALSE
