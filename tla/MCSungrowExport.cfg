SPECIFICATION FairSpec
CONSTANTS
  MaxFaults = 2
  MaxRestarts = 1
  MaxChanges = 1
  Overlap = FALSE
  HeadroomFails = FALSE
  UserWaits = TRUE
  Early = FALSE
  Lag = FALSE
INVARIANTS WriteAhead CurtailedIsCurtailed
PROPERTIES GivenBack Released Curtails
CHECK_DEADLOCK FALSE
