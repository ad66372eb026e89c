SPECIFICATION FairSpec
CONSTANTS
  Slots = {1, 2}
  Owns <- OneOwn
  Tariffs = {TRUE, FALSE}
  Sources = {"user", "optimizer"}
  MaxRetries = 1
  Happens = {"overlap", "overtaken", "crash", "restarted", "switched", "unread", "raised", "gave_up", "idle", "low_soc", "optimizer", "reserve", "reserve_refused", "overwritten", "looked_late", "forgotten"}
  MaxMishaps = 1
  MaxCommands = 2
  MaxReserves = 1
  MaxRestarts = 1
  MaxFailures = 2
INVARIANTS
  BaselineIsUsers
  NormalAgain
  UnfinishedIsOnDisk
  ReserveStands
  RunningIsForced
PROPERTIES
  NewerSurvives
  SessionEnds
CHECK_DEADLOCK FALSE
