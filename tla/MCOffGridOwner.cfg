SPECIFICATION FairSpec
CONSTANTS
  c1 = c1
  c2 = c2
  Checks = {c1}
  Cap = 1
  Limit = 4
  Happens = {"restarted", "taken_over", "user_closes"}
  MaxMishaps = 1
  MaxDays = 1
  MaxRestarts = 1
  MaxRefusals = 1
  MaxChanges = 2
PROPERTY OnlyOwnEver
