SPECIFICATION FairSpec
CONSTANTS
  c1 = c1
  c2 = c2
  Checks = {c1, c2}
  Cap = 1
  Limit = 4
  Happens = {"overlap"}
  MaxMishaps = 1
  MaxDays = 1
  MaxRestarts = 1
  MaxRefusals = 1
  MaxChanges = 2
PROPERTY ComesBackAlways
