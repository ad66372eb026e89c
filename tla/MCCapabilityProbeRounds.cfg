SPECIFICATION FairSpec
CONSTANTS
    j1 = j1
    j2 = j2
    Jobs = {j1, j2}
    None = None
    Happens = {}
    MaxClaims = 2
    MaxRestarts = 1
INVARIANT OneStart
CHECK_DEADLOCK FALSE
