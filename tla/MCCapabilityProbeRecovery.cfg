SPECIFICATION FairSpec
CONSTANTS
    j1 = j1
    j2 = j2
    Jobs = {j1}
    None = None
    Happens = {"late_claim"}
    MaxClaims = 2
    MaxRestarts = 1
PROPERTY RecoverySparesOwners
CHECK_DEADLOCK FALSE
