SPECIFICATION FairSpec
CONSTANTS
    j1 = j1
    j2 = j2
    Jobs = {j1}
    None = None
    Happens = {"slow_start", "lost_answer", "stop_refused", "late_claim",
               "brief_claim", "early_fresh", "unproven", "shutdown"}
    MaxClaims = 2
    MaxRestarts = 2
INVARIANTS
    OneStart
    ChargeIsRecorded
PROPERTIES
    SparesOthers
    ProbeChargeEnds
CHECK_DEADLOCK FALSE
