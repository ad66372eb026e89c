SPECIFICATION Spec
CONSTANTS
    MaxGen = 2
    MaxInFlight = 2
    Commands = {"charge", "discharge", "restore"}
    Outcomes = {"ok"}
    InOrder = TRUE
    CanRestart = FALSE
INVARIANT MutualExclusion
CHECK_DEADLOCK FALSE
