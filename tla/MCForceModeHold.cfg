SPECIFICATION Spec
CONSTANTS
    MaxGen = 2
    MaxInFlight = 1
    Commands = {"charge", "discharge", "restore", "self", "hold"}
    Outcomes = {"ok"}
    InOrder = TRUE
    CanRestart = FALSE
INVARIANT HoldIsTimed
CHECK_DEADLOCK FALSE
