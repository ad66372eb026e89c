SPECIFICATION Spec
CONSTANTS
    MaxGen = 2
    MaxInFlight = 2
    Commands = {"charge", "discharge", "restore"}
    Outcomes = {"ok"}
    InOrder = FALSE
    CanRestart = FALSE
INVARIANT ForceModeIsTimed
CHECK_DEADLOCK FALSE
