SPECIFICATION Spec
CONSTANTS
    MaxGen = 3
    MaxInFlight = 2
    Commands = {"charge", "discharge", "restore", "self", "hold"}
    Outcomes = {"ok"}
    InOrder = TRUE
    CanRestart = FALSE
INVARIANTS
    DiskMatchesMemory
CHECK_DEADLOCK FALSE
