SPECIFICATION Spec
CONSTANTS
    MaxGen = 2
    MaxInFlight = 1
    Commands = {"charge", "discharge", "restore"}
    Outcomes = {"ok", "raised"}
    InOrder = TRUE
    CanRestart = TRUE
PROPERTY RecordDroppedOnlyWhenNormal
