SPECIFICATION Spec
CONSTANTS
    MaxGen = 4
    MaxInFlight = 1
    Commands = {"charge", "discharge", "restore"}
    Outcomes = {"ok", "refused"}
    InOrder = TRUE
    CanRestart = TRUE
INVARIANTS
    StrandedSessionIsOnDisk
PROPERTY RecordDroppedOnlyWhenNormal
