SPECIFICATION Spec
CONSTANTS
    MaxGen = 3
    MaxInFlight = 1
    Commands = {"charge", "discharge", "restore", "self", "hold"}
    Outcomes = {"ok", "refused", "raised"}
    InOrder = TRUE
    CanRestart = TRUE
INVARIANTS
    TypeOK
    MutualExclusion
