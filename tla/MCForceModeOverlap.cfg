SPECIFICATION FairSpec
CONSTANTS
    MaxGen = 4
    MaxInFlight = 3
    Commands = {"charge", "discharge", "restore"}
    Outcomes = {"ok"}
    InOrder = TRUE
    CanRestart = TRUE
INVARIANTS
    ForceModeIsTimed
    InverterFollowsFlags
PROPERTIES
    LastCommandWins
    ForceModeEnds
