SPECIFICATION FairSpec
CONSTANTS
    ToVss = ToVss
    ToCan = ToCan
    Speed = Speed
    Beam = Beam
    Directions <- MCDirections
    Paths <- MCPaths
    RouteSets <- MCRouteSets
    MaxPuts = 2
    MaxFaults = 3
INVARIANTS
    NoLostUpdate
    NoMissedWakeup
    WritesCountOnce
PROPERTIES
    ImplementsRegister
    EverythingSettles
CHECK_DEADLOCK FALSE
