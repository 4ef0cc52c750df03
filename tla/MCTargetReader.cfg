SPECIFICATION FairSpec
CONSTANTS
    Telltale = Telltale
    Chime = Chime
    Paths <- MCPaths
    Refused <- MCRefused
    Raising <- MCRaising
    MaxCommands = 3
    MaxFaults = 2
CONSTRAINT MCFewCommands
INVARIANTS
    TargetsAccountedFor
PROPERTIES
    OneSourceNeverGoesBack
    TargetsArrive
    OneProtocolSuffices
CHECK_DEADLOCK FALSE
