SPECIFICATION FairSpec
CONSTANTS
    Speed = Speed
    Beam = Beam
    Signals <- MCSignals
    Frames <- MCFrames
    Bad <- MCBad
    MaxChanges = 3
    MaxTracked = 1
    MaxSeed = 1
    MaxDrops = 2
    MaxFaults = 2
INVARIANTS
    StreamIsComplete
    DropsAreDigested
PROPERTIES
    OnlyForward
    ReadsDuringOutage
    CatchesUp
CHECK_DEADLOCK FALSE
