SPECIFICATION MCSpec
CONSTANTS
    None = None
    Written <- MCWritten
    MaxFaults = 2
INVARIANTS
    PassIsEarnedToVss
    FailIsEarnedToVss
    PassIsEarnedToCan
    FailIsEarnedToCan
