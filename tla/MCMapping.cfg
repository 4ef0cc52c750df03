SPECIFICATION Spec
CONSTANTS
    Files <- MCFiles
    Vehicles <- MCVehicles
    Catalogs <- MCCatalogs
    Values <- MCValues
    MaxChanges = 1
    MaxFaults = 1
INVARIANTS
    TypeOK
    KeptAreUnambiguous
    RejectedForAReason
    ResultIsExact
    WritesAreWarnedOf
    OutputFits
    NothingIsAltered
CHECK_DEADLOCK FALSE
