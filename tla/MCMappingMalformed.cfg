SPECIFICATION Spec
CONSTANTS
    Files <- MCFiles
    Vehicles <- MCVehicles
    Catalogs <- MCCatalogs
    Values <- MCValues
    MaxChanges = 1
    MaxFaults = 1
INVARIANTS
    MalformedEntriesAreDropped
CHECK_DEADLOCK FALSE
