SPECIFICATION FairSpec
CONSTANTS
    None = None
    Driven <- MCDriven
    MaxQueue = 1
    MaxDrives = 2
    MaxFaults = 1
INVARIANTS
    OutputsInStep
    WithinTwoExchanges
PROPERTIES
    Settles
    ImplementsBus
