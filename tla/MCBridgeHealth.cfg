SPECIFICATION FairSpec
CONSTANTS
    Speed = Speed
    Telltale = Telltale
    Typo = Typo
    ToVss <- MCToVss
    ToCan <- MCToCan
    Malformed <- MCMalformed
    Catalogs <- MCCatalogs
    MaxFaults = 2
INVARIANTS
    PhaseIsTrue
    OkMeansSupported
    StatsMatchWriter
PROPERTIES
    BrokerRestartRevalidates
    FlagsRecover
CHECK_DEADLOCK FALSE
