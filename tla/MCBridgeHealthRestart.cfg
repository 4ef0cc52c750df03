SPECIFICATION FairSpec
CONSTANTS
    Speed = Speed
    Telltale = Telltale
    Typo = Typo
    ToVss <- MCToVss
    ToCan <- MCToCan
    Malformed <- MCMalformed
    Catalogs <- MCFullCatalog
    MaxFaults = 1
PROPERTIES
    KuksaRestartRevalidates
CHECK_DEADLOCK FALSE
