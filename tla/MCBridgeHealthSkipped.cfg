SPECIFICATION Spec
CONSTANTS
    Speed = Speed
    Telltale = Telltale
    Typo = Typo
    ToVss <- MCToVss
    ToCan <- MCToCan
    Malformed <- MCMalformed
    Catalogs <- MCFullCatalog
    MaxFaults = 1
INVARIANTS
    OkMeansNothingSkipped
CHECK_DEADLOCK FALSE
