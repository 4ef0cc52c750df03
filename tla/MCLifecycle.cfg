SPECIFICATION FairLifeSpec
CONSTANTS
    Bcm = Bcm
    Vc = Vc
    Namespaces <- MCNamespaces
    MaxFaults = 2
INVARIANTS
    AddsAreTracked
    AddedBeforeWriting
    SilentUnlessBackingOff
    ExitIsClean
PROPERTIES
    ProcessEnds
    WorkersComeBack
CHECK_DEADLOCK FALSE
