SPECIFICATION LifeSpec
CONSTANTS
    Bcm = Bcm
    Vc = Vc
    Namespaces <- MCNamespaces
    MaxFaults = 2
INVARIANTS
    ClosesEveryNamespace
CHECK_DEADLOCK FALSE
