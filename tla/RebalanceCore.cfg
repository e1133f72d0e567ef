CONSTANTS
    NumGroups = 3
    Namespaces = {1, 2, 3}
    Subsystems = {s1, s2}
    Nqn <- TwoSubsystems
    Placed <- AllInOne
    MaxRequests = 1
    MaxScaling = 1
    s1 = s1
    s2 = s2
    None = None
SPECIFICATION RebalanceSpec
INVARIANTS
    RebalanceTypeOK
    EvenAtRest
PROPERTIES
    DecisionsNarrow
CHECK_DEADLOCK FALSE
