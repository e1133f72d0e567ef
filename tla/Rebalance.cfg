CONSTANTS
    NumGroups = 3
    Namespaces = {1, 2, 3, 4}
    Subsystems = {s1, s2}
    Nqn <- TwoSubsystems
    Placed <- TwoGroups
    MaxRequests = 1
    MaxScaling = 1
    s1 = s1
    s2 = s2
    None = None
SPECIFICATION FairRebalanceSpec
INVARIANTS
    RebalanceTypeOK
    EvenAtRest
PROPERTIES
    DecisionsNarrow
    NamespacesLeaveDeletedGroups
    MovesEnd
CHECK_DEADLOCK FALSE
