CONSTANTS
    Gateways = {ga, gb}
    Clients = {c1, c2}
    Ids = {1, 2}
    Uuids = {u1, u2}
    MaxRequests = 4
    MaxFaults = 1
    MaxCrashes = 1
    None = None
SYMMETRY NsSymmetry
SPECIFICATION NsSpec
INVARIANTS
    NsTypeOK
    UuidsAreUnique
    NoNamespaceWithoutSubsystem
    LoadCoversServed
    GatewaysAgreeAtRest
CHECK_DEADLOCK FALSE
