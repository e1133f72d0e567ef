CONSTANTS
    Gateways = {ga, gb}
    Clients = {c1}
    Ids = {1, 2}
    Uuids = {u1, u2}
    MaxRequests = 2
    MaxFaults = 0
    MaxCrashes = 0
    None = None
SPECIFICATION NsSpec
PROPERTIES
    OnlyForceDeletesNamespaces
CHECK_DEADLOCK FALSE
