CONSTANTS
    Gateways = {ga, gb}
    Clients = {c1}
    Ids = {1, 2}
    Uuids = {u1, u2}
    MaxRequests = 3
    MaxFaults = 0
    MaxCrashes = 0
    None = None
SPECIFICATION NsSpec
INVARIANTS
    SameStateAfterUpdate
CHECK_DEADLOCK FALSE
