CONSTANTS
    Gateways = {ga, gb}
    Clients = {c1, c2}
    Hosts = {1, 2, 3}
    Star = Star
    Keys = {1, 2}
    Psks = {1}
    MaxHosts = 2
    Asks <- SomeAsks
    Starts <- SomeStarts
    MaxRequests = 2
    MaxFaults = 1
    MaxCrashes = 1
    None = None
SYMMETRY AccessSymmetry
SPECIFICATION AccessSpec
INVARIANTS
    AccessTypeOK
    AccessFollowsAtRest
PROPERTIES
    KeyedSubsystems
    HostsAreLimited
    RemovedHostsStayOut
CHECK_DEADLOCK FALSE
