CONSTANTS
    Gateways = {ga, gb}
    Clients = {c1}
    Ids = {1}
    Groups = {1, 2}
    Limits = {1, 2}
    Values = {1}
    Hosts = {1}
    MaxHosts = 1
    Asks <- SomeAsks
    Starts <- SomeStarts
    MaxRequests = 2
    MaxFaults = 0
    MaxCrashes = 0
    None = None
SPECIFICATION EntrySpec
INVARIANTS
    HostsFollowAtRest
CHECK_DEADLOCK FALSE
