CONSTANTS
    Gateways = {ga, gb}
    Clients = {c1, c2}
    Hosts = {1, 2, 3}
    Star = Star
    Keys = {1, 2}
    Psks = {1}
    MaxHosts = 2
    Asks <- SomeAsks
    Starts <- SomeStarts
    MaxRequests = 2
    MaxFaults = 0
    MaxCrashes = 0
    None = None
SPECIFICATION AccessSpec
PROPERTIES
    HostKeysAreKept
CHECK_DEADLOCK FALSE
