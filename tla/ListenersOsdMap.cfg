CONSTANTS
    Gateways = {ga, gb}
    Clients = {c1, c2}
    Addrs = {1}
    Ipv6 = {}
    Groups = {1}
    LowGroups = {1}
    Asks <- SomeAsks
    Starts <- SomeStarts
    MaxRequests = 2
    MaxAnas = 1
    MaxMishaps = 0
    Star = Star
    None = None
SPECIFICATION ListenerSpec
INVARIANT OptimizedAfterOsdMap
CHECK_DEADLOCK FALSE
