CONSTANTS
    Gateways = {ga, gb}
    Clients = {c1, c2}
    Addrs = {1}
    Ipv6 = {}
    Groups = {1, 2}
    LowGroups = {1}
    Asks <- SomeAsks
    Starts <- BareStarts
    MaxRequests = 2
    MaxAnas = 2
    MaxMishaps = 1
    Star = Star
    None = None
SYMMETRY ListenerSymmetry
SPECIFICATION ListenerSpec
INVARIANTS
    AnaFollowsTheMonitor
    ListIsServed
CHECK_DEADLOCK FALSE
