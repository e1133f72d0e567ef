CONSTANTS
    Gateways = {ga}
    Clients = {c1, c2}
    Addrs = {1}
    Ipv6 = {}
    Groups = {1}
    LowGroups = {1}
    Asks <- SomeAsks
    Starts <- BareStarts
    MaxRequests = 2
    MaxAnas = 0
    MaxMishaps = 0
    Star = Star
    None = None
SPECIFICATION ListenerSpec
INVARIANT NeverOpenAndSecure
CHECK_DEADLOCK FALSE
