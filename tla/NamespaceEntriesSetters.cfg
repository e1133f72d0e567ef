CONSTANTS
    Gateways = {ga, gb}
    Clients = {c1, c2}
    Ids = {1, 10}
    Groups = {1, 2}
    Limits = {1, 2}
    Values = {1}
    Hosts = {1}
    MaxHosts = 1
    Asks <- SomeAsks
    Starts <- SomeStarts
    MaxRequests = 2
    MaxFaults = 1
    MaxCrashes = 1
    None = None
SYMMETRY EntrySymmetry
SPECIFICATION EntrySpec
PROPERTY SettersKeepTheRest
CHECK_DEADLOCK FALSE
