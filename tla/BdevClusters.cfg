CONSTANTS
    Bdevs = {b1, b2, b3}
    Groups = {1, 2}
    Limit = 2
    Faults = {"timeout", "noname", "refused", "free"}
    MaxFaults = 3
    None = None
SPECIFICATION ClusterSpec
INVARIANTS
    ClusterTypeOK
    PutNeverAsserts
    LimitIsKept
CHECK_DEADLOCK FALSE
