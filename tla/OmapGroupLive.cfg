CONSTANTS
    ga = ga
    gb = gb
    wa = wa
    wb = wb
    wc = wc
    Gateways = {ga, gb}
    Free = Free
    Dead = Dead
    Periodic = Periodic
    Workers = {wa, wb}
    Owner <- OwnerOfTwo
    Subsystems = {s1}
    MaxSubsystems = 1
    LockRetries = 1
    Reloads = 1
    LockOnRead = TRUE
    LockMayExpire = FALSE
    MaxCrashes = 1
    MaxRpcs = 2
SPECIFICATION FairSpec
PROPERTIES
    ImplementsGroupState
    EveryGatewayCatchesUp
