CONSTANTS
    ga = ga
    gb = gb
    wa = wa
    wb = wb
    wc = wc
    Gateways = {ga, gb}
    Free = Free
    Dead = Dead
    Periodic = Periodic
    Workers = {wa, wb}
    Owner <- OwnerOfTwo
    Subsystems = {s1}
    MaxSubsystems = 1
    LockRetries = 1
    Reloads = 1
    LockOnRead = TRUE
    LockMayExpire = TRUE
    MaxCrashes = 0
    MaxRpcs = 2
SPECIFICATION Spec
PROPERTIES
    NoLostUpdate
    CheckedStateHolds
    ReturnedRequestIsInEffect
CHECK_DEADLOCK FALSE
