CONSTANTS
    ga = ga
    gb = gb
    wa = wa
    wb = wb
    wc = wc
    Gateways = {ga, gb}
    Free = Free
    Dead = Dead
    Periodic = Periodic
    Workers = {wa, wb, wc}
    Owner <- OwnerOfThree
    Subsystems = {s1}
    MaxSubsystems = 1
    LockRetries = 1
    Reloads = 0
    LockOnRead = TRUE
    LockMayExpire = FALSE
    MaxCrashes = 0
    MaxRpcs = 3
SPECIFICATION Spec
INVARIANTS
    TypeOK
    LocalIsOfItsVersion
    SpdkFollowsLocal
