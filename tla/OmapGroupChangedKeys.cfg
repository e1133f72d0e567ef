CONSTANTS
    ga = ga
    gb = gb
    wa = wa
    wb = wb
    wc = wc
    Gateways = {ga, gb}
    Free = Free
    Dead = Dead
    Periodic = Periodic
    Workers = {wa}
    Owner <- OwnerOfOne
    Subsystems = {s1, s2}
    MaxSubsystems = 2
    LockRetries = 0
    Reloads = 1
    LockOnRead = TRUE
    LockMayExpire = FALSE
    MaxCrashes = 0
    MaxRpcs = 4
SPECIFICATION Spec
INVARIANTS
    SpdkFollowsLocal
