SPECIFICATION Spec
CONSTANTS
    r1 = r1
    r2 = r2
    r3 = r3
    a1 = a1
    a2 = a2
    k1 = k1
    k2 = k2
    NoKey = NoKey
    Runs = {r1, r2, r3}
    Apps = {a1, a2}
    AppOf <- TwoApps
    Keys = {k1, k2}
    ServiceOf <- OwnService
    MaxEntry = 4
    MaxFaults = 1
INVARIANTS
    StaysMounted
CHECK_DEADLOCK FALSE
