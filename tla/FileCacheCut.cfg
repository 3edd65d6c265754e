SPECIFICATION Spec
CONSTANTS
    w1 = w1
    w2 = w2
    r1 = r1
    r2 = r2
    r3 = r3
    Worker = {w1, w2}
    Request = {r1, r2, r3}
    Home <- MCHome
    Old = Old
    None = None
    Body = 2
    Age = {1}
    Inactive = 2
    Start = 3
    MaxTime = 4
    MaxCrashes = 0
INVARIANT MarkedWhole
CHECK_DEADLOCK FALSE
