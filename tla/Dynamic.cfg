CONSTANTS
    n1 = n1
    n2 = n2
    r1 = r1
    r2 = r2
    r3 = r3
    s1 = s1
    s2 = s2
    s3 = s3
    None = None
    Name <- MCName
    Request <- MCRequest
    Sub <- MCSub
    SubMax = 1
    Checks = TRUE
    Nesting = TRUE
SPECIFICATION FairSpec
INVARIANTS
    Holders
PROPERTIES
    WaitersServed
    WaitingEnds
CHECK_DEADLOCK TRUE
