CONSTANTS
    n1 = n1
    n2 = n2
    r1 = r1
    r2 = r2
    r3 = r3
    s1 = s1
    s2 = s2
    s3 = s3
    None = None
    Name <- OneName
    Request <- OneRequest
    Sub <- TwoSubs
    SubMax = 1
    Checks = FALSE
    Nesting = FALSE
SPECIFICATION Spec
INVARIANTS
    NotFreedInUse
CHECK_DEADLOCK TRUE
