CONSTANTS
    a1 = a1
    a2 = a2
    r1 = r1
    r2 = r2
    c1 = c1
    c2 = c2
    c3 = c3
    None = None
    Failed = Failed
    Address <- OneAddress
    Checked <- NoAddresses
    Request <- OneRequest
    Connection <- TwoConnections
    IdleMax = 0
    MaxRetries = 1
    FailLimit = 1
    PassLimit = 1
SPECIFICATION Spec
INVARIANTS
    MaxIdleConnections
CHECK_DEADLOCK TRUE
