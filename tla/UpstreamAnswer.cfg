CONSTANTS
    a1 = a1
    a2 = a2
    r1 = r1
    r2 = r2
    c1 = c1
    c2 = c2
    c3 = c3
    None = None
    Failed = Failed
    Address <- MCAddress
    Checked <- MCAddress
    Request <- OneRequest
    Connection <- TwoConnections
    IdleMax = 1
    MaxRetries = 2
    FailLimit = 1
    PassLimit = 1
SPECIFICATION FairSpec
PROPERTIES
    SendsBounded
    HeadersEnd
CHECK_DEADLOCK TRUE
