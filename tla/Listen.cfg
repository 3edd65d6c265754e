SPECIFICATION ListenSpec
CONSTANTS
    a = a
    b = b
    c = c
    Address <- Addresses
    Fd <- Descriptors
    Files <- AllFiles
    ReusePort = TRUE
    Closed = Closed
    Other = Other
    None = None
    MaxReloads = 4
INVARIANT Sockets
CHECK_DEADLOCK FALSE
