CONSTANTS
    Pid <- FourPids
    Num = 2
SPECIFICATION FirstFairSpec
ACTION_CONSTRAINTS
    LeastPid
    OneFork
INVARIANTS
    Service
PROPERTIES
    SignalsHeeded
    QuitSettles
CHECK_DEADLOCK TRUE
