CONSTANTS
    Pid <- TwoPids
    Num = 1
SPECIFICATION FairSpec
PROPERTIES
    QuitStops
CHECK_DEADLOCK TRUE
