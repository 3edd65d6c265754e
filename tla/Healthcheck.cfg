CONSTANTS
    FailLimit = 2
    PassLimit = 3
SPECIFICATION FairSpec
INVARIANTS
    Consistent
    Prompt
PROPERTIES
    Continuous
    MarkFollows
CHECK_DEADLOCK TRUE
