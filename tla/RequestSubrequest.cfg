CONSTANTS
    s1 = s1
    s2 = s2
    Sub <- MCSub
    Top = Top
    None = None
    Detached = Detached
SPECIFICATION Spec
PROPERTIES
    SubrequestReturns
CHECK_DEADLOCK TRUE
