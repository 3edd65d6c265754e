CONSTANTS
    s1 = s1
    s2 = s2
    Sub <- MCSub
    Top = Top
    None = None
    Detached = Detached
SPECIFICATION Spec
SYMMETRY Symmetry
INVARIANTS
    Tree
    NotForgotten
    AuthGate
CHECK_DEADLOCK TRUE
