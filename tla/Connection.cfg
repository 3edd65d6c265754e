SPECIFICATION Spec
CONSTANTS
    w1 = w1
    w2 = w2
    c1 = c1
    c2 = c2
    Worker = {w1, w2}
    Conn = {c1, c2}
    Limit = 1
    MaxLost = 1
INVARIANTS Counted Bounded Unsent
PROPERTY SilentEnds
CHECK_DEADLOCK FALSE
