SPECIFICATION WindowSpec
CONSTANTS
    Callers = {c1, c2}
    Screen <- Monitor
    Work <- WorkArea
    Placed <- Places
    Points <- MousePoints
    RESIZE_MARGIN = 1
    WORD = 16
    MaxCalls = 4
INVARIANTS
    MirroredFromStart
