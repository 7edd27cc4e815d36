SPECIFICATION Spec
CONSTANTS
    Attempts = {a1, a2}
    Heads = {h1, h2}
    None = None
    Limit = 1
    StaleAfter = 0
    Cooldown = 1
    Serial = FALSE
    Late = FALSE
    MaxTime = 1
    MaxLost = 1
    MaxMoves = 1
    MaxRacing = 2
SYMMETRY DispatchSymmetry
CHECK_DEADLOCK FALSE
INVARIANTS
    WorkIsBacked
    RefundedNotPending
PROPERTY NewerOwnerKept
