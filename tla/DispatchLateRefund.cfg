SPECIFICATION Spec
CONSTANTS
    Attempts = {a1, a2}
    Heads = {h1}
    None = None
    Limit = 1
    StaleAfter = 1
    Cooldown = 1
    Serial = FALSE
    Late = TRUE
    MaxTime = 1
    MaxLost = 1
    MaxMoves = 0
    MaxRacing = 2
SYMMETRY DispatchSymmetry
CHECK_DEADLOCK FALSE
INVARIANT RefundedNotPending
