SPECIFICATION Spec
CONSTANTS
    Attempts = {a1, a2, a3}
    Heads = {h1}
    None = None
    Limit = 1
    StaleAfter = 0
    Cooldown = 1
    Serial = TRUE
    Late = TRUE
    MaxTime = 1
    MaxLost = 1
    MaxMoves = 0
    MaxRacing = 2
SYMMETRY DispatchSymmetry
CHECK_DEADLOCK FALSE
INVARIANTS
    RetryWaits
