\* The head moves; the ledger may start with a preparation of the old format.
SPECIFICATION Spec
CONSTANTS
  None = None
  Attempts = {a1}
  Reporters = {r1}
  Updaters = {u1}
  Heads = {h1, h2}
  Fingerprints = {f1}
  Legacy = {a1}
  Window = 1
  LineageLimit = 2
  ClockLag = 1
  MaxFresh = 3
  MaxTime = 2
  MaxLost = 1
  MaxMoves = 2
SYMMETRY AttemptSymmetry
CONSTRAINT FollowedTogether
INVARIANTS
  ReceiptBacked
PROPERTIES
  SpentReceiptMovesProperty
CHECK_DEADLOCK FALSE
