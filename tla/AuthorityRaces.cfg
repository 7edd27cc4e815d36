\* Two attempts, a reporter and an updater race; answers are lost, windows end.
SPECIFICATION Spec
CONSTANTS
  None = None
  Attempts = {a1, a2}
  Reporters = {r1}
  Updaters = {u1}
  Heads = {h1}
  Fingerprints = {f1}
  Legacy = {}
  Window = 1
  LineageLimit = 2
  ClockLag = 0
  MaxFresh = 4
  MaxTime = 2
  MaxLost = 1
  MaxMoves = 0
SYMMETRY AttemptSymmetry
CONSTRAINT FollowedTogether
INVARIANTS
  TypeOK
  SingleUse
  GrantsAreSpent
  WorkNeverRefunded
  ReleasedNeverSpent
  NeverReissued
PROPERTIES
  ImplementsSingleUse
CHECK_DEADLOCK FALSE
