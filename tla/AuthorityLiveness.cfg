\* An ended attempt, lost writes and a reporter that keeps coming back.
SPECIFICATION FairSpec
CONSTANTS
  None = None
  Attempts = {a1}
  Reporters = {r1}
  Updaters = {u1}
  Heads = {h1}
  Fingerprints = {f1}
  Legacy = {}
  Window = 1
  LineageLimit = 2
  ClockLag = 0
  MaxFresh = 4
  MaxTime = 0
  MaxLost = 2
  MaxMoves = 2
PROPERTIES
  StrandedAuthorityFreed
CHECK_DEADLOCK FALSE
