SPECIFICATION FairSpec
CONSTANTS
  b1 = b1
  b2 = b2
  b3 = b3
  t1 = t1
  library = library
  unscoped = unscoped
  Owners = {b1, b2, b3, t1}
  Thumbs = {t1}
  Executors = {library, unscoped}
  Sealable = {library}
  Keys = {1}
  Prios = {1}
  Capacity = 2
  PerReader = 1
  Ids = {1, 2, 3}
  Group <- MCGroup
  Exec <- MCExec
INVARIANT TypeOK
INVARIANT WorkWithinLimits
INVARIANT NoIdleSlot
INVARIANT PreparedOnce
PROPERTY SealDrains
PROPERTY TurnsTaken
