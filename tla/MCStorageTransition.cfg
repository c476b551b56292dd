SPECIFICATION FairSpec
CONSTANTS
  c1 = c1
  lib = lib
  ext = ext
  r1 = r1
  r2 = r2
  Clients = {c1}
  Keys = {lib, ext}
  Library = {lib}
  Jobs = {1, 2}
  Chunks = 1
  MaxResets = 0
  Readers = {r1, r2}
  MaxWork = 1
  RebuildMayFail = TRUE
INVARIANT TypeOK
INVARIANT DiskPhaseAlone
INVARIANT SealedWhileRetiring
INVARIANT WritesFlushed
PROPERTY TransitionEnds
