SPECIFICATION FairWarmup
CONSTANTS
  c1 = c1
  c2 = c2
  lib = lib
  ext = ext
  Clients = {c1, c2}
  Keys = {lib, ext}
  Library = {lib}
  Jobs = {1, 2, 3}
  Chunks = 2
  MaxResets = 1
INVARIANT SingleUntilReset
PROPERTY RequestServed
