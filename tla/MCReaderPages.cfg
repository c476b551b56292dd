SPECIFICATION FairSpec
CONSTANTS
  PageCount = 2
  Opens = 2
  Changes = 1
  Streams = {1, 2}
INVARIANT TypeOK
INVARIANT NoneForgotten
INVARIANT ShownIsOpen
INVARIANT AwaitedComes
PROPERTY WaitsEnd
