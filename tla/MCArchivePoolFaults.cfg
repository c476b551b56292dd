SPECIFICATION Spec
CONSTANTS
  EphKeys = {e1}
  ExtKeys = {x1}
  ManKeys = {}
  Leases = {l1, l2}
  Pages = {p1, p2}
  Budgets = {2}
  MaxGuards = 0
  MaxFaults = 1
  MaxRestarts = 1
SYMMETRY Symmetry
INVARIANT PublishedIsComplete
PROPERTY PrivateNotReindexed
