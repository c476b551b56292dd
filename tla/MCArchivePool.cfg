SPECIFICATION Spec
CONSTANTS
  EphKeys = {e1}
  ExtKeys = {x1}
  ManKeys = {m1}
  Leases = {l1, l2}
  Pages = {p1}
  Budgets = {1, 2}
  MaxGuards = 1
  MaxFaults = 0
  MaxRestarts = 1
SYMMETRY Symmetry
INVARIANT TypeOK
INVARIANT PinsMatchLeases
INVARIANT MarkAwaitsRelease
INVARIANT PrivateDiesWithLastLease
INVARIANT AccountingExact
INVARIANT ShrinkIsHonoured
PROPERTY PinnedSurvivesEviction
