SPECIFICATION Spec
CONSTANTS
  home = home
  d1 = d1
  d2 = d2
  la = la
  lb = lb
  Roots = {home, d1, d2}
  Default = home
  Libraries = {la, lb}
  New = New
  None = None
  MaxMoves = 2
  MaxPrefs = 1
  MaxLoads = 2
  MaxCrashes = 2
  MaxUnplugs = 1
SYMMETRY Symmetry
INVARIANT PointerAlwaysUsable
CHECK_DEADLOCK FALSE
