SPECIFICATION Spec
CONSTANTS
  i1 = i1
  i2 = i2
  i3 = i3
  c1 = c1
  c2 = c2
  zip = zip
  bad = bad
  Ids = {i1, i2, i3}
  Contents = {c1, c2, zip, bad}
  Sources = {c1, c2}
  Broken = {bad}
  Edits = {c1, c2, bad}
  Canon <- MCCanon
  MaxEdits = 1
  MaxCrashes = 1
  MaxAudits = 1
  EditsImported = TRUE
  MovesOver = TRUE
SYMMETRY Symmetry
INVARIANT NoSharedFile
