SPECIFICATION FairSpec
CONSTANTS
  Procs = {p1, p2}
  Events = {e1}
  Docs = {d1, d2}
  Unopenable = {d2}
  Resident = {TRUE, FALSE}
  none = none
CHECK_DEADLOCK FALSE
INVARIANT PrimaryReachable
PROPERTY AskedOutliveMain
PROPERTY RequestAnswered
