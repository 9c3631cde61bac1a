SPECIFICATION FairSpec
CONSTANTS
  Sups = {s1, s2}
  Pids = {d1, d2, d3, d4}
  d1 = d1
  d2 = d2
  d3 = d3
  d4 = d4
  None = None
  s1 = s1
  s2 = s2
  ProbeTries = 2
  Patient = TRUE
  MaxCrashes = 1
INVARIANTS
  TypeOK
  OneStack
PROPERTIES
  PlayerNeedsService
  NoneLeftBehind
  TermEnds
  PlayerRestarted
