SPECIFICATION FairSpec
CONSTANTS
  Jobs = {j1, j2}
  NULL = NULL
  QSize = 1
  Subs = {s1, s2}
  Callers = {c1}
  Min = 0
  Max = 2
  HerrMax = 1
  Stuck = {s1}
  Contract = "quiet"
PROPERTIES
  JobServed
  DestroyEnds
