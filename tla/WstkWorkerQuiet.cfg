SPECIFICATION Spec
CONSTANTS
  Jobs = {j1, j2, j3}
  NULL = NULL
  QSize = 2
  Subs = {s1, s2}
  Callers = {c1, s1, s2}
  Min = 1
  Max = 2
  HerrMax = 1
  Stuck = {}
  Contract = "quiet"
SYMMETRY JobSymmetry
INVARIANTS
  CountersExact
  NoUseAfterFree
  LossBounded
PROPERTIES
  PoolSpec
