SPECIFICATION Spec
CONSTANTS
  Jobs = {j1, j2}
  NULL = NULL
  QSize = 2
  Subs = {s1, s2}
  Callers = {c1}
  Min = 0
  Max = 2
  HerrMax = 1
  Stuck = {}
  Contract = "ready"
INVARIANTS
  NoUseAfterFree
