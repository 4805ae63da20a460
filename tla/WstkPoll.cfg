SPECIFICATION Spec
CONSTANTS
  Sockets = {s1, s2, s3, s4}
  Fds = {f1, f2, f3, f4}
  Size = 3
INVARIANTS
  TableAlive
  DeferredAddFits
PROPERTIES
  RoundKeepsWatched
