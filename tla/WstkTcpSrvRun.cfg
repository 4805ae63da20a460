SPECIFICATION Spec
CONSTANTS
  Conns = {c1, c2}
  LISTENER = LISTENER
  NULL = NULL
  Ids = {i1}
  Fds = {3, 4, 5}
  Handlers = {t1, t2}
  MaxConns = 2
  Acts = {"lookup"}
  Expires = FALSE
  Contract = "never"
SYMMETRY Symmetry
INVARIANTS
  ConnectionsExact
  PollSound
  ConnRefsExact
  BufferHasOneUser
