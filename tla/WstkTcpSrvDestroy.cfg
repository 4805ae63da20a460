SPECIFICATION Spec
CONSTANTS
  Conns = {c1, c2}
  LISTENER = LISTENER
  NULL = NULL
  Ids = {i1}
  Fds = {3, 4, 5}
  Handlers = {t1}
  MaxConns = 1
  Acts = {"lookup"}
  Expires = FALSE
  Contract = "ready"
SYMMETRY Symmetry
INVARIANTS
  SrvRefsExact
  ServerOutlives
  ConnOutlivesUsers
