SPECIFICATION Spec
CONSTANTS
  Conns = {c1}
  LISTENER = LISTENER
  NULL = NULL
  Ids = {i1}
  Fds = {3, 4, 5}
  Handlers = {t1}
  MaxConns = 1
  Acts = {"read"}
  Expires = FALSE
  Contract = "never"
SYMMETRY Symmetry
INVARIANT
  NoFalseClose
