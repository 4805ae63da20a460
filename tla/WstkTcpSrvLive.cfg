SPECIFICATION FairSpec
CONSTANTS
  Conns = {c1}
  LISTENER = LISTENER
  NULL = NULL
  Ids = {i1}
  Fds = {3, 4, 5}
  Handlers = {t1, t2}
  MaxConns = 1
  Acts = {"close", "read"}
  Expires = TRUE
  Contract = "quiet"

PROPERTIES
  DestroyEnds
  ClosedFreed
  RequestRead
  ServiceSpec
