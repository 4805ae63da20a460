CONSTANTS
  Conns = {c1, c2}
  NULL = NULL
  Servlets = {"content", "websock"}
  LateClose = TRUE
SPECIFICATION Spec
INVARIANTS
  RegistrySound
