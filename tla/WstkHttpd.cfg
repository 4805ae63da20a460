CONSTANTS
  Conns = {c1, c2}
  NULL = NULL
  Servlets = {"content", "websock"}
  LateClose = FALSE
SPECIFICATION FairSpec
INVARIANTS
  ServletOutlives
  OneReply
  RegistrySound
PROPERTIES
  HttpdEnds
