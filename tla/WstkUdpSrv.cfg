SPECIFICATION FairSpec
CONSTANTS
  Conns = {c1, c2}
  NULL = NULL
  Handlers = {t1, t2}
  MaxConns = 2
  MaxInbox = 2
  Signals = TRUE
INVARIANTS
  UdpCountsExact
  UdpOutlives
PROPERTIES
  UdpDestroyEnds
  UdpReceived
