CONSTANTS
  h1 = h1  h2 = h2  p1 = p1  p2 = p2  t1 = t1  t2 = t2
  Hashes = {h1, h2}
  Peers = {p1}
  Threads = {t1, t2}
  Nobody = Nobody
  AskTypes = {"blocks", "compact"}
  CatchUp = FALSE
  MaxAsks = 2
  MaxSurprises = 1
  MaxInflight = 1
  QueueCap = 1
  DelayBound = 1
SPECIFICATION Spec
SYMMETRY Symmetry
INVARIANTS InflightExact PeerRequestsServed OneHolderPerKey
CHECK_DEADLOCK FALSE
