CONSTANTS
  h1 = h1  h2 = h2  p1 = p1  p2 = p2  t1 = t1  t2 = t2
  Hashes = {h1}
  Peers = {p1, p2}
  Threads = {t1, t2}
  Nobody = Nobody
  AskTypes = {"blocks"}
  CatchUp = FALSE
  MaxAsks = 1
  MaxSurprises = 0
  MaxInflight = 1
  QueueCap = 1
  DelayBound = 1
SPECIFICATION FairSpec
PROPERTY RequestsSettle
CHECK_DEADLOCK FALSE
