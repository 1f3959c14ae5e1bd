CONSTANTS
  a = a  b = b  c = c  t1 = t1  t2 = t2
  Headers = {a, b, c}
  Handlers = {t1, t2}
  Timestamp <- MCTimestamp
  Capacity = 2
  Drift = 0
  MaxTime = 3
  None = None
SPECIFICATION FairSpec
INVARIANTS WithinCapacity
PROPERTIES FutureInserted
CHECK_DEADLOCK FALSE
