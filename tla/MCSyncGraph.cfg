SPECIFICATION FairSpec
CONSTANTS
  g = g  o = o  a = a  b = b  c = c
  Blocks = {g, o, a, b, c}
  Genesis = g
  OldBlocks = {o}
  Parent <- MCParent
  Referees <- MCReferees
  Scenarios <- MCScenarios
  MaxUnprocessed = 4
  None = None
INVARIANTS
  ReadyClosed
  NothingLeftBehind
  FrontierExact
  InvalidGone
  WorkerInOrder
PROPERTIES
  Delivered
