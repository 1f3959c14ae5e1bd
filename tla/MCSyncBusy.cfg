SPECIFICATION Spec
CONSTANTS
  g = g  o = o  a = a  b = b  c = c
  Blocks = {g, o, a, b, c}
  Genesis = g
  OldBlocks = {o}
  Parent <- MCParent
  Referees <- MCReferees
  Scenarios <- Due
  MaxUnprocessed = 5
  None = None
INVARIANTS
  BusyMeansWork
