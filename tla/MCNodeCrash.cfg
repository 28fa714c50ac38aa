SPECIFICATION Spec
CONSTANTS
  g = g
  a = a
  b = b
  q1 = q1
  Txs = {g, a, b}
  GenesisTx = g
  Tokens = {a}
  MaxBlocks = 2
  MaxSequence = 3
  Queries = {}
  Capacity = 1
  Stored <- EmptyOrLong
  MaxChanges = 4
  MaxStarts = 3
INVARIANTS
  IndexTracksChain
  ResumesOnlyCurrent
  ProjectionTracksChain
CHECK_DEADLOCK FALSE
