SPECIFICATION FairSpec
CONSTANTS
  g = g
  a = a
  b = b
  q1 = q1
  Txs = {g, a}
  GenesisTx = g
  Tokens = {a}
  MaxBlocks = 1
  MaxSequence = 9
  Queries = {q1}
  Capacity = 1
  Stored <- OneOrTwo
  MaxChanges = 2
  MaxStarts = 1
INVARIANTS
  NoUseAfterDestroy
  QuietAtExit
PROPERTIES
  AnswerIsCurrent
  CatchesUp
  StopEnds
CHECK_DEADLOCK FALSE
