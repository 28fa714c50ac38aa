SPECIFICATION LiveSpec
CONSTANTS
  TxIds = {1, 2}
  Coins = {11}
  Inputs <- ChildInputs
  Blocks = {"a1", "b1", "b2"}
  Prev <- RivalPrev
  BlockTxs <- ChildTxs
  Root = "root"
  Expirable = {}
  InitChain <- StartA1
  MaxChanges = 2
  MaxEpoch = 40
  Capacity = 2
  MaxAccepted = 3
  Attempts = 1
  Faults = TRUE
  MayStop = TRUE
  MayShutDown = TRUE
INVARIANTS
  FrontierIsExact
  ReadyCoversAccepted
  StopIsABarrier
PROPERTIES
  Recovers
  StopReturns
CHECK_DEADLOCK FALSE
