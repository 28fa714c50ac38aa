SPECIFICATION Spec
CONSTANTS
  TxIds = {1, 2}
  Coins = {11}
  Inputs <- ChildInputs
  Blocks = {"a1", "b1", "b2"}
  Prev <- RivalPrev
  BlockTxs <- ChildTxs
  Root = "root"
  Expirable = {}
  InitChain <- StartA1
  MaxChanges = 4
  MaxEpoch = 40
  Capacity = 2
  MaxAccepted = 20
  Attempts = 1
  Faults = FALSE
  MayStop = FALSE
  MayShutDown = FALSE
INVARIANTS
  PublishedViewIsExact
  ReconcileNeverFails
CHECK_DEADLOCK FALSE
