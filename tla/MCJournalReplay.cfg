SPECIFICATION Spec
CONSTANTS
  TxIds = {1, 2, 3}
  Coins = {11}
  Inputs <- FamilyInputs
  Blocks = {"a1", "b1", "b2"}
  Prev <- RivalPrev
  BlockTxs <- RivalTxs
  Root = "root"
  Expirable = {2}
  InitChain <- StartA1
  MaxChanges = 3
  MaxEpoch = 5
  MaxEvents = 3
  AllocFaults = TRUE
  MayStop = TRUE
  MayShutDown = TRUE
  MayRequest = TRUE
INVARIANTS
  IndexLagsByItsEvents
  PublishedViewIsExact
  AnswersAreCurrent
  EveryEventAccountedFor
CHECK_DEADLOCK FALSE
