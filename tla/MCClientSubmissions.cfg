SPECIFICATION LiveSpec
CONSTANTS
  Clients = {"x", "z"}
  Txs = {1, 2, 3}
  Batch <- BurningBatch
  Burning = {3}
  Limit = 1
  MaxRevision = 3
  MaxEpoch = 40
INVARIANTS
  AcceptedBatchIsNotRejected
PROPERTIES
  ReadyReceiptIsTrue
  SubmissionsAreAnswered
CHECK_DEADLOCK FALSE
