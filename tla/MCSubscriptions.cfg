SPECIFICATION FairSpec
CONSTANTS
  a = a
  b = b
  t = t
  u = u
  all = all
  script = script
  Sessions = {a, b}
  Keys = {"loopback"}
  KeyOf <- OneAddress
  Txs = {t, u}
  Fixed = {all}
  Members = {script}
  Touches <- OneTouches
  MaxSockets = 2
  MaxSubs = 2
  MaxSubsPerKey = 2
  Capacity = 1
  Budgets <- ThreeBudgets
INVARIANTS
  SendersHaveReceivers
  SlotsAreSubscriptions
  DrainedSessionIsUpToDate
PROPERTIES
  SessionsEnd
CHECK_DEADLOCK FALSE
