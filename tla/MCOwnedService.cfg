SPECIFICATION FairSpec
CONSTANT Stoppers = {owner, destructor}
INVARIANTS
  StoppedIsOver
PROPERTIES
  StopReturns
CHECK_DEADLOCK FALSE
