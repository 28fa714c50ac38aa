SPECIFICATION Spec
CONSTANTS
  MaxTxInputs = 2
  Starts <- BothStarts
  Known = 3
  Offers <- BothOffers
  Sizes = {3}
  MaxInputs = 4
  MaxTxs = 5
INVARIANTS
  AtomsAreAccounted
PROPERTIES
  NoGrowthWithoutBaton
CHECK_DEADLOCK FALSE
