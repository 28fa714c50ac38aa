SPECIFICATION Spec
CONSTANTS
  max_events = 3
  max_bytes = 4
  Charges = {1, 2}
  MaxSequence = 6
INVARIANTS
  BytesWithinBudget
PROPERTIES
  LogSpec
