SPECIFICATION FairSpec
CONSTANTS
  p1 = p1
  p2 = p2
  Producers = {p1, p2}
  Capacity = 1
  MaxIndex = 2
INVARIANTS
  NoSlotRace
  Inductive
PROPERTIES
  NoSilentDrop
  StreamSpec
  PublishedIsDelivered
CHECK_DEADLOCK FALSE
