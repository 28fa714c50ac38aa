SPECIFICATION Spec
CONSTANTS
  r1 = r1
  r2 = r2
  g = g
  x = x
  y = y
  Readers = {r1, r2}
  Txs = {g, x, y}
  GenesisTx = g
  Tokens = {}
  PerFile = 2
  CATALOGUE_BATCH = 1
  LAYOUT_LIMIT = 1
  MaxGeneration = 4
SYMMETRY Interchangeable
INVARIANTS
  CatalogueIsExact
  UndisturbedReadsAnswer
PROPERTIES
  AnswersAreActive
