CONSTANTS
  Ids = {0, 1, 4}
  MaxId = 3
  Contexts = {a, b}
  FirstSlots = 2
  Granule = 2
  MaxSlots = 4
  Null = Null
  Log = Log
  Unknown = Unknown
  MaxDepth = 2
SPECIFICATION UseSpec
INVARIANTS UniqueIds HandlersOwned
PROPERTIES ReservedIdIsNew ImplementsRegistry BadDefaultEnds
