CONSTANTS
  Arrays = {x, y, z}
  Bufs = {p, q, r}
  Vals = {0, 1}
  Zero = 0
  Dead = Dead
  Null = Null
  Granule = 2
  Header = 1
  MaxLen = 2
SPECIFICATION CarefulSpec
INVARIANTS OwnedExactly
PROPERTIES UniqueKept ImplementsValues
SYMMETRY Symmetry
