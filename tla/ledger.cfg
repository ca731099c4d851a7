SPECIFICATION FileSpec
CONSTANTS
  None = None
  Procs = {p1, p2}
  Ids = {i1, i2, i3}
  Prints = {a}
  Limits = {1, 2}
SYMMETRY FileSymmetry
INVARIANTS ServesTheImported NothingHalfImported PagesDescend NothingSkipped
PROPERTIES ReceiptsKept ImplementsInventory
