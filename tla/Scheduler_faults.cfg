SPECIFICATION Spec
CONSTANTS
  Names = {n1, n2}
  Ids = {j1, j2}
  Readers = {}
  Empty = Empty
  Modulus = 8
  DbFails = TRUE
  Notices = TRUE
  Reloads = TRUE
  Exits = {"sigint", "sigterm", "crash"}
SYMMETRY Symmetry
INVARIANTS
  TypeOK
  OneJobPerName
  SlotsOwned
PROPERTIES
  ImplementsSlots
