SPECIFICATION Spec
CONSTANTS
  Names = {n1, n2}
  Ids = {j1, j2}
  Readers = {r1}
  Empty = Empty
  Modulus = 8
  DbFails = FALSE
  Notices = FALSE
  Reloads = FALSE
  Exits = {"sigint", "crash"}
SYMMETRY Symmetry
INVARIANTS
  ClientsCounted
  CopyAlone
  StartedRowsAreLive
  CleanExit
