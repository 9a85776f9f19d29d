SPECIFICATION FairSpec
CONSTANTS
  Names = {n1}
  Ids = {j1, j2}
  Readers = {r1}
  Empty = Empty
  Modulus = 8
  DbFails = FALSE
  Notices = FALSE
  Reloads = TRUE
  Exits = {"sigint", "crash"}
PROPERTIES
  RowsFinal
  CancelHonoured
  CommandsServed
  SlotsAreReleased
