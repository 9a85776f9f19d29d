SPECIFICATION FairSpec
CONSTANTS
  Jobs = {j1}
  Readers = {r1, r2}
  Kinds = {"backup", "restore"}
  Modulus = 8
INVARIANTS
  CountExact
  CopyExclusive
PROPERTIES
  OpenersServed
