SPECIFICATION Spec
CONSTANTS
  PageSize  = 2
  FileLimit = 4
  Files <- MCFiles
  Conns = {c1, c2}
  None  = None
  Home  = c1
  Histories <- MCHistories
  MaxRuns   = 6
  Slots     = {s1, s2}
  Targets   = {"t1", "t2"}
  MaxEvents = 3
  MaxClicks = 4
INVARIANTS
  PagesExact
  ListingIsCurrent
PROPERTIES
  StopsNamedRun
  CardConverges
CHECK_DEADLOCK FALSE
