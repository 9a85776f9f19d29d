SPECIFICATION Spec
CONSTANTS
  Paths = {p1, p2, q}
  t1 = t1
  t2 = t2
  Large = {2}
  Targets <- TwoTargets
  Kind <- S3AndAzure
  Reserved = {q}
  TooLarge <- LargeForFirst
  MaxResults = 2
  Faults = {"db", "commit", "upload", "lost", "mark", "delete", "unseen", "cancel", "crash", "config"}
  MaxFaults = 2
  MaxJobs = 3
  MaxEdits = 3
  None = None
INVARIANTS
  RowsRestorable
  VersionsDense
  FilesTracked
  Converges
SYMMETRY Symmetry
CHECK_DEADLOCK FALSE
