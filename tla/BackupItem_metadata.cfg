SPECIFICATION Spec
CONSTANTS
  Paths = {p1}
  t1 = t1
  t2 = t2
  Large = {}
  Targets <- TwoTargets
  Kind <- S3AndAzure
  Reserved = {}
  TooLarge <- LargeForFirst
  MaxResults = 2
  Faults = {}
  MaxFaults = 0
  MaxJobs = 2
  MaxEdits = 2
  None = None
INVARIANT RestoreFinds
CHECK_DEADLOCK FALSE
