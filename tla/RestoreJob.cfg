SPECIFICATION Spec
CONSTANTS
  Files      = {"f1"}
  Dirs       = {"d1"}
  Markers    = {"m1"}
  MaxRuns    = 3
  MaxCrashes = 2
INVARIANTS
  DoneIsWhole
  FinishedComplete
  CountersTrack
PROPERTY CancelEnds
CHECK_DEADLOCK FALSE
