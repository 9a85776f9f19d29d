SPECIFICATION Spec
CONSTANTS
  Watches    = {"web", "cli1", "cli2"}
  Dialogs    = {"web"}
  Messages   = 2
  MainSize   = 1
  ChanSize   = 1
  MaxShown   = 1
INVARIANTS
  NoSendOnClosed
  ConsumersExact
  LinesInOrder
  ListExact
PROPERTIES
  ShutdownReleases
  EndShown
CHECK_DEADLOCK FALSE
