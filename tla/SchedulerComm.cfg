SPECIFICATION Spec
CONSTANTS
  BackupClients  = {"b1"}
  RestoreClients = {"r1"}
  Firings        = {"f1"}
  CronSize       = 1
  MaxChanges     = 3
INVARIANT OwnResultUnlessDropped
PROPERTIES
  ReloadConverges
  SignalEndsDaemon
CHECK_DEADLOCK FALSE
