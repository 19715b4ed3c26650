SPECIFICATION Spec
CONSTANTS
  PipeCap = 2
  MaxPackets = 3
  MaxViewers = 3
INVARIANTS
  OneMoreRead
  LoggedBeforeWritten
  ShutdownIsLast
  ExitAccounts
  ServesConfigured
PROPERTIES
  ShutdownCompletes
CHECK_DEADLOCK FALSE
