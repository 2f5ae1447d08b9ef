SPECIFICATION Spec
CONSTANTS
  h1 = h1
  h2 = h2
  NoThread = NoThread
  HostThreads <- OneHost
  Threads <- OneThreads
  MaxHostLogs = 1
INVARIANTS
  NativeClrHooks
CHECK_DEADLOCK FALSE
