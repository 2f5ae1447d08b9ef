SPECIFICATION FairSpec
CONSTANTS
  h1 = h1
  h2 = h2
  NoThread = NoThread
  HostThreads <- MCHostThreads
  Threads <- MCThreads
  MaxHostLogs = 2
INVARIANTS
  TypeOK
  HooksBeforeTargetCode
  SettingsFaithful
  NoMessageLost
  StopsOnlyWhen
PROPERTIES
  DllMainTerminates
  AttachedTargetRuns
  DumperFollowsTarget
  ImplementsSession
  WorkRunsOut
CHECK_DEADLOCK FALSE
