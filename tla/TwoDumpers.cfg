SPECIFICATION FairSpec
CONSTANTS
  s1 = s1
  s2 = s2
  Sessions <- TwoSessions
  Nobody = Nobody
INVARIANTS
  TypeOK
  SequentialRunsAreRight
  AnswersInStep
  StuckOnlyAtAbandoned
PROPERTIES
  DllMainReturns
  ConnectReturns
  SessionsRunDown
CHECK_DEADLOCK FALSE
