SPECIFICATION Spec
CONSTANTS
  MaxBuffer = 4
  Letters <- TwoLetters
  Keys <- OneKey
  MaxPosts = 3
INVARIANTS
  TypeOK
  ActsAsPosted
  OverrunStartsInTarget
PROPERTIES
  ImplementsRecordPipe
CHECK_DEADLOCK FALSE
