SPECIFICATION FairSpec
CONSTANTS
  a = a
  b = b
  q = q
  Byte <- TwoBytes
  Wildcards = {}
  MaxPat = 5
  MaxTxt = 7
INVARIANTS
  TypeOK
  TableCorrect
  
  ResultIsFirst
PROPERTIES
  ScanProgress
  Terminates
CHECK_DEADLOCK FALSE
