SPECIFICATION FairSpec
CONSTANTS
  t1 = t1
  t2 = t2
  b1 = b1
  b2 = b2
  x = x
  y = y
  wide = wide
  heap = heap
  now = now
  later = later
  garbled = garbled
  Callers <- TwoCallers
  Times <- TwoTimes
  Garbled = garbled
  OldFiles <- Nothing
  Payloads <- OneScript
  WideChars <- Wide
  HeapByte = heap
  Faults <- SomeFaults
  Bases <- TwoBases
  NoBase = NoBase
  gpa = gpa
  GetProcAddr = gpa
  Functions <- TwoFunctions
  Refusals <- SomeRefusals
  Spellings <- BothSpellings
  MaxCopies = 2
  MaxLoads = 3
  MaxCompiles = 1
INVARIANTS
  TypeOK
  LoggedDumpWhole
  DetourKeepsItsImage
  UnhookedIsReported
PROPERTIES
  DetourReturns
CHECK_DEADLOCK FALSE
