SPECIFICATION Spec
CONSTANTS
  t1 = t1
  t2 = t2
  b1 = b1
  b2 = b2
  x = x
  y = y
  wide = wide
  heap = heap
  now = now
  later = later
  garbled = garbled
  Callers <- OneCaller
  Times <- OneTime
  Garbled = garbled
  OldFiles <- Nothing
  Payloads <- OneScript
  WideChars <- Wide
  HeapByte = heap
  Faults <- Nothing
  Bases <- OneBase
  NoBase = NoBase
  gpa = gpa
  GetProcAddr = gpa
  Functions <- OneFunction
  Refusals <- Nothing
  Spellings <- Exact
  MaxCopies = 1
  MaxLoads = 2
  MaxCompiles = 1
INVARIANTS
  EveryStageDumped
CHECK_DEADLOCK FALSE
