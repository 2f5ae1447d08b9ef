SPECIFICATION FairSpec
CONSTANTS
  t1 = t1
  t2 = t2
  x = x
  y = y
  heap = heap
  now = now
  later = later
  garbled = garbled
  Callers <- TwoCallers
  Times <- TwoTimes
  Garbled = garbled
  OldFiles <- LaterTaken
  Payloads <- Assemblies
  WideChars <- Nothing
  HeapByte = heap
  Faults <- AllFaults
  MaxScans = 1
INVARIANTS
  TypeOK
  EveryFileAccounted
PROPERTIES
  ImplementsArchive
  InitialiserGetsFake
  ScanEnds
CHECK_DEADLOCK FALSE
