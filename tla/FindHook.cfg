SPECIFICATION Spec
CONSTANTS
  nothing = nothing
  Byte <- ThreeBytes
  WordSize = 2
  Space = 16
  Word <- LittleEndian
  Unmapped = nothing
  Layouts <- TwoLayouts
  Pattern <- ThreeOne
  ParserCall <- OneThree
  CallOpcode = 3
  Window = 4
INVARIANTS
  TypeOK
  HookedIsCallee
  FaultsOnlyOnOtherVersions
CHECK_DEADLOCK FALSE
