SPECIFICATION Spec
CONSTANTS
  a = a
  b = b
  q = q
  Byte <- WithMark
  Wildcards <- Mark
  MaxPat = 3
  MaxTxt = 4
INVARIANTS
  WildcardSearch
CHECK_DEADLOCK FALSE
