SPECIFICATION Spec
CONSTANTS
  s1 = s1
  s2 = s2
  ca = ca
  cb = cb
  NUL = NUL
  Strings = {s1, s2}
  Chars = {ca, cb}
  Inputs <- MCInputs
  Sizes = {0, 3}
  IncreaseBy = 2
  MaxBy = 3
  MaxLen = 4
  MaxShared = 2
INVARIANTS
  TypeOK
  ZeroTail
  QueriesSound
PROPERTIES
  
  ImplementsStringValues
SYMMETRY Symmetry
VIEW Contents
