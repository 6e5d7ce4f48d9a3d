SPECIFICATION TypesSpec
CONSTANTS
  a = a
  b = b
  c = c
  z = z
  None = None
  Value = {a, b, c, z}
  Less <- Order
  LengthOf <- Lengths
  Declared <- AllFacets
  Added <- NewValues
  Pattern <- NewPatterns
  Minute = 1
  Limit = 1050000000
  MaxRune = 6
  RepeatMax = 3
  MaxTypes = 3
  Spare = {1}
  MaxEdits = 2
CHECK_DEADLOCK FALSE
INVARIANTS Narrowing
PROPERTIES EditsContained
