SPECIFICATION Spec
CONSTANTS
  A = A  B = B  C = C  T = T  U = U  x = x  y = y
  Uri = {A, B, C}
  Namespace = {T, U}
  Name = {x, y}
  Absent = Absent  NoLocation = NoLocation  None = None
  DocSets <- MutualSets
CHECK_DEADLOCK FALSE
INVARIANT NoComponentLost
