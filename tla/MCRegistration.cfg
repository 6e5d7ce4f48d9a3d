SPECIFICATION Spec
CONSTANTS
  A = A  B = B  C = C  T = T  U = U  x = x  y = y
  Uri = {A, B, C}
  Namespace = {T, U}
  Name = {x, y}
  Absent = Absent  NoLocation = NoLocation  None = None
  DocSets <- AllSets
CHECK_DEADLOCK FALSE
INVARIANTS ReadOnce LoadedExactly FaultsReported OrderIsDocs OpenOnce
INVARIANTS NoComponentLost ReplacementsInOrder
