SPECIFICATION Spec
CONSTANTS
  A = A
  B = B
  C = C
  D = D
  G = G
  H = H
  K = K
  e1 = e1
  e2 = e2
  e3 = e3
  e4 = e4
  s1 = s1
  s2 = s2
  s3 = s3
  s4 = s4
  AnyType = AnyType
  AnySimpleType = AnySimpleType
  Atomic = Atomic
  Simple = {s1, s2, s3, s4}
  Type = {A, B, C, D}
  Group = {G, H, K}
  Element = {e1, e2, e3, e4}
  Schemas <- TwoSchemas
  Definitions <- AllDefinitions
CHECK_DEADLOCK FALSE
INVARIANTS BasesEnd ReportsExact GroupsEnd SimpleTypesExact
