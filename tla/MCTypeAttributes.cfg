SPECIFICATION Spec
CONSTANTS
  t1 = t1  t2 = t2  t3 = t3  g = g  h = h
  Type = {t1, t2, t3}
  Group = {g, h}
  AnyType = AnyType  NoGroup = NoGroup  NoWildcard = NoWildcard
  Name = {"T", "L", "U"}
  Namespace = {"T", "", "U"}
  NamespaceOf <- Spaces
  Schemas <- AllSchemas
CHECK_DEADLOCK FALSE
INVARIANTS AsMapped DerivationKept
PROPERTY AllFinished
