SPECIFICATION Spec
CONSTANTS
  NoWildcard = NoWildcard
  Name = {"a", "b", "s", "g", "x", "h", "y", "f"}
  Namespace = {"", "X", "Y", "F"}
  NamespaceOf <- Spaces
  Globals <- AllGlobals
  Members <- Affiliations
  Elements <- Declarable
  Depth = 3
  Substitutes <- Affiliations
  DerivedFrom <- Derives
  AnyTypeName = "anyType"
  Generic <- Unmentioned
  FreshName = "f"
  Longest = 5
  Declarations <- Families
  WordsFor <- Words
  Witnesses <- Looked
CHECK_DEADLOCK FALSE
INVARIANTS MatchExact AmbiguityExact ConsistencyExact ViolationsAreReal AcceptedRestricts OpenContentExact ExtensionKeepsContent EmptiableExact
