SPECIFICATION Spec
CONSTANTS
  MaxNodes = 4
  Deep = 2
  Numerals <- Numbers
  Written <- Texts
  CharOrder <- Chars
  Regexes <- Patterns
  CastableTo <- Casts
  DateParts <- DateTable
  Now <- Today
  Spelled <- Names
  Tests <- WrittenTests
  Families <- Cases
  Plain = {"plain", "tables"}
  Identities = {"trees", "texts", "numbers"}
  Meanings <- Unknowns
  OtherTrees <- Elsewhere
CHECK_DEADLOCK FALSE
INVARIANTS ReadAsWritten VerdictExact TableExact FailsOpen ValueOnly IdentitiesHold
