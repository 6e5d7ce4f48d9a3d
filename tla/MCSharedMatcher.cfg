SPECIFICATION Spec
CONSTANTS
  Caller = {first, second}
  Documents <- AllDocs
  Top = "top"
  NameOf <- Names
  ContentOf <- Contents
  Overlap = FALSE
CHECK_DEADLOCK FALSE
INVARIANT AsIfAlone
