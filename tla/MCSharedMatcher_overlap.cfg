SPECIFICATION Spec
CONSTANTS
  Caller = {first, second}
  Documents <- FewDocs
  Top = "top"
  NameOf <- Names
  ContentOf <- Contents
  Overlap = TRUE
CHECK_DEADLOCK FALSE
INVARIANT AsIfAlone
