SPECIFICATION DerivationSpec
CONSTANTS
  TypeBlocks = {{}, {"extension"}}
  ElementBlocks = {{}, {"extension"}, {"substitution"}}
  Finals = {{}, {"extension"}}
  MaxTypes = 6
  MaxSize = 9
CHECK_DEADLOCK FALSE
INVARIANTS XsiTypeExact DecidersAgree SubstitutionRules
