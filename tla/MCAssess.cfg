SPECIFICATION Spec
CONSTANTS
    Docs <- AllDocs
    NoElement = 0
    ValueOf <- Value
CHECK_DEADLOCK FALSE
INVARIANTS TypeOK IntervalNesting ScopeIsSubtree IdentityExact
PROPERTIES Implements
