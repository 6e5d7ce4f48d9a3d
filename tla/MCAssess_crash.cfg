SPECIFICATION Spec
CONSTANTS
    Docs <- CrashDocs
    NoElement = 0
    ValueOf <- Value
CHECK_DEADLOCK FALSE
INVARIANTS NeverPanics
