SPECIFICATION Spec
CONSTANT MaxFaults = 2
INVARIANTS
    VerdictIsRight
    NothingLeftBehind
CHECK_DEADLOCK FALSE
