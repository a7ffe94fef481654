CONSTANT MaxActions = 3
SPECIFICATION Spec
CHECK_DEADLOCK FALSE
INVARIANTS
    BlacklistAbsolute
