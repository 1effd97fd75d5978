SPECIFICATION Spec
CONSTANTS
    Narrow = {"a"}
    Wide = {"ya"}
    MaxText = 8
    MaxMax = 4
INVARIANT TextKept
CHECK_DEADLOCK FALSE
