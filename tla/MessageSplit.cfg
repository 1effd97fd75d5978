SPECIFICATION Spec
CONSTANTS
    Narrow = {"a", "b"}
    Wide = {}
    MaxText = 8
    MaxMax = 4
INVARIANTS TextKept PartsFit WordsWhole
CHECK_DEADLOCK FALSE
