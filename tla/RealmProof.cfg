SPECIFICATION LoginSpec
CONSTANTS
    Base = 2
    Width = 2
    MaxHeaders = 1
INVARIANT ProofArrives
CHECK_DEADLOCK FALSE
