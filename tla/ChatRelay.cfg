SPECIFICATION LiveSpec
CONSTANTS
    Players = {"p", "q"}
    MaxSaid = 4
    MaxReroutes = 1
INVARIANTS TypeOK OneQueryEach NameStays
PROPERTIES ImplementsFifo AllPosted
CHECK_DEADLOCK FALSE
