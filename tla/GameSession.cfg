SPECIFICATION LiveSpec
CONSTANTS
    NumChannels = 2
    OnMac = TRUE
    MaxTicks = 2
    MaxChats = 1
    MaxExtra = 1
INVARIANTS TypeOK WrittenInOrder JoinsOnce PingsInTurn
PROPERTIES MaintenanceEnds JoinsAll
CHECK_DEADLOCK FALSE
