SPECIFICATION LiveSpec
CONSTANTS
    Writers = {session, ping, relay}
    Opener = session
    NoOne = NoOne
    MaxWrites = 3
INVARIANTS TypeOK HeadersInStep
PROPERTIES ImplementsStream WritesReturn
CHECK_DEADLOCK FALSE
