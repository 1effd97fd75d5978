SPECIFICATION LiveSpec
CONSTANTS
    Base = 2
    Width = 1
    MaxHeaders = 0
    Sessions = {s1, s2}
    NoGame = NoGame
    Handlers = {h1}
    MaxChunks = 1
    HasDiscord = TRUE
PROPERTY SignalStops
CHECK_DEADLOCK FALSE
