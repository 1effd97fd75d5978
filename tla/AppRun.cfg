SPECIFICATION FairServerSpec
CONSTANTS
    Base = 2
    Width = 2
    MaxHeaders = 1
    Sessions = {s1, s2}
    NoGame = NoGame
    Handlers = {h1}
    MaxChunks = 2
    HasDiscord = TRUE
INVARIANTS TypeOK GameIsCurrent NoMixedSessions KeyProven
INVARIANTS SocketsClosed AnswersWhole GreetingKept SecretsAgree
PROPERTIES Reconnects SignalStops
CHECK_DEADLOCK FALSE
