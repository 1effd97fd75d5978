SPECIFICATION Spec
CONSTANTS
    Channels <- MCChannels
    Names <- MCNames
    GuildOf <- MCGuildOf
    Routes <- MCRoutes
    MaxEvents = 2
    Handlers = {h1}
INVARIANT CurrentUnlessMissed
CHECK_DEADLOCK FALSE
