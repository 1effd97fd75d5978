SPECIFICATION Spec
CONSTANTS
    Channels <- MCChannels
    Names <- MCNames
    GuildOf <- MCGuildOf
    Routes <- MCRoutes
    MaxEvents = 3
    Handlers = {h1}
INVARIANTS TypeOK TablesTogether RoutesFound CurrentUnlessLate RelayedOnce
CHECK_DEADLOCK FALSE
