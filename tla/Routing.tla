------------------------------ MODULE Routing ------------------------------
(***************************************************************************)
(* The Discord client's route tables and their use.  Each READY and        *)
(* GUILD_CREATE event of the gateway runs buildRoutes on a goroutine of    *)
(* its own; it reads the guilds known by then and replaces both tables,    *)
(* in one critical section.  Each Discord message runs onMessageCreate on  *)
(* a goroutine of its own, which copies the routes of its channel and      *)
(* writes the message to every WoW destination of theirs.                  *)
(*                                                                         *)
(* discordgo keeps session.State up to date with other events too, of      *)
(* which the client is told nothing: a channel is created, renamed or      *)
(* deleted, a guild is left.                                               *)
(*                                                                         *)
(* A table is determined by the text channels it was built from, so the    *)
(* model keeps these.                                                      *)
(***************************************************************************)
EXTENDS Integers, Sequences, FiniteSets, SequencesExt

CONSTANTS Channels,  \* the ids of the text channels
          Names,     \* the names a channel may have, in lower case
          GuildOf,   \* the guild of each channel
          Routes,    \* Config.Routes, in their order
          MaxEvents, \* bound: gateway events that change session.State
          Handlers   \* the goroutines that run onMessageCreate

Guilds       == {GuildOf[c] : c \in Channels}
Destinations == {r.wow : r \in Range(Routes)}

\* A text channel as buildRoutes lists it.
ChEntry == [id : Channels, name : Names]

\* A dot-command is said aloud, whatever the destination of the route.
Say == "say"

ASSUME RoutingAssumption ==
    /\ \A r \in Range(Routes) : r.dir \in {"both", "wow_to_discord", "discord_to_wow"}
    /\ MaxEvents \in Nat

\* An id is a long number that nobody takes for the name of a channel.
ASSUME NamesAssumption == Names \cap Channels = {}

VARIABLES
    guilds,  \* the guilds of session.State that are known with their channels
    chans,   \* their text channels
    changes, \* history: how often session.State has changed
    silent,  \* history: the last change that no handler was told of
    builds,  \* for each event with a handler: its run of buildRoutes
    w2d,     \* the channels Client.wowToDiscord was built from
    d2w,     \* the channels Client.discordToWow was built from
    late,    \* history: a build stored older channels over newer ones
    task     \* for each handler: its message, the table entries it has still to
             \* do, the destinations it has seen, and where it has written

state == <<guilds, chans, changes, silent>>
vars  == <<state, builds, w2d, d2w, late, task>>

\* A message of onMessageCreate: "ignored" stands for those it returns early on
\* (the bot's own and other bots', empty ones, those with an ignored prefix).
Kinds == {"text", "command", "ignored"}

Idle == [kind |-> "ignored", todo |-> {}, seen |-> {}, out |-> <<>>]

Init ==
    /\ guilds = {} /\ chans = {}
    /\ changes = 0 /\ silent = 0
    /\ builds = <<>>
    /\ w2d = {} /\ d2w = {}
    /\ late = FALSE
    /\ task = [h \in Handlers |-> Idle]

-----------------------------------------------------------------------------
(* The tables. *)

\* The channels of a table that route r is about, named by name or by id.
Matches(r, from) == {c \in from : r.disc \in {c.name, c.id}}

\* The ids in wowToDiscord[dest].
Targets(dest, from) ==
    {c.id : c \in UNION {Matches(r, from) : r \in {q \in Range(Routes) :
                            q.wow = dest /\ q.dir # "discord_to_wow"}}}

\* The fault: a route is entered only under what it calls its channel.
EntriesAsNamed(key, from) ==
    {e \in (DOMAIN Routes) \X from :
        /\ Routes[e[1]].dir # "wow_to_discord"
        /\ e[2] \in Matches(Routes[e[1]], from)
        /\ key = Routes[e[1]].disc}

\* discordToWow[key]: a route is entered once for every channel it matches that
\* has this name or id.
Entries(key, from) ==
    {e \in (DOMAIN Routes) \X from :
        /\ Routes[e[1]].dir # "wow_to_discord"
        /\ e[2] \in Matches(Routes[e[1]], from)
        /\ key \in {e[2].name, e[2].id}}

\* Where entries lead to.
Leads(entries) == {Routes[e[1]].wow : e \in entries}

\* What onMessageCreate finds for channel c, by the name c has now, else by id.
Lookup(c, from) ==
    IF Entries(c.name, from) # {} THEN Entries(c.name, from)
                                  ELSE Entries(c.id, from)

\* The entries are taken in the order of the routes.
First(h, e) == e \in task[h].todo /\ \A f \in task[h].todo : e[1] <= f[1]

\* Where entry e leads the message of handler h; a command does not care.
Dest(h, e) == IF task[h].kind = "command" THEN Say ELSE Routes[e[1]].wow

-----------------------------------------------------------------------------
(* Faults a maintainer could introduce. *)

\* Only one of the tables is replaced.
StoreOne(e) ==
    /\ builds[e].pc = "store"
    /\ w2d' = builds[e].from
    /\ builds' = [builds EXCEPT ![e].pc = "done"]
    /\ UNCHANGED <<state, d2w, late, task>>

\* The tables only grow.
StoreAdd(e) ==
    /\ builds[e].pc = "store"
    /\ w2d' = w2d \cup builds[e].from
    /\ d2w' = d2w \cup builds[e].from
    /\ builds' = [builds EXCEPT ![e].pc = "done"]
    /\ late' = (late \/ \E f \in DOMAIN builds :
                          builds[f].pc = "done" /\ builds[f].scan > builds[e].scan)
    /\ UNCHANGED <<state, task>>

\* Destinations are not compared with those already served.
SendAlways(h, e) ==
    /\ First(h, e)
    /\ \E written \in BOOLEAN :
         task' = [task EXCEPT
                    ![h].todo = @ \ {e},
                    ![h].out = IF written THEN Append(@, Dest(h, e)) ELSE @]
    /\ UNCHANGED <<state, builds, w2d, d2w, late>>

-----------------------------------------------------------------------------
(* The gateway. *)

\* The guilds and channels change...
Change(known, channels) ==
    /\ changes < MaxEvents
    /\ guilds' = known /\ chans' = channels
    /\ changes' = changes + 1
    /\ UNCHANGED <<w2d, d2w, late, task>>

\* ...by an event with a handler, which is started when they have changed...
Heard(known, channels) ==
    /\ Change(known, channels)
    /\ builds' = Append(builds, [pc |-> "scan", scan |-> 0, from |-> {}])
    /\ UNCHANGED silent

\* ...or by one that Start adds no handler for.
Unheard(known, channels) ==
    /\ Change(known, channels)
    /\ silent' = changes'
    /\ UNCHANGED builds

\* A channel has one name.
OneName(channels) == \A c, d \in channels : c.id = d.id => c = d

\* READY announces the guilds without their channels.
Ready == Heard({}, {})

GuildCreate(g) ==
    /\ g \notin guilds
    /\ \E channels \in SUBSET {c \in ChEntry : GuildOf[c.id] = g} :
         OneName(channels) /\ Heard(guilds \cup {g}, chans \cup channels)

\* CHANNEL_CREATE and CHANNEL_UPDATE: a channel is new or has a new name.
ChannelUpdate(c) ==
    /\ GuildOf[c.id] \in guilds
    /\ c \notin chans
    /\ Unheard(guilds, {d \in chans : d.id # c.id} \cup {c})

ChannelDelete(c) == c \in chans /\ Unheard(guilds, chans \ {c})

GuildDelete(g) ==
    /\ g \in guilds
    /\ Unheard(guilds \ {g}, {c \in chans : GuildOf[c.id] # g})

-----------------------------------------------------------------------------
(* buildRoutes. *)

\* The channels are listed...
Scan(e) ==
    /\ builds[e].pc = "scan"
    /\ builds' = [builds EXCEPT ![e] = [pc |-> "store", scan |-> changes,
                                       from |-> chans]]
    /\ UNCHANGED <<state, w2d, d2w, late, task>>

\* ...and the tables made from them replace the old ones, under mu.
Store(e) ==
    /\ builds[e].pc = "store"
    /\ w2d' = builds[e].from
    /\ d2w' = builds[e].from
    /\ builds' = [builds EXCEPT ![e].pc = "done"]
    /\ late' = (late \/ \E f \in DOMAIN builds :
                          builds[f].pc = "done" /\ builds[f].scan > builds[e].scan)
    /\ UNCHANGED <<state, task>>

-----------------------------------------------------------------------------
(* onMessageCreate. *)

Take(h, c, kind) ==
    /\ task[h].todo = {}
    /\ c \in chans
    /\ task' = [task EXCEPT ![h] =
                  [kind |-> kind, seen |-> {}, out |-> <<>>,
                   todo |-> IF kind = "ignored" THEN {} ELSE Lookup(c, d2w)]]
    /\ UNCHANGED <<state, builds, w2d, d2w, late>>

SkipRoute(h, e) ==
    /\ First(h, e)
    /\ Dest(h, e) \in task[h].seen
    /\ task' = [task EXCEPT ![h].todo = @ \ {e}]
    /\ UNCHANGED <<state, builds, w2d, d2w, late>>

\* The message is written, or filtered, or there is no session that takes it.
SendRoute(h, e) ==
    /\ First(h, e)
    /\ Dest(h, e) \notin task[h].seen
    /\ \E written \in BOOLEAN :
         task' = [task EXCEPT ![h] =
                    [kind |-> @.kind,
                     todo |-> @.todo \ {e},
                     seen |-> @.seen \cup {Dest(h, e)},
                     out  |-> IF written THEN Append(@.out, Dest(h, e)) ELSE @.out]]
    /\ UNCHANGED <<state, builds, w2d, d2w, late>>

-----------------------------------------------------------------------------
Gateway ==
    \/ Ready
    \/ \E g \in Guilds : GuildCreate(g) \/ GuildDelete(g)
    \/ \E c \in ChEntry : ChannelUpdate(c) \/ ChannelDelete(c)

Next ==
    \/ Gateway
    \/ \E e \in DOMAIN builds : Scan(e) \/ Store(e)
    \/ \E h \in Handlers :
         \/ \E c \in ChEntry, kind \in Kinds : Take(h, c, kind)
         \/ \E e \in task[h].todo : SkipRoute(h, e) \/ SendRoute(h, e)

Spec == Init /\ [][Next]_vars

-----------------------------------------------------------------------------
(* Properties. *)

\* Type invariant.
TypeOK ==
    /\ guilds \subseteq Guilds
    /\ chans \subseteq ChEntry /\ OneName(chans)
    /\ changes \in 0 .. MaxEvents /\ silent \in 0 .. changes
    /\ \A e \in DOMAIN builds :
         builds[e] \in [pc : {"scan", "store", "done"}, scan : 0 .. MaxEvents,
                       from : SUBSET ChEntry]
    /\ w2d \subseteq ChEntry /\ d2w \subseteq ChEntry
    /\ late \in BOOLEAN
    /\ \A h \in Handlers :
         /\ task[h].kind \in Kinds
         /\ task[h].todo \subseteq (DOMAIN Routes) \X ChEntry
         /\ task[h].seen \subseteq Destinations \cup {Say}
         /\ Range(task[h].out) \subseteq task[h].seen

\* Whoever takes mu finds both tables built from the same channels, so that the
\* two directions of a "both" route appear and disappear together.
TablesTogether ==
    \A r \in Range(Routes) :
      r.dir = "both" =>
        \A c \in Matches(r, w2d \cup d2w) :
          c.id \in Targets(r.wow, w2d) <=> r.wow \in Leads(Entries(c.id, d2w))

\* The destinations of the routes from Discord that name channel c.
Routed(c) == {r.wow : r \in {q \in Range(Routes) :
                               q.dir # "wow_to_discord" /\ q.disc \in {c.name, c.id}}}

\* onMessageCreate asks for the id of a channel only when nothing is known under
\* the name, and the tables may be older than the name.  A message reaches every
\* destination that a route gives its channel when the tables know this channel as
\* it is; every destination that its old name had when it was renamed since, unless
\* the new name is a routed channel's; and no destination but those of channels
\* that have its name or its id.
RoutesFound ==
    \A c \in chans :
      LET found == Leads(Lookup(c, d2w)) IN
        /\ c \in d2w => Routed(c) \subseteq found
        /\ \A d \in d2w :
             d.id = c.id => \/ Routed(d) \subseteq found
                           \/ \E e \in d2w : e.name = c.name /\ Routed(e) # {}
        /\ found \subseteq UNION {Routed(d) : d \in {e \in d2w :
                                  e.name = c.name \/ e.id = c.id}}

Settled == \A e \in DOMAIN builds : builds[e].pc = "done"

\* The State has changed behind the back of the client since the last listing.
Missed == silent # 0 /\ \A e \in DOMAIN builds : builds[e].scan < silent

TablesCurrent == w2d = chans /\ d2w = chans

\* When every buildRoutes has ended, the tables are those of the guilds as they
\* are now, unless one buildRoutes overtook another or the client was not told.
CurrentUnlessLate == Settled => late \/ Missed \/ TablesCurrent

\* What README.md:11 lets one expect of the handlers: after the last event that the
\* client is told of, the tables are those of the guilds.
CurrentUnlessMissed == Settled => Missed \/ TablesCurrent

\* A Discord message is written at most once to each WoW destination, and a
\* command at most once at all, however many routes and channels match.
RelayedOnce ==
    \A h \in Handlers :
      /\ IsInjective(task[h].out)
      /\ task[h].kind = "command" => Len(task[h].out) <= 1
=============================================================================
