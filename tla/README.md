# Formal model of wowchat

wowchat is a bot that sits in a World of Warcraft realm as a player and relays
chat between the game and Discord. This directory holds TLA+ models of it, the
TLC configurations that check them, and proofs that TLAPS checks. Line numbers
are those of the files under `src/`.

- [The system](#the-system): components, state, interactions, what is hard
- [The modules](#the-modules): what each models, and how it maps to the code
- [The runs](#the-runs): what each checks, bounds, fairness
- [Disagreements found](#disagreements-found)
- [The proofs](#the-proofs)
- [Limits of the models](#limits-of-the-models)
- [Plan](#plan)

## The system

```
 main ──ctx──> App.Run ──Login──> realm server
                 │ connectOnce
                 ▼
  Discord   Session.Run <──packets── Conn.readLoop <── game server
  client      │  dispatch                                  ▲
    ▲         │  ├─ runPing, runKeepAlive ──┐              │
    │         ▼  ▼                          ▼              │
    ├─ SendFromWoW / WantsWoW            Conn.Write ───────┘
    └─ onMessageCreate ── game.SendChatMessage ──^
```

Goroutines: `App.Run` (which also is `Session.Run` while a session lasts), the
read loop of each connection, `runPing` and `runKeepAlive` of each session, and
one goroutine per Discord event (discordgo starts them). They share the packet
channel and `done` of a connection, its socket, `writeMu` and the header
cipher; the session's flags and names; and the Discord client's `game`
(`gameMu`) and route tables (`mu`).

| Component | Source | State | Operations | Correct when |
|---|---|---|---|---|
| application loop | `internal/app/app.go`, `cmd/wowchat/main.go` | the context, the session of `connectOnce` | `Run`, `connectOnce`, signals | a lost session is followed by a login; a signal ends the program; Discord handlers see the current session or none |
| realm client | `internal/wow/realm` | socket, SRP state | `Login` | each answer is read whole and once; it returns a proven key or an error, and a failed login or dial leaves no socket open |
| connection, read side | `internal/wow/game/conn.go`, `crypto/headercrypt.go` | `leftover`, `packets`, `done`, `serverCrypt` | `readLoop`, `parseHeader`, `readSome` | each packet is handed on once, in order, whatever pieces the bytes arrive in; the loop ends with its session |
| connection, write side | same | `writeMu`, `clientCrypt` | `Write` | headers leave in the order they were encrypted; writes return |
| handshake and dispatch | `session.go`, `auth.go` | `selfCharID`, `languageID` | `Run`, `dispatch`, the handlers | the requests are written in protocol order; one login per character list |
| channels, maintenance, chat out | `channels.go`, `maintenance.go`, `send.go` | `inWorld`, `joined`, two goroutines | joins, pings, keep-alives, `SendChatMessage` | channels are joined once; one pinger; goroutines end with `Run` |
| chat in and names | `chat.go` | `playerNames`, `pendingChats` | `handleChat`, `handleNameQuery` | no message waits in vain; a sender's messages keep their order |
| Warden | `warden.go` | two RC4 states, the module buffer | `handle` and its five requests | answers decrypt on the server |
| Discord routes | `discord/client.go` | `wowToDiscord`, `discordToWow`, `game` | `buildRoutes`, `SendFromWoW`, `WantsWoW`, `SetGame` | tables agree with each other and with the guilds that the client was told of |
| Discord messages | `discord/receive.go` | — | `onMessageCreate` | each destination once, over one session; commands where they are allowed |
| text | `discord/format.go`, `resolver.go` | — | `splitByLength`, formatting, links | nothing is lost by cutting; parts fit |
| crypto | `internal/wow/crypto` | — | SRP, big numbers, RC4, hashes | both sides derive one secret; proof and key keep their bytes |
| protocol | `internal/wow/protocol` | reader position | `Must…`, `Skip`, writers | — (panics on short packets) |
| configuration | `internal/config` | — | `.env` parsing, routes, `DialTCP` | routes and channels as configured |
| proxy | `internal/proxy` | the tunnel's buffer | SOCKS5, CONNECT | the tunnel starts at the first byte after the answer |
| logger, version | `internal/logger`, `internal/version` | — | output | — |

What is hard: two goroutines around one cipher with no lock between them; a
header that may arrive in pieces; a bounded channel whose reader goes away;
several writers under one mutex with no deadline; a reference that outlives the
session it names; event handlers that overtake each other, and events without a
handler; a chain of request and answer
with repeats and interruptions; packets that tell their size only in the middle,
through a reader that may take in more than it was asked for; numbers that lose
their leading zeros; byte and character counts.
`PROJECT.json` lists these hazards with their lines and the properties for them.

## The modules

| Module | Models | Composes / implements |
|---|---|---|
| `GameConn` | `readLoop`, `parseHeader`, the header cipher, the packet channel, `Session.Run` | implements `PacketStream` |
| `ConnWrite` | `Conn.Write` by several goroutines | implements `CipherStream` |
| `ChatRelay` | `chat.go`, `SendFromWoW`, a changing route | implements `SenderFifo` |
| `BigNum` | `BigNumber`'s conversions and `ModPow`, the two SRP secrets | functions |
| `Dial` | `Config.DialTCP`, the CONNECT exchange, `tunnelConn` | |
| `RealmLogin` | `realm.Client.Login` and the realm server | extends `Dial` and `BigNum` |
| `AppRun` | `App.Run`, `connectOnce`, `SetGame`, Discord handlers | composes `RealmLogin` and, for the game server, `Dial` |
| `GameSession` | the handlers of a session, its maintenance goroutines, the server | on top of what `GameConn` and `ConnWrite` promise |
| `Routing`, `MCRouting` | `buildRoutes`, `onMessageCreate`; an instance with three channels of two guilds | |
| `MessageSplit` | `splitByLength` | |
| `PacketStream`, `CipherStream`, `SenderFifo` | abstract specifications | |
| `Picks` | the members of a sequence that belong to a set | used by properties of `ChatRelay` and `MessageSplit` |
| `SequenceFacts` | induction, recursive functions, lemmas about sequences | used by `AppRunProofs`, `ChatRelayProofs`, `MessageSplitProofs` |
| `…Proofs` | theorems about the module of that name | |

**GameConn.** A frame is a header of 4 or 5 bytes and a body; bytes are counted.
`wire` are the frames the reader has not consumed, `unread` and `have` how many
of their bytes are in the socket and in `leftover`. `rpc` is the place in
`readLoop`: `top` before `parseHeader`, `more` after `errNeedMore`, `body` in
the inner loop, `push` at the `select`, `exiting` and `closing` between the
deferred calls. The cipher is reduced to positions: a header is decoded
correctly when reader and server stand at the same position of the keystream;
when not, the reader sees noise (`garbled`) and from then on any packet, or the
panic of a negative slice bound, can come out. A handler given noise may panic
too (`HandlePanic`, for the `Must…` functions). `ParseSplitHeader` is the path
of lines 122–126: four bytes decrypted, the fifth missing. `run` is the place
in `Session.Run`; `init` and `reply` are lines 42 and 44 of `auth.go`, so that
the switch of the cipher and the read loop interleave. Histories: `handled`,
`split`.

**ConnWrite.** Each writer is idle, waits for `writeMu`, encrypts, sends. `wire`
records the keystream position of each header. AUTH_SESSION, the first packet,
is in the clear.

**ChatRelay.** Messages are numbered per sender. `out` is what the running
handler has still to pass to `SendFromWoW`, so that a route may change between
`WantsWoW` and `SendFromWoW`, and between two kept messages. `inbox` holds the
packets that have arrived, `asked` the queries the server has not answered.

**BigNum.** Bytes are `0 .. Base-1`. `AsByteArray` is what the code does: the
digits of the number (`Digits`, by repeated division), reversed if asked for, and zeros *behind* them, whichever
end is the most significant one. `ModPow` takes a negative base, as the
client's `B - k*g^x` may be one. `Exchanges` are the secrets of all logins in
the group of order 6 modulo 7, with a server that reduces its public number and
with one that does not. Hashes are any string of bytes.

**Dial.** The unit is a *cell*, a line of the proxy's answer or a part of a
packet. `via` is the proxy setting; `dial` is the place in `DialContext`:
`tcp`, the status line, the header lines of an accepting or refusing answer.
`held` is the `bufio.Reader`, which takes in whatever has come when it looks for
a line, the first bytes of the tunnel included; `tunnelConn.Read` empties it
first (`Readable`, `Consume`). The proxy may break off anywhere.

**RealmLogin.** `phase` is the place in `Login`; a phase `challenge`, `proof` or
`list` reads the answer of that opcode with `readRealmPacket`: `buf` is its
buffer, `Size` its rule for the size of a packet, which may need more cells than
have come (`ErrShortBuffer`), and `Wanted` what the next `Read` asks for. `Exit`
is the deferred `Close`. `MustPanics` are fields that reach behind the packet.
The server answers rightly or wrongly, with a refusal, a second factor, an
opcode nobody asked for or a forged proof, and may hang up at any time. It
accepts a proof only when the bytes are those it has computed itself.

**AppRun.** `app` is the place in the loop. While it is `login`, the steps of
`RealmLogin` are taken; while it is `dial`, those of `Dial`, this time towards
the game server, whose first packet (`Greet`) may come together with the proxy's
answer. A session is an identity that is used again when nothing refers to it,
so any number of reconnects is covered. `task` holds each Discord handler's copy
of `Client.game`; its field `to` is a history. `sock` is the socket of a login or
of dialling. Once the game server is dialled the socket is the session's: `ours`
are the sessions whose socket the program has not closed, `open` those whose
peer is still there too, and `reading` those whose read loop runs. `RunCancelled`
closes the socket and leaves the read loop to notice; `RunDone` takes place
when the read loop has ended and closes nothing, as the code does. Only when an
identity is used again (`LoginOK`), when neither a handler nor a read loop refers
to the old session, is its socket gone, as Go's runtime closes what is open of a
connection that it collects.

**GameSession.** A packet arrives and is written in one step; what the bot has
written is in `log`. `joining` is the index of the loop in
`joinConfiguredChannels`, so that other goroutines write between two joins.
`Of(s, op)` are the places of the packets `op` in `s`.

**Routing.** `guilds` and `chans` are discordgo's `session.State`: the guilds
that are known with their channels, and the channels, each an id and a name.
The gateway changes them in two ways. `Ready` and `GuildCreate` are `Heard`: the
client has a handler, which starts a `buildRoutes`. `ChannelUpdate` (a channel
is new or renamed), `ChannelDelete` and `GuildDelete` are `Unheard`: discordgo
serves them and `Client.Start` has no handler (`client.go:90-92`). `changes`
counts both and `silent` is the number of the last unheard one; these are
histories. `builds` has one entry per event with a handler, with the place of its
`buildRoutes`, the channels it listed and the number of changes by then. A table is a function of these, so
`w2d` and `d2w` hold them, and `Targets`, `Entries` and `Lookup` compute the
entries. An entry is a pair of a route's index and the channel it was entered
for, so that a route stands in a table once for each channel; the handler takes
them in the order of the routes, under the name that the channel has now.
`late` is a history. `NamesAssumption`: no channel is named like an id.

**MessageSplit.** Characters have one byte or two. `SoftCut` uses the byte count
where the code uses it as a number of characters.

Each module has a section of *faults a maintainer could introduce*: mutated
forms of its actions, one for each property, under which TLC finds the property
violated. They show that the properties can fail; no specification uses them.

## The runs

| Run | Bounds | Distinct states | Asks |
|---|---|---|---|
| `GameConn` | 3 frames, bodies of 0–1 bytes, headers of 4 and 5, channel of 1 | 35 690 | exactly once and in order; noise only after a split header; `PacketStream`; both goroutines end |
| `GameConnStreams` | the same | — | the two keystreams agree (violated) |
| `ConnWrite` | 3 writers, no new write after 3 encrypted headers | 5 854 | headers in keystream order; writes return; `CipherStream` |
| `ChatRelay` | 2 players and the system, 4 messages, 1 route change | 164 741 | one query per waiting sender; names; `SenderFifo`; all posted |
| `AppRun` | bytes 0–1, digests of 2, one header line, 2 sessions, 1 handler, 2 chunks | 731 476 | answers read whole, no socket behind a failed login or dial nor under a read loop without a session, key proven, secrets agree, greeting kept, current session, no mixed sessions, reconnects, signal |
| `AppRunHang` | digests of 1, no header line, 1 chunk; the realm server may keep silent | — | the signal ends the program (violated) |
| `RealmProof` | as `AppRun`, the login alone | — | the proof arrives as computed (violated) |
| `GameSession` | 2 channels, 2 ticks, 1 chat, 1 extra packet | 243 174 | protocol order, joins, pings, endings |
| `Routing` | 3 changes of the guilds, 3 channels, 2 names, 4 routes, 1 handler | 372 120 | tables together, routes found, current unless late or not told, each destination once |
| `RoutingRace` | 2 changes | — | tables current once all is quiet, unless the client was not told (violated) |
| `MessageSplit` | ASCII, up to 8 characters, limits 1–4 | 209 057 | text kept, parts fit, words whole |
| `MessageSplitCyrillic` | one narrow and one wide letter | — | text kept (violated) |

Why the bounds are enough. `GameConn`: one frame before the cipher, one that can
be split, one behind it; a channel of one place is full while another packet is
held; the safety properties are proved for all bounds. `ConnWrite`: three
writers put one inside the mutex and two in competition; proved for all.
`AppRun`: there must be one more session than handlers, or `LoginOK` could be
refused an identity, which no memory is; a handler keeps an old session while
another is current, and handlers do not affect each other. Digests of two bits
have leading zeros and trailing ones; one header line of the proxy is as good as
many; the conversation itself is not bounded. `ChatRelay`: a sender's second
message while its query is out, a third after the answer, next to another sender.
`GameSession`: two channels have a first and a last; one extra packet is the
repeat of LOGIN_VERIFY_WORLD, a queue notice, a clock request or the Warden
request that lists characters a second time. `Routing`: three changes
are two builds that overtake each other and an event without a handler before,
between or behind them, or one build and two such events; handlers do not affect
each other, so one suffices; all its properties are proved for any number. `MessageSplit`:
texts of twice the greatest limit see every combination of soft and hard cuts.

`CHECK_DEADLOCK FALSE` stands where the system may really come to rest: no
writer wants to write, nobody says anything, the session or the program has
ended, the events are served, the text is cut.

Fairness.

- `GameConn`: each goroutine is scheduled (weak fairness). `select` chooses at
  random among ready cases, so a case that is ready again and again is taken:
  strong fairness of the two cases that return. Handlers return: their writes
  are those of `ConnWrite`, and a peer that stops reading without hanging up is
  outside this run. Nothing obliges the server to send.
- `ConnWrite`: `sync.Mutex` hands the lock to a waiter that starves, so `Lock` is
  strongly fair. `WritesReturn` excepts a stalled peer: there is no deadline.
- `ChatRelay`: the `Run` goroutine is scheduled and a live server answers queries.
- `AppRun`: timers fire, the gateway answers, a TCP connection is made or times
  out, and while Run takes the packets the read loop gets to its next read, which
  fails on a dead connection; of a read loop whose Run has returned nothing is
  assumed. `Reconnects` starts from a lost session and from every failed attempt,
  in Login or in dialling. That the realm server and the proxy
  answer or hang up is *not* in the code's hand (no deadline, no context), so it
  is only in `FairServerSpec`, which `AppRun` uses; `AppRunHang` shows what
  happens without it.
- `GameSession`: the server answers each request, as the protocol obliges it to;
  breaking off is always possible, and the liveness properties allow for it.

## Disagreements found

1. **A split 5-byte header shifts the keystream** (`conn.go:122`, run
   `GameConnStreams`). `parseHeader` decrypts four bytes, finds that a fifth is
   needed and not there, and returns `errNeedMore`; when it is called again it
   decrypts the same bytes with the following keystream. All later packets are
   noise. `headercrypt_test.go:31` requires that the "server streams" agree.
   `SmallHeadersAgree` proves that this is the only way to lose the keystream.
2. **Ctrl+C during the realm login is not acted on** (`app.go:59`, run
   `AppRunHang`), against `README.md:114`.
3. **A late `buildRoutes` wipes the routes** (`client.go:161`, run
   `RoutingRace`): handlers of READY and GUILD_CREATE run concurrently; the one
   that listed fewer channels may store last. `CurrentUnlessLate` shows that
   only this, and a change that the client is not told of (below), makes the
   tables stale.
4. **A proof that begins with a zero byte is sent shifted** (`bignum.go:81`, run
   `RealmProof`). M is kept as a number, and `AsByteArray` puts the zeros that
   are missing at the end. `srp_test.go:74` requires "client M" to be "server M".
   The server refuses one right password in 256; the next try, ten seconds
   later, has another M. The session key takes the same way little end first,
   where the zeros belong at the end: `KeyRoundTrip` proves that it is not hurt.
   `ProofRoundTrip` proves that a proof whose first byte is not zero is not
   hurt either.
5. **`splitByLength` mixes bytes and characters** (`format.go:49`, run
   `MessageSplitCyrillic`): `"я я"` cut at 2 loses its last letter, longer words
   panic. With ASCII the text is kept (`MessageSplit`, and `TextKeptCorrect` for
   every such text).

Seen and not turned into runs:

- the branch of `DISCORD_ENABLE_COMMANDS_CHANNELS` is empty (`receive.go:44`,
  `README.md:143`);
- the client is not told of every change (`client.go:90-92`): discordgo also
  creates, renames and deletes channels in `session.State`, for which `Start` adds
  no handler. A channel that gets its routed name later is in no table until a
  READY or GUILD_CREATE, and its messages are dropped, though `README.md:179` says
  "matching works by both name and ID". The model has these events, and `Missed`
  is what they do to `CurrentUnlessLate`. `RoutesFound` says what does hold: a
  renamed channel is still found under its id, unless its new name is a routed
  channel's;
- the length of a security token is read behind the packet (realm
  `client.go:202`): the program panics, which `MustPanics` models;
- a refused proof of two bytes is waited for with three (`client.go:246`): if
  the server keeps the connection, Login hangs;
- a piece of a Warden module that comes before the module is announced meets a
  nil cipher, and a piece behind a module that did not inflate is added to what
  is left of it (`warden.go:143`);
- `Session.Run` closes its socket when the context ends, not when the connection
  is done (`session.go:77-81`), and the read loop closes none: the socket stays
  open until the garbage collector finds the connection, which it can, since its
  read loop has ended (`SocketsClosed`);
- `TagFailedNotify` is parsed and never used (`config.go:198`, `README.md:144`);
- `DISCORD_TOKEN` is called required and is not (`README.md:140`,
  `app.go:24-36`);
- a route that names a channel by id also serves channels of the same name in
  other guilds (`client.go:155`).

## The proofs

Seven modules hold the theorems about the components, and `SequenceFacts` the
lemmas they share, all checked to the last leaf. Their assumptions are
those of the `ASSUME` of each module: natural bounds, a channel capacity of at
least one, header lengths among 4 and 5, distinct model values, known directions
of routes, no channel named like an id. Each component has an inductive
invariant, `IInv`, that adds what the properties silently rely on.

**GameConnProofs.** `TypeCorrect`, `ExactlyOnceCorrect`,
`NoiseOnlyAfterSplitCorrect`, `SmallHeadersAgree`, `StreamCorrect`. The
inductive invariant `IInv` adds to the types five parts. `Pipe`: handled packets,
channel and held packet continue one sequence. `Tally`: the frames on the wire
are the last ones sent. `Handshake`: the cipher is switched on between the first
packet and the answer to it, when no other frame can be under way, which is why
the unlocked switch does no harm. `Chain`: while no header was split, the frames'
keystream positions form a chain from the reader to the server. `Noise`: a split
header leaves the reader ahead of the server for good. `ExactlyOnce` alone is
not inductive: that `TakeBody` takes a frame and not noise needs `Chain`, and
`Chain` needs `Handshake` when the cipher goes on.

**ConnWriteProofs.** `TypeCorrect`, `HeadersInStepCorrect`, `StreamCorrect`: at
most the holder of the mutex is inside, and the header it has taken is the one
that follows the wire; so encryption and sending, two steps, act as one.

**SequenceFacts.** The installed provers cannot instantiate the library's
induction rule, whose induction hypothesis is an operator. What they can use is
that `<` is well-founded on the natural numbers, a fact about *sets*
(`NatLessThanWellFounded`, `WFMin`). From it come `LeastNatural`; `Induction`,
for a set of numbers that holds 0 and is closed under the successor; and
`PrimitiveRecursion`, that a function is defined by its value at 0 and its step,
so that a recursive function of the models has the values its definition says
(a `CHOOSE` says nothing without a witness). `Picked` is such a function: the
members of a sequence that belong to a set, and lemmas say what it does to a
sequence that grows at its end or shrinks at its head.

**AppRunProofs** has three layers, as `AppRun` has.

*Numbers* (`BigNum`). `SecretsEqual`: `ModPow` is congruent to the power it is
named for (`ModPowCorrect`, by induction over the exponent), also when its base
is negative; the laws of powers, again by induction, carry one secret into the
other; and what is congruent and reduced is equal. `ServerPublic` is the server's
public number. The theorem is for all numbers, any base and any modulus;
`ExchangesAgree` is its instance for the group that the runs use. `KeyRoundTrip`
and `ProofRoundTrip`: the digits of the number of a string of bytes are the
string without its leading zeros (`Digits` divides step by step what `FromBytes`
has put together); a key is turned round before and after, so the zeros that
`Pad` appends are the ones that were lost. A proof is not turned round, so its
theorem has the hypothesis that its first byte is not zero.

*The login* is proved once, as lemmas about the steps of `Dial` and `RealmLogin`,
and used in the composition, where the same variables serve two connections.
`AnswersWholeCorrect`: `LoginIInv` says that what is under way, in the reader's
buffer, in the proxy's or on the wire, is together the one answer to the last
request or a beginning of it (`Answering`), which holds only because the client
never has two requests open, and that a blank line ends the proxy's answer
(`Dialling`, `BlankIsLast`). `SocketsClosedCorrect` has two halves. Of Login and
of dialling: nothing is under way when no request is (`Quiet`), and a closed dial
has no socket (`NoSocket`). Of the sessions: a read loop that runs over a socket
that the program has not closed is the one that Run is waiting for (`Served`),
because Run returns only when it has ended or after closing the socket.
`KeyProvenCorrect`: behind the proof both secrets are one and the server has said
so (`Proven`); with `KeyRoundTrip` the key that the session gets is the server's.
`SecretsAgreeCorrect`: with `ExchangesAgree`, a server that knows the password
has the client's secret.

*The loop.* `GameIsCurrentCorrect`, `TypeCorrect`, and `NoMixedSessionsCorrect`:
the sessions a handler's chunks went to are contained in its copy of the
reference (`Faithful`), which only `TakeGame` sets. `InStep` ties the place in
the loop to the place in the login. `GreetingKeptCorrect`: `GreetingInv` says
that the reader of a proxy's answer has a blank line before it (`BlankAt`), and
that what the game server says stands behind that line (`GreetingAt`), in the
buffer or on the wire. The reader stops at the blank line, so it cannot consume
the greeting; and nothing of the login is left over when the dialling begins,
which is `LoginIInv` again.

**GameSessionProofs.** `WrittenInOrderCorrect`, `JoinsOnceCorrect`,
`PingsInTurnCorrect`, `TypeCorrect`. `Asked`: what the server has under way was
asked for, and Warden stands behind the welcome; that is why a handler finds the
packets it relies on in `log`. `Counted` compares how often the bot has asked
and been answered. `Flags` ties `inWorld`, `joined` and the two goroutines to
what was written; `InTurn` the counters to the last join and ping. `Logged` is
the three properties as a statement about any sequence, so that one lemma
(`LogStep`) does for every action that appends a packet that may follow
(`Follows`).

**ChatRelayProofs.** `OneQueryEachCorrect`, `NameStaysCorrect`, `TypeCorrect`,
`FifoCorrect`.
`Queries`: a sender who waits has one query or answer under way, all others
none; the three sequences it may be in are counted together (`Under`), so that a
packet that moves from one to the next leaves the count. `Named`: who was posted
under a name is known. `Said`: what is kept or passed on was said.
`FifoCorrect` maps the line of a sender to three pieces, the lines to send, the
messages kept and those in the inbox (`Waiting`). `KeepChat` and `TakeName` move
messages over the seam of two pieces and are stutters; that `PassChat`, which
moves one from the last piece to the first, is one too rests on `Queries`:
nothing is kept of a sender whose name is known. `DropChat` is a loss behind the
kept messages, `SendFromWoW` a post or a loss at the head.

**RoutingProofs.** `TablesTogetherCorrect`, `CurrentUnlessLateCorrect`,
`RoutesFoundCorrect`, `RelayedOnceCorrect`, `TypeCorrect`. `Listed`: the last
change was an unheard one, or the newest build lists after it, and
a build that listed after the last change listed the guilds as they are.
`Newest`: unless `late`, the tables are those of the build that listed last among
the finished ones. So when all have ended and the tables are not those of the
guilds, the last change was unheard and came behind every listing (`Missed`).
`RoutesFoundCorrect` goes by which of its names a channel's entries stand under;
that an entry under a name is not one under an id is `NamesAssumption`. `Noted`:
a handler has written only to destinations it has noted, each once; a command
counts as one destination.

**MessageSplitProofs.** `PartsFitCorrect`, for every text, alphabet and limit:
by cases on the three steps, with the library's facts about `SubSeq` and
`Append`. `TextKeptCorrect` and `WordsWholeCorrect` have the hypothesis `Plain`,
that the text has no wide letter, without which they are false (disagreement 5).
`PlainInv` adds to them that the rest is the end of the text. That a cut keeps
the letters, where a soft cut drops a space and nothing else, needs
`PickedConcat` and what `FlattenSeq` does to a sequence with one part more, both
by induction.

No safety property of a passing run is left without a theorem. Only
model-checked are the liveness properties (`WritesReturn`, `DropEndsRun`,
`CancelEndsRun`, `ReaderEnds`, `AllPosted`, `Reconnects`, `SignalStops`,
`MaintenanceEnds`, `JoinsAll`), because fairness and `ENABLED` are out of the
prover's reach, and the five violations, which are about single behaviours.

## Limits of the models

- `<-c.done` in the push (`conn.go:104-108`) is never ready, since only the read
  loop closes `done`, after it has left the `select`; the model has no action for
  it. `readSome` returning bytes together with an error (`conn.go:142-156`) is
  taken as bytes first, error at the next call.
- `GameConn`: once Run has closed the socket, the server's further bytes do not
  matter and it sends none. Noise that decodes to the opcode of AUTH_CHALLENGE
  is left out.
- The accesses to `inWorld`, `languageID` and `initialized` from several
  goroutines are races; the models take them as sequentially consistent.
- `ChatRelay`: `SayNoise` comes only when the inbox is empty; filters do not match
  and Discord accepts what is posted, so `posted` is what was handed to its API;
  all chat has one type and channel, and a route has one target.
- `GameSession`: Warden's two writes, the answer and the list request, are one
  step; their separation is that of `ConnWrite`. Notifications and channel
  notices only log and are left out.
- `AppRun`: a session is collected when no handler and no read loop refers to it;
  its maintenance goroutines, which end with its Run (`GameSession`), are not
  counted.
- `Routing`: the guilds' channels are listed in one step; the code walks them
  without discordgo's lock. Settings other than the routes are fixed. A channel
  does not change its guild or its type. Messages come from channels that the
  state knows; discordgo keeps channels it once knew findable after a READY, and
  whether a message arrives before the guild is announced again is the gateway's.
  Destinations are values: the comparison that finds two routes to one
  destination is case-sensitive (`receive.go:62-95`), the key of the other table
  is in lower case (`client.go:150`).
- `RealmLogin`: a packet's fields are a few cells, so a `Read` may end only
  between them; the places where `readRealmPacket` decides about the size are
  ends of cells. The password is right or not; the group of the checked secrets
  is small. The tables of `crchashes.go` are data.
- `Dial`: SOCKS5 is a library's and looks direct. The write of CONNECT and the
  reads behind it fail together. A game server that hangs up before its
  greeting is read is found by the read loop, not by the dialler.
- Not modelled: Warden's module transfer and ciphers (which of its requests are
  answered is in `GameSession`), text formatting and links, `.env` parsing, RC4's
  permutation, hashes, the logger. The contents of packets are abstract
  everywhere.

## Plan

Done, in this order: `GameConn` and its proofs, `ConnWrite`, `ChatRelay`,
`AppRun`, `GameSession`, `Routing`, `MessageSplit`; then `BigNum`, `Dial` and
`RealmLogin` composed into `AppRun`; then the proofs of `RealmLogin`, `Routing`,
`GameSession` and `ChatRelay`; then induction, and with it the arithmetic of SRP,
the text of `MessageSplit`, the game server's greeting and the refinement of
`SenderFifo`.

What would come next:

1. Warden's module transfer (`moduleBuf`, `moduleLen`) and the positions of its
   two ciphers across the hash request, composed with `GameSession`.
2. An abstract session (logged out, in the world, over) that `GameSession`
   implements.
3. The two directions of `Routing` composed with `ChatRelay`, so that a route
   that changes is one that `buildRoutes` stores.
4. The list parsing of the configuration, as functions over bounded inputs.
