---------------------------- MODULE GameSession ----------------------------
(***************************************************************************)
(* One session with the game server above its connection: the handlers     *)
(* that take the bot from AUTH_CHALLENGE into the world and its channels,  *)
(* the ping and keep-alive goroutines they start, and the chat that        *)
(* Discord handlers write meanwhile.  No handler looks at what came before *)
(* it except through the flags inWorld and joined, so the order of what    *)
(* the bot writes depends on the server and on these flags.                *)
(*                                                                         *)
(* A packet arrives and is written in one step each: GameConn and          *)
(* ConnWrite show how.  The server is modelled from what the handlers      *)
(* expect of it; it may send LOGIN_VERIFY_WORLD more than once, keep the   *)
(* bot in a queue, refuse it, and start a Warden check at any time.        *)
(***************************************************************************)
EXTENDS Integers, Sequences, FiniteSets, SequencesExt

CONSTANTS NumChannels, \* Len(joinChannels)
          OnMac,       \* cfg.WoW.Platform is Mac, the only one Warden accepts
          MaxTicks,    \* bound: ticks of the maintenance goroutines
          MaxChats,    \* bound: messages from Discord
          MaxExtra     \* bound: queue notices, Warden and time requests and
                       \* repeated LOGIN_VERIFY_WORLD packets together

ASSUME SessionAssumption ==
    /\ NumChannels \in Nat
    /\ OnMac \in BOOLEAN
    /\ {MaxTicks, MaxChats, MaxExtra} \subseteq Nat

VARIABLES
    inbox,     \* packets from the server, not dispatched yet
    log,       \* the packets written to the server, oldest first
    run,       \* Session.Run is in its loop, or has returned
    joining,   \* the channel joinConfiguredChannels writes next, 0 if none
    inWorld,   \* Session.inWorld
    joined,    \* Session.joined
    language,  \* Session.languageID, 0 until the character is known
    pingers,   \* the running runPing goroutines: the id of each one's next ping
    keepers,   \* the number of running runKeepAlive goroutines
    broken,    \* the connection is gone: writes fail
    cancelled, \* the context of Run is cancelled
    exists,    \* the account has the configured character
    server     \* what the server has done

botVars == <<inbox, log, run, joining, inWorld, joined, language>>
maintVars == <<pingers, keepers>>
envVars == <<broken, cancelled, exists>>

vars == <<botVars, maintVars, envVars, server>>

Human == 7   \* a language id; only its being set matters

Init ==
    /\ inbox = <<>> /\ log = <<>>
    /\ run = "loop"
    /\ joining = 0
    /\ inWorld = FALSE /\ joined = FALSE
    /\ language = 0
    /\ pingers = <<>> /\ keepers = 0
    /\ broken = FALSE /\ cancelled = FALSE
    /\ exists \in BOOLEAN
    /\ server = [phase |-> "new", enums |-> 0, logins |-> 0, extra |-> 0]

Packet(op, arg) == [op |-> op, arg |-> arg]

\* The packets that the two sides send.
FromServer == {"challenge", "ok", "queue", "refused", "chars", "verify", "hash",
               "module", "time"}
FromBot    == {"auth", "enum", "login", "warden", "time", "join", "ping", "keep",
               "chat"}

\* The log after writing packets s: Conn.Write fails once the connection is gone.
Written(s) == IF broken THEN log ELSE log \o s

\* Where packets of a kind stand in a sequence, and how many are in the log.
Of(s, op) == {i \in 1 .. Len(s) : s[i].op = op}
Count(op) == Cardinality(Of(log, op))

\* Run is at its select, and the next packet has this opcode.
Dispatching(op) == run = "loop" /\ joining = 0 /\ inbox # <<>> /\ Head(inbox).op = op

\* maintCtx is a child of Run's context and is cancelled when Run returns.
MaintDone == cancelled \/ run = "returned"

-----------------------------------------------------------------------------
(* Faults a maintainer could introduce. *)

\* Chat goes out whether or not the bot is in the world.
SendChatAnytime ==
    /\ Count("chat") < MaxChats
    /\ log' = Written(<<Packet("chat", language)>>)
    /\ UNCHANGED <<inbox, run, joining, inWorld, joined, language, maintVars,
                   envVars, server>>

\* Entering the world again starts the maintenance goroutines again.
VerifyWorldRestarts ==
    /\ Dispatching("verify")
    /\ inWorld' = TRUE
    /\ pingers' = Append(pingers, 0)
    /\ keepers' = keepers + 1
    /\ joined' = TRUE
    /\ joining' = IF joined \/ NumChannels = 0 THEN 0 ELSE 1
    /\ inbox' = Tail(inbox)
    /\ UNCHANGED <<log, run, language, envVars, server>>

\* Entering the world again joins the channels again.
VerifyWorldRejoins ==
    /\ Dispatching("verify")
    /\ inWorld' = TRUE
    /\ IF inWorld THEN UNCHANGED maintVars
                  ELSE pingers' = Append(pingers, 0) /\ keepers' = keepers + 1
    /\ joined' = TRUE
    /\ joining' = IF NumChannels = 0 THEN 0 ELSE 1
    /\ inbox' = Tail(inbox)
    /\ UNCHANGED <<log, run, language, envVars, server>>

\* The goroutines watch a context that outlives Run.
PingStopOnSignal(i) ==
    /\ cancelled
    /\ pingers' = RemoveAt(pingers, i)
    /\ UNCHANGED <<botVars, keepers, envVars, server>>

\* The last channel is forgotten.
JoinChannelButLast ==
    /\ joining > 0
    /\ log' = Written(<<Packet("join", joining)>>)
    /\ joining' = IF joining >= NumChannels - 1 THEN 0 ELSE joining + 1
    /\ UNCHANGED <<inbox, run, inWorld, joined, language, maintVars, envVars,
                   server>>

-----------------------------------------------------------------------------
(* The server, the network and the operator. *)

\* The server's next packet, which leaves it as s.
ServerSends(op, s) ==
    /\ ~broken
    /\ inbox' = Append(inbox, Packet(op, 0))
    /\ server' = s
    /\ UNCHANGED <<log, run, joining, inWorld, joined, language, maintVars, envVars>>

Challenge ==
    /\ server.phase = "new"
    /\ ServerSends("challenge", [server EXCEPT !.phase = "challenged"])

\* The answer to AUTH_SESSION, perhaps after some time in the queue.
AuthResult(op, phase) ==
    /\ server.phase = "challenged" /\ Count("auth") > 0
    /\ ServerSends(op, [server EXCEPT !.phase = phase])

Queue ==
    /\ server.phase = "challenged" /\ Count("auth") > 0
    /\ server.extra < MaxExtra
    /\ ServerSends("queue", [server EXCEPT !.extra = @ + 1])

ListCharacters ==
    /\ server.enums < Count("enum")
    /\ ServerSends("chars", [server EXCEPT !.enums = @ + 1])

LetIn ==
    /\ server.logins < Count("login")
    /\ ServerSends("verify", [server EXCEPT !.logins = @ + 1])

\* The bot is moved about in the world it has been let into.
LetInAgain ==
    /\ server.logins > 0 /\ server.extra < MaxExtra
    /\ ServerSends("verify", [server EXCEPT !.extra = @ + 1])

\* A Warden request, of which the hash request is the one with consequences.
AskWarden(op) ==
    /\ server.phase = "open" /\ server.extra < MaxExtra
    /\ ServerSends(op, [server EXCEPT !.extra = @ + 1])

\* The server compares clocks with a client that is in the world.
AskTime ==
    /\ server.logins > 0 /\ server.extra < MaxExtra
    /\ ServerSends("time", [server EXCEPT !.extra = @ + 1])

Break ==
    /\ ~broken
    /\ broken' = TRUE
    /\ UNCHANGED <<botVars, maintVars, cancelled, exists, server>>

Cancel ==
    /\ ~cancelled
    /\ cancelled' = TRUE
    /\ UNCHANGED <<botVars, maintVars, broken, exists, server>>

-----------------------------------------------------------------------------
(* The handlers; an error they return is only logged. *)

\* A handler that does no more than write the packets s.
Reply(op, s) ==
    /\ Dispatching(op)
    /\ log' = Written(s)
    /\ inbox' = Tail(inbox)
    /\ UNCHANGED <<run, joining, inWorld, joined, language, maintVars, envVars,
                   server>>

AuthChallenge == Reply("challenge", <<Packet("auth", 0)>>)

\* handleAuthResponse.
Welcome == Reply("ok", <<Packet("enum", 0)>>)
Queued  == Reply("queue", <<>>)
Refused == Reply("refused", <<>>)

\* handleCharEnum; a second list logs in a second time.
CharEnum ==
    /\ Dispatching("chars")
    /\ IF exists
         THEN log' = Written(<<Packet("login", 0)>>) /\ language' = Human
         ELSE UNCHANGED <<log, language>>
    /\ inbox' = Tail(inbox)
    /\ UNCHANGED <<run, joining, inWorld, joined, maintVars, envVars, server>>

\* handleLoginVerifyWorld, as far as the first join.
VerifyWorld ==
    /\ Dispatching("verify")
    /\ ~inWorld
    /\ inWorld' = TRUE
    /\ pingers' = Append(pingers, 0)
    /\ keepers' = keepers + 1
    /\ joined' = TRUE
    /\ joining' = IF joined \/ NumChannels = 0 THEN 0 ELSE 1
    /\ inbox' = Tail(inbox)
    /\ UNCHANGED <<log, run, language, envVars, server>>

VerifyWorldAgain == inWorld /\ Reply("verify", <<>>)

\* The loop of joinConfiguredChannels; a failing write does not end it.
JoinChannel ==
    /\ joining > 0
    /\ log' = Written(<<Packet("join", joining)>>)
    /\ joining' = IF joining = NumChannels THEN 0 ELSE joining + 1
    /\ UNCHANGED <<inbox, run, inWorld, joined, language, maintVars, envVars,
                   server>>

TimeSync == Reply("time", <<Packet("time", 0)>>)

\* handleWardenData: the hash request is answered, and the characters listed.
WardenHash ==
    Reply("hash", IF OnMac THEN <<Packet("warden", 0), Packet("enum", 0)>> ELSE <<>>)

\* The other Warden requests are answered or not.
WardenOther ==
    \/ OnMac /\ Reply("module", <<Packet("warden", 0)>>)
    \/ Reply("module", <<>>)

\* Run returns, on its context or on its connection, and cancels maintCtx; on its
\* context it closes the connection too.
Return ==
    /\ run = "loop" /\ joining = 0
    /\ cancelled \/ broken
    /\ run' = "returned"
    /\ broken' \in {broken, TRUE}
    /\ broken' # broken => cancelled
    /\ UNCHANGED <<inbox, log, joining, inWorld, joined, language, maintVars,
                   cancelled, exists, server>>

-----------------------------------------------------------------------------
(* The other goroutines. *)

Ticks == Count("ping") + Count("keep")

\* runPing: a tick.
Ping(i) ==
    /\ Ticks < MaxTicks
    /\ log' = Written(<<Packet("ping", pingers[i])>>)
    /\ pingers' = IF broken THEN RemoveAt(pingers, i)
                            ELSE [pingers EXCEPT ![i] = @ + 1]
    /\ UNCHANGED <<inbox, run, joining, inWorld, joined, language, keepers,
                   envVars, server>>

PingStop(i) ==
    /\ MaintDone
    /\ pingers' = RemoveAt(pingers, i)
    /\ UNCHANGED <<botVars, keepers, envVars, server>>

\* runKeepAlive: a tick.
KeepAlive ==
    /\ keepers > 0
    /\ Ticks < MaxTicks
    /\ log' = Written(<<Packet("keep", 0)>>)
    /\ keepers' = IF broken THEN keepers - 1 ELSE keepers
    /\ UNCHANGED <<inbox, run, joining, inWorld, joined, language, pingers,
                   envVars, server>>

KeepAliveStop ==
    /\ keepers > 0
    /\ MaintDone
    /\ keepers' = keepers - 1
    /\ UNCHANGED <<botVars, pingers, envVars, server>>

\* SendChatMessage, in a Discord handler.
SendChat ==
    /\ inWorld
    /\ Count("chat") < MaxChats
    /\ log' = Written(<<Packet("chat", language)>>)
    /\ UNCHANGED <<inbox, run, joining, inWorld, joined, language, maintVars,
                   envVars, server>>

-----------------------------------------------------------------------------
Answer ==
    \/ Challenge \/ ListCharacters \/ LetIn
    \/ AuthResult("ok", "open") \/ AuthResult("refused", "refused")

Server ==
    \/ Answer \/ Queue \/ LetInAgain \/ AskTime
    \/ \E op \in {"hash", "module"} : AskWarden(op)

Handlers ==
    \/ AuthChallenge \/ Welcome \/ Queued \/ Refused \/ CharEnum
    \/ VerifyWorld \/ VerifyWorldAgain \/ JoinChannel
    \/ TimeSync \/ WardenHash \/ WardenOther

StopMaintenance == KeepAliveStop \/ \E i \in 1 .. Len(pingers) : PingStop(i)

Next ==
    \/ Server \/ Break \/ Cancel \/ Handlers \/ Return
    \/ \E i \in 1 .. Len(pingers) : Ping(i)
    \/ KeepAlive \/ StopMaintenance \/ SendChat

\* The goroutines are scheduled, and the server answers what it is asked.
Fairness ==
    /\ WF_vars(Answer)
    /\ WF_vars(Handlers)
    /\ SF_vars(Return)
    /\ WF_vars(StopMaintenance)

Spec     == Init /\ [][Next]_vars
LiveSpec == Spec /\ Fairness

-----------------------------------------------------------------------------
(* Properties. *)

\* Type invariant; there is at most one ping and one keep-alive goroutine.
TypeOK ==
    /\ \A i \in 1 .. Len(inbox) : inbox[i] \in [op : FromServer, arg : {0}]
    /\ \A i \in 1 .. Len(log) : log[i] \in [op : FromBot, arg : Nat]
    /\ run \in {"loop", "returned"}
    /\ joining \in 0 .. NumChannels
    /\ inWorld \in BOOLEAN /\ joined \in BOOLEAN
    /\ language \in {0, Human}
    /\ Len(pingers) <= 1 /\ \A i \in 1 .. Len(pingers) : pingers[i] \in 0 .. MaxTicks
    /\ keepers \in 0 .. 1
    /\ {broken, cancelled, exists} \subseteq BOOLEAN
    /\ server \in [phase : {"new", "challenged", "open", "refused"},
                   enums : Nat, logins : Nat, extra : 0 .. MaxExtra]

\* What has to be on the wire before a packet of each kind.
Before(op) == CASE op = "auth" -> {}
                [] op = "enum" -> {"auth"}
                [] op = "login" -> {"auth", "enum"}
                [] op = "warden" -> {"auth", "enum"}
                [] OTHER -> {"auth", "enum", "login"}

\* The server reads the bot's packets in the order the protocol prescribes, and
\* chat in the character's language, whichever goroutine writes them.  The bot logs
\* in a second time only when Warden has made it list its characters again: no flag
\* keeps it from doing so.
WrittenInOrder ==
    /\ \A i \in 1 .. Len(log) :
         /\ \A op \in Before(log[i].op) : \E j \in 1 .. i - 1 : log[j].op = op
         /\ log[i].op = "chat" => log[i].arg = Human
    /\ Count("login") <= Count("enum")
    /\ Count("enum") <= 1 + Count("warden")

\* Every configured channel is joined once, in the configured order, however
\* often the server says LOGIN_VERIFY_WORLD.
JoinsOnce ==
    \A i \in Of(log, "join") :
      log[i].arg = Cardinality({j \in Of(log, "join") : j <= i})

\* The server sees the ping ids 0, 1, 2, ...: one goroutine sends them.
PingsInTurn ==
    \A i \in Of(log, "ping") :
      log[i].arg = Cardinality({j \in Of(log, "ping") : j < i})

\* When Run has returned, the goroutines it started end.
MaintenanceEnds == run = "returned" ~> pingers = <<>> /\ keepers = 0

\* A bot that is welcome and has its character gets into all its channels.
JoinsAll ==
    server.phase = "open" /\ exists
      ~> Count("join") = NumChannels \/ broken \/ cancelled
=============================================================================
