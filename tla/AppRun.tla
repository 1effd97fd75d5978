------------------------------- MODULE AppRun -------------------------------
(***************************************************************************)
(* The application: the reconnect loop of App.Run, the login to the realm  *)
(* server (RealmLogin) and the connection to the game server (Dial) it     *)
(* makes in turn, the session it owns, and the Discord handler goroutines  *)
(* that borrow that session through Client.game.  A handler copies the     *)
(* reference once, under gameMu, and sends all chunks of its message with  *)
(* the copy, while the loop may end the session, reset the reference and   *)
(* install a new session.                                                  *)
(*                                                                         *)
(* A session is known by an identity that is used again only when nothing  *)
(* refers to it, as the garbage collector does with memory, so that the    *)
(* number of reconnects needs no bound.                                    *)
(***************************************************************************)
EXTENDS RealmLogin, FiniteSets

CONSTANTS Sessions,   \* the identities of *game.Session
          NoGame,     \* the nil reference
          Handlers,   \* the goroutines that run Client.onMessageCreate
          MaxChunks,  \* bound: the chunks of one Discord message
          HasDiscord  \* a Discord token is configured

ASSUME AppAssumption ==
    /\ NoGame \notin Sessions
    /\ Cardinality(Sessions) > Cardinality(Handlers)
    /\ MaxChunks \in Nat \ {0}
    /\ HasDiscord \in BOOLEAN

VARIABLES
    app,       \* where App.Run stands
    cancelled, \* SIGINT or SIGTERM has cancelled the context
    sess,      \* the session connectOnce works with
    game,      \* Client.game
    inWorld,   \* the sessions whose inWorld flag is set
    open,      \* the sessions whose socket is open on both sides
    ours,      \* the sessions whose socket the program has not closed
    reading,   \* the sessions whose read loop runs
    task,      \* for each handler: its copy of game, the chunks it has still
               \* to send, and (history) the sessions the others went to
    greeted    \* the game server has sent its first packet

appVars == <<app, cancelled, sess, game, inWorld, open, ours, reading, task>>
netVars == <<dialVars, loginVars, greeted>>

vars == <<appVars, netVars>>

AppPC == {"start", "check", "login", "dial", "run", "unset", "ended", "wait",
          "exited"}

Idle == [game |-> NoGame, left |-> 0, to |-> {}]

Init ==
    /\ app = "start"
    /\ cancelled = FALSE
    /\ sess = NoGame /\ game = NoGame
    /\ inWorld = {} /\ open = {} /\ ours = {}
    /\ reading = {}
    /\ task = [h \in Handlers |-> Idle]
    /\ LoginInit
    /\ greeted = FALSE

\* Nothing refers to s or its connection.
Unreferenced(s) ==
    s # sess /\ s \notin reading /\ \A h \in Handlers : task[h].game # s

-----------------------------------------------------------------------------
(* Faults a maintainer could introduce. *)

\* The deferred SetGame(nil) is missing.
UnsetKeepsGame ==
    /\ app = "unset"
    /\ app' = "ended"
    /\ sess' = NoGame
    /\ phase' = "idle" /\ Forget
    /\ greeted' = FALSE /\ wire' = <<>> /\ held' = <<>>
    /\ UNCHANGED <<cancelled, game, inWorld, open, ours, reading, task>>
    /\ UNCHANGED <<via, dial, sock, peer, buf, asked>>

\* The handler reads Client.game again for every chunk.
SendChunkToCurrent(h) ==
    /\ app # "exited"
    /\ task[h].left > 0
    /\ task' = [task EXCEPT
                  ![h].left = @ - 1,
                  ![h].to = IF game \in inWorld \cap open THEN @ \cup {game}
                                                          ELSE @]
    /\ UNCHANGED <<app, cancelled, sess, game, inWorld, open, ours, reading>>

\* connectOnce's error ends App.Run.
RunDoneExits ==
    /\ app = "run"
    /\ sess \notin reading
    /\ app' = "exited"
    /\ UNCHANGED <<cancelled, sess, game, inWorld, open, ours, reading, task>>

\* Run looks at its context only until the session is in the world.
RunCancelledEarly ==
    /\ app = "run"
    /\ cancelled /\ sess \notin inWorld
    /\ app' = "unset"
    /\ open' = open \ {sess} /\ ours' = ours \ {sess}
    /\ UNCHANGED <<cancelled, sess, game, inWorld, reading, task>>

\* Run returns on the context without closing the connection.
RunCancelledNoClose ==
    /\ app = "run"
    /\ cancelled
    /\ app' = "unset"
    /\ UNCHANGED <<cancelled, sess, game, inWorld, open, ours, reading, task>>

\* The handler's loop over the chunks runs once too often.
SendChunkOneMore(h) ==
    /\ app # "exited"
    /\ task[h].left >= 0
    /\ task' = [task EXCEPT ![h].left = @ - 1]
    /\ UNCHANGED <<app, cancelled, sess, game, inWorld, open, ours, reading>>

-----------------------------------------------------------------------------
(* App.Run and connectOnce. *)

\* discord.New and Client.Start; a failure ends the program.
StartDiscord ==
    /\ app = "start"
    /\ \/ app' = "check"
       \/ HasDiscord /\ app' = "exited"
    /\ UNCHANGED <<cancelled, sess, game, inWorld, open, ours, reading, task>>

Check ==
    /\ app = "check"
    /\ app' = IF cancelled THEN "exited" ELSE "login"
    /\ UNCHANGED <<cancelled, sess, game, inWorld, open, ours, reading, task>>

\* Login's error is connectOnce's.
LoginFails ==
    /\ app = "login" /\ phase = "failed"
    /\ app' = "ended"
    /\ phase' = "idle"
    /\ UNCHANGED <<cancelled, sess, game, inWorld, open, ours, reading, task>>
    /\ UNCHANGED <<dialVars, buf, asked, secretVars, greeted>>

\* Nothing recovers from a panic.
LoginPanics ==
    /\ app = "login" /\ phase = "panic"
    /\ app' = "exited"
    /\ Closed
    /\ UNCHANGED <<cancelled, sess, game, inWorld, open, ours, reading, task>>
    /\ UNCHANGED <<via, dial, loginVars, greeted>>

\* Login has returned: NewSession with its key, SetRelay, SetGame, and Run dials.
\* Where s was before, its socket went with it: the runtime closes what is open
\* of a connection that it collects.
LoginOK(s) ==
    /\ app = "login" /\ phase = "done"
    /\ Unreferenced(s)
    /\ app' = "dial" /\ dial' = "tcp"
    /\ sess' = s
    /\ game' = IF HasDiscord THEN s ELSE game
    /\ inWorld' = inWorld \ {s}
    /\ open' = open \ {s} /\ ours' = ours \ {s}
    /\ UNCHANGED <<cancelled, reading, task>>
    /\ UNCHANGED <<via, sock, peer, wire, held, phase, buf, asked>>
    /\ UNCHANGED <<secretVars, greeted>>

DialFails ==
    /\ app = "dial" /\ dial = "failed"
    /\ app' = "unset" /\ dial' = "off"
    /\ greeted' = FALSE
    /\ UNCHANGED <<cancelled, sess, game, inWorld, open, ours, reading, task>>
    /\ UNCHANGED <<via, sock, peer, wire, held, loginVars>>

\* The socket becomes the session's, and its read loop is started.
DialOK ==
    /\ app = "dial" /\ dial = "up"
    /\ app' = "run" /\ dial' = "off"
    /\ sock' = FALSE /\ peer' = "none"
    /\ open' = open \cup {sess} /\ ours' = ours \cup {sess}
    /\ reading' = reading \cup {sess}
    /\ UNCHANGED <<cancelled, sess, game, inWorld, task>>
    /\ UNCHANGED <<via, wire, held, loginVars, greeted>>

\* handleLoginVerifyWorld; the flag is never reset.
EnterWorld ==
    /\ app = "run"
    /\ inWorld' = inWorld \cup {sess}
    /\ UNCHANGED <<app, cancelled, sess, game, open, ours, reading, task>>

\* A read loop ends: the connection is gone, or its bytes make no sense.
ReadLoopEnds(s) ==
    /\ s \in reading
    /\ reading' = reading \ {s}
    /\ UNCHANGED <<app, cancelled, sess, game, inWorld, open, ours, task>>

\* Run does not close the connection.
RunDone ==
    /\ app = "run"
    /\ sess \notin reading
    /\ app' = "unset"
    /\ UNCHANGED <<cancelled, sess, game, inWorld, open, ours, reading, task>>

\* Run closes the connection, and its read loop will notice.
RunCancelled ==
    /\ app = "run"
    /\ cancelled
    /\ app' = "unset"
    /\ open' = open \ {sess} /\ ours' = ours \ {sess}
    /\ UNCHANGED <<cancelled, sess, game, inWorld, reading, task>>

\* The deferred SetGame(nil); the session and its key are forgotten.
Unset ==
    /\ app = "unset"
    /\ app' = "ended"
    /\ game' = IF HasDiscord THEN NoGame ELSE game
    /\ sess' = NoGame
    /\ phase' = "idle" /\ Forget
    /\ greeted' = FALSE /\ wire' = <<>> /\ held' = <<>>
    /\ UNCHANGED <<cancelled, inWorld, open, ours, reading, task>>
    /\ UNCHANGED <<via, dial, sock, peer, buf, asked>>

\* connectOnce has returned; its error is only logged.
AfterSession ==
    /\ app = "ended"
    /\ app' = IF cancelled THEN "exited" ELSE "wait"
    /\ UNCHANGED <<cancelled, sess, game, inWorld, open, ours, reading, task>>

\* Ten seconds pass, or the context ends first.
Wait ==
    /\ app = "wait"
    /\ \/ app' = "check"
       \/ cancelled /\ app' = "exited"
    /\ UNCHANGED <<cancelled, sess, game, inWorld, open, ours, reading, task>>

-----------------------------------------------------------------------------
(* The operator, the network, and the Discord client's goroutines. *)

Signal ==
    /\ ~cancelled
    /\ cancelled' = TRUE
    /\ UNCHANGED <<app, sess, game, inWorld, open, ours, reading, task>>

Drop(s) ==
    /\ s \in open
    /\ open' = open \ {s}
    /\ UNCHANGED <<app, cancelled, sess, game, inWorld, ours, reading, task>>

\* onMessageCreate takes the reference for a message of n chunks.
TakeGame(h, n) ==
    /\ HasDiscord
    /\ app \notin {"start", "exited"}
    /\ task[h].left = 0
    /\ task' = [task EXCEPT ![h] = [game |-> game, left |-> n, to |-> {}]]
    /\ UNCHANGED <<app, cancelled, sess, game, inWorld, open, ours, reading>>

\* One chunk: no session, a session not in the world, and a write that fails are
\* logged, and the next chunk is tried all the same.
SendChunk(h) ==
    /\ app # "exited"
    /\ task[h].left > 0
    /\ task' = [task EXCEPT
                  ![h].left = @ - 1,
                  ![h].to = IF task[h].game \in inWorld \cap open
                              THEN @ \cup {task[h].game} ELSE @]
    /\ UNCHANGED <<app, cancelled, sess, game, inWorld, open, ours, reading>>

\* The handler returns and its copy of the reference is gone.
FinishMessage(h) ==
    /\ task[h].left = 0
    /\ task[h] # Idle
    /\ task' = [task EXCEPT ![h] = Idle]
    /\ UNCHANGED <<app, cancelled, sess, game, inWorld, open, ours, reading>>

-----------------------------------------------------------------------------
\* The conversation with the realm server, and the way to the game server.
Conversation ==
    \/ app = "login" /\ LoginStep /\ UNCHANGED <<appVars, greeted>>
    \/ app = "dial" /\ DialStep /\ UNCHANGED <<appVars, loginVars, greeted>>

\* The realm server, the proxy, or the game server, which may hang up...
Peer == app \in {"login", "dial"} /\ PeerStep /\ UNCHANGED <<appVars, greeted>>

\* ...and which speaks first.
Greet ==
    /\ app = "dial" /\ peer = "up" /\ ~greeted
    /\ wire' = Append(wire, Cell("greeting", "ok", 1))
    /\ greeted' = TRUE
    /\ UNCHANGED <<appVars, via, dial, sock, peer, held, loginVars>>

LoginReturns == LoginFails \/ LoginPanics \/ \E s \in Sessions : LoginOK(s)
DialReturns  == DialFails \/ DialOK
Turns        == (\/ StartDiscord \/ Check \/ RunDone \/ RunCancelled
                 \/ AfterSession \/ Wait) /\ UNCHANGED netVars

\* The goroutine of App.Run.
Main == Turns \/ Conversation \/ LoginReturns \/ DialReturns \/ Unset

Handler(h) ==
    \/ \E n \in 1 .. MaxChunks : TakeGame(h, n)
    \/ SendChunk(h)
    \/ FinishMessage(h)

Others ==
    \/ EnterWorld \/ Signal
    \/ \E s \in Sessions : ReadLoopEnds(s) \/ Drop(s)
    \/ \E h \in Handlers : Handler(h)

Next == Main \/ Peer \/ Greet \/ (Others /\ UNCHANGED netVars)

\* App.Run is scheduled, the gateway answers, timers fire, the handlers of Run
\* return, TCP connects or times out, and while Run takes the packets the read
\* loop gets to its next read, which fails on a dropped connection.
Fairness ==
    /\ WF_vars(Main)
    /\ WF_vars(app = "run" /\ sess \notin open /\ ReadLoopEnds(sess) /\ UNCHANGED netVars)

Spec     == Init /\ [][Next]_vars
LiveSpec == Spec /\ Fairness

\* In addition the realm server and the proxy answer each request or hang up:
\* there is neither a deadline nor the context for what they say.
FairServerSpec == LiveSpec /\ WF_vars(Peer)

-----------------------------------------------------------------------------
(* Properties. *)

\* connectOnce holds a session.
InSession == app \in {"dial", "run", "unset"}

\* Type invariant.
TypeOK ==
    /\ LoginTypeOK
    /\ greeted \in BOOLEAN
    /\ app \in AppPC
    /\ cancelled \in BOOLEAN
    /\ sess \in IF InSession THEN Sessions ELSE {NoGame}
    /\ game \in Sessions \cup {NoGame}
    /\ inWorld \subseteq Sessions
    /\ open \subseteq ours /\ ours \subseteq Sessions
    /\ reading \subseteq Sessions
    /\ task \in [Handlers -> [game : Sessions \cup {NoGame},
                              left : 0 .. MaxChunks,
                              to : SUBSET Sessions]]

\* Discord handlers are offered a session exactly from its creation to the end
\* of its Run, and never one that connectOnce is done with.
GameIsCurrent ==
    game = IF HasDiscord /\ InSession THEN sess ELSE NoGame

\* All chunks of one Discord message that reach a server reach it over one
\* session, however many reconnects its handler lives through.
NoMixedSessions == \A h \in Handlers : Cardinality(task[h].to) <= 1

\* A session is created only when the realm server and the bot have each seen that
\* the other knows the password, and with the key that the server has.
KeyProven ==
    phase = "done" \/ InSession
      => agree /\ accepted /\ SessionKey(digest) = digest

\* While it is dialled and while Login lasts, a socket is closed however either
\* ends.  The game server's socket is handed to the session, and nobody closes it
\* when its read loop has ended by itself: it waits for the garbage collector.  But
\* no goroutine keeps it: a read loop that outlives its Run has a closed socket.
SocketsClosed ==
    /\ sock => app \in {"login", "dial"}
    /\ \A s \in ours \cap reading : app = "run" /\ s = sess

\* The session's read loop finds the game server's first packet, though it may
\* have come together with the proxy's answer.
GreetingKept ==
    app = "run" /\ greeted => \E i \in DOMAIN (held \o wire) :
                                (held \o wire)[i].op = "greeting"

\* A session that has lost its connection is followed by a new login, and so is an
\* attempt that has failed, in Login or in dialling: only a signal ends the loop.
Reconnects ==
    app = "ended" \/ (app = "run" /\ sess \notin open) ~> app = "login" \/ cancelled

\* A signal ends the program, wherever App.Run stands.
SignalStops == cancelled ~> app = "exited"
=============================================================================
