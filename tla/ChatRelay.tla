------------------------------ MODULE ChatRelay -----------------------------
(***************************************************************************)
(* The WoW to Discord direction: chat packets carry the sender's GUID and  *)
(* not its name, so the session keeps a sender's messages in pendingChats  *)
(* until the server has answered a name query, remembers the name, and     *)
(* passes the kept messages on one HTTP request at a time.  All of it runs *)
(* on the session's Run goroutine; the routes that say which messages are  *)
(* wanted are replaced by the Discord client's goroutines meanwhile.       *)
(*                                                                         *)
(* The messages of a sender are numbered 1, 2, ... .  All chat modelled    *)
(* here is of one type and channel, so one flag says whether it is wanted. *)
(***************************************************************************)
EXTENDS Integers, Sequences, FiniteSets, SequencesExt, Picks

CONSTANTS Players,    \* the GUIDs that speak
          MaxSaid,    \* bound: messages of all senders together
          MaxReroutes \* bound: changes of the route table

\* GUID 0 marks a message of no player; it needs no name.
Nobody  == "0"
Senders == Players \cup {Nobody}

ASSUME RelayAssumption ==
    /\ Nobody \notin Players
    /\ MaxSaid \in Nat
    /\ MaxReroutes \in Nat

VARIABLES
    said,     \* how many messages each sender has sent
    inbox,    \* the packets on their way to the handlers, in order
    asked,    \* the name queries the server has not answered yet
    names,    \* Session.playerNames: the GUIDs with a name
    pending,  \* Session.pendingChats
    out,      \* what the current handler has still to pass to SendFromWoW
    wanted,   \* Client.wowToDiscord has a target for this chat
    reroutes, \* how often the route table has changed
    posted,   \* the messages sent to the Discord channel, oldest first
    broken    \* the connection is down: writes fail, the server is gone

vars == <<said, inbox, asked, names, pending, out, wanted, reroutes, posted,
          broken>>

Chat(g, n)     == [kind |-> "chat", guid |-> g, n |-> n]
Answer(g, yes) == [kind |-> "name", guid |-> g, known |-> yes]
Addon          == [kind |-> "addon"]

\* A message for SendFromWoW: who "said" it is the name it is shown under.
Line(g, n, name) == [guid |-> g, n |-> n, name |-> name]

Init ==
    /\ said = [g \in Senders |-> 0]
    /\ inbox = <<>>
    /\ asked = [g \in Players |-> 0]
    /\ names = {}
    /\ pending = [g \in Players |-> <<>>]
    /\ out = <<>>
    /\ wanted \in BOOLEAN
    /\ reroutes = 0
    /\ posted = <<>>
    /\ broken = FALSE

\* The handlers run one at a time, each to its end: the next packet is of kind k
\* and the handler before it has returned.
Handling(k) == out = <<>> /\ inbox # <<>> /\ Head(inbox).kind = k

\* The lines handleNameQuery goes on to send for the messages kept of g.
Queued(g, name) == [i \in 1 .. Len(pending[g]) |-> Line(g, pending[g][i], name)]

-----------------------------------------------------------------------------
(* Faults a maintainer could introduce. *)

\* Every message asks for the name.
KeepChatAskAgain ==
    /\ Handling("chat")
    /\ wanted
    /\ LET g == Head(inbox).guid IN
         /\ g \notin names \cup {Nobody}
         /\ pending' = [pending EXCEPT ![g] = Append(@, Head(inbox).n)]
         /\ asked' = IF ~broken THEN [asked EXCEPT ![g] = @ + 1] ELSE asked
    /\ inbox' = Tail(inbox)
    /\ UNCHANGED <<said, names, out, wanted, reroutes, posted, broken>>

\* The name is not remembered.
TakeNameForget ==
    /\ Handling("name")
    /\ LET g == Head(inbox).guid
           yes == Head(inbox).known IN
         /\ out' = Queued(g, IF yes THEN g ELSE "UNKNOWN")
         /\ pending' = [pending EXCEPT ![g] = <<>>]
    /\ inbox' = Tail(inbox)
    /\ UNCHANGED <<said, asked, names, wanted, reroutes, posted, broken>>

\* An unknown name leaves the messages where they are.
TakeNameSkip ==
    /\ Handling("name")
    /\ LET g == Head(inbox).guid IN
         IF Head(inbox).known
           THEN /\ out' = Queued(g, g)
                /\ pending' = [pending EXCEPT ![g] = <<>>]
                /\ names' = names \cup {g}
           ELSE UNCHANGED <<out, pending, names>>
    /\ inbox' = Tail(inbox)
    /\ UNCHANGED <<said, asked, wanted, reroutes, posted, broken>>

\* A message overtakes the kept ones of its sender.
PassChatAtOnce ==
    /\ Handling("chat")
    /\ wanted
    /\ out' = <<Line(Head(inbox).guid, Head(inbox).n, Head(inbox).guid)>>
    /\ inbox' = Tail(inbox)
    /\ UNCHANGED <<said, asked, names, pending, wanted, reroutes, posted, broken>>

-----------------------------------------------------------------------------
(* The server, the network and the Discord gateway. *)

\* How much has been said.
Total == FoldFunction(+, 0, said)

Say(g) ==
    /\ ~broken
    /\ Total < MaxSaid
    /\ said' = [said EXCEPT ![g] = @ + 1]
    /\ inbox' = Append(inbox, Chat(g, said[g] + 1))
    /\ UNCHANGED <<asked, names, pending, out, wanted, reroutes, posted, broken>>

\* Chat the session never relays: addon traffic, its own character's echo.  The
\* model sends it only into an empty inbox.
SayNoise ==
    /\ ~broken
    /\ inbox = <<>>
    /\ inbox' = <<Addon>>
    /\ UNCHANGED <<said, asked, names, pending, out, wanted, reroutes, posted,
                   broken>>

AnswerQuery(g, yes) ==
    /\ ~broken
    /\ asked[g] > 0
    /\ asked' = [asked EXCEPT ![g] = @ - 1]
    /\ inbox' = Append(inbox, Answer(g, yes))
    /\ UNCHANGED <<said, names, pending, out, wanted, reroutes, posted, broken>>

Break ==
    /\ ~broken
    /\ broken' = TRUE
    /\ UNCHANGED <<said, inbox, asked, names, pending, out, wanted, reroutes,
                   posted>>

\* buildRoutes stores another table.
Reroute ==
    /\ reroutes < MaxReroutes
    /\ reroutes' = reroutes + 1
    /\ wanted' = ~wanted
    /\ UNCHANGED <<said, inbox, asked, names, pending, out, posted, broken>>

-----------------------------------------------------------------------------
(* The handlers. *)

IgnoreChat ==
    /\ Handling("addon")
    /\ inbox' = Tail(inbox)
    /\ UNCHANGED <<said, asked, names, pending, out, wanted, reroutes, posted,
                   broken>>

\* sendChatMessage: nothing wants it.
DropChat ==
    /\ Handling("chat")
    /\ ~wanted
    /\ inbox' = Tail(inbox)
    /\ UNCHANGED <<said, asked, names, pending, out, wanted, reroutes, posted,
                   broken>>

\* sendChatMessage: the sender is nobody or has a name.
PassChat ==
    /\ Handling("chat")
    /\ wanted
    /\ Head(inbox).guid \in names \cup {Nobody}
    /\ out' = <<Line(Head(inbox).guid, Head(inbox).n, Head(inbox).guid)>>
    /\ inbox' = Tail(inbox)
    /\ UNCHANGED <<said, asked, names, pending, wanted, reroutes, posted, broken>>

\* sendChatMessage: the message is kept, and the first one of its sender asks
\* for the name; a query that cannot be written is logged and forgotten.
KeepChat ==
    /\ Handling("chat")
    /\ wanted
    /\ LET g == Head(inbox).guid IN
         /\ g \notin names \cup {Nobody}
         /\ pending' = [pending EXCEPT ![g] = Append(@, Head(inbox).n)]
         /\ asked' = IF pending[g] = <<>> /\ ~broken
                       THEN [asked EXCEPT ![g] = @ + 1] ELSE asked
    /\ inbox' = Tail(inbox)
    /\ UNCHANGED <<said, names, out, wanted, reroutes, posted, broken>>

\* handleNameQuery: the messages kept are taken, and a known name remembered.
TakeName ==
    /\ Handling("name")
    /\ LET g == Head(inbox).guid
           yes == Head(inbox).known IN
         /\ out' = Queued(g, IF yes THEN g ELSE "UNKNOWN")
         /\ pending' = [pending EXCEPT ![g] = <<>>]
         /\ names' = IF yes THEN names \cup {g} ELSE names
    /\ inbox' = Tail(inbox)
    /\ UNCHANGED <<said, asked, wanted, reroutes, posted, broken>>

\* SendFromWoW posts to the targets it finds; there may be none by now.
SendFromWoW ==
    /\ out # <<>>
    /\ posted' = IF wanted THEN Append(posted, Head(out)) ELSE posted
    /\ out' = Tail(out)
    /\ UNCHANGED <<said, inbox, asked, names, pending, wanted, reroutes, broken>>

-----------------------------------------------------------------------------
Handlers ==
    IgnoreChat \/ DropChat \/ PassChat \/ KeepChat \/ TakeName \/ SendFromWoW

Server ==
    \/ SayNoise
    \/ \E g \in Senders : Say(g)
    \/ \E g \in Players, yes \in BOOLEAN : AnswerQuery(g, yes)

Next == Server \/ Break \/ Reroute \/ Handlers

\* The Run goroutine is scheduled and a live server answers name queries.
Fairness ==
    /\ WF_vars(Handlers)
    /\ \A g \in Players : WF_vars(\E yes \in BOOLEAN : AnswerQuery(g, yes))

Spec     == Init /\ [][Next]_vars
LiveSpec == Spec /\ Fairness

-----------------------------------------------------------------------------
(* Properties. *)

\* Type invariant; whatever is kept or passed on has been said.
TypeOK ==
    /\ said \in [Senders -> Nat]
    /\ \A i \in 1 .. Len(inbox) : inbox[i].kind \in {"chat", "name", "addon"}
    /\ asked \in [Players -> 0 .. 1]
    /\ names \subseteq Players
    /\ \A g \in Players : pending[g] \in Seq(1 .. said[g])
    /\ \A i \in 1 .. Len(out) :
         out[i].guid \in Senders /\ out[i].n \in 1 .. said[out[i].guid]
    /\ wanted \in BOOLEAN
    /\ reroutes \in 0 .. MaxReroutes
    /\ broken \in BOOLEAN

\* Where the answers about g are in a sequence of packets.
Answers(s, g) == {i \in 1 .. Len(s) : s[i].kind = "name" /\ s[i].guid = g}

\* While the connection is up, a sender whose messages are kept has exactly one
\* query or answer under way, and any other sender has none: no message waits
\* for an answer nobody will give, and the server is not asked twice.
OneQueryEach ==
    ~broken =>
      \A g \in Players :
        asked[g] + Cardinality(Answers(inbox, g)) = IF pending[g] = <<>> THEN 0 ELSE 1

\* Once a message of a player has been posted under its name, no later one is
\* posted as UNKNOWN.
NameStays ==
    \A i, j \in 1 .. Len(posted) :
      i < j /\ posted[i].guid = posted[j].guid /\ posted[i].name # "UNKNOWN"
        => posted[j].name # "UNKNOWN"

Posted(g, n) == \E i \in 1 .. Len(posted) : posted[i].guid = g /\ posted[i].n = n

\* Every message is posted in the end, unless routes come and go or the
\* connection breaks.
AllPosted ==
    \A g \in Senders, n \in 1 .. MaxSaid :
      said[g] >= n ~> Posted(g, n) \/ ~wanted \/ reroutes > 0 \/ broken

\* The messages of g, as lines and as packets.
LinesOf(g) == [guid : {g}, n : Nat, name : Senders \cup {"UNKNOWN"}]
ChatsOf(g) == [kind : {"chat"}, guid : {g}, n : Nat]

Numbers(s) == [i \in 1 .. Len(s) |-> s[i].n]

\* The messages of g between the server and Discord, oldest first.
Waiting(g) ==
    Numbers(Picked(out, LinesOf(g)))
      \o (IF g \in Players THEN pending[g] ELSE <<>>)
      \o Numbers(Picked(inbox, ChatsOf(g)))

\* The relay implements SenderFifo.
Fifo == INSTANCE SenderFifo
          WITH waiting <- [g \in Senders |-> Waiting(g)],
               posted  <- [i \in 1 .. Len(posted) |->
                             [guid |-> posted[i].guid, n |-> posted[i].n]]

ImplementsFifo == Fifo!Spec
=============================================================================
