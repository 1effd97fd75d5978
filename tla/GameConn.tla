------------------------------ MODULE GameConn ------------------------------
(***************************************************************************)
(* One game-server connection of the bot, read side: the read loop of      *)
(* conn.go, which cuts the byte stream into packets with the help of the   *)
(* RC4 header cipher, the bounded channel it feeds, and the select loop of *)
(* Session.Run, which consumes that channel.  The two goroutines share the *)
(* channel, the done channel, the socket and the header cipher; the cipher *)
(* is switched on by the session's handler of AUTH_CHALLENGE while the     *)
(* read loop may already be looking for the next header.                   *)
(*                                                                         *)
(* Bytes are counted, not stored.  A frame is a header of 4 or 5 bytes and *)
(* a body; frame number i is the i-th packet of the server.  A header is   *)
(* decoded correctly when the reader's keystream stands where the server's *)
(* stood when it encrypted that header; when it does not, what the reader  *)
(* sees is noise, and the read loop becomes "garbled" for good.            *)
(***************************************************************************)
EXTENDS Integers, Sequences

CONSTANTS MaxFrames,   \* bound: the frames the server sends
          MaxBody,     \* bound: the bytes of a frame's body
          HeaderLens,  \* header sizes the server uses once it encrypts
          QueueCap     \* the capacity of Conn.packets (64 in the code)

ASSUME ConnAssumption ==
    /\ MaxFrames \in Nat
    /\ MaxBody \in Nat
    /\ HeaderLens \subseteq {4, 5}
    /\ QueueCap \in Nat \ {0}

VARIABLES
    sent,        \* frames the server has sent
    srvPos,      \* the server's position in its keystream
    netDown,     \* the connection was dropped by the peer or the network
    wire,        \* the frames the read loop has not consumed yet
    unread,      \* bytes of these frames still in the socket
    have,        \* Len(leftover): bytes of these frames in the read loop
    rpc,         \* where the read loop stands
    held,        \* the packet the read loop is about to push
    initialized, \* HeaderCrypt.initialized
    cliPos,      \* the position of HeaderCrypt.serverCrypt in its keystream
    packets,     \* Conn.packets
    chanClosed,  \* Conn.packets has been closed
    done,        \* Conn.done has been closed
    run,         \* where Session.Run stands
    handled,     \* history: the packets dispatched, oldest first
    authSent,    \* AUTH_SESSION is on its way to the server
    sockClosed,  \* Conn.Close has been called
    cancelled,   \* the context of Run has been cancelled
    split        \* history: a header was decrypted before all of it arrived

serverVars == <<sent, srvPos>>
byteVars   == <<wire, unread, have>>
cryptVars  == <<initialized, cliPos>>
chanVars   == <<packets, chanClosed, done>>
runVars    == <<run, handled, authSent>>
signalVars == <<netDown, sockClosed, cancelled>>
outside    == <<serverVars, runVars, signalVars>>       \* not the reader's
reading    == <<serverVars, byteVars, rpc, held, split>> \* not Run's

vars == <<reading, cryptVars, chanVars, runVars, signalVars>>

Challenge == 1    \* the number of the SMSG_AUTH_CHALLENGE frame
Junk      == -1   \* a packet decoded out of noise

Frame == [id : 1 .. MaxFrames, enc : BOOLEAN, hdr : {4, 5},
          body : 0 .. MaxBody, pos : Nat]

FrameLen(f) == f.hdr + f.body

ReaderPC == {"top", "more", "body", "push", "garbled",
             "exiting", "closing", "stopped", "crashed"}
RunPC    == {"select", "handle", "skip", "init", "reply", "returned",
             "crashed"}

Over == run \in {"returned", "crashed"}

-----------------------------------------------------------------------------
Init ==
    /\ sent = 0 /\ srvPos = 0
    /\ wire = <<>> /\ unread = 0 /\ have = 0
    /\ rpc = "top" /\ held = 0
    /\ initialized = FALSE /\ cliPos = 0
    /\ packets = <<>> /\ chanClosed = FALSE /\ done = FALSE
    /\ run = "select" /\ handled = <<>> /\ authSent = FALSE
    /\ netDown = FALSE /\ sockClosed = FALSE /\ cancelled = FALSE
    /\ split = FALSE

-----------------------------------------------------------------------------
(* Faults a maintainer could introduce: mutated forms of the actions below,  *)
(* each of which breaks one of the properties at the end of the module.      *)

\* No room check: the channel grows without bound.
PushUnbounded ==
    /\ rpc = "push"
    /\ packets' = Append(packets, held)
    /\ rpc' = IF held = Junk THEN "garbled" ELSE "top"
    /\ held' = 0
    /\ UNCHANGED <<outside, byteVars, cryptVars, chanClosed, done, split>>

\* select with a default case: a packet that finds the channel full is dropped.
PushOrDrop ==
    /\ rpc = "push"
    /\ packets' = IF Len(packets) < QueueCap THEN Append(packets, held)
                                             ELSE packets
    /\ rpc' = IF held = Junk THEN "garbled" ELSE "top"
    /\ held' = 0
    /\ UNCHANGED <<outside, byteVars, cryptVars, chanClosed, done, split>>

\* Waiting for the body in the outer loop, which decodes the header again.
ReadSomeAndReparse(n) ==
    /\ \/ rpc \in {"top", "body"} /\ have < 4
       \/ rpc \in {"more", "garbled"}
       \/ rpc = "body" /\ have < FrameLen(Head(wire))
    /\ ~sockClosed
    /\ have' = have + n
    /\ unread' = unread - n
    /\ rpc' = IF rpc = "garbled" THEN rpc ELSE "top"
    /\ UNCHANGED <<outside, wire, held, cryptVars, chanVars, split>>

\* The read loop forgets close(c.done).
CloseNothing ==
    /\ rpc = "closing"
    /\ rpc' = "stopped"
    /\ UNCHANGED <<outside, byteVars, held, cryptVars, chanVars, split>>

\* Run looks at its context only while the connection is not encrypted.
ReturnCancelledEarly ==
    /\ run = "select"
    /\ cancelled /\ ~initialized
    /\ sockClosed' = TRUE
    /\ run' = "returned"
    /\ UNCHANGED <<reading, cryptVars, chanVars, handled, authSent, netDown,
                   cancelled>>

\* Run returns on cancellation without closing the socket.
ReturnWithoutClose ==
    /\ run = "select"
    /\ cancelled
    /\ run' = "returned"
    /\ UNCHANGED <<reading, cryptVars, chanVars, handled, authSent,
                   signalVars>>

\* A packet whose handler fails is handed over again.
ReceiveTwice ==
    /\ run = "select"
    /\ packets # <<>>
    /\ handled' = Append(handled, Head(packets))
    /\ \/ packets' = Tail(packets)
       \/ packets' = packets
    /\ run' = IF Head(packets) = Challenge THEN "init" ELSE "handle"
    /\ UNCHANGED <<reading, cryptVars, chanClosed, done, authSent, signalVars>>

-----------------------------------------------------------------------------
(* The server, the network and the operator. *)

\* The server puts one more frame on the wire: the challenge in the clear, and
\* every later one encrypted, once it has received the session's answer.
ServerSend(enc, hdr, body) ==
    /\ ~netDown
    /\ ~sockClosed
    /\ sent < MaxFrames
    /\ wire' = Append(wire, [id |-> sent + 1, enc |-> enc, hdr |-> hdr,
                             body |-> body, pos |-> srvPos])
    /\ unread' = unread + hdr + body
    /\ sent' = sent + 1
    /\ srvPos' = IF enc THEN srvPos + hdr ELSE srvPos
    /\ UNCHANGED <<have, rpc, held, cryptVars, chanVars, runVars, signalVars,
                   split>>

SendChallenge(body) == sent = 0 /\ ServerSend(FALSE, 4, body)

SendPacket(hdr, body) == sent > 0 /\ authSent /\ ServerSend(TRUE, hdr, body)

Drop ==
    /\ ~netDown
    /\ netDown' = TRUE
    /\ UNCHANGED <<reading, cryptVars, chanVars, runVars, sockClosed,
                   cancelled>>

Cancel ==
    /\ ~cancelled
    /\ cancelled' = TRUE
    /\ UNCHANGED <<reading, cryptVars, chanVars, runVars, netDown, sockClosed>>

-----------------------------------------------------------------------------
(* readLoop. *)

NeedsBytes ==
    \/ rpc = "top" /\ have < 4
    \/ rpc = "more"
    \/ rpc = "body" /\ have < FrameLen(Head(wire))
    \/ rpc = "garbled"

\* readSome returns: TCP hands over any part of what has arrived.
ReadSome(n) ==
    /\ NeedsBytes
    /\ ~sockClosed
    /\ have' = have + n
    /\ unread' = unread - n
    /\ rpc' = IF rpc = "more" THEN "top" ELSE rpc
    /\ UNCHANGED <<outside, wire, held, cryptVars, chanVars, split>>

\* readSome fails: the peer is gone or Run has closed the socket.
ReadFail ==
    /\ NeedsBytes
    /\ netDown \/ sockClosed
    /\ rpc' = "exiting"
    /\ UNCHANGED <<outside, byteVars, held, cryptVars, chanVars, split>>

Decodes(f) ==
    /\ f.enc <=> initialized
    /\ f.enc => f.pos = cliPos

Decrypted(n) == IF initialized THEN cliPos + n ELSE cliPos

\* parseHeader with a whole header at hand.
ParseHeader ==
    /\ rpc = "top" /\ have >= 4 /\ wire # <<>>
    /\ LET f == Head(wire) IN
         /\ Decodes(f)
         /\ have >= f.hdr
         /\ cliPos' = Decrypted(f.hdr)
    /\ rpc' = "body"
    /\ UNCHANGED <<outside, byteVars, held, initialized, chanVars, split>>

\* parseHeader answers errNeedMore: four bytes of a five-byte header are there,
\* and they have already been run through the cipher.
ParseSplitHeader ==
    /\ rpc = "top" /\ have >= 4 /\ wire # <<>>
    /\ LET f == Head(wire) IN
         /\ Decodes(f)
         /\ have < f.hdr
    /\ cliPos' = Decrypted(4)
    /\ rpc' = "more"
    /\ split' = TRUE
    /\ UNCHANGED <<outside, byteVars, held, initialized, chanVars>>

\* parseHeader decodes noise: the wrong keystream position, or one side
\* encrypting while the other does not.
ParseNoise ==
    /\ rpc = "top" /\ have >= 4 /\ wire # <<>>
    /\ ~Decodes(Head(wire))
    /\ cliPos' = Decrypted(4)
    /\ rpc' = "garbled"
    /\ UNCHANGED <<outside, byteVars, held, initialized, chanVars, split>>

\* The body is complete: the frame leaves the buffer.
TakeBody ==
    /\ rpc = "body" /\ wire # <<>>
    /\ have >= FrameLen(Head(wire))
    /\ have' = have - FrameLen(Head(wire))
    /\ held' = Head(wire).id
    /\ wire' = Tail(wire)
    /\ rpc' = "push"
    /\ UNCHANGED <<outside, unread, cryptVars, chanVars, split>>

\* Noise has no frame boundaries: the size field takes any number of bytes...
GarbledPacket(n) ==
    /\ rpc = "garbled"
    /\ have' = have - n
    /\ held' = Junk
    /\ rpc' = "push"
    /\ UNCHANGED <<outside, wire, unread, cryptVars, chanVars, split>>

\* ...and one that is less than 2 makes the slice bounds of the body negative.
GarbledPanic ==
    /\ rpc = "garbled" /\ have >= 4
    /\ rpc' = "crashed" /\ run' = "crashed"
    /\ UNCHANGED <<serverVars, byteVars, held, cryptVars, chanVars, handled,
                   authSent, signalVars, split>>

Push ==
    /\ rpc = "push"
    /\ Len(packets) < QueueCap
    /\ packets' = Append(packets, held)
    /\ rpc' = IF held = Junk THEN "garbled" ELSE "top"
    /\ held' = 0
    /\ UNCHANGED <<outside, byteVars, cryptVars, chanClosed, done, split>>

\* The deferred calls, last one first: close(c.packets), then close(c.done).
CloseQueue ==
    /\ rpc = "exiting"
    /\ chanClosed' = TRUE
    /\ rpc' = "closing"
    /\ UNCHANGED <<outside, byteVars, held, cryptVars, packets, done, split>>

CloseDone ==
    /\ rpc = "closing"
    /\ done' = TRUE
    /\ rpc' = "stopped"
    /\ UNCHANGED <<outside, byteVars, held, cryptVars, packets, chanClosed,
                   split>>

-----------------------------------------------------------------------------
(* Session.Run. *)

Receive ==
    /\ run = "select"
    /\ packets # <<>>
    /\ handled' = Append(handled, Head(packets))
    /\ packets' = Tail(packets)
    /\ run' = IF Head(packets) = Challenge THEN "init" ELSE "handle"
    /\ UNCHANGED <<reading, cryptVars, chanClosed, done, authSent, signalVars>>

\* Receiving from the closed channel yields a packet with opcode 0, which no
\* handler wants.
ReceiveZero ==
    /\ run = "select"
    /\ packets = <<>> /\ chanClosed
    /\ run' = "skip"
    /\ UNCHANGED <<reading, cryptVars, chanVars, handled, authSent,
                   signalVars>>

\* Any handler but that of AUTH_CHALLENGE; its error, if any, is only logged.
Handle ==
    /\ run \in {"handle", "skip"}
    /\ run' = "select"
    /\ UNCHANGED <<reading, cryptVars, chanVars, handled, authSent,
                   signalVars>>

\* The handler of a packet decoded out of noise reads past its end: the Must
\* functions of the protocol package panic, and nothing recovers.
HandlePanic ==
    /\ run = "handle" /\ handled # <<>> /\ handled[Len(handled)] = Junk
    /\ rpc' = "crashed" /\ run' = "crashed"
    /\ UNCHANGED <<serverVars, byteVars, held, cryptVars, chanVars, handled,
                   authSent, signalVars, split>>

\* handleAuthChallenge switches the header cipher on...
InitCrypt ==
    /\ run = "init"
    /\ initialized' = TRUE
    /\ cliPos' = 0
    /\ run' = "reply"
    /\ UNCHANGED <<reading, chanVars, handled, authSent, signalVars>>

\* ...and then answers; a failing write is only logged.
WriteAuth ==
    /\ run = "reply"
    /\ \/ authSent' = TRUE
       \/ netDown /\ UNCHANGED authSent
    /\ run' = "select"
    /\ UNCHANGED <<reading, cryptVars, chanVars, handled, signalVars>>

ReturnDone ==
    /\ run = "select"
    /\ done
    /\ run' = "returned"
    /\ UNCHANGED <<reading, cryptVars, chanVars, handled, authSent,
                   signalVars>>

ReturnCancelled ==
    /\ run = "select"
    /\ cancelled
    /\ sockClosed' = TRUE
    /\ run' = "returned"
    /\ UNCHANGED <<reading, cryptVars, chanVars, handled, authSent, netDown,
                   cancelled>>

-----------------------------------------------------------------------------
Server ==
    \/ \E body \in 0 .. MaxBody : SendChallenge(body)
    \/ \E hdr \in HeaderLens, body \in 0 .. MaxBody : SendPacket(hdr, body)

Reader ==
    \/ \E n \in 1 .. unread : ReadSome(n)
    \/ ReadFail
    \/ ParseHeader \/ ParseSplitHeader \/ ParseNoise
    \/ TakeBody
    \/ \E n \in 4 .. have : GarbledPacket(n)
    \/ GarbledPanic
    \/ Push \/ CloseQueue \/ CloseDone

Handler == Handle \/ HandlePanic \/ InitCrypt \/ WriteAuth

Run == Receive \/ ReceiveZero \/ Handler \/ ReturnDone \/ ReturnCancelled

\* Run has returned and its read loop has nothing left to do, or never will.
Terminated ==
    /\ Over
    /\ UNCHANGED vars

Next == Server \/ Drop \/ Cancel \/ Reader \/ Run \/ Terminated

\* Goroutines are scheduled and sockets answer, so each goroutine is weakly
\* fair; select picks at random among the ready cases, so a case that is ready
\* again and again is taken.  Nothing obliges the server to send or a drop or
\* a cancellation to happen.
Fairness ==
    /\ WF_vars(Reader)
    /\ WF_vars(Receive)
    /\ WF_vars(Handler)
    /\ SF_vars(ReturnDone)
    /\ SF_vars(ReturnCancelled)

Spec     == Init /\ [][Next]_vars
LiveSpec == Spec /\ Fairness

-----------------------------------------------------------------------------
(* Properties. *)

\* Type invariant; it includes that the channel never exceeds its capacity.
TypeOK ==
    /\ sent \in 0 .. MaxFrames /\ srvPos \in Nat
    /\ wire \in Seq(Frame) /\ unread \in Nat /\ have \in Nat
    /\ rpc \in ReaderPC /\ held \in {0, Junk} \cup 1 .. MaxFrames
    /\ rpc = "push" => held # 0
    /\ initialized \in BOOLEAN /\ cliPos \in Nat
    /\ packets \in Seq({Junk} \cup 1 .. MaxFrames) /\ Len(packets) <= QueueCap
    /\ chanClosed \in BOOLEAN /\ done \in BOOLEAN
    /\ run \in RunPC /\ handled \in Seq({Junk} \cup 1 .. MaxFrames)
    /\ authSent \in BOOLEAN
    /\ netDown \in BOOLEAN /\ sockClosed \in BOOLEAN /\ cancelled \in BOOLEAN
    /\ split \in BOOLEAN

InHand == IF rpc = "push" THEN 1 ELSE 0

\* Every frame the server has sent is in exactly one place between the wire and
\* the session's handlers, and these places hold them in the order of sending:
\* the read loop and the channel lose, duplicate and reorder nothing, unless a
\* header was split.
ExactlyOnce ==
    ~split =>
      /\ \A i \in 1 .. Len(handled) : handled[i] = i
      /\ \A i \in 1 .. Len(packets) : packets[i] = Len(handled) + i
      /\ rpc = "push" => held = Len(handled) + Len(packets) + 1
      /\ \A i \in 1 .. Len(wire) :
           wire[i].id = Len(handled) + Len(packets) + InHand + i
      /\ sent = Len(handled) + Len(packets) + InHand + Len(wire)

\* The reader mistakes noise for headers only if parseHeader once decrypted a
\* header that had not arrived completely; in particular, switching the cipher
\* on from the other goroutine is never too early or too late for a frame.
NoiseOnlyAfterSplit == rpc \in {"garbled", "crashed"} => split

\* At a frame boundary with the cipher on, the reader's keystream stands where
\* the server's stood for the frame that comes next: the two server streams
\* agree header after header, whatever the headers' lengths.
StreamsAgree ==
    rpc = "top" /\ initialized /\ wire # <<>> => Head(wire).pos = cliPos

\* A dropped connection ends Run, so that the application can reconnect.
DropEndsRun == netDown ~> Over

\* Cancelling the context ends Run.
CancelEndsRun == cancelled ~> Over

\* After Run is over the read loop ends too, except when it is left pushing into
\* a full channel that nobody will read again: the alternative <-c.done of its
\* select cannot help, because only the read loop itself closes done.
ReaderEnds ==
    Over ~> \/ rpc \in {"stopped", "crashed"}
            \/ rpc = "push" /\ Len(packets) = QueueCap

\* The connection implements PacketStream.
Stream == INSTANCE PacketStream
            WITH got <- handled, corrupt <- split, over <- Over

ImplementsStream == Stream!Spec
=============================================================================
