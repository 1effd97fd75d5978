--------------------------------- MODULE Dial -------------------------------
(***************************************************************************)
(* Config.DialTCP: a connection to a server, directly or through an HTTP   *)
(* proxy that answers CONNECT with a status line, header lines and a blank *)
(* line, and relays from then on.  A bufio.Reader takes in whatever has    *)
(* arrived when it looks for the end of a line, the first bytes of the     *)
(* tunnel included.                                                        *)
(*                                                                         *)
(* The unit that arrives whole is a cell: a line of the proxy's, or a part *)
(* of a packet.  A SOCKS5 proxy is a library's business and looks like a   *)
(* direct connection here.                                                 *)
(***************************************************************************)
EXTENDS Integers, Sequences

CONSTANT MaxHeaders \* bound: header lines in the proxy's answer

ASSUME DialAssumption == MaxHeaders \in Nat

VARIABLES
    via,  \* "direct" or "connect": the proxy settings
    dial, \* where the dialling stands
    sock, \* our side of the socket is open
    peer, \* the other side: "none", "proxy" before it has answered CONNECT,
          \* "up", "gone"
    wire, \* what has been sent to us and not read
    held  \* what the tunnel's bufio.Reader holds

dialVars == <<via, dial, sock, peer, wire, held>>

\* Cell i of a packet of kind op with contents v.
Cell(op, v, i) == [op |-> op, v |-> v, i |-> i]
Line(v)        == Cell("line", v, 1)

\* The proxy's answers; "bad" is a status line without a code.
ProxyReply(status, headers) ==
    <<Line(status)>> \o [i \in 1 .. headers |-> Line("header")] \o <<Line("blank")>>

Reading == {"status", "accepted", "refused"}

DialInit ==
    /\ via \in {"direct", "connect"}
    /\ dial = "off"
    /\ sock = FALSE /\ peer = "none"
    /\ wire = <<>> /\ held = <<>>

\* conn.Close; what was under way is lost.
Closed == sock' = FALSE /\ peer' = "none" /\ wire' = <<>> /\ held' = <<>>

-----------------------------------------------------------------------------
(* A fault a maintainer could introduce. *)

\* The caller gets the bare connection and not the reader's buffer.
TunnelDropsBuffer ==
    /\ dial = "accepted" /\ held # <<>>
    /\ Head(held) = Line("blank")
    /\ dial' = "up"
    /\ held' = <<>>
    /\ UNCHANGED <<via, sock, peer, wire>>

-----------------------------------------------------------------------------
(* The caller. *)

TCPFails ==
    /\ dial = "tcp"
    /\ dial' = "failed"
    /\ UNCHANGED <<via, sock, peer, wire, held>>

\* The connection to the server is there; to the proxy, CONNECT is written.
TCPConnects ==
    /\ dial = "tcp"
    /\ dial' = IF via = "direct" THEN "up" ELSE "status"
    /\ peer' = IF via = "direct" THEN "up" ELSE "proxy"
    /\ sock' = TRUE
    /\ UNCHANGED <<via, wire, held>>

\* The write or a read fails.
ConnectBroken ==
    /\ dial \in Reading
    /\ peer = "gone"
    /\ dial' = "failed"
    /\ Closed
    /\ UNCHANGED via

\* bufio.Reader reads when it has nothing left.
Fill ==
    /\ dial \in Reading
    /\ held = <<>>
    /\ \E n \in 1 .. Len(wire) :
         /\ held' = SubSeq(wire, 1, n)
         /\ wire' = SubSeq(wire, n + 1, Len(wire))
    /\ UNCHANGED <<via, dial, sock, peer>>

StatusLine ==
    /\ dial = "status" /\ held # <<>>
    /\ Head(held) # Line("bad")
    /\ dial' = IF Head(held) = Line("200") THEN "accepted" ELSE "refused"
    /\ held' = Tail(held)
    /\ UNCHANGED <<via, sock, peer, wire>>

BadStatusLine ==
    /\ dial = "status" /\ held # <<>>
    /\ Head(held) = Line("bad")
    /\ dial' = "failed"
    /\ Closed
    /\ UNCHANGED via

HeaderLine ==
    /\ dial \in {"accepted", "refused"} /\ held # <<>>
    /\ Head(held) # Line("blank")
    /\ held' = Tail(held)
    /\ UNCHANGED <<via, dial, sock, peer, wire>>

\* The status is looked at only behind the header.
Tunnel ==
    /\ dial = "accepted" /\ held # <<>>
    /\ Head(held) = Line("blank")
    /\ dial' = "up"
    /\ held' = Tail(held)
    /\ UNCHANGED <<via, sock, peer, wire>>

Refused ==
    /\ dial = "refused" /\ held # <<>>
    /\ Head(held) = Line("blank")
    /\ dial' = "failed"
    /\ Closed
    /\ UNCHANGED via

DialStep ==
    \/ TCPFails \/ TCPConnects \/ ConnectBroken \/ Fill
    \/ StatusLine \/ BadStatusLine \/ HeaderLine \/ Tunnel \/ Refused

-----------------------------------------------------------------------------
(* The peer. *)

\* The proxy answers, perhaps not to the end.
ProxyAnswers ==
    /\ peer = "proxy"
    /\ \E status \in {"200", "407", "bad"}, headers \in 0 .. MaxHeaders :
         LET reply == ProxyReply(status, headers) IN
           \/ wire' = reply /\ peer' = "up"
           \/ \E k \in 0 .. Len(reply) - 1 :
                wire' = SubSeq(reply, 1, k) /\ peer' = "gone"
    /\ UNCHANGED <<via, dial, sock, held>>

HangUp ==
    /\ peer = "up"
    /\ peer' = "gone"
    /\ UNCHANGED <<via, dial, sock, wire, held>>

-----------------------------------------------------------------------------
\* What the caller's next Read can return: tunnelConn.Read asks the buffer first.
Readable == IF held # <<>> THEN held ELSE wire

\* Read has returned the first n cells of Readable.
Consume(n) ==
    IF held # <<>> THEN held' = SubSeq(held, n + 1, Len(held)) /\ UNCHANGED wire
                   ELSE wire' = SubSeq(wire, n + 1, Len(wire)) /\ UNCHANGED held
=============================================================================
