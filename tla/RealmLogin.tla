------------------------------ MODULE RealmLogin ----------------------------
(***************************************************************************)
(* realm.Client.Login: the conversation with the realm server.  The client *)
(* asks three times (challenge, proof, realm list) and reads each answer   *)
(* with readRealmPacket, which learns the size of a packet from its first  *)
(* bytes, may take in more than one packet, and forgets what is left over  *)
(* when it returns.  The socket is closed on every way out; a Must         *)
(* function that runs out of bytes ends the program instead.               *)
(*                                                                         *)
(* A packet is a few cells: the opcode, the result (or the size), and what *)
(* follows.  Cell 3 of a challenge ends with the security flags.           *)
(***************************************************************************)
EXTENDS Dial, BigNum

CONSTANT Width \* the length of a digest in bytes

ASSUME LoginAssumption == Width \in Nat \ {0}

VARIABLES
    phase,    \* where Login stands; an answer's phase has the opcode's name
    buf,      \* readRealmPacket's buf, in cells
    asked,    \* the request that the server has not answered, or "none"
    knows,    \* the server knows the account's password as the client does
    agree,    \* client and server have derived the same secret
    digest,   \* the SHA1 behind the client's M; the server's too if they agree
    accepted  \* the server has found M right

secretVars == <<knows, agree, digest, accepted>>

loginVars == <<phase, buf, asked, secretVars>>

Answers == {"challenge", "proof", "list"}
Phases  == {"idle", "dial", "done", "failed", "panic"} \cup Answers

LoginInit ==
    /\ DialInit
    /\ phase = "idle"
    /\ buf = <<>> /\ asked = "none"
    /\ knows = FALSE /\ agree = FALSE /\ accepted = FALSE
    /\ digest = <<>>

-----------------------------------------------------------------------------
(* readRealmPacket. *)

Packet(op, v, len) == [i \in 1 .. len |-> Cell(op, v, i)]

\* The result byte says success.
Succeeds(v) == v \notin {"refused", "refusedShort"}

\* The security flags ask for more.
Flagged(v) == v \in {"token", "emptyToken", "otherFlags"}

\* The fault: the flags are not looked at.
SizeWithoutFlags(b) ==
    IF Len(b) < 2 THEN 0
    ELSE IF phase # "challenge" THEN 3
    ELSE IF ~Succeeds(b[2].v) THEN 2
    ELSE IF Len(b) < 3 THEN 0 ELSE 3

\* The cells of the packet that begins with b, 0 if b does not tell yet
\* (ErrShortBuffer); any proof has the same length to the client.
Size(b) ==
    IF Len(b) < 2 THEN 0
    ELSE IF phase # "challenge" THEN 3
    ELSE IF ~Succeeds(b[2].v) THEN 2
    ELSE IF Len(b) < 3 THEN 0
    ELSE IF Flagged(b[3].v) THEN 4 ELSE 3

\* What the caller does not get, nobody remembers.
Forget ==
    /\ knows' = FALSE /\ agree' = FALSE /\ accepted' = FALSE
    /\ digest' = <<>>

InPacket == phase \in Answers /\ buf # <<>> /\ buf[1].op = phase
Complete == InPacket /\ Size(buf) > 0 /\ Len(buf) >= Size(buf)

\* What the next Read asks for: one byte, a guess, or the rest of the packet.
Wanted == IF buf = <<>> THEN 1
          ELSE IF Size(buf) = 0 THEN Len(Readable) ELSE Size(buf) - Len(buf)

ReadSome ==
    /\ phase \in Answers
    /\ buf = <<>> \/ InPacket
    /\ ~Complete
    /\ \E n \in 1 .. Len(Readable) :
         /\ n <= Wanted
         /\ buf' = buf \o SubSeq(Readable, 1, n)
         /\ Consume(n)
    /\ UNCHANGED <<via, dial, sock, peer, phase, asked, secretVars>>

-----------------------------------------------------------------------------
(* Faults a maintainer could introduce. *)

\* readRealmPacket's own errors leave the socket open.
WrongOpcodeKeepsSocket ==
    /\ phase \in Answers /\ buf # <<>>
    /\ buf[1].op # phase
    /\ phase' = "failed"
    /\ dial' = "off" /\ buf' = <<>> /\ asked' = "none"
    /\ Forget
    /\ UNCHANGED <<via, sock, peer, wire, held>>

\* The server's proof is not compared.
ProofUnchecked ==
    /\ phase = "proof" /\ Complete
    /\ Succeeds(buf[2].v)
    /\ phase' = "list" /\ asked' = "list"
    /\ buf' = <<>>
    /\ UNCHANGED <<dialVars, secretVars>>

-----------------------------------------------------------------------------
(* Login. *)

StartLogin ==
    /\ phase = "idle"
    /\ phase' = "dial" /\ dial' = "tcp"
    /\ knows' \in BOOLEAN
    /\ UNCHANGED <<via, sock, peer, wire, held, buf, asked>>
    /\ UNCHANGED <<agree, digest, accepted>>

\* Login returns with its socket closed.
Exit(result) ==
    /\ phase' = result
    /\ dial' = "off"
    /\ Closed
    /\ buf' = <<>> /\ asked' = "none"
    /\ UNCHANGED via

Fail == Exit("failed") /\ Forget

\* The request op has been written, and its answer is read next.
Ask(op) == phase' = op /\ asked' = op /\ buf' = <<>>

DialError == phase = "dial" /\ dial = "failed" /\ Fail

SendChallenge ==
    /\ phase = "dial" /\ dial = "up"
    /\ Ask("challenge")
    /\ UNCHANGED <<dialVars, secretVars>>

\* A read or a write fails; there is no deadline, so only when the server is gone.
IOError == phase \in {"dial"} \cup Answers /\ dial = "up" /\ peer = "gone" /\ Fail

WrongOpcode ==
    /\ phase \in Answers /\ buf # <<>>
    /\ buf[1].op # phase
    /\ Fail

\* handleChallenge: the secret is derived, and A and ClientProof(digest) are sent.
HandleChallenge ==
    /\ phase = "challenge" /\ Complete
    /\ buf[2].v \in {"ok", "emptyToken"}
    /\ \E e \in Exchanges : agree' = (knows /\ e.client = e.server)
    /\ digest' \in Strings(Width)
    /\ Ask("proof")
    /\ UNCHANGED <<dialVars, knows, accepted>>

\* A refusal, or a second factor the client does not know.
ChallengeError ==
    /\ phase = "challenge" /\ Complete
    /\ buf[2].v \in {"refused", "otherFlags"}
    /\ Fail

HandleProof ==
    /\ phase = "proof" /\ Complete
    /\ buf[2].v = "ok"
    /\ Ask("list")
    /\ UNCHANGED <<dialVars, secretVars>>

\* A refusal, or a server that cannot prove that it knows the password.
ProofError ==
    /\ phase = "proof" /\ Complete
    /\ buf[2].v # "ok"
    /\ Fail

\* The configured realm is on the list.
RealmFound ==
    /\ phase = "list" /\ Complete
    /\ buf[2].v = "found"
    /\ Exit("done")
    /\ UNCHANGED secretVars

RealmMissing ==
    /\ phase = "list" /\ Complete
    /\ buf[2].v = "missing"
    /\ Fail

\* A field reaches behind the packet: a length, or the token, whose bytes
\* readChallenge has not counted.
MustPanics ==
    /\ Complete
    /\ buf[2].v \in {"malformed", "token"}
    /\ phase' = "panic"
    /\ UNCHANGED <<dialVars, buf, asked, secretVars>>

LoginStep ==
    \/ StartLogin \/ DialError \/ SendChallenge \/ ReadSome \/ IOError
    \/ WrongOpcode \/ HandleChallenge \/ ChallengeError \/ HandleProof
    \/ ProofError \/ RealmFound \/ RealmMissing \/ MustPanics
    \/ phase = "dial" /\ DialStep /\ UNCHANGED loginVars

-----------------------------------------------------------------------------
(* The realm server. *)

ServerSays(p) ==
    /\ wire' = wire \o p
    /\ asked' = "none"
    /\ UNCHANGED <<via, dial, sock, peer, held, phase, buf, knows, agree, digest>>

AnswerChallenge ==
    /\ asked = "challenge" /\ peer = "up"
    /\ \/ \E v \in {"ok", "malformed"} : ServerSays(Packet("challenge", v, 3))
       \/ \E v \in {"token", "emptyToken", "otherFlags"} :
            ServerSays(Packet("challenge", v, 4))
       \/ ServerSays(Packet("challenge", "refused", 2))
    /\ UNCHANGED accepted

\* The server computes its own M and compares it with the bytes it has got; its
\* answer to a right one proves that it knows the password.
AcceptProof ==
    /\ asked = "proof" /\ peer = "up"
    /\ agree /\ ClientProof(digest) = digest
    /\ accepted' = TRUE
    /\ ServerSays(Packet("proof", "ok", 3))

\* A server that knows nothing may still say yes.
DenyProof ==
    /\ asked = "proof" /\ peer = "up"
    /\ \/ ServerSays(Packet("proof", "refused", 3))
       \/ ServerSays(Packet("proof", "refusedShort", 2))
       \/ ~agree /\ ServerSays(Packet("proof", "forged", 3))
    /\ UNCHANGED accepted

AnswerList ==
    /\ asked = "list" /\ peer = "up"
    /\ \E v \in {"found", "missing", "malformed"} : ServerSays(Packet("list", v, 3))
    /\ UNCHANGED accepted

\* An answer to something else.
AnswerWrong ==
    /\ asked # "none" /\ peer = "up"
    /\ ServerSays(Packet("other", "ok", 1))
    /\ UNCHANGED accepted

PeerStep ==
    \/ AnswerChallenge \/ AcceptProof \/ DenyProof \/ AnswerList \/ AnswerWrong
    \/ (ProxyAnswers \/ HangUp) /\ UNCHANGED loginVars

-----------------------------------------------------------------------------
\* The caller takes note of the outcome and calls again.
Again ==
    /\ phase \in {"done", "failed"}
    /\ phase' = "idle"
    /\ Forget
    /\ UNCHANGED <<dialVars, buf, asked>>

LoginNext == LoginStep \/ PeerStep \/ Again

LoginSpec == LoginInit /\ [][LoginNext]_<<dialVars, loginVars>>

-----------------------------------------------------------------------------
(* Properties. *)

Ops    == {"line", "greeting", "other"} \cup Answers
Values == {"200", "407", "bad", "header", "blank", "ok", "malformed", "token",
           "emptyToken", "otherFlags", "refused", "refusedShort", "forged", "found",
           "missing"}
Cells  == [op : Ops, v : Values, i : 1 .. 4]

\* The types of Login's state.
LoginTypeOK ==
    /\ via \in {"direct", "connect"}
    /\ dial \in Reading \cup {"off", "tcp", "up", "failed"}
    /\ sock \in BOOLEAN
    /\ peer \in {"none", "proxy", "up", "gone"}
    /\ phase \in Phases
    /\ asked \in Answers \cup {"none"}
    /\ knows \in BOOLEAN /\ agree \in BOOLEAN /\ accepted \in BOOLEAN
    /\ digest \in Strings(Width) \cup {<<>>}
    /\ {wire, held, buf} \subseteq Seq(Cells)

\* Whenever an answer is taken for whole, it is: it is the server's answer to the
\* last request, from its first byte to its last, and nothing is left over for
\* the next read or forgotten, in whatever pieces it has come.
AnswersWhole ==
    Complete =>
      /\ asked = "none"
      /\ buf = Packet(phase, buf[1].v, Size(buf))
      /\ wire = <<>> /\ held = <<>>

\* When the server knows the password, both sides derive the same secret, though
\* the base of the client's power may be negative.
SecretsAgree == knows /\ asked = "proof" => agree

\* The server reads the client's proof as the client has computed it.
ProofArrives == asked = "proof" => ClientProof(digest) = digest
=============================================================================
