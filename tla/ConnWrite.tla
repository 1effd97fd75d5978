------------------------------ MODULE ConnWrite -----------------------------
(***************************************************************************)
(* One game-server connection of the bot, write side: Conn.Write, called   *)
(* by the session's Run goroutine, by its ping and keep-alive goroutines   *)
(* and by any number of Discord handler goroutines.  writeMu makes taking  *)
(* the keystream and putting the packet on the wire one step; without it,  *)
(* two packets could reach the server in the order opposite to that of     *)
(* their keystream positions, and the server could read neither.           *)
(***************************************************************************)
EXTENDS Integers, Sequences

CONSTANTS Writers,    \* the goroutines that call Conn.Write
          Opener,     \* the one of them that runs Session.Run
          NoOne,      \* the holder of a free mutex
          MaxWrites   \* bound: Write is called after this many encryptions at most

ASSUME WriteAssumption ==
    /\ Opener \in Writers
    /\ NoOne \notin Writers
    /\ MaxWrites \in Nat

VARIABLES
    lock,     \* Conn.writeMu
    wpc,      \* where each writer stands in Conn.Write
    taken,    \* the keystream position of the header each writer is to send
    cipherOn, \* HeaderCrypt.initialized
    cliPos,   \* the position of HeaderCrypt.clientCrypt in its keystream
    wire,     \* the packets put on the wire
    broken,   \* the connection is down: every later write fails
    stalled   \* the peer reads no more: conn.Write blocks, without a deadline

vars == <<lock, wpc, taken, cipherOn, cliPos, wire, broken, stalled>>

HeaderSize == 6
Plain      == -1

\* A writer holds the mutex from Lock to the deferred Unlock.
Inside == {"encrypt", "send"}

Init ==
    /\ lock = NoOne
    /\ wpc = [w \in Writers |-> "idle"]
    /\ taken = [w \in Writers |-> Plain]
    /\ cipherOn = FALSE
    /\ cliPos = 0
    /\ wire = <<>>
    /\ broken = FALSE
    /\ stalled = FALSE

-----------------------------------------------------------------------------
(* Faults a maintainer could introduce. *)

\* The mutex is not taken.
LockUnguarded(w) ==
    /\ wpc[w] = "lock"
    /\ wpc' = [wpc EXCEPT ![w] = "encrypt"]
    /\ lock' = w
    /\ UNCHANGED <<taken, cipherOn, cliPos, wire, broken, stalled>>

\* The mutex protects the cipher only.
EncryptAndUnlock(w) ==
    /\ wpc[w] = "encrypt"
    /\ taken' = [taken EXCEPT ![w] = IF wire = <<>> THEN Plain ELSE cliPos]
    /\ cliPos' = IF wire = <<>> THEN cliPos ELSE cliPos + HeaderSize
    /\ wpc' = [wpc EXCEPT ![w] = "send"]
    /\ lock' = NoOne
    /\ UNCHANGED <<cipherOn, wire, broken, stalled>>

\* An early return on the error path, without defer.
SendErrorKeepsLock(w) ==
    /\ wpc[w] = "send"
    /\ broken
    /\ wpc' = [wpc EXCEPT ![w] = "idle"]
    /\ UNCHANGED <<lock, taken, cipherOn, cliPos, wire, broken, stalled>>

\* AUTH_SESSION is encrypted like every other packet.
EncryptAll(w) ==
    /\ wpc[w] = "encrypt"
    /\ taken' = [taken EXCEPT ![w] = cliPos]
    /\ cliPos' = cliPos + HeaderSize
    /\ wpc' = [wpc EXCEPT ![w] = "send"]
    /\ UNCHANGED <<lock, cipherOn, wire, broken, stalled>>

-----------------------------------------------------------------------------
\* handleAuthChallenge switches the cipher on and calls Write with the first
\* packet, AUTH_SESSION.
Open ==
    /\ ~cipherOn
    /\ wpc[Opener] = "idle"
    /\ cipherOn' = TRUE
    /\ cliPos' = 0
    /\ wpc' = [wpc EXCEPT ![Opener] = "lock"]
    /\ UNCHANGED <<lock, taken, wire, broken, stalled>>

\* A goroutine calls Write with any other packet.  Whatever makes it do so, an
\* answer of the server or being in the world, comes after AUTH_SESSION.
Call(w) ==
    /\ wpc[w] = "idle"
    /\ wire # <<>>
    /\ cliPos < HeaderSize * MaxWrites
    /\ wpc' = [wpc EXCEPT ![w] = "lock"]
    /\ UNCHANGED <<lock, taken, cipherOn, cliPos, wire, broken, stalled>>

Lock(w) ==
    /\ wpc[w] = "lock"
    /\ lock = NoOne
    /\ lock' = w
    /\ wpc' = [wpc EXCEPT ![w] = "encrypt"]
    /\ UNCHANGED <<taken, cipherOn, cliPos, wire, broken, stalled>>

\* Every header goes through the cipher but that of AUTH_SESSION, the packet
\* that is written while there is none on the wire.
Encrypt(w) ==
    /\ wpc[w] = "encrypt"
    /\ IF wire = <<>>
         THEN taken' = [taken EXCEPT ![w] = Plain] /\ UNCHANGED cliPos
         ELSE /\ taken' = [taken EXCEPT ![w] = cliPos]
              /\ cliPos' = cliPos + HeaderSize
    /\ wpc' = [wpc EXCEPT ![w] = "send"]
    /\ UNCHANGED <<lock, cipherOn, wire, broken, stalled>>

\* conn.Write puts header and body on the wire; the mutex is released.
Send(w) ==
    /\ wpc[w] = "send"
    /\ ~broken /\ ~stalled
    /\ wire' = Append(wire, [by |-> w, pos |-> taken[w]])
    /\ taken' = [taken EXCEPT ![w] = Plain]
    /\ wpc' = [wpc EXCEPT ![w] = "idle"]
    /\ lock' = NoOne
    /\ UNCHANGED <<cipherOn, cliPos, broken, stalled>>

\* conn.Write fails; the mutex is released all the same.
SendError(w) ==
    /\ wpc[w] = "send"
    /\ broken
    /\ taken' = [taken EXCEPT ![w] = Plain]
    /\ wpc' = [wpc EXCEPT ![w] = "idle"]
    /\ lock' = NoOne
    /\ UNCHANGED <<cipherOn, cliPos, wire, broken, stalled>>

Break ==
    /\ ~broken
    /\ broken' = TRUE
    /\ UNCHANGED <<lock, wpc, taken, cipherOn, cliPos, wire, stalled>>

Stall ==
    /\ ~stalled /\ ~broken
    /\ stalled' = TRUE
    /\ UNCHANGED <<lock, wpc, taken, cipherOn, cliPos, wire, broken>>

-----------------------------------------------------------------------------
Write(w) == Encrypt(w) \/ Send(w) \/ SendError(w)

Next ==
    \/ Open \/ Break \/ Stall
    \/ \E w \in Writers : Call(w) \/ Lock(w) \/ Write(w)

\* A waiting writer gets the mutex eventually (sync.Mutex is starvation-free)
\* and a writer inside is scheduled; nobody is obliged to call Write.
Fairness == \A w \in Writers : SF_vars(Lock(w)) /\ WF_vars(Write(w))

Spec     == Init /\ [][Next]_vars
LiveSpec == Spec /\ Fairness

-----------------------------------------------------------------------------
(* Properties. *)

Packet == [by : Writers, pos : Nat \cup {Plain}]

\* Type invariant; it includes that the mutex is held by the one writer that is
\* between Lock and Unlock.
TypeOK ==
    /\ lock \in Writers \cup {NoOne}
    /\ wpc \in [Writers -> {"idle", "lock"} \cup Inside]
    /\ \A w \in Writers : wpc[w] \in Inside <=> lock = w
    /\ taken \in [Writers -> Nat \cup {Plain}]
    /\ cipherOn \in BOOLEAN
    /\ cliPos \in Nat
    /\ wire \in Seq(Packet)
    /\ broken \in BOOLEAN
    /\ stalled \in BOOLEAN

\* The server can read every header: AUTH_SESSION is in the clear, and each of
\* the others was encrypted where the server's keystream stands after the ones
\* before it, whichever goroutines wrote them and however they interleaved.
HeadersInStep ==
    \A i \in 1 .. Len(wire) :
      wire[i].pos = IF i = 1 THEN Plain ELSE HeaderSize * (i - 2)

\* A call of Write returns, unless the peer has stopped reading: then it holds
\* writeMu for as long as that lasts, and everybody else waits behind it.
WritesReturn ==
    \A w \in Writers : wpc[w] # "idle" ~> wpc[w] = "idle" \/ (stalled /\ ~broken)

\* The connection implements CipherStream: each write is one atomic step.
Stream == INSTANCE CipherStream
            WITH stream  <- wire,
                 pending <- {w \in Writers : wpc[w] # "idle"}

ImplementsStream == Stream!Spec
=============================================================================
