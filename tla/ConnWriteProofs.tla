--------------------------- MODULE ConnWriteProofs --------------------------
(***************************************************************************)
(* Proofs about ConnWrite, for every set of writers and every number of    *)
(* packets: its type invariant (with mutual exclusion), HeadersInStep, and *)
(* that it implements CipherStream.  The inductive invariant says where    *)
(* the client's keystream stands relative to the packets on the wire while *)
(* the connection is up; a failed write leaves it ahead for good, which is *)
(* harmless because no write succeeds after a failed one.                  *)
(***************************************************************************)
EXTENDS ConnWrite, SequenceTheorems, TLAPS

\* Where the server's keystream stands after n packets.
ServerPos(n) == IF n = 0 THEN 0 ELSE HeaderSize * (n - 1)

\* Before AUTH_SESSION is on the wire only the opener can be inside Write.
Opening ==
    /\ ~cipherOn => wire = <<>> /\ \A w \in Writers : wpc[w] = "idle"
    /\ wire = <<>> => \A w \in Writers : wpc[w] # "idle" => w = Opener

\* While the connection is up, the position a writer took is the server's, and
\* the client's keystream is ahead of the server's by that header only.
InStep ==
    cipherOn /\ ~broken =>
      /\ \A w \in Writers :
           wpc[w] = "send" =>
             /\ taken[w] = Stream!PosAfter(Len(wire))
             /\ cliPos = ServerPos(Len(wire) + 1)
      /\ (\A w \in Writers : wpc[w] # "send") => cliPos = ServerPos(Len(wire))

IInv == TypeOK /\ HeadersInStep /\ Opening /\ InStep

THEOREM IInvInit == Init => IInv
<1> SUFFICES ASSUME Init
             PROVE  IInv
  OBVIOUS
<1>1. TypeOK
  <2>1. wire \in Seq(Packet)
    BY DEF Init
  <2>2. \A w \in Writers : wpc[w] \in Inside <=> lock = w
    BY WriteAssumption DEF Init, Inside
  <2>3. QED
    BY <2>1, <2>2 DEF Init, TypeOK
<1>2. HeadersInStep /\ Opening /\ InStep
  BY DEF Init, HeadersInStep, Opening, InStep
<1>3. QED
  BY <1>1, <1>2 DEF IInv

THEOREM TypeStep == TypeOK /\ [Next]_vars => TypeOK'
<1> SUFFICES ASSUME TypeOK, [Next]_vars
             PROVE  TypeOK'
  OBVIOUS
<1> USE WriteAssumption DEF TypeOK, Inside
<1>1. CASE UNCHANGED vars
  BY <1>1 DEF vars
<1>2. CASE Open
  BY <1>2 DEF Open
<1>3. CASE Break
  BY <1>3 DEF Break
<1>4. CASE Stall
  BY <1>4 DEF Stall
<1>5. ASSUME NEW w \in Writers, Call(w)
      PROVE  TypeOK'
  BY <1>5 DEF Call
<1>6. ASSUME NEW w \in Writers, Lock(w)
      PROVE  TypeOK'
  BY <1>6 DEF Lock
<1>7. ASSUME NEW w \in Writers, Encrypt(w)
      PROVE  TypeOK'
  BY <1>7 DEF Encrypt, HeaderSize
<1>8. ASSUME NEW w \in Writers, Send(w)
      PROVE  TypeOK'
  BY <1>8 DEF Send, Packet
<1>9. ASSUME NEW w \in Writers, SendError(w)
      PROVE  TypeOK'
  BY <1>9 DEF SendError
<1>10. QED
  BY <1>1, <1>2, <1>3, <1>4, <1>5, <1>6, <1>7, <1>8, <1>9 DEF Next, Write

\* TypeOK, and with it mutual exclusion between Lock and Unlock.
THEOREM TypeCorrect == Spec => []TypeOK
<1>1. Init => TypeOK
  BY IInvInit DEF IInv
<1>2. QED
  BY <1>1, TypeStep, PTL DEF Spec

THEOREM IInvStep == IInv /\ [Next]_vars => IInv'
<1> SUFFICES ASSUME IInv, [Next]_vars
             PROVE  IInv'
  OBVIOUS
<1> USE WriteAssumption DEF IInv
<1>t. TypeOK /\ TypeOK'
  BY TypeStep
<1>u. Len(wire) \in Nat /\ (wire = <<>> <=> Len(wire) = 0)
  BY <1>t, EmptySeq, LenProperties DEF TypeOK
<1>1. CASE UNCHANGED vars
  BY <1>1, <1>t DEF vars, HeadersInStep, Opening, InStep
<1>2. CASE Open
  BY <1>2, <1>t, <1>u
     DEF Open, TypeOK, HeadersInStep, Opening, InStep, ServerPos
<1>3. CASE Break
  BY <1>3, <1>t DEF Break, TypeOK, HeadersInStep, Opening, InStep
<1>4. CASE Stall
  BY <1>4, <1>t DEF Stall, TypeOK, HeadersInStep, Opening, InStep
<1>5. ASSUME NEW w \in Writers, Call(w)
      PROVE  IInv'
  BY <1>5, <1>t DEF Call, TypeOK, HeadersInStep, Opening, InStep
<1>6. ASSUME NEW w \in Writers, Lock(w)
      PROVE  IInv'
  BY <1>6, <1>t DEF Lock, TypeOK, Inside, HeadersInStep, Opening, InStep
<1>7. ASSUME NEW w \in Writers, Encrypt(w)
      PROVE  IInv'
  <2>1. HeadersInStep' /\ Opening'
    BY <1>7, <1>t DEF Encrypt, TypeOK, HeadersInStep, Opening
  <2>2. \A v \in Writers : wpc[v] # "send" /\ (wpc'[v] = "send" => v = w)
    BY <1>7, <1>t DEF Encrypt, TypeOK, Inside
  <2>3. cipherOn /\ cipherOn' = cipherOn /\ wire' = wire /\ broken' = broken
    BY <1>7, <1>t DEF Encrypt, Opening
  <2>4. ~broken => cliPos = ServerPos(Len(wire))
    BY <2>2, <2>3 DEF InStep
  <2>5. ~broken => /\ taken'[w] = Stream!PosAfter(Len(wire))
                   /\ cliPos' = ServerPos(Len(wire) + 1)
    BY <1>7, <1>t, <1>u, <2>4
       DEF Encrypt, TypeOK, ServerPos, Stream!PosAfter, HeaderSize, Plain,
           Stream!HeaderSize, Stream!Plain
  <2>6. wpc'[w] = "send"
    BY <1>7, <1>t DEF Encrypt, TypeOK
  <2>7. QED
    BY <1>t, <2>1, <2>2, <2>3, <2>5, <2>6 DEF InStep
<1>8. ASSUME NEW w \in Writers, Send(w)
      PROVE  IInv'
  <2>1. cipherOn /\ cipherOn' = cipherOn /\ ~broken /\ broken' = broken
        /\ cliPos' = cliPos
    BY <1>8, <1>t DEF Send, Opening
  <2>2. taken[w] = Stream!PosAfter(Len(wire))
        /\ cliPos = ServerPos(Len(wire) + 1)
    BY <1>8, <2>1 DEF Send, InStep
  <2>3. [by |-> w, pos |-> taken[w]] \in Packet
    BY <1>t DEF TypeOK, Packet
  <2>4. /\ Len(wire') = Len(wire) + 1 /\ wire' # <<>>
        /\ \A i \in 1 .. Len(wire) : wire'[i] = wire[i]
        /\ wire'[Len(wire) + 1].pos = taken[w]
    BY <1>8, <1>t, <2>3, AppendProperties DEF Send, TypeOK
  <2>5. HeadersInStep'
    <3> SUFFICES ASSUME NEW i \in 1 .. Len(wire')
                 PROVE  wire'[i].pos = IF i = 1 THEN Plain
                                                ELSE HeaderSize * (i - 2)
      BY DEF HeadersInStep
    <3>1. CASE i \in 1 .. Len(wire)
      BY <3>1, <2>4 DEF HeadersInStep
    <3>2. CASE i = Len(wire) + 1
      BY <3>2, <2>2, <2>4, <1>u
         DEF Stream!PosAfter, HeaderSize, Plain, Stream!HeaderSize,
             Stream!Plain
    <3>3. QED
      BY <3>1, <3>2, <2>4, <1>u
  <2>6. \A v \in Writers : wpc'[v] # "send"
    BY <1>8, <1>t DEF Send, TypeOK, Inside
  <2>7. Opening'
    BY <2>1, <2>4 DEF Opening
  <2>8. InStep'
    BY <2>1, <2>2, <2>4, <2>6 DEF InStep
  <2>9. QED
    BY <1>t, <2>5, <2>7, <2>8
<1>9. ASSUME NEW w \in Writers, SendError(w)
      PROVE  IInv'
  BY <1>9, <1>t DEF SendError, TypeOK, HeadersInStep, Opening, InStep
<1>10. QED
  BY <1>1, <1>2, <1>3, <1>4, <1>5, <1>6, <1>7, <1>8, <1>9 DEF Next, Write

THEOREM Invariance == Spec => []IInv
  BY IInvInit, IInvStep, PTL DEF Spec

\* HeadersInStep: the server can decrypt every header it receives, for any
\* interleaving of any number of writers.
THEOREM HeadersInStepCorrect == Spec => []HeadersInStep
<1>1. IInv => HeadersInStep
  BY DEF IInv
<1>2. QED
  BY Invariance, <1>1, PTL

THEOREM StreamStep == IInv /\ [Next]_vars => [Stream!Next]_(Stream!vars)
<1> SUFFICES ASSUME IInv, [Next]_vars
             PROVE  [Stream!Next]_(Stream!vars)
  OBVIOUS
<1> DEFINE pending == {v \in Writers : wpc[v] # "idle"}
<1> USE WriteAssumption
<1>t. TypeOK
  BY DEF IInv
<1>1. CASE Open
  <2>1. Stream!Request(Opener)
    BY <1>1, <1>t DEF Open, Stream!Request, TypeOK, IInv, Opening
  <2>2. QED
    BY <2>1 DEF Stream!Next
<1>2. ASSUME NEW w \in Writers, Call(w)
      PROVE  Stream!Next
  <2>1. Stream!Request(w)
    BY <1>2, <1>t DEF Call, Stream!Request, TypeOK
  <2>2. QED
    BY <2>1 DEF Stream!Next
<1>3. ASSUME NEW w \in Writers, Lock(w) \/ Encrypt(w)
      PROVE  UNCHANGED Stream!vars
  <2>1. wire' = wire
    BY <1>3 DEF Lock, Encrypt
  <2>2. \A v \in Writers : wpc'[v] # "idle" <=> wpc[v] # "idle"
    BY <1>3, <1>t DEF Lock, Encrypt, TypeOK
  <2>3. QED
    BY <2>1, <2>2 DEF Stream!vars
<1>4. ASSUME NEW w \in Writers, Send(w)
      PROVE  Stream!Next
  <2>1. w \in pending /\ pending' = pending \ {w}
    BY <1>4, <1>t DEF Send, TypeOK
  <2>2. taken[w] = Stream!PosAfter(Len(wire))
    BY <1>4, <1>t DEF Send, IInv, InStep, Opening
  <2>3. Stream!Commit(w)
    BY <1>4, <2>1, <2>2 DEF Send, Stream!Commit
  <2>4. QED
    BY <2>3 DEF Stream!Next
<1>5. ASSUME NEW w \in Writers, SendError(w)
      PROVE  Stream!Next
  <2>1. Stream!Fail(w)
    BY <1>5, <1>t DEF SendError, Stream!Fail, TypeOK
  <2>2. QED
    BY <2>1 DEF Stream!Next
<1>6. CASE Break \/ Stall \/ UNCHANGED vars
  BY <1>6 DEF Break, Stall, vars, Stream!vars
<1>7. QED
  BY <1>1, <1>2, <1>3, <1>4, <1>5, <1>6 DEF Next, Write

\* Conn.Write behaves as if each call were one atomic step.
THEOREM StreamCorrect == Spec => ImplementsStream
<1>1. Init => Stream!Init
  BY DEF Init, Stream!Init
<1>2. QED
  BY <1>1, StreamStep, Invariance, PTL DEF Spec, ImplementsStream, Stream!Spec
=============================================================================
