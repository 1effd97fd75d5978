--------------------------- MODULE GameConnProofs ---------------------------
(***************************************************************************)
(* Proofs about GameConn, for every number of frames, every body size,     *)
(* every channel capacity and every set of header sizes: its type          *)
(* invariant and its three safety properties, and that it implements       *)
(* PacketStream.                                                           *)
(*                                                                         *)
(* ExactlyOnce is not inductive by itself: that TakeBody hands on the next *)
(* frame, and not noise, depends on the two keystreams standing at the     *)
(* same position, which in turn depends on the order of the handshake.     *)
(* The inductive invariant IInv has one part for each of these.            *)
(***************************************************************************)
EXTENDS GameConn, SequenceTheorems, TLAPS

\* How far the keystreams move over the header of f.
Advance(f) == IF f.enc THEN f.hdr ELSE 0

\* The packet in place k of the stream is the k-th frame, or noise.
InPlace(v, k) ==
    \/ v = k /\ k <= sent
    \/ split /\ v = Junk

\* handled, packets and held continue each other.
Pipe ==
    /\ \A i \in 1 .. Len(handled) : InPlace(handled[i], i)
    /\ \A i \in 1 .. Len(packets) : InPlace(packets[i], Len(handled) + i)
    /\ rpc = "push" => InPlace(held, Len(handled) + Len(packets) + 1)

\* The frames on the wire are the last ones sent, and without a split header
\* all the others are in the pipe.
Tally ==
    /\ \A i \in 1 .. Len(wire) : wire[i].id = sent - Len(wire) + i
    /\ Len(wire) <= sent
    /\ ~split => sent = Len(handled) + Len(packets) + InHand + Len(wire)

\* The cipher is switched on between the first packet's dispatch and the
\* answer, while no other frame is under way.
Handshake ==
    /\ initialized <=> handled # <<>> /\ run # "init"
    /\ run = "init" => Len(handled) = 1
    /\ run = "reply" => Len(handled) = 1 /\ ~authSent
    /\ authSent => initialized
    /\ initialized => sent >= 1
    /\ ~authSent => sent <= 1 /\ srvPos = 0 /\ cliPos = 0 /\ ~split
    /\ \A i \in 1 .. Len(wire) :
         /\ wire[i].enc <=> initialized
         /\ wire[i].enc \/ wire[i].hdr = 4

\* Without a split header the keystream positions of the frames on the wire
\* form a chain from the reader's position to the server's.
Chain ==
    ~split /\ rpc \in {"top", "body", "push"} =>
      /\ rpc = "body" => wire # <<>>
      /\ wire = <<>> => cliPos = srvPos
      /\ wire # <<>> =>
           /\ cliPos = IF rpc = "body" THEN wire[1].pos + Advance(wire[1])
                                       ELSE wire[1].pos
           /\ \A i \in 1 .. Len(wire) - 1 :
                wire[i + 1].pos = wire[i].pos + Advance(wire[i])
           /\ srvPos = wire[Len(wire)].pos + Advance(wire[Len(wire)])

\* A split header leaves the reader ahead of the server, and from then on it
\* hands on nothing but noise; without one it sees no noise.
Noise ==
    /\ split => /\ rpc # "body"
                /\ rpc = "push" => held = Junk
                /\ rpc \in {"top", "more"} =>
                     wire # <<>> /\ initialized /\ wire[1].pos < cliPos
    /\ ~split => /\ rpc \notin {"more", "garbled", "crashed"}
                 /\ run # "crashed"

IInv == TypeOK /\ Pipe /\ Tally /\ Handshake /\ Chain /\ Noise

-----------------------------------------------------------------------------
THEOREM TypeInit == Init => TypeOK
<1> SUFFICES ASSUME Init
             PROVE  TypeOK
  OBVIOUS
<1>1. /\ wire \in Seq(Frame)
      /\ packets \in Seq({Junk} \cup 1 .. MaxFrames)
      /\ handled \in Seq({Junk} \cup 1 .. MaxFrames)
  BY DEF Init
<1>2. Len(packets) <= QueueCap
  BY ConnAssumption DEF Init
<1>3. /\ sent \in 0 .. MaxFrames /\ srvPos \in Nat /\ unread \in Nat
      /\ have \in Nat /\ cliPos \in Nat /\ held \in {0, Junk} \cup 1 .. MaxFrames
  BY ConnAssumption DEF Init
<1>4. rpc \in ReaderPC /\ rpc # "push" /\ run \in RunPC
  BY DEF Init, ReaderPC, RunPC
<1>5. /\ initialized \in BOOLEAN /\ chanClosed \in BOOLEAN /\ done \in BOOLEAN
      /\ authSent \in BOOLEAN /\ netDown \in BOOLEAN
      /\ sockClosed \in BOOLEAN /\ cancelled \in BOOLEAN /\ split \in BOOLEAN
  BY DEF Init
<1>6. QED
  BY <1>1, <1>2, <1>3, <1>4, <1>5 DEF TypeOK

THEOREM TypeStep == TypeOK /\ [Next]_vars => TypeOK'
<1> SUFFICES ASSUME TypeOK, [Next]_vars
             PROVE  TypeOK'
  OBVIOUS
<1> USE ConnAssumption DEF TypeOK, serverVars, byteVars, cryptVars, chanVars,
                           runVars, signalVars, outside, reading
<1>1. CASE UNCHANGED vars
  BY <1>1 DEF vars
<1>2. ASSUME NEW body \in 0 .. MaxBody, SendChallenge(body)
      PROVE  TypeOK'
  BY <1>2 DEF SendChallenge, ServerSend, Frame
<1>3. ASSUME NEW hdr \in HeaderLens, NEW body \in 0 .. MaxBody,
             SendPacket(hdr, body)
      PROVE  TypeOK'
  BY <1>3 DEF SendPacket, ServerSend, Frame
<1>4. CASE Drop
  BY <1>4 DEF Drop
<1>5. CASE Cancel
  BY <1>5 DEF Cancel
<1>6. ASSUME NEW n \in 1 .. unread, ReadSome(n)
      PROVE  TypeOK'
  BY <1>6 DEF ReadSome, ReaderPC
<1>7. CASE ReadFail
  BY <1>7 DEF ReadFail, ReaderPC
<1>8. CASE ParseHeader
  <2>1. wire # <<>> /\ rpc' = "body" /\ cliPos' = Decrypted(Head(wire).hdr)
    BY <1>8 DEF ParseHeader
  <2>2. Head(wire) \in Frame
    BY <2>1
  <2>3. cliPos' \in Nat
    BY <2>1, <2>2, SMTT(60) DEF Decrypted, Frame
  <2>4. QED
    BY <1>8, <2>1, <2>3 DEF ParseHeader, ReaderPC
<1>9. CASE ParseSplitHeader
  BY <1>9 DEF ParseSplitHeader, Decrypted, ReaderPC
<1>10. CASE ParseNoise
  BY <1>10 DEF ParseNoise, Decrypted, ReaderPC
<1>11. CASE TakeBody
  <2>1. Head(wire) \in Frame /\ Tail(wire) \in Seq(Frame)
    BY <1>11 DEF TakeBody
  <2>2. have - FrameLen(Head(wire)) \in Nat
    <3>1. FrameLen(Head(wire)) \in Nat
      BY <2>1 DEF FrameLen, Frame
    <3>2. have >= FrameLen(Head(wire))
      BY <1>11 DEF TakeBody
    <3>3. QED
      BY <3>1, <3>2
  <2>3. Head(wire).id \in 1 .. MaxFrames
    BY <2>1 DEF Frame
  <2>4. QED
    BY <1>11, <2>1, <2>2, <2>3 DEF TakeBody, ReaderPC
<1>12. ASSUME NEW n \in 4 .. have, GarbledPacket(n)
       PROVE  TypeOK'
  BY <1>12 DEF GarbledPacket, ReaderPC, Junk
<1>13. CASE GarbledPanic
  BY <1>13 DEF GarbledPanic, ReaderPC, RunPC
<1>14. CASE Push
  <2>1. held \in {Junk} \cup 1 .. MaxFrames
    BY <1>14 DEF Push
  <2>2. /\ packets' \in Seq({Junk} \cup 1 .. MaxFrames)
        /\ Len(packets') <= QueueCap
    BY <1>14, <2>1 DEF Push
  <2>3. QED
    BY <1>14, <2>2 DEF Push, ReaderPC
<1>15. CASE CloseQueue
  BY <1>15 DEF CloseQueue, ReaderPC
<1>16. CASE CloseDone
  BY <1>16 DEF CloseDone, ReaderPC
<1>17. CASE Receive
  BY <1>17 DEF Receive, RunPC
<1>18. CASE ReceiveZero
  BY <1>18 DEF ReceiveZero, RunPC
<1>19. CASE Handle
  BY <1>19 DEF Handle, RunPC
<1>20. CASE InitCrypt
  BY <1>20 DEF InitCrypt, RunPC
<1>21. CASE WriteAuth
  BY <1>21 DEF WriteAuth, RunPC
<1>22. CASE ReturnDone
  BY <1>22 DEF ReturnDone, RunPC
<1>23. CASE ReturnCancelled
  BY <1>23 DEF ReturnCancelled, RunPC
<1>24. CASE HandlePanic
  BY <1>24 DEF HandlePanic, ReaderPC, RunPC
<1>25. QED
  BY <1>1, <1>2, <1>3, <1>4, <1>5, <1>6, <1>7, <1>8, <1>9, <1>10, <1>11,
     <1>12, <1>13, <1>14, <1>15, <1>16, <1>17, <1>18, <1>19, <1>20, <1>21,
     <1>22, <1>23, <1>24
     DEF Next, Server, Reader, Run, Handler, Terminated

\* TypeOK holds throughout: in particular, the channel stays within its
\* capacity and the read loop never has a negative number of bytes.
THEOREM TypeCorrect == Spec => []TypeOK
  BY TypeInit, TypeStep, PTL DEF Spec

-----------------------------------------------------------------------------
(* IInv holds initially, and every step preserves it. *)

THEOREM IInvInit == Init => IInv
<1> SUFFICES ASSUME Init
             PROVE  IInv
  OBVIOUS
<1>1. TypeOK
  BY TypeInit
<1>2. Pipe /\ Tally /\ Handshake /\ Chain /\ Noise
  BY DEF Init, Pipe, Tally, InHand, Handshake, Chain, Noise
<1>3. QED
  BY <1>1, <1>2 DEF IInv

THEOREM IInvStep == IInv /\ [Next]_vars => IInv'
<1> SUFFICES ASSUME IInv, [Next]_vars
             PROVE  IInv'
  OBVIOUS
<1> USE DEF serverVars, byteVars, cryptVars, chanVars, runVars, signalVars,
            outside, reading
<1>t. TypeOK /\ TypeOK'
  BY TypeStep DEF IInv
<1>w. ASSUME wire # <<>>
      PROVE  /\ wire[1] = Head(wire) /\ Head(wire) \in Frame
             /\ Len(wire) \in Nat /\ Len(wire) >= 1
             /\ wire[1].enc <=> initialized
             /\ wire[1].enc \/ wire[1].hdr = 4
  <2>1. Head(wire) \in Frame /\ wire[1] = Head(wire)
    BY <1>t, <1>w, HeadTailProperties DEF TypeOK
  <2>2. Len(wire) \in Nat /\ Len(wire) >= 1
    BY <1>t, <1>w, EmptySeq DEF TypeOK
  <2>3. 1 \in 1 .. Len(wire)
    BY <2>2
  <2>4. QED
    BY <2>1, <2>2, <2>3 DEF IInv, Handshake
<1>s. ASSUME wire # <<>>, initialized
      PROVE  authSent
  <2>1. SUFFICES ASSUME ~authSent
                 PROVE  FALSE
    OBVIOUS
  <2>2. handled # <<>> /\ sent <= 1 /\ ~split
    BY <1>s, <2>1 DEF IInv, Handshake
  <2>3. Len(handled) \in Nat /\ Len(handled) >= 1 /\ Len(packets) \in Nat
    BY <1>t, <2>2, EmptySeq, LenProperties DEF TypeOK
  <2>4. QED
    BY <1>s, <1>t, <1>w, <2>2, <2>3 DEF IInv, Tally, InHand, TypeOK
<1>1. CASE UNCHANGED vars
  BY <1>1, <1>t DEF vars, IInv, Pipe, InPlace, Tally, InHand, Handshake, Chain,
                   Noise
<1>2. CASE Drop
  <2>1. Pipe' /\ Tally' /\ Handshake'
    BY <1>2, <1>t DEF Drop, TypeOK, IInv, Pipe, InPlace, Tally, InHand, Handshake
  <2>2. Chain' /\ Noise'
    BY <1>2, <1>t DEF Drop, TypeOK, IInv, Chain, Noise
  <2>3. QED
    BY <1>t, <2>1, <2>2 DEF IInv
<1>3. CASE Cancel
  <2>1. Pipe' /\ Tally' /\ Handshake'
    BY <1>3, <1>t DEF Cancel, TypeOK, IInv, Pipe, InPlace, Tally, InHand, Handshake
  <2>2. Chain' /\ Noise'
    BY <1>3, <1>t DEF Cancel, TypeOK, IInv, Chain, Noise
  <2>3. QED
    BY <1>t, <2>1, <2>2 DEF IInv
<1>4. CASE CloseQueue
  <2>1. Pipe' /\ Tally' /\ Handshake'
    BY <1>4, <1>t DEF CloseQueue, TypeOK, IInv, Pipe, InPlace, Tally, InHand, Handshake
  <2>2. Chain' /\ Noise'
    BY <1>4, <1>t DEF CloseQueue, TypeOK, IInv, Chain, Noise
  <2>3. QED
    BY <1>t, <2>1, <2>2 DEF IInv
<1>5. CASE CloseDone
  <2>1. Pipe' /\ Tally' /\ Handshake'
    BY <1>5, <1>t DEF CloseDone, TypeOK, IInv, Pipe, InPlace, Tally, InHand, Handshake
  <2>2. Chain' /\ Noise'
    BY <1>5, <1>t DEF CloseDone, TypeOK, IInv, Chain, Noise
  <2>3. QED
    BY <1>t, <2>1, <2>2 DEF IInv
<1>6. CASE ReceiveZero
  <2>1. Pipe' /\ Tally' /\ Handshake'
    BY <1>6, <1>t DEF ReceiveZero, TypeOK, IInv, Pipe, InPlace, Tally, InHand, Handshake
  <2>2. Chain' /\ Noise'
    BY <1>6, <1>t DEF ReceiveZero, TypeOK, IInv, Chain, Noise
  <2>3. QED
    BY <1>t, <2>1, <2>2 DEF IInv
<1>7. CASE Handle
  <2>1. Pipe' /\ Tally' /\ Handshake'
    BY <1>7, <1>t DEF Handle, TypeOK, IInv, Pipe, InPlace, Tally, InHand, Handshake
  <2>2. Chain' /\ Noise'
    BY <1>7, <1>t DEF Handle, TypeOK, IInv, Chain, Noise
  <2>3. QED
    BY <1>t, <2>1, <2>2 DEF IInv
<1>8. CASE ReturnDone
  <2>1. Pipe' /\ Tally' /\ Handshake'
    BY <1>8, <1>t DEF ReturnDone, TypeOK, IInv, Pipe, InPlace, Tally, InHand, Handshake
  <2>2. Chain' /\ Noise'
    BY <1>8, <1>t DEF ReturnDone, TypeOK, IInv, Chain, Noise
  <2>3. QED
    BY <1>t, <2>1, <2>2 DEF IInv
<1>9. CASE ReturnCancelled
  <2>1. Pipe' /\ Tally' /\ Handshake'
    BY <1>9, <1>t DEF ReturnCancelled, TypeOK, IInv, Pipe, InPlace, Tally, InHand, Handshake
  <2>2. Chain' /\ Noise'
    BY <1>9, <1>t DEF ReturnCancelled, TypeOK, IInv, Chain, Noise
  <2>3. QED
    BY <1>t, <2>1, <2>2 DEF IInv
<1>10. CASE ReadFail
  <2>1. rpc # "push" /\ rpc' = "exiting"
    BY <1>10 DEF ReadFail, NeedsBytes
  <2>2. Pipe' /\ Tally' /\ Handshake'
    BY <1>10, <2>1, <1>t DEF ReadFail, TypeOK, IInv, Pipe, InPlace, Tally, InHand,
                           Handshake
  <2>3. Chain' /\ Noise'
    BY <1>10, <2>1, <1>t DEF ReadFail, TypeOK, IInv, Chain, Noise
  <2>4. QED
    BY <1>t, <2>2, <2>3 DEF IInv
<1>11. ASSUME NEW n \in 1 .. unread, ReadSome(n)
      PROVE  IInv'
  <2>1. /\ rpc # "push" /\ rpc' # "push"
        /\ rpc' = rpc \/ (rpc = "more" /\ rpc' = "top")
    BY <1>11 DEF ReadSome, NeedsBytes
  <2>2. Pipe' /\ Tally' /\ Handshake'
    BY <1>11, <2>1, <1>t DEF ReadSome, TypeOK, IInv, Pipe, InPlace, Tally, InHand,
                           Handshake
  <2>3. Noise'
    BY <1>11, <2>1, <1>t DEF ReadSome, TypeOK, IInv, Noise
  <2>4. Chain'
    BY <1>11, <2>1, <1>t DEF ReadSome, IInv, Chain, Noise
  <2>5. QED
    BY <1>t, <2>2, <2>3, <2>4 DEF IInv
<1>12. CASE WriteAuth
  <2>1. Pipe' /\ Tally' /\ Chain' /\ Noise'
    BY <1>12, <1>t DEF WriteAuth, TypeOK, IInv, Pipe, InPlace, Tally, InHand, Chain,
                     Noise
  <2>2. handled # <<>> /\ initialized
    <3>1. run = "reply" /\ Len(handled) = 1
      BY <1>12 DEF WriteAuth, IInv, Handshake
    <3>2. handled # <<>>
      BY <3>1, EmptySeq
    <3>3. QED
      BY <3>1, <3>2 DEF IInv, Handshake
  <2>3. Handshake'
    BY <1>12, <2>2, <1>t DEF WriteAuth, TypeOK, IInv, Handshake
  <2>4. QED
    BY <1>t, <2>1, <2>3 DEF IInv
<1>13. CASE GarbledPanic
  <2>1. split
    BY <1>13 DEF GarbledPanic, IInv, Noise
  <2>2. run # "init" /\ run # "reply" /\ handled # <<>>
    BY <2>1, <1>t DEF IInv, Handshake, TypeOK
  <2>3. Pipe' /\ Tally' /\ Chain' /\ Noise'
    BY <1>13, <2>1, <1>t DEF GarbledPanic, TypeOK, IInv, Pipe, InPlace, Tally,
                           InHand, Chain, Noise
  <2>4. Handshake'
    BY <1>13, <2>2, <1>t DEF GarbledPanic, TypeOK, IInv, Handshake
  <2>5. QED
    BY <1>t, <2>3, <2>4 DEF IInv
<1>14. ASSUME NEW body \in 0 .. MaxBody, SendChallenge(body)
      PROVE  IInv'
  <2> DEFINE f == [id |-> sent + 1, enc |-> FALSE, hdr |-> 4, body |-> body,
                   pos |-> srvPos]
  <2>1. /\ sent = 0 /\ ~initialized /\ ~authSent /\ ~split
        /\ srvPos = 0 /\ cliPos = 0 /\ wire = <<>>
    <3>1. sent = 0
      BY <1>14 DEF SendChallenge
    <3>2. ~initialized /\ ~authSent /\ ~split /\ srvPos = 0 /\ cliPos = 0
      BY <3>1, <1>t DEF IInv, Handshake, TypeOK
    <3>3. wire = <<>>
      BY <3>1, <1>w DEF IInv, Tally
    <3>4. QED
      BY <3>1, <3>2, <3>3
  <2>2. /\ wire' = <<f>> /\ sent' = 1 /\ srvPos' = 0
        /\ UNCHANGED <<rpc, held, cryptVars, packets, handled, run, authSent,
                       split>>
    BY <1>14, <2>1 DEF SendChallenge, ServerSend
  <2>3. Len(wire') = 1 /\ wire'[1] = f /\ wire' # <<>>
    BY <2>2
  <2>4. Pipe'
    BY <2>1, <2>2, <2>3, <1>t DEF TypeOK, IInv, Pipe, InPlace
  <2>5. Tally'
    BY <2>1, <2>2, <2>3, <1>t DEF TypeOK, IInv, Tally, InHand
  <2>6. Handshake'
    <3>1. \A i \in 1 .. Len(wire') : wire'[i] = f
      BY <2>3
    <3>2. ~f.enc /\ f.hdr = 4
      OBVIOUS
    <3>3. handled = <<>> \/ run = "init"
      BY <2>1 DEF IInv, Handshake
    <3> HIDE DEF f
    <3>4. QED
      BY <2>1, <2>2, <3>1, <3>2, <3>3 DEF IInv, Handshake
  <2>7. Chain'
    BY <2>1, <2>2, <2>3, <1>t DEF TypeOK, IInv, Chain, Advance
  <2>8. Noise'
    BY <2>1, <2>2, <2>3, <1>t DEF TypeOK, IInv, Noise
  <2>9. QED
    BY <1>t, <2>4, <2>5, <2>6, <2>7, <2>8 DEF IInv
<1>15. ASSUME NEW hdr \in HeaderLens, NEW body \in 0 .. MaxBody, SendPacket(hdr, body)
      PROVE  IInv'
  <2> DEFINE f == [id |-> sent + 1, enc |-> TRUE, hdr |-> hdr, body |-> body,
                   pos |-> srvPos]
  <2>1. /\ sent > 0 /\ authSent /\ initialized
        /\ sent' = sent + 1 /\ srvPos' = srvPos + hdr /\ wire' = Append(wire, f)
        /\ UNCHANGED <<rpc, held, cryptVars, packets, handled, run, authSent,
                       split>>
    BY <1>15 DEF SendPacket, ServerSend, IInv, Handshake
  <2>2. f \in Frame
    BY <1>15, <1>t, ConnAssumption DEF SendPacket, ServerSend, Frame, TypeOK
  <2> HIDE DEF f
  <2>3. /\ Len(wire) \in Nat /\ Len(wire') = Len(wire) + 1 /\ wire' # <<>>
        /\ \A i \in 1 .. Len(wire) : wire'[i] = wire[i]
        /\ wire'[Len(wire) + 1] = f
    BY <2>1, <2>2, <1>t, AppendProperties, LenProperties DEF TypeOK
  <2>4. f.id = sent + 1 /\ f.enc /\ f.pos = srvPos /\ f.hdr = hdr
    BY DEF f
  <2>5. Pipe'
    BY <2>1, <2>3, <2>4, <1>t DEF TypeOK, IInv, Pipe, InPlace
  <2>6. Tally'
    <3>1. Len(wire) <= sent /\ sent \in Nat
      BY <1>t DEF IInv, Tally, TypeOK
    <3>2. ASSUME NEW i \in 1 .. Len(wire')
          PROVE  wire'[i].id = sent' - Len(wire') + i
      <4>1. CASE i \in 1 .. Len(wire)
        BY <2>1, <2>3, <3>1, <4>1 DEF IInv, Tally
      <4>2. CASE i = Len(wire) + 1
        BY <2>1, <2>3, <2>4, <3>1, <4>2
      <4>3. QED
        BY <2>3, <4>1, <4>2
    <3>3. ~split => sent = Len(handled) + Len(packets) + InHand + Len(wire)
      BY DEF IInv, Tally
    <3>4. InHand' = InHand /\ InHand \in Nat
      BY <2>1 DEF InHand
    <3>5. Len(handled) \in Nat /\ Len(packets) \in Nat
      BY <1>t, LenProperties DEF TypeOK
    <3>6. UNCHANGED <<handled, packets, split>>
      BY <2>1
    <3>7. Len(wire') <= sent'
      BY <2>1, <2>3, <3>1
    <3>8. ~split' => sent' = Len(handled') + Len(packets') + InHand' + Len(wire')
      BY <2>1, <2>3, <3>1, <3>3, <3>4, <3>5, <3>6
    <3>9. QED
      BY <3>2, <3>7, <3>8 DEF Tally
  <2>7. Handshake'
    BY <2>1, <2>3, <2>4, <1>t DEF TypeOK, IInv, Handshake
  <2>8. Chain'
    BY <2>1, <2>3, <2>4, <1>t DEF TypeOK, IInv, Chain, Advance
  <2>9. Noise'
    BY <2>1, <2>3, <2>4, <1>t DEF TypeOK, IInv, Noise
  <2>10. QED
    BY <1>t, <2>5, <2>6, <2>7, <2>8, <2>9 DEF IInv
<1>16. ASSUME NEW n \in 4 .. have, GarbledPacket(n)
      PROVE  IInv'
  <2>1. split /\ rpc # "push" /\ rpc' = "push" /\ held' = Junk
    BY <1>16 DEF GarbledPacket, IInv, Noise
  <2>2. Pipe'
    BY <1>16, <2>1, <1>t DEF GarbledPacket, TypeOK, IInv, Pipe, InPlace
  <2>3. Tally'
    BY <1>16, <2>1, <1>t DEF GarbledPacket, TypeOK, IInv, Tally, InHand
  <2>4. Handshake'
    BY <1>16, <2>1, <1>t DEF GarbledPacket, TypeOK, IInv, Handshake
  <2>5. Chain'
    BY <1>16, <2>1, <1>t DEF GarbledPacket, TypeOK, IInv, Chain, Advance
  <2>6. Noise'
    BY <1>16, <2>1, <1>t DEF GarbledPacket, TypeOK, IInv, Noise
  <2>7. QED
    BY <1>t, <2>2, <2>3, <2>4, <2>5, <2>6 DEF IInv
<1>17. CASE ParseHeader
  <2>1. ~split
    BY <1>17, <1>w, <1>t DEF ParseHeader, Decodes, IInv, Noise, TypeOK
  <2>2. /\ wire # <<>> /\ rpc = "top" /\ rpc' = "body"
        /\ cliPos' = cliPos + Advance(wire[1])
    BY <1>17, <1>w, <1>t DEF ParseHeader, Decrypted, Advance, TypeOK, Frame
  <2>3. Pipe'
    BY <1>17, <2>1, <2>2, <1>w, <1>s, <1>t DEF ParseHeader, Advance, TypeOK, IInv, Pipe, InPlace
  <2>4. Tally'
    BY <1>17, <2>1, <2>2, <1>w, <1>s, <1>t DEF ParseHeader, Advance, TypeOK, IInv, Tally, InHand
  <2>5. Handshake'
    BY <1>17, <2>1, <2>2, <1>w, <1>s, <1>t DEF ParseHeader, Advance, TypeOK, IInv, Handshake
  <2>6. Chain'
    BY <1>17, <2>1, <2>2, <1>w, <1>s, <1>t DEF ParseHeader, Advance, TypeOK, IInv, Chain, Advance
  <2>7. Noise'
    BY <1>17, <2>1, <2>2, <1>w, <1>s, <1>t DEF ParseHeader, Advance, TypeOK, IInv, Noise
  <2>8. QED
    BY <1>t, <2>3, <2>4, <2>5, <2>6, <2>7 DEF IInv
<1>18. CASE ParseSplitHeader
  <2>1. ~split /\ initialized /\ wire[1].pos = cliPos
    BY <1>18, <1>w, <1>t DEF ParseSplitHeader, Decodes, IInv, Noise, Frame, TypeOK
  <2>2. wire # <<>> /\ rpc = "top" /\ rpc' = "more" /\ cliPos' = cliPos + 4
    BY <1>18, <2>1 DEF ParseSplitHeader, Decrypted
  <2>3. Pipe'
    BY <1>18, <2>1, <2>2, <1>w, <1>s, <1>t DEF ParseSplitHeader, TypeOK, IInv, Pipe, InPlace
  <2>4. Tally'
    BY <1>18, <2>1, <2>2, <1>w, <1>s, <1>t DEF ParseSplitHeader, TypeOK, IInv, Tally, InHand
  <2>5. Handshake'
    BY <1>18, <2>1, <2>2, <1>w, <1>s, <1>t DEF ParseSplitHeader, TypeOK, IInv, Handshake
  <2>6. Chain'
    BY <1>18, <2>1, <2>2, <1>w, <1>s, <1>t DEF ParseSplitHeader, TypeOK, IInv, Chain, Advance
  <2>7. Noise'
    BY <1>18, <2>1, <2>2, <1>w, <1>s, <1>t DEF ParseSplitHeader, TypeOK, IInv, Noise
  <2>8. QED
    BY <1>t, <2>3, <2>4, <2>5, <2>6, <2>7 DEF IInv
<1>19. CASE ParseNoise
  <2>1. split
    BY <1>19, <1>w DEF ParseNoise, Decodes, IInv, Chain, Handshake
  <2>2. wire # <<>> /\ rpc = "top" /\ rpc' = "garbled" /\ authSent
    BY <1>19, <2>1 DEF ParseNoise, IInv, Handshake
  <2>3. Pipe'
    BY <1>19, <2>1, <2>2, <1>t DEF ParseNoise, TypeOK, IInv, Pipe, InPlace
  <2>4. Tally'
    BY <1>19, <2>1, <2>2, <1>t DEF ParseNoise, TypeOK, IInv, Tally, InHand
  <2>5. Handshake'
    BY <1>19, <2>1, <2>2, <1>t DEF ParseNoise, TypeOK, IInv, Handshake
  <2>6. Chain'
    BY <1>19, <2>1, <2>2, <1>t DEF ParseNoise, TypeOK, IInv, Chain, Advance
  <2>7. Noise'
    BY <1>19, <2>1, <2>2, <1>t DEF ParseNoise, TypeOK, IInv, Noise
  <2>8. QED
    BY <1>t, <2>3, <2>4, <2>5, <2>6, <2>7 DEF IInv
<1>20. CASE TakeBody
  <2>1. /\ rpc = "body" /\ rpc' = "push" /\ wire # <<>> /\ ~split
        /\ held' = wire[1].id /\ wire' = Tail(wire)
        /\ UNCHANGED <<sent, srvPos, cryptVars, packets, handled, run, authSent,
                       split>>
    BY <1>20, <1>w DEF TakeBody, IInv, Noise
  <2>2. /\ Len(wire) \in Nat /\ Len(wire) >= 1
        /\ Len(wire') = Len(wire) - 1
        /\ \A i \in 1 .. Len(wire) - 1 : wire'[i] = wire[i + 1]
    BY <2>1, <1>w, <1>t, HeadTailProperties DEF TypeOK
  <2>3. /\ InHand = 0 /\ InHand' = 1 /\ sent \in Nat
        /\ Len(handled) \in Nat /\ Len(packets) \in Nat
        /\ wire[1].id = sent - Len(wire) + 1
        /\ sent = Len(handled) + Len(packets) + Len(wire)
    <3>1. /\ InHand = 0 /\ InHand' = 1 /\ sent \in Nat
          /\ Len(handled) \in Nat /\ Len(packets) \in Nat
      BY <2>1, <1>t, LenProperties DEF InHand, TypeOK
    <3>2. QED
      BY <2>1, <2>2, <3>1 DEF IInv, Tally
  <2>4. Pipe'
    <3>1. InPlace(held', Len(handled) + Len(packets) + 1)
      BY <2>1, <2>2, <2>3 DEF IInv, Tally, InPlace
    <3>2. QED
      BY <2>1, <3>1 DEF IInv, Pipe, InPlace
  <2>5. Tally'
    <3>1. ASSUME NEW i \in 1 .. Len(wire')
          PROVE  wire'[i].id = sent' - Len(wire') + i
      <4>1. i + 1 \in 1 .. Len(wire) /\ wire'[i] = wire[i + 1]
        BY <2>2
      <4>2. wire[i + 1].id = sent - Len(wire) + (i + 1)
        BY <4>1 DEF IInv, Tally
      <4>3. QED
        BY <2>1, <2>2, <2>3, <4>1, <4>2
    <3>2. QED
      BY <2>1, <2>2, <2>3, <3>1 DEF IInv, Tally
  <2>6. Handshake'
    BY <2>1, <2>2, <2>3, <1>t DEF TypeOK, IInv, Handshake
  <2>7. Chain'
    <3>1. cliPos = wire[1].pos + Advance(wire[1])
      BY <2>1 DEF IInv, Chain
    <3>2. CASE Len(wire) = 1
      <4>1. wire' = <<>>
        BY <1>t, <2>2, <3>2, EmptySeq DEF TypeOK
      <4>2. srvPos = wire[1].pos + Advance(wire[1])
        BY <2>1, <3>2 DEF IInv, Chain
      <4>3. QED
        BY <2>1, <3>1, <4>1, <4>2 DEF Chain
    <3>3. CASE Len(wire) > 1
      <4>1. wire'[1] = wire[2] /\ wire'[Len(wire')] = wire[Len(wire)]
        BY <2>2, <3>3
      <4>2. wire'[1].pos = wire[1].pos + Advance(wire[1])
        BY <2>1, <2>2, <3>3, <4>1 DEF IInv, Chain
      <4>3. srvPos' = wire'[Len(wire')].pos + Advance(wire'[Len(wire')])
        BY <2>1, <4>1 DEF IInv, Chain
      <4>4. ASSUME NEW i \in 1 .. Len(wire') - 1
            PROVE  wire'[i + 1].pos = wire'[i].pos + Advance(wire'[i])
        <5>1. /\ wire'[i] = wire[i + 1] /\ wire'[i + 1] = wire[i + 2]
              /\ i + 1 \in 1 .. Len(wire) - 1 /\ (i + 1) + 1 = i + 2
          BY <2>2
        <5>2. wire[(i + 1) + 1].pos = wire[i + 1].pos + Advance(wire[i + 1])
          BY <2>1, <5>1 DEF IInv, Chain
        <5>3. QED
          BY <5>1, <5>2
      <4>5. wire' # <<>>
        BY <2>2, <3>3, EmptySeq
      <4>6. QED
        BY <2>1, <3>1, <4>2, <4>3, <4>4, <4>5 DEF Chain
    <3>4. QED
      BY <2>2, <3>2, <3>3
  <2>8. Noise'
    BY <2>1, <2>2, <2>3, <1>t DEF TypeOK, IInv, Noise
  <2>9. QED
    BY <1>t, <2>4, <2>5, <2>6, <2>7, <2>8 DEF IInv
<1>21. CASE Push
  <2>1. /\ rpc = "push" /\ held \in {Junk} \cup 1 .. MaxFrames
        /\ packets' = Append(packets, held)
        /\ rpc' = IF held = Junk THEN "garbled" ELSE "top"
    BY <1>21, <1>t DEF Push, TypeOK
  <2>2. /\ Len(packets) \in Nat /\ Len(packets') = Len(packets) + 1
        /\ \A i \in 1 .. Len(packets) : packets'[i] = packets[i]
        /\ packets'[Len(packets) + 1] = held
    BY <2>1, <1>t, AppendProperties, LenProperties DEF TypeOK
  <2>3. /\ held = Junk <=> split
        /\ InPlace(held, Len(handled) + Len(packets) + 1)
    BY <2>1, <1>t DEF IInv, Pipe, InPlace, Noise, Junk, TypeOK
  <2>4. /\ InHand = 1 /\ InHand' = 0 /\ rpc' # "push"
        /\ Len(handled) \in Nat /\ Len(wire) \in Nat
    BY <2>1, <1>t, LenProperties DEF InHand, TypeOK
  <2>5. Pipe'
    <3>1. UNCHANGED <<handled, sent, split>>
      BY <1>21 DEF Push
    <3>2. ASSUME NEW i \in 1 .. Len(packets')
          PROVE  InPlace(packets'[i], Len(handled) + i)
      <4>1. CASE i \in 1 .. Len(packets)
        BY <2>2, <4>1 DEF IInv, Pipe
      <4>2. CASE i = Len(packets) + 1
        <5>1. Len(handled) + i = Len(handled) + Len(packets) + 1
          BY <2>2, <2>4, <4>2
        <5>2. QED
          BY <2>2, <2>3, <4>2, <5>1
      <4>3. QED
        BY <2>2, <4>1, <4>2
    <3>3. QED
      BY <2>4, <3>1, <3>2 DEF IInv, Pipe, InPlace
  <2>6. Tally'
    <3>1. UNCHANGED <<handled, sent, split, wire>>
      BY <1>21 DEF Push
    <3>2. QED
      BY <2>2, <2>4, <3>1 DEF IInv, Tally
  <2>7. Handshake'
    BY <1>21, <2>1, <2>2, <2>3, <1>t DEF Push, TypeOK, IInv, Handshake
  <2>8. Chain'
    BY <1>21, <2>1, <2>2, <2>3, <1>t DEF Push, TypeOK, IInv, Chain, Advance
  <2>9. Noise'
    BY <1>21, <2>1, <2>2, <2>3, <1>t DEF Push, TypeOK, IInv, Noise
  <2>10. QED
    BY <1>t, <2>5, <2>6, <2>7, <2>8, <2>9 DEF IInv
<1>22. CASE Receive
  <2>1. /\ run = "select" /\ packets # <<>> /\ packets' = Tail(packets)
        /\ handled' = Append(handled, packets[1])
        /\ run' = IF packets[1] = Challenge THEN "init" ELSE "handle"
        /\ packets[1] \in {Junk} \cup 1 .. MaxFrames
    BY <1>22, <1>t, HeadTailProperties DEF Receive, TypeOK
  <2>2. /\ Len(packets) \in Nat /\ Len(packets) >= 1
        /\ Len(packets') = Len(packets) - 1
        /\ \A i \in 1 .. Len(packets) - 1 : packets'[i] = packets[i + 1]
    BY <2>1, <1>t, HeadTailProperties, EmptySeq DEF TypeOK
  <2>3. /\ Len(handled) \in Nat /\ Len(handled') = Len(handled) + 1
        /\ handled' # <<>>
        /\ \A i \in 1 .. Len(handled) : handled'[i] = handled[i]
        /\ handled'[Len(handled) + 1] = packets[1]
    BY <2>1, <1>t, AppendProperties, LenProperties DEF TypeOK
  <2>4. InPlace(packets[1], Len(handled) + 1)
    BY <2>2 DEF IInv, Pipe
  <2>5. UNCHANGED <<sent, srvPos, wire, rpc, held, cryptVars, authSent, split>>
    BY <1>22 DEF Receive
  <2>6. Pipe'
    BY <1>22, <2>1, <2>2, <2>3, <2>4, <1>t DEF Receive, TypeOK, IInv, Pipe, InPlace
  <2>7. Tally'
    <3>1. InHand' = InHand /\ InHand \in Nat /\ Len(wire) \in Nat
      BY <2>5, <1>t, LenProperties DEF InHand, TypeOK
    <3>2. QED
      BY <2>2, <2>3, <2>5, <3>1 DEF IInv, Tally
  <2>8. Handshake'
    <3>1. CASE handled = <<>>
      <4>1. Len(handled) = 0 /\ ~initialized /\ ~authSent /\ ~split
        BY <2>1, <3>1, EmptySeq DEF IInv, Handshake
      <4>2. packets[1] = Challenge
        BY <2>4, <4>1 DEF InPlace, Challenge
      <4>3. QED
        BY <2>1, <2>3, <2>5, <4>1, <4>2, <1>t DEF IInv, Handshake, TypeOK
    <3>2. CASE handled # <<>>
      <4>1. initialized
        BY <2>1, <3>2 DEF IInv, Handshake
      <4>2. packets[1] # Challenge
        BY <2>3, <2>4, <3>2, <1>t, EmptySeq
           DEF InPlace, Challenge, Junk, TypeOK
      <4>3. QED
        BY <2>1, <2>3, <2>5, <4>1, <4>2, <1>t DEF IInv, Handshake, TypeOK
    <3>3. QED
      BY <3>1, <3>2
  <2>9. Chain'
    BY <1>22, <2>1, <2>2, <2>3, <2>4, <1>t DEF Receive, TypeOK, IInv, Chain, Advance
  <2>10. Noise'
    BY <1>22, <2>1, <2>2, <2>3, <2>4, <1>t DEF Receive, TypeOK, IInv, Noise
  <2>11. QED
    BY <1>t, <2>6, <2>7, <2>8, <2>9, <2>10 DEF IInv
<1>23. CASE InitCrypt
  <2>1. /\ run = "init" /\ run' = "reply" /\ initialized'
        /\ ~initialized /\ ~authSent /\ ~split /\ cliPos = 0 /\ cliPos' = cliPos
        /\ Len(handled) = 1 /\ sent <= 1
    BY <1>23 DEF InitCrypt, IInv, Handshake
  <2>2. sent = 1 /\ wire = <<>> /\ packets = <<>> /\ rpc # "push"
    BY <2>1, <1>t, <1>w, EmptySeq, LenProperties DEF IInv, Tally, InHand, TypeOK
  <2>3. handled # <<>>
    BY <2>1, EmptySeq
  <2>4. Pipe'
    BY <1>23, <2>1, <2>2, <2>3, <1>t DEF InitCrypt, TypeOK, IInv, Pipe, InPlace
  <2>5. Tally'
    BY <1>23, <2>1, <2>2, <2>3, <1>t DEF InitCrypt, TypeOK, IInv, Tally, InHand
  <2>6. Handshake'
    BY <1>23, <2>1, <2>2, <2>3, <1>t DEF InitCrypt, TypeOK, IInv, Handshake
  <2>7. Chain'
    BY <1>23, <2>1, <2>2, <2>3, <1>t DEF InitCrypt, TypeOK, IInv, Chain, Advance
  <2>8. Noise'
    BY <1>23, <2>1, <2>2, <2>3, <1>t DEF InitCrypt, TypeOK, IInv, Noise
  <2>9. QED
    BY <1>t, <2>4, <2>5, <2>6, <2>7, <2>8 DEF IInv
<1>24. CASE HandlePanic
  <2>1. split
    <3>1. /\ handled # <<>> /\ handled[Len(handled)] = Junk
          /\ Len(handled) \in 1 .. Len(handled)
      BY <1>24, <1>t, EmptySeq, LenProperties DEF HandlePanic, TypeOK
    <3>2. InPlace(handled[Len(handled)], Len(handled))
      BY <3>1 DEF IInv, Pipe
    <3>3. QED
      BY <3>1, <3>2 DEF InPlace, Junk
  <2>2. run # "init" /\ run # "reply" /\ handled # <<>>
    BY <1>24 DEF HandlePanic
  <2>3. Pipe' /\ Tally' /\ Chain' /\ Noise'
    BY <1>24, <2>1, <1>t DEF HandlePanic, TypeOK, IInv, Pipe, InPlace, Tally,
                           InHand, Chain, Noise
  <2>4. Handshake'
    BY <1>24, <2>2, <1>t DEF HandlePanic, TypeOK, IInv, Handshake
  <2>5. QED
    BY <1>t, <2>3, <2>4 DEF IInv
<1>q. QED
  BY <1>1, <1>2, <1>3, <1>4, <1>5, <1>6, <1>7, <1>8, <1>9, <1>10, <1>11,
     <1>12, <1>13, <1>14, <1>15, <1>16, <1>17, <1>18, <1>19, <1>20, <1>21,
     <1>22, <1>23, <1>24
     DEF Next, Server, Reader, Run, Handler, Terminated
-----------------------------------------------------------------------------
(* What follows from IInv. *)

THEOREM Invariance == Spec => []IInv
  BY IInvInit, IInvStep, PTL DEF Spec

\* ExactlyOnce: no frame is lost, duplicated or reordered between the wire and
\* the handlers unless parseHeader has seen a split header.
THEOREM ExactlyOnceCorrect == Spec => []ExactlyOnce
<1>1. IInv => ExactlyOnce
  <2> SUFFICES ASSUME IInv, ~split
               PROVE  /\ \A i \in 1 .. Len(handled) : handled[i] = i
                      /\ \A i \in 1 .. Len(packets) :
                           packets[i] = Len(handled) + i
                      /\ rpc = "push" =>
                           held = Len(handled) + Len(packets) + 1
                      /\ \A i \in 1 .. Len(wire) :
                           wire[i].id = Len(handled) + Len(packets)
                                          + InHand + i
                      /\ sent = Len(handled) + Len(packets) + InHand
                                  + Len(wire)
    BY DEF ExactlyOnce
  <2>1. /\ \A i \in 1 .. Len(handled) : handled[i] = i
        /\ \A i \in 1 .. Len(packets) : packets[i] = Len(handled) + i
        /\ rpc = "push" => held = Len(handled) + Len(packets) + 1
    BY DEF IInv, Pipe, InPlace
  <2>2. sent = Len(handled) + Len(packets) + InHand + Len(wire)
    BY DEF IInv, Tally
  <2>3. /\ Len(handled) \in Nat /\ Len(packets) \in Nat
        /\ Len(wire) \in Nat /\ InHand \in Nat
    BY LenProperties DEF IInv, TypeOK, InHand
  <2>4. \A i \in 1 .. Len(wire) :
          wire[i].id = Len(handled) + Len(packets) + InHand + i
    <3> TAKE i \in 1 .. Len(wire)
    <3>1. wire[i].id = sent - Len(wire) + i
      BY DEF IInv, Tally
    <3>2. QED
      BY <3>1, <2>2, <2>3
  <2>5. QED
    BY <2>1, <2>2, <2>4
<1>2. QED
  BY Invariance, <1>1, PTL

\* NoiseOnlyAfterSplit: the order of the handshake keeps the two ciphers in
\* step, so noise has only one origin.
THEOREM NoiseOnlyAfterSplitCorrect == Spec => []NoiseOnlyAfterSplit
<1>1. IInv => NoiseOnlyAfterSplit
  BY DEF IInv, Noise, NoiseOnlyAfterSplit
<1>2. QED
  BY Invariance, <1>1, PTL

\* A server that never needs a five-byte header keeps the streams in step:
\* with HeaderLens = {4}, StreamsAgree is an invariant.
THEOREM SmallHeadersAgree ==
  ASSUME HeaderLens \subseteq {4}
  PROVE  Spec => []StreamsAgree
<1> DEFINE Small == ~split /\ \A i \in 1 .. Len(wire) : wire[i].hdr = 4
<1>1. Init => Small
  BY DEF Init
<1>2. TypeOK /\ Small /\ [Next]_vars => Small'
  <2> SUFFICES ASSUME TypeOK, Small, [Next]_vars
               PROVE  Small'
    OBVIOUS
  <2> USE DEF serverVars, byteVars, cryptVars, chanVars, runVars, signalVars,
            outside, reading
  <2>1. ASSUME NEW enc \in BOOLEAN, NEW hdr \in {4}, NEW body \in 0 .. MaxBody,
               ServerSend(enc, hdr, body)
        PROVE  Small'
    <3> DEFINE f == [id |-> sent + 1, enc |-> enc, hdr |-> hdr, body |-> body,
                     pos |-> srvPos]
    <3>1. wire' = Append(wire, f) /\ split' = split
      BY <2>1 DEF ServerSend
    <3>2. f \in Frame
      BY <2>1, ConnAssumption DEF ServerSend, Frame, TypeOK
    <3>3. f.hdr = 4
      OBVIOUS
    <3> HIDE DEF f
    <3>4. /\ Len(wire) \in Nat /\ Len(wire') = Len(wire) + 1
          /\ \A i \in 1 .. Len(wire) : wire'[i] = wire[i]
          /\ wire'[Len(wire) + 1] = f
      BY <3>1, <3>2, AppendProperties, LenProperties DEF TypeOK
    <3>5. QED
      BY <3>1, <3>3, <3>4
  <2>2. ASSUME NEW body \in 0 .. MaxBody, SendChallenge(body)
        PROVE  Small'
    BY <2>1, <2>2 DEF SendChallenge
  <2>3. ASSUME NEW hdr \in HeaderLens, NEW body \in 0 .. MaxBody,
               SendPacket(hdr, body)
        PROVE  Small'
    BY <2>1, <2>3 DEF SendPacket
  <2>4. CASE ParseSplitHeader
    <3>1. Len(wire) >= 1 /\ Head(wire) = wire[1] /\ Len(wire) \in Nat
      BY <2>4, EmptySeq DEF ParseSplitHeader, TypeOK
    <3>2. Head(wire).hdr = 4 /\ have >= 4 /\ have < Head(wire).hdr
      BY <2>4, <3>1 DEF ParseSplitHeader
    <3>3. QED
      BY <3>2 DEF TypeOK
  <2>5. CASE TakeBody
    <3>1. wire # <<>> /\ wire' = Tail(wire) /\ split' = split
      BY <2>5 DEF TakeBody
    <3>2. /\ Len(wire) \in Nat /\ Len(wire') = Len(wire) - 1
          /\ \A i \in 1 .. Len(wire') : wire'[i] = wire[i + 1]
      BY <3>1, HeadTailProperties, LenProperties DEF TypeOK
    <3>3. QED
      BY <3>1, <3>2
  <2>6. CASE UNCHANGED <<wire, split>>
    BY <2>6
  <2>7. QED
    <3>1. [Next]_vars /\ ~ParseSplitHeader /\ ~TakeBody /\ ~Server
            => UNCHANGED <<wire, split>>
      BY DEF vars, Next, Drop, Cancel, Reader, ReadSome, ReadFail, ParseHeader,
             ParseNoise, GarbledPacket, GarbledPanic, Push, CloseQueue,
             CloseDone, Run, Handler, Receive, ReceiveZero, Handle,
             HandlePanic, InitCrypt, WriteAuth, ReturnDone, ReturnCancelled, Terminated
    <3>2. QED
      BY <2>2, <2>3, <2>4, <2>5, <2>6, <3>1 DEF Server
<1>3. IInv /\ Small => StreamsAgree
  <2> SUFFICES ASSUME IInv, Small, rpc = "top", wire # <<>>
               PROVE  Head(wire).pos = cliPos
    BY DEF StreamsAgree
  <2>1. Head(wire) = wire[1]
    BY EmptySeq DEF IInv, TypeOK
  <2>2. QED
    BY <2>1 DEF IInv, Chain
<1>4. QED
  BY <1>1, <1>2, <1>3, TypeCorrect, Invariance, PTL DEF Spec

-----------------------------------------------------------------------------
(* The connection implements PacketStream. *)

THEOREM StreamStep == IInv /\ [Next]_vars => [Stream!Next]_(Stream!vars)
<1> SUFFICES ASSUME IInv, [Next]_vars
             PROVE  [Stream!Next]_(Stream!vars)
  OBVIOUS
<1> USE DEF serverVars, byteVars, cryptVars, chanVars, runVars, signalVars,
            outside, reading
<1>1. ASSUME NEW enc \in BOOLEAN, NEW hdr, NEW body, ServerSend(enc, hdr, body)
      PROVE  Stream!Send
  BY <1>1 DEF ServerSend, Stream!Send, Over
<1>2. Server => Stream!Send
  BY <1>1 DEF Server, SendChallenge, SendPacket
<1>3. ParseSplitHeader => Stream!Corrupt
  BY DEF ParseSplitHeader, Stream!Corrupt, Over
<1>4. GarbledPanic \/ HandlePanic => Stream!End
  BY DEF GarbledPanic, HandlePanic, Stream!End, Over
<1>5. ReturnDone \/ ReturnCancelled => Stream!End
  BY DEF ReturnDone, ReturnCancelled, Stream!End, Over
<1>6. ASSUME Receive
      PROVE  Stream!Deliver \/ Stream!DeliverJunk
  <2>1. /\ ~Over /\ Over' = Over
        /\ handled' = Append(handled, Head(packets))
        /\ UNCHANGED <<sent, split>>
    BY <1>6 DEF Receive, Over
  <2>2. /\ packets # <<>> /\ Head(packets) = packets[1]
        /\ 1 \in 1 .. Len(packets) /\ Len(handled) \in Nat
    BY <1>6, EmptySeq, LenProperties DEF Receive, IInv, TypeOK
  <2>3. InPlace(Head(packets), Len(handled) + 1)
    BY <2>2 DEF IInv, Pipe
  <2>4. CASE split /\ Head(packets) = Junk
    BY <2>1, <2>4 DEF Stream!DeliverJunk
  <2>5. CASE Head(packets) = Len(handled) + 1 /\ Len(handled) + 1 <= sent
    <3>1. Len(handled) < sent
      BY <2>2, <2>5 DEF IInv, TypeOK
    <3>2. QED
      BY <2>1, <2>5, <3>1 DEF Stream!Deliver
  <2>6. QED
    BY <2>3, <2>4, <2>5 DEF InPlace
<1>7. \/ Drop \/ Cancel \/ ReadFail \/ ParseHeader \/ ParseNoise \/ TakeBody
      \/ (\E n \in 1 .. unread : ReadSome(n))
      \/ (\E n \in 4 .. have : GarbledPacket(n))
      \/ Push \/ CloseQueue \/ CloseDone \/ ReceiveZero \/ Handle \/ InitCrypt
      \/ WriteAuth \/ Terminated \/ UNCHANGED vars
      => UNCHANGED Stream!vars
  BY DEF vars, Drop, Cancel, ReadSome, ReadFail, ParseHeader, ParseNoise,
         TakeBody, GarbledPacket, Push, CloseQueue, CloseDone, ReceiveZero,
         Handle, InitCrypt, WriteAuth, Terminated, Stream!vars, Over
<1>8. QED
  BY <1>2, <1>3, <1>4, <1>5, <1>6, <1>7
     DEF Next, Reader, Run, Handler, Stream!Next

\* Every behaviour of the connection is one of the abstract packet stream: the
\* frames reach the handlers one by one in the order of sending.
THEOREM StreamCorrect == Spec => ImplementsStream
<1>1. Init => Stream!Init
  BY DEF Init, Stream!Init, Over
<1>2. QED
  BY <1>1, StreamStep, Invariance, PTL DEF Spec, ImplementsStream, Stream!Spec
=============================================================================
