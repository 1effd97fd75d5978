---------------------------- MODULE PacketStream ----------------------------
(***************************************************************************)
(* What a game connection promises its session, with no sockets, buffers   *)
(* or keystreams in sight: the packets the server sends are handed to the  *)
(* session one by one, in the order they were sent, none lost and none     *)
(* twice, until the session ends.  A connection whose keystream has been   *)
(* corrupted may hand over junk instead of the next packet, and nothing    *)
(* else may.                                                               *)
(***************************************************************************)
EXTENDS Naturals, Sequences

CONSTANT Junk   \* a packet the server never sent

VARIABLES sent,     \* how many packets the server has sent
          got,      \* the packets handed to the session, oldest first
          corrupt,  \* the keystream has been corrupted
          over      \* the session has ended

vars == <<sent, got, corrupt, over>>

Init ==
    /\ sent = 0
    /\ got = <<>>
    /\ corrupt = FALSE
    /\ over = FALSE

Send ==
    /\ sent' = sent + 1
    /\ UNCHANGED <<got, corrupt, over>>

Deliver ==
    /\ ~over
    /\ Len(got) < sent
    /\ got' = Append(got, Len(got) + 1)
    /\ UNCHANGED <<sent, corrupt, over>>

DeliverJunk ==
    /\ ~over
    /\ corrupt
    /\ got' = Append(got, Junk)
    /\ UNCHANGED <<sent, corrupt, over>>

Corrupt ==
    /\ corrupt' = TRUE
    /\ UNCHANGED <<sent, got, over>>

End ==
    /\ over' = TRUE
    /\ UNCHANGED <<sent, got, corrupt>>

Next == Send \/ Deliver \/ DeliverJunk \/ Corrupt \/ End

Spec == Init /\ [][Next]_vars
=============================================================================
