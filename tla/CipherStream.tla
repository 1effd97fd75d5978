---------------------------- MODULE CipherStream ----------------------------
(***************************************************************************)
(* What Conn.Write promises its callers: however many goroutines write at  *)
(* once, the server sees whole packets one after the other, and the header *)
(* of each was encrypted at the place of the keystream where the server    *)
(* will decrypt it.                                                        *)
(***************************************************************************)
EXTENDS Integers, Sequences

CONSTANT Writers

VARIABLES stream,   \* the packets as the server receives them
          pending   \* the writers waiting for their call to return

vars == <<stream, pending>>

HeaderSize == 6   \* bytes of an encrypted client header
Plain      == -1  \* the position of a header that is not encrypted

\* The keystream position of the header that follows n packets: the first
\* packet, AUTH_SESSION, is in the clear and moves no keystream.
PosAfter(n) == IF n = 0 THEN Plain ELSE HeaderSize * (n - 1)

Init == stream = <<>> /\ pending = {}

Request(w) ==
    /\ w \notin pending
    /\ pending' = pending \cup {w}
    /\ UNCHANGED stream

Commit(w) ==
    /\ w \in pending
    /\ stream' = Append(stream, [by |-> w, pos |-> PosAfter(Len(stream))])
    /\ pending' = pending \ {w}

Fail(w) ==
    /\ w \in pending
    /\ pending' = pending \ {w}
    /\ UNCHANGED stream

Next == \E w \in Writers : Request(w) \/ Commit(w) \/ Fail(w)

Spec == Init /\ [][Next]_vars
=============================================================================
