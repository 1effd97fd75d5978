----------------------------- MODULE SenderFifo -----------------------------
(***************************************************************************)
(* What the WoW to Discord relay promises: what each sender says reaches   *)
(* Discord in the order in which it was said, each message at most once,   *)
(* and a message disappears only while no route wants it.  Messages of     *)
(* different senders may overtake each other.                              *)
(***************************************************************************)
EXTENDS Naturals, Sequences

CONSTANT Senders

VARIABLES waiting,  \* for each sender, its messages on their way
          posted,   \* the messages posted, oldest first
          said,     \* for each sender, how many messages it has sent
          wanted    \* there is a route for them

vars == <<waiting, posted, said, wanted>>

Init ==
    /\ waiting = [g \in Senders |-> <<>>]
    /\ posted = <<>>
    /\ said = [g \in Senders |-> 0]
    /\ wanted \in BOOLEAN

Say(g) ==
    /\ said' = [said EXCEPT ![g] = @ + 1]
    /\ waiting' = [waiting EXCEPT ![g] = Append(@, said[g] + 1)]
    /\ UNCHANGED <<posted, wanted>>

Post(g) ==
    /\ wanted
    /\ waiting[g] # <<>>
    /\ posted' = Append(posted, [guid |-> g, n |-> Head(waiting[g])])
    /\ waiting' = [waiting EXCEPT ![g] = Tail(@)]
    /\ UNCHANGED <<said, wanted>>

\* A message that no route wants is dropped, wherever in the line it is.
Lose(g) ==
    /\ ~wanted
    /\ \E i \in 1 .. Len(waiting[g]) :
         waiting' = [waiting EXCEPT
                       ![g] = SubSeq(@, 1, i - 1) \o SubSeq(@, i + 1, Len(@))]
    /\ UNCHANGED <<posted, said, wanted>>

Reroute == wanted' = ~wanted /\ UNCHANGED <<waiting, posted, said>>

Next == Reroute \/ \E g \in Senders : Say(g) \/ Post(g) \/ Lose(g)

Spec == Init /\ [][Next]_vars
=============================================================================
