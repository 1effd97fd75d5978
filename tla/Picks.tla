-------------------------------- MODULE Picks -------------------------------
(***************************************************************************)
(* The members of a sequence that belong to a set, in their order: what    *)
(* SelectSeq does for the test of membership, as a recursive function.     *)
(***************************************************************************)
EXTENDS Integers, Sequences

Picked(s, T) ==
    LET pick[n \in 0 .. Len(s)] ==
          IF n = 0 THEN <<>>
          ELSE IF s[n] \in T THEN Append(pick[n - 1], s[n]) ELSE pick[n - 1]
    IN  pick[Len(s)]
=============================================================================
