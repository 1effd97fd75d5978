---------------------------- MODULE MessageSplit ----------------------------
(***************************************************************************)
(* splitByLength, which cuts a chat message into parts of at most          *)
(* maxLength characters, at spaces where there are any.  It counts         *)
(* characters, but strings.LastIndex, which finds the space, counts bytes. *)
(* A message is a sequence of characters, of one byte or of two (Cyrillic  *)
(* letters); one step is one round of the loop.                            *)
(***************************************************************************)
EXTENDS Integers, Sequences, FiniteSets, SequencesExt, FiniteSetsExt, Picks

CONSTANTS Narrow,  \* letters of one byte
          Wide,    \* letters of two bytes
          MaxText, \* bound: characters of the message
          MaxMax   \* bound: maxLength

Space == " "
Chars == Narrow \cup Wide \cup {Space}

ASSUME SplitAssumption ==
    /\ Narrow \cap Wide = {}
    /\ Space \notin Narrow \cup Wide
    /\ {MaxText, MaxMax} \subseteq Nat

VARIABLES
    message,   \* the argument
    maxLength, \* the argument
    tmp,       \* the rest of the message
    out,       \* the parts so far
    pc         \* "loop", "done", or "panic"

vars == <<message, maxLength, tmp, out, pc>>

Init ==
    /\ message \in BoundedSeq(Chars, MaxText)
    /\ maxLength \in 1 .. MaxMax
    /\ tmp = message
    /\ out = <<>>
    /\ pc = "loop"

Bytes(s)  == Len(s) + Cardinality({i \in 1 .. Len(s) : s[i] \in Wide})
Spaces(s) == {i \in 1 .. Len(s) : s[i] = Space}
From(s, n) == SubSeq(s, n + 1, Len(s))

Sub == SubSeq(tmp, 1, maxLength)

-----------------------------------------------------------------------------
(* Faults a maintainer could introduce. *)

\* A character is skipped after a hard cut, as a space is after a soft one.
HardCutSkips ==
    /\ pc = "loop" /\ Len(tmp) > maxLength
    /\ Spaces(Sub) = {}
    /\ out' = Append(out, Sub)
    /\ tmp' = From(tmp, maxLength + 1)
    /\ UNCHANGED <<message, maxLength, pc>>

\* Cutting at the first space, but of the whole text.
SoftCutLate ==
    /\ pc = "loop" /\ Len(tmp) > maxLength
    /\ Spaces(Sub) = {} /\ Spaces(tmp) # {}
    /\ out' = Append(out, SubSeq(tmp, 1, Min(Spaces(tmp)) - 1))
    /\ tmp' = From(tmp, Min(Spaces(tmp)))
    /\ UNCHANGED <<message, maxLength, pc>>

\* Cutting wherever the limit falls.
HardCutAlways ==
    /\ pc = "loop" /\ Len(tmp) > maxLength
    /\ out' = Append(out, Sub)
    /\ tmp' = From(tmp, maxLength)
    /\ UNCHANGED <<message, maxLength, pc>>

-----------------------------------------------------------------------------
HardCut ==
    /\ pc = "loop" /\ Len(tmp) > maxLength
    /\ Spaces(Sub) = {}
    /\ out' = Append(out, Sub)
    /\ tmp' = From(tmp, maxLength)
    /\ UNCHANGED <<message, maxLength, pc>>

\* The part ends before the last space; as many characters as it has bytes, and
\* one for the space, leave tmp, which panics if there are not so many.
SoftCut ==
    /\ pc = "loop" /\ Len(tmp) > maxLength
    /\ \E last \in Spaces(Sub) :
         LET part == SubSeq(Sub, 1, last - 1) IN
           /\ \A i \in Spaces(Sub) : i <= last
           /\ out' = Append(out, part)
           /\ IF Bytes(part) + 1 <= Len(tmp)
                THEN tmp' = From(tmp, Bytes(part) + 1) /\ UNCHANGED pc
                ELSE pc' = "panic" /\ UNCHANGED tmp
    /\ UNCHANGED <<message, maxLength>>

Finish ==
    /\ pc = "loop" /\ Len(tmp) <= maxLength
    /\ out' = IF tmp # <<>> THEN Append(out, tmp) ELSE out
    /\ tmp' = <<>>
    /\ pc' = "done"
    /\ UNCHANGED <<message, maxLength>>

Next == HardCut \/ SoftCut \/ Finish

Spec == Init /\ [][Next]_vars

-----------------------------------------------------------------------------
(* Properties. *)

Letters(s) == Picked(s, Narrow \cup Wide)

\* The parts and the rest have the letters of the message, all of them and in
\* their order; only spaces are lost.
TextKept == pc # "panic" /\ Letters(FlattenSeq(out) \o tmp) = Letters(message)

\* No part is longer than the limit.
PartsFit == \A i \in 1 .. Len(out) : Len(out[i]) <= maxLength

\* A word is divided only where the limit leaves no choice: after maxLength
\* letters in a row.
WordsWhole ==
    LET cut == Len(message) - Len(tmp) IN
      cut \in 1 .. Len(message) - 1 /\ Space \notin {message[cut], message[cut + 1]}
        => /\ cut >= maxLength
           /\ \A i \in cut - maxLength + 1 .. cut : message[i] # Space
=============================================================================
