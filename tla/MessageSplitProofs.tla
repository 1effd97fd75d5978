------------------------- MODULE MessageSplitProofs -------------------------
(***************************************************************************)
(* Theorems about MessageSplit, for messages and limits of any size: no    *)
(* part exceeds the limit, whatever the width of the letters; the text is  *)
(* kept and the words stay whole when every character has one byte.        *)
(***************************************************************************)
EXTENDS MessageSplit, SequenceFacts, FiniteSetTheorems

\* The inductive invariant.
IInv ==
    /\ maxLength \in Nat \ {0}
    /\ tmp \in Seq(Chars)
    /\ out \in Seq(Seq(Chars))
    /\ PartsFit

\* A part of a sequence of characters is one.
LEMMA SubSeqOfChars ==
    ASSUME NEW s \in Seq(Chars), NEW m \in 1 .. Len(s) + 1, NEW n \in 0 .. Len(s)
    PROVE  /\ SubSeq(s, m, n) \in Seq(Chars)
           /\ Len(SubSeq(s, m, n)) = IF m <= n THEN n - m + 1 ELSE 0
BY SubSeqProperties

\* A part within the limit keeps the parts within the limit.
LEMMA PartAdded ==
    ASSUME IInv, NEW part \in Seq(Chars), Len(part) <= maxLength,
           out' = Append(out, part), maxLength' = maxLength
    PROVE  out' \in Seq(Seq(Chars)) /\ PartsFit'
<1>1. /\ out' \in Seq(Seq(Chars)) /\ Len(out') = Len(out) + 1
      /\ \A i \in 1 .. Len(out) : out'[i] = out[i]
      /\ out'[Len(out) + 1] = part
  BY AppendProperties DEF IInv
<1>2. Len(out) \in Nat
  BY LenProperties DEF IInv
<1> QED
  BY <1>1, <1>2 DEF IInv, PartsFit

\* The invariant holds initially.
LEMMA IInvInit == Init => IInv
<1> SUFFICES ASSUME Init PROVE IInv
  OBVIOUS
<1>1. tmp \in Seq(Chars)
  <2>1. PICK n \in 0 .. MaxText : tmp \in [1 .. n -> Chars]
    BY DEF Init, BoundedSeq, SeqOf
  <2>2. MaxText \in Nat
    BY SplitAssumption
  <2>3. n \in Nat
    BY <2>1, <2>2
  <2> QED
    BY <2>1, <2>3, SeqDef
<1>2. maxLength \in Nat \ {0}
  BY SplitAssumption DEF Init
<1>3. out \in Seq(Seq(Chars)) /\ PartsFit
  BY DEF Init, PartsFit
<1> QED
  BY <1>1, <1>2, <1>3 DEF IInv

\* Every round of the loop preserves the invariant.
LEMMA IInvStep == IInv /\ [Next]_vars => IInv'
<1> SUFFICES ASSUME IInv, [Next]_vars PROVE IInv'
  OBVIOUS
<1>1. Len(tmp) \in Nat /\ Len(out) \in Nat
  BY LenProperties DEF IInv
<1>2. ASSUME Len(tmp) > maxLength
      PROVE  Sub \in Seq(Chars) /\ Len(Sub) = maxLength
  BY <1>1, <1>2, SubSeqOfChars DEF IInv, Sub
<1>3. CASE HardCut
  <2>1. tmp' \in Seq(Chars)
    BY <1>1, <1>3, SubSeqOfChars DEF HardCut, From, IInv
  <2>2. out' \in Seq(Seq(Chars)) /\ PartsFit'
    BY <1>2, <1>3, PartAdded DEF HardCut, IInv
  <2> QED
    BY <1>3, <2>1, <2>2 DEF HardCut, IInv
<1>4. CASE SoftCut
  <2>1. PICK last \in Spaces(Sub) :
          /\ out' = Append(out, SubSeq(Sub, 1, last - 1))
          /\ LET n == Bytes(SubSeq(Sub, 1, last - 1)) + 1 IN
               tmp' = IF n <= Len(tmp) THEN From(tmp, n) ELSE tmp
    BY <1>4 DEF SoftCut
  <2> DEFINE part == SubSeq(Sub, 1, last - 1)
  <2>2. last \in 1 .. maxLength
    BY <1>2, <1>4, <2>1 DEF SoftCut, Spaces
  <2>3. part \in Seq(Chars) /\ Len(part) \in Nat /\ Len(part) <= maxLength
    BY <1>2, <1>4, <2>2, SubSeqOfChars DEF SoftCut, IInv
  <2>4. out' \in Seq(Seq(Chars)) /\ PartsFit'
    BY <1>4, <2>1, <2>3, PartAdded DEF SoftCut
  <2>5. Bytes(part) \in Nat
    <3>1. IsFiniteSet(1 .. Len(part))
      BY <2>3, FS_Interval
    <3>2. Cardinality({i \in 1 .. Len(part) : part[i] \in Wide}) \in Nat
      BY <3>1, FS_Subset, FS_CardinalityType
    <3>3. Bytes(part) = Len(part) + Cardinality({i \in 1 .. Len(part) : part[i] \in Wide})
      BY DEF Bytes
    <3> HIDE DEF part
    <3> QED
      BY <2>3, <3>2, <3>3
  <2>6. tmp' \in Seq(Chars)
    BY <1>1, <2>1, <2>5, SubSeqOfChars DEF From, IInv
  <2> QED
    BY <1>4, <2>4, <2>6 DEF SoftCut, IInv
<1>5. CASE Finish
  <2>1. tmp' \in Seq(Chars)
    BY <1>5 DEF Finish
  <2>2. out' \in Seq(Seq(Chars)) /\ PartsFit'
    <3>1. CASE tmp # <<>>
      BY <1>1, <1>5, <3>1, PartAdded DEF Finish, IInv
    <3>2. CASE tmp = <<>>
      BY <1>5, <3>2 DEF Finish, IInv, PartsFit
    <3> QED
      BY <3>1, <3>2
  <2> QED
    BY <1>5, <2>1, <2>2 DEF Finish, IInv
<1>6. CASE UNCHANGED vars
  BY <1>6 DEF vars, IInv, PartsFit
<1> QED
  BY <1>3, <1>4, <1>5, <1>6 DEF Next

-----------------------------------------------------------------------------
(* Parts one after the other. *)

\* The function of FlattenSeq.
Flat(s) == CHOOSE f : f = [i \in 1 .. Len(s) |-> IF i = 1 THEN s[i] ELSE f[i - 1] \o s[i]]

\* It exists, and its values are sequences.
LEMMA FlatExists ==
    ASSUME NEW S, NEW s \in Seq(Seq(S))
    PROVE  \A i \in 1 .. Len(s) :
             /\ Flat(s)[i] \in Seq(S)
             /\ Flat(s)[i] = IF i = 1 THEN s[i] ELSE Flat(s)[i - 1] \o s[i]
<1> DEFINE Add(q, n) == IF n + 1 \in 1 .. Len(s) THEN q \o s[n + 1] ELSE q
           step == [p \in Seq(S) \X Nat |-> Add(p[1], p[2])]
<1>1. Len(s) \in Nat /\ \A i \in 1 .. Len(s) : s[i] \in Seq(S)
  BY LenProperties, ElementOfSeq
<1>2. step \in [Seq(S) \X Nat -> Seq(S)]
  <2>1. ASSUME NEW q \in Seq(S), NEW n \in Nat PROVE Add(q, n) \in Seq(S)
    BY <1>1, ConcatProperties
  <2> HIDE DEF Add
  <2> QED
    BY <2>1
<1>3. PICK f \in [Nat -> Seq(S)] : Recurs(f, <<>>, step)
  <2>1. <<>> \in Seq(S)
    BY EmptySeq
  <2> HIDE DEF step
  <2> QED
    BY <1>2, <2>1, PrimitiveRecursion, Zenon
<1>4. f[0] = <<>> /\ \A n \in Nat : f[n + 1] = Add(f[n], n)
  <2> HIDE DEF Add
  <2> QED
    BY <1>3 DEF Recurs
<1> DEFINE g == [i \in 1 .. Len(s) |-> f[i]]
           Eq(h) == h = [i \in 1 .. Len(s) |-> IF i = 1 THEN s[i] ELSE h[i - 1] \o s[i]]
<1>5. Eq(g)
  <2>1. ASSUME NEW i \in 1 .. Len(s)
        PROVE  f[i] = IF i = 1 THEN s[i] ELSE g[i - 1] \o s[i]
    <3>1. i - 1 \in Nat /\ (i - 1) + 1 = i
      BY <1>1
    <3>2. f[i] = f[i - 1] \o s[i]
      BY <1>4, <3>1
    <3>3. CASE i = 1
      <4>1. f[i - 1] = <<>>
        BY <1>4, <3>3
      <4>2. <<>> \o s[i] = s[i]
        BY <1>1, ConcatEmptySeq
      <4> QED
        BY <3>2, <3>3, <4>1, <4>2
    <3>4. CASE i # 1
      <4>1. i - 1 \in 1 .. Len(s)
        BY <1>1, <3>4
      <4>2. g[i - 1] = f[i - 1]
        BY <4>1
      <4> QED
        BY <3>2, <3>4, <4>2
    <3> QED
      BY <3>3, <3>4
  <2> QED
    BY <2>1
<1>6. Eq(Flat(s))
  <2>1. Flat(s) = CHOOSE h : Eq(h)
    BY Zenon DEF Flat
  <2> HIDE DEF Eq, g
  <2> QED
    BY <1>5, <2>1, Zenon
<1>7. \A i \in 1 .. Len(s) :
        Flat(s)[i] = IF i = 1 THEN s[i] ELSE Flat(s)[i - 1] \o s[i]
  BY <1>6, Zenon
<1> DEFINE V == {n \in Nat : n + 1 <= Len(s) => Flat(s)[n + 1] \in Seq(S)}
<1>8. Nat \subseteq V
  <2>1. 0 \in V
    <3>1. 0 + 1 = 1
      OBVIOUS
    <3>2. 1 <= Len(s) => 1 \in 1 .. Len(s) /\ Flat(s)[1] = s[1]
      BY <1>1, <1>7
    <3> QED
      BY <1>1, <3>1, <3>2
  <2>2. ASSUME NEW n \in Nat, n \in V PROVE n + 1 \in V
    <3> SUFFICES ASSUME n + 2 <= Len(s) PROVE Flat(s)[n + 2] \in Seq(S)
      OBVIOUS
    <3>1. n + 2 \in 1 .. Len(s) /\ (n + 2) - 1 = n + 1 /\ n + 2 # 1
      BY <1>1
    <3>2. Flat(s)[n + 1] \in Seq(S)
      BY <1>1, <2>2
    <3>3. Flat(s)[n + 2] = Flat(s)[n + 1] \o s[n + 2]
      BY <1>7, <3>1
    <3> QED
      BY <1>1, <3>1, <3>2, <3>3, ConcatProperties
  <2> HIDE DEF V
  <2> QED
    BY <2>1, <2>2, Induction
<1>9. ASSUME NEW i \in 1 .. Len(s) PROVE Flat(s)[i] \in Seq(S)
  <2>1. i - 1 \in Nat /\ (i - 1) + 1 = i /\ i <= Len(s)
    BY <1>1
  <2>2. i - 1 \in V
    BY <1>8, <2>1
  <2> QED
    BY <2>1, <2>2
<1> QED
  BY <1>7, <1>9

\* The equations of FlattenSeq: nothing gives nothing, and one sequence more
\* follows the others.
LEMMA FlattenType ==
    ASSUME NEW S, NEW s \in Seq(Seq(S))
    PROVE  /\ FlattenSeq(s) \in Seq(S)
           /\ Len(s) = 0 => FlattenSeq(s) = <<>>
           /\ Len(s) # 0 => FlattenSeq(s) = Flat(s)[Len(s)]
<1>1. FlattenSeq(s) = IF Len(s) = 0 THEN s ELSE Flat(s)[Len(s)]
  BY Zenon DEF FlattenSeq, Flat
<1>2. Len(s) \in Nat
  BY LenProperties
<1>3. Len(s) = 0 => s = <<>>
  BY EmptySeq
<1>4. Len(s) # 0 => Flat(s)[Len(s)] \in Seq(S)
  BY <1>2, FlatExists
<1> QED
  BY <1>1, <1>3, <1>4, EmptySeq

LEMMA FlattenAppend ==
    ASSUME NEW S, NEW s \in Seq(Seq(S)), NEW e \in Seq(S)
    PROVE  FlattenSeq(Append(s, e)) = FlattenSeq(s) \o e
<1> DEFINE t == Append(s, e)
<1>1. /\ t \in Seq(Seq(S)) /\ Len(t) = Len(s) + 1 /\ Len(s) \in Nat
      /\ \A n \in 1 .. Len(s) : t[n] = s[n]
      /\ t[Len(s) + 1] = e
  BY AppendProperties, LenProperties
<1> HIDE DEF t
<1> DEFINE V == {n \in Nat : n + 1 <= Len(s) => Flat(t)[n + 1] = Flat(s)[n + 1]}
<1>2. 0 \in V
  <2> SUFFICES ASSUME 1 <= Len(s) PROVE Flat(t)[1] = Flat(s)[1]
    OBVIOUS
  <2>1. 1 \in 1 .. Len(s) /\ 1 \in 1 .. Len(t)
    BY <1>1
  <2>2. Flat(t)[1] = t[1] /\ Flat(s)[1] = s[1]
    BY <1>1, <2>1, FlatExists
  <2> QED
    BY <1>1, <2>1, <2>2
<1>3. ASSUME NEW n \in Nat, n \in V PROVE n + 1 \in V
  <2> SUFFICES ASSUME n + 2 <= Len(s) PROVE Flat(t)[n + 2] = Flat(s)[n + 2]
    OBVIOUS
  <2>1. /\ n + 2 \in 1 .. Len(s) /\ n + 2 \in 1 .. Len(t)
        /\ (n + 2) - 1 = n + 1 /\ n + 2 # 1
        /\ Flat(t)[n + 1] = Flat(s)[n + 1]
    BY <1>1, <1>3
  <2>2. Flat(s)[n + 2] = Flat(s)[n + 1] \o s[n + 2]
    BY <2>1, FlatExists
  <2>3. Flat(t)[n + 2] = Flat(t)[n + 1] \o t[n + 2]
    BY <1>1, <2>1, FlatExists
  <2> QED
    BY <1>1, <2>1, <2>2, <2>3
<1>4. Nat \subseteq V
  <2> HIDE DEF V
  <2> QED
    BY <1>2, <1>3, Induction
<1>5. Len(t) \in 1 .. Len(t) /\ Len(t) - 1 = Len(s) /\ Len(t) # 0
  BY <1>1
<1>6. Flat(t)[Len(t)] = IF Len(t) = 1 THEN e ELSE Flat(t)[Len(s)] \o e
  BY <1>1, <1>5, FlatExists
<1>7. FlattenSeq(t) = Flat(t)[Len(t)]
  BY <1>1, <1>5, FlattenType
<1>8. CASE Len(s) = 0
  <2>1. FlattenSeq(s) = <<>> /\ <<>> \o e = e
    BY <1>8, FlattenType, ConcatEmptySeq
  <2>2. FlattenSeq(t) = e
    BY <1>1, <1>6, <1>7, <1>8
  <2> QED
    BY <2>1, <2>2 DEF t
<1>9. CASE Len(s) # 0
  <2>1. Len(s) - 1 \in Nat /\ (Len(s) - 1) + 1 = Len(s)
    BY <1>1, <1>9
  <2>2. Flat(t)[Len(s)] = Flat(s)[Len(s)]
    <3>1. Len(s) - 1 \in V
      BY <1>4, <2>1
    <3> QED
      BY <1>1, <2>1, <3>1
  <2>3. FlattenSeq(s) = Flat(s)[Len(s)]
    BY <1>9, FlattenType
  <2> QED
    BY <1>1, <1>6, <1>7, <1>9, <2>2, <2>3 DEF t
<1> QED
  BY <1>8, <1>9

-----------------------------------------------------------------------------
\* No part that splitByLength makes is longer than its limit, whatever the width
\* of the characters.
THEOREM PartsFitCorrect == Spec => []PartsFit
<1>1. IInv => PartsFit
  BY DEF IInv
<1> QED
  BY IInvInit, IInvStep, <1>1, PTL DEF Spec
-----------------------------------------------------------------------------
(* Messages of narrow letters lose nothing but spaces. *)

\* The message has no wide letter.
Plain == message \in Seq(Narrow \cup {Space})

\* What holds of such a message: the loop takes from its front, and has not
\* panicked.
PlainInv ==
    /\ pc # "panic"
    /\ Len(tmp) <= Len(message)
    /\ \A i \in 1 .. Len(tmp) : tmp[i] = message[Len(message) - Len(tmp) + i]
    /\ TextKept
    /\ WordsWhole

\* The function Letters of a sequence made of two.
LEMMA LettersConcat ==
    ASSUME NEW s \in Seq(Chars), NEW t \in Seq(Chars)
    PROVE  /\ s \o t \in Seq(Chars) /\ Letters(s) \in Seq(Chars)
           /\ Letters(s \o t) = Letters(s) \o Letters(t)
<1>1. s \o t \in Seq(Chars)
  BY ConcatProperties
<1>2. Letters(s) \in Seq(Chars)
  BY PickedType DEF Letters
<1>3. Letters(s \o t) = Letters(s) \o Letters(t)
  BY PickedConcat DEF Letters
<1> QED
  BY <1>1, <1>2, <1>3

\* A space has no letters.
LEMMA LettersOfSpace == <<Space>> \in Seq(Chars) /\ Letters(<<Space>>) = <<>>
<1>1. /\ <<>> \in Seq(Chars) /\ Space \in Chars
      /\ Space \notin Narrow \cup Wide /\ <<Space>> = Append(<<>>, Space)
  BY EmptySeq, SplitAssumption DEF Chars
<1>2. Picked(<<Space>>, Narrow \cup Wide) = Picked(<<>>, Narrow \cup Wide)
  BY <1>1, PickedAppend
<1>3. Picked(<<>>, Narrow \cup Wide) = <<>>
  <2>1. Len(<<>>) = 0
    OBVIOUS
  <2> QED
    BY <1>1, <2>1, PickedEmpty
<1> QED
  BY <1>1, <1>2, <1>3, AppendProperties DEF Letters

\* Concatenation is associative.
LEMMA ConcatOfThree ==
    \A a, b, c \in Seq(Chars) : (a \o b) \o c = a \o (b \o c)
BY ConcatAssociative

\* One part more, and the text is what it was, or lacks a space.
LEMMA TextMoved ==
    ASSUME IInv, TextKept, NEW part \in Seq(Chars), NEW rest \in Seq(Chars),
           tmp = part \o rest \/ tmp = part \o (<<Space>> \o rest),
           out' = Append(out, part), tmp' = rest, message' = message, pc' # "panic"
    PROVE  TextKept'
<1>1. FlattenSeq(out) \in Seq(Chars) /\ FlattenSeq(out') = FlattenSeq(out) \o part
  BY FlattenType, FlattenAppend DEF IInv
<1>2. Letters(FlattenSeq(out') \o rest)
        = (Letters(FlattenSeq(out)) \o Letters(part)) \o Letters(rest)
  <2>1. FlattenSeq(out) \o part \in Seq(Chars)
    BY <1>1, LettersConcat
  <2>2. Letters((FlattenSeq(out) \o part) \o rest)
          = Letters(FlattenSeq(out) \o part) \o Letters(rest)
    BY <2>1, LettersConcat
  <2>3. Letters(FlattenSeq(out) \o part) = Letters(FlattenSeq(out)) \o Letters(part)
    BY <1>1, LettersConcat
  <2> QED
    BY <1>1, <2>2, <2>3
<1>3. Letters(FlattenSeq(out) \o tmp) = Letters(FlattenSeq(out)) \o Letters(tmp)
  BY <1>1, LettersConcat DEF IInv
<1>4. Letters(tmp) = Letters(part) \o Letters(rest)
  <2>1. CASE tmp = part \o rest
    BY <2>1, LettersConcat
  <2>2. CASE tmp = part \o (<<Space>> \o rest)
    <3>1. /\ <<Space>> \o rest \in Seq(Chars)
          /\ Letters(<<Space>> \o rest) = <<>> \o Letters(rest)
      BY LettersConcat, LettersOfSpace
    <3>2. <<>> \o Letters(rest) = Letters(rest)
      BY LettersConcat, ConcatEmptySeq
    <3>3. Letters(part \o (<<Space>> \o rest)) = Letters(part) \o Letters(<<Space>> \o rest)
      BY <3>1, LettersConcat
    <3> QED
      BY <2>2, <3>1, <3>2, <3>3
  <2> QED
    BY <2>1, <2>2
<1>5. (Letters(FlattenSeq(out)) \o Letters(part)) \o Letters(rest)
        = Letters(FlattenSeq(out)) \o (Letters(part) \o Letters(rest))
  <2>1. Letters(FlattenSeq(out)) \in Seq(Chars)
    BY <1>1, LettersConcat
  <2>2. Letters(part) \in Seq(Chars) /\ Letters(rest) \in Seq(Chars)
    BY LettersConcat
  <2> QED
    BY <2>1, <2>2, ConcatOfThree, Zenon
<1> QED
  BY <1>2, <1>3, <1>4, <1>5 DEF TextKept

\* A sequence is its front and its rest.
LEMMA Divided ==
    ASSUME NEW s \in Seq(Chars), NEW n \in 0 .. Len(s)
    PROVE  /\ SubSeq(s, 1, n) \in Seq(Chars) /\ Len(SubSeq(s, 1, n)) = n
           /\ From(s, n) \in Seq(Chars) /\ Len(From(s, n)) = Len(s) - n
           /\ \A i \in 1 .. n : SubSeq(s, 1, n)[i] = s[i]
           /\ \A i \in 1 .. Len(s) - n : From(s, n)[i] = s[n + i]
           /\ s = SubSeq(s, 1, n) \o From(s, n)
<1>1. Len(s) \in Nat
  BY LenProperties
<1> DEFINE p == SubSeq(s, 1, n)
           q == SubSeq(s, n + 1, Len(s))
<1>2. p \in Seq(Chars) /\ Len(p) = n /\ \A i \in 1 .. n : p[i] = s[i]
  BY <1>1, SubSeqProperties
<1>3. /\ q \in Seq(Chars) /\ Len(q) = Len(s) - n
      /\ \A i \in 1 .. Len(s) - n : q[i] = s[n + i]
  BY <1>1, SubSeqProperties
<1> HIDE DEF p, q
<1>4. s = p \o q
  <2>1. /\ p \o q \in Seq(Chars) /\ Len(p \o q) = Len(s)
        /\ \A i \in 1 .. Len(s) : (p \o q)[i] = IF i <= n THEN p[i] ELSE q[i - n]
    BY <1>1, <1>2, <1>3, ConcatProperties
  <2>2. ASSUME NEW i \in 1 .. Len(s) PROVE (p \o q)[i] = s[i]
    <3>1. CASE i <= n
      BY <1>1, <1>2, <2>1, <3>1
    <3>2. CASE ~ (i <= n)
      <4>1. i - n \in 1 .. Len(s) - n /\ n + (i - n) = i
        BY <1>1, <3>2
      <4> QED
        BY <1>3, <2>1, <3>2, <4>1
    <3> QED
      BY <3>1, <3>2
  <2> QED
    BY <2>1, <2>2, SeqEqual
<1> QED
  BY <1>2, <1>3, <1>4 DEF p, q, From

\* A narrow text has as many bytes as characters.
LEMMA NarrowBytes ==
    ASSUME NEW s \in Seq(Narrow \cup {Space})
    PROVE  Bytes(s) = Len(s)
<1>1. \A i \in 1 .. Len(s) : s[i] \notin Wide
  <2>1. \A i \in 1 .. Len(s) : s[i] \in Narrow \cup {Space}
    BY ElementOfSeq
  <2> QED
    BY <2>1, SplitAssumption
<1>2. {i \in 1 .. Len(s) : s[i] \in Wide} = {}
  BY <1>1
<1>3. Cardinality({}) = 0 /\ Len(s) \in Nat
  BY FS_EmptySet, LenProperties
<1>4. Bytes(s) = Len(s) + Cardinality({})
  BY <1>2, Zenon DEF Bytes
<1> QED
  BY <1>3, <1>4

\* A plain message has a plain rest.
LEMMA PlainRest ==
    ASSUME IInv, PlainInv, Plain
    PROVE  \A i \in 1 .. Len(tmp) : tmp[i] \in Narrow \cup {Space}
<1>1. Len(tmp) \in Nat /\ Len(message) \in Nat
  BY LenProperties DEF IInv, Plain
<1>2. \A i \in 1 .. Len(message) : message[i] \in Narrow \cup {Space}
  BY ElementOfSeq DEF Plain
<1> SUFFICES ASSUME NEW i \in 1 .. Len(tmp) PROVE tmp[i] \in Narrow \cup {Space}
  OBVIOUS
<1>3. Len(message) - Len(tmp) + i \in 1 .. Len(message)
  BY <1>1 DEF PlainInv
<1> QED
  BY <1>2, <1>3 DEF PlainInv

\* The rest after n characters is the end of the message.
LEMMA RestMoved ==
    ASSUME IInv, PlainInv, message \in Seq(Chars), NEW n \in 0 .. Len(tmp),
           tmp' = From(tmp, n), message' = message
    PROVE  /\ Len(tmp') = Len(tmp) - n /\ Len(tmp') <= Len(message')
           /\ \A i \in 1 .. Len(tmp') : tmp'[i] = message'[Len(message') - Len(tmp') + i]
           /\ \A i \in 1 .. n : tmp[i] = message[Len(message) - Len(tmp) + i]
<1>1. Len(tmp) \in Nat /\ Len(message) \in Nat
  BY LenProperties DEF IInv
<1>2. /\ Len(tmp') = Len(tmp) - n
      /\ \A i \in 1 .. Len(tmp) - n : tmp'[i] = tmp[n + i]
  BY Divided DEF IInv
<1>3. ASSUME NEW i \in 1 .. Len(tmp')
      PROVE  tmp'[i] = message'[Len(message') - Len(tmp') + i]
  <2>1. n + i \in 1 .. Len(tmp) /\ i \in 1 .. Len(tmp) - n
    BY <1>1, <1>2
  <2>2. tmp[n + i] = message[Len(message) - Len(tmp) + (n + i)]
    BY <2>1 DEF PlainInv
  <2>3. Len(message) - Len(tmp) + (n + i) = Len(message') - Len(tmp') + i
    BY <1>1, <1>2
  <2> QED
    BY <1>2, <2>1, <2>2, <2>3
<1> QED
  BY <1>1, <1>2, <1>3 DEF PlainInv

\* Initially the rest is the message.
LEMMA PlainInit == Init => PlainInv
<1> SUFFICES ASSUME Init PROVE PlainInv
  OBVIOUS
<1>1. tmp \in Seq(Chars) /\ tmp = message /\ out = <<>>
  BY IInvInit DEF Init, IInv
<1>2. Len(tmp) \in Nat
  BY <1>1, LenProperties
<1>3. FlattenSeq(out) \o tmp = message
  <2>1. <<>> \in Seq(Seq(Chars)) /\ Len(<<>>) = 0
    BY EmptySeq
  <2>2. FlattenSeq(<<>>) = <<>>
    BY <2>1, FlattenType
  <2> QED
    BY <1>1, <2>2, ConcatEmptySeq
<1>4. WordsWhole
  BY <1>1, <1>2 DEF WordsWhole
<1>5. TextKept
  BY <1>1, <1>3 DEF TextKept, Init
<1>6. \A i \in 1 .. Len(tmp) : tmp[i] = message[Len(message) - Len(tmp) + i]
  BY <1>1, <1>2
<1> QED
  BY <1>1, <1>2, <1>4, <1>5, <1>6 DEF PlainInv, Init

\* Every round of the loop preserves it.
LEMMA PlainStep == IInv /\ PlainInv /\ Plain /\ [Next]_vars => PlainInv'
<1> SUFFICES ASSUME IInv, PlainInv, Plain, [Next]_vars PROVE PlainInv'
  OBVIOUS
<1>1. Len(tmp) \in Nat /\ Len(message) \in Nat /\ maxLength \in Nat \ {0}
  BY LenProperties DEF IInv, Plain
<1>2. message \in Seq(Chars) /\ tmp \in Seq(Chars)
  <2>1. Narrow \cup {Space} \subseteq Chars
    BY DEF Chars
  <2> QED
    BY <2>1, SeqMonotonic DEF Plain, IInv
<1>3. CASE HardCut
  <2>1. maxLength \in 0 .. Len(tmp) /\ Len(tmp) > maxLength
    BY <1>1, <1>3 DEF HardCut
  <2>2. /\ tmp = Sub \o tmp' /\ Sub \in Seq(Chars) /\ tmp' \in Seq(Chars)
        /\ Len(Sub) = maxLength /\ \A i \in 1 .. maxLength : Sub[i] = tmp[i]
    BY <1>2, <1>3, <2>1, Divided DEF HardCut, Sub
  <2>3. TextKept'
    BY <1>3, <2>2, TextMoved DEF HardCut, PlainInv
  <2>4. /\ Len(tmp') = Len(tmp) - maxLength /\ Len(tmp') <= Len(message')
        /\ \A i \in 1 .. Len(tmp') : tmp'[i] = message'[Len(message') - Len(tmp') + i]
        /\ \A i \in 1 .. maxLength : tmp[i] = message[Len(message) - Len(tmp) + i]
    BY <1>2, <1>3, <2>1, RestMoved DEF HardCut
  <2>5. WordsWhole'
    <3>1. \A i \in 1 .. maxLength : Sub[i] # Space
      BY <1>3, <2>2 DEF HardCut, Spaces
    <3> DEFINE cut == Len(message) - Len(tmp')
    <3>2. cut = Len(message) - Len(tmp) + maxLength /\ cut >= maxLength
      BY <1>1, <2>4 DEF PlainInv
    <3>3. ASSUME NEW i \in cut - maxLength + 1 .. cut PROVE message[i] # Space
      <4>1. i - (Len(message) - Len(tmp)) \in 1 .. maxLength
        BY <1>1, <3>2
      <4>2. Len(message) - Len(tmp) + (i - (Len(message) - Len(tmp))) = i
        BY <1>1, <3>2
      <4> QED
        BY <2>2, <2>4, <3>1, <4>1, <4>2
    <3> QED
      BY <1>3, <3>2, <3>3 DEF WordsWhole, HardCut
  <2> QED
    BY <1>3, <2>3, <2>4, <2>5 DEF HardCut, PlainInv
<1>4. CASE SoftCut
  <2>1. PICK last \in Spaces(Sub) :
          LET part == SubSeq(Sub, 1, last - 1) IN
            /\ \A i \in Spaces(Sub) : i <= last
            /\ out' = Append(out, part)
            /\ IF Bytes(part) + 1 <= Len(tmp)
                 THEN tmp' = From(tmp, Bytes(part) + 1) /\ UNCHANGED pc
                 ELSE pc' = "panic" /\ UNCHANGED tmp
    BY <1>4 DEF SoftCut
  <2> DEFINE part == SubSeq(Sub, 1, last - 1)
  <2>2. /\ maxLength \in 0 .. Len(tmp) /\ Len(tmp) > maxLength
        /\ Sub \in Seq(Chars) /\ Len(Sub) = maxLength
        /\ \A i \in 1 .. maxLength : Sub[i] = tmp[i]
    BY <1>1, <1>2, <1>4, Divided DEF SoftCut, Sub
  <2>3. last \in 1 .. maxLength /\ Sub[last] = Space /\ tmp[last] = Space
    BY <2>2 DEF Spaces
  <2>4. last - 1 \in 0 .. Len(Sub) /\ last \in 0 .. Len(tmp) /\ last - 1 \in 0 .. Len(tmp)
    BY <1>1, <2>2, <2>3
  <2>5. /\ part \in Seq(Chars) /\ Len(part) = last - 1
        /\ \A i \in 1 .. last - 1 : part[i] = Sub[i]
    BY <2>2, <2>4, Divided
  <2>6. \A i \in 1 .. last - 1 : part[i] = tmp[i]
    BY <1>1, <2>2, <2>3, <2>5
  <2> HIDE DEF part
  <2>7. Bytes(part) = last - 1
    <3>1. \A i \in 1 .. Len(part) : part[i] \in Narrow \cup {Space}
      BY <1>1, <2>2, <2>3, <2>5, <2>6, PlainRest
    <3>2. part \in Seq(Narrow \cup {Space})
      BY <2>5, <3>1, LenProperties, IsASeq
    <3> QED
      BY <2>5, <3>2, NarrowBytes
  <2>8. tmp' = From(tmp, last) /\ pc' = pc /\ out' = Append(out, part)
    <3>1. (last - 1) + 1 = last /\ last <= Len(tmp)
      BY <1>1, <2>3, <2>4
    <3> QED
      BY <2>1, <2>7, <3>1 DEF part
  <2>9. /\ Len(tmp') = Len(tmp) - last /\ Len(tmp') <= Len(message')
        /\ \A i \in 1 .. Len(tmp') : tmp'[i] = message'[Len(message') - Len(tmp') + i]
        /\ \A i \in 1 .. last : tmp[i] = message[Len(message) - Len(tmp) + i]
    BY <1>2, <1>4, <2>4, <2>8, RestMoved DEF SoftCut
  <2>10. tmp = part \o (<<Space>> \o tmp') /\ tmp' \in Seq(Chars)
    <3> DEFINE front == SubSeq(tmp, 1, last)
    <3>1. /\ front \in Seq(Chars) /\ Len(front) = last /\ tmp' \in Seq(Chars)
          /\ \A i \in 1 .. last : front[i] = tmp[i]
          /\ tmp = front \o tmp'
      BY <1>2, <2>4, <2>8, Divided
    <3> HIDE DEF front
    <3>2. front = part \o <<Space>>
      <4>1. /\ part \o <<Space>> = Append(part, Space)
            /\ Append(part, Space) \in Seq(Chars) /\ Len(Append(part, Space)) = last
            /\ Append(part, Space)[last] = Space
            /\ \A i \in 1 .. last - 1 : Append(part, Space)[i] = part[i]
        <5>1. Space \in Chars /\ Len(part) + 1 = last
          BY <1>1, <2>3, <2>5 DEF Chars
        <5> QED
          BY <2>5, <5>1, AppendProperties, AppendIsConcat
      <4>2. \A i \in 1 .. last : front[i] = Append(part, Space)[i]
        BY <1>1, <2>3, <2>6, <3>1, <4>1
      <4> QED
        BY <3>1, <4>1, <4>2, SeqEqual
    <3>3. (part \o <<Space>>) \o tmp' = part \o (<<Space>> \o tmp')
      <4>1. <<Space>> \in Seq(Chars)
        BY LettersOfSpace
      <4> QED
        BY <2>5, <3>1, <4>1, ConcatAssociative
    <3> QED
      BY <3>1, <3>2, <3>3
  <2>11. TextKept'
    BY <1>4, <2>5, <2>8, <2>10, TextMoved DEF SoftCut, PlainInv
  <2>12. WordsWhole'
    <3>1. Len(message) - Len(tmp') = Len(message) - Len(tmp) + last
      BY <1>1, <2>3, <2>9
    <3>2. message[Len(message) - Len(tmp')] = Space
      BY <1>1, <2>3, <2>9, <3>1
    <3> QED
      BY <1>4, <3>2 DEF WordsWhole, SoftCut
  <2> QED
    BY <2>8, <2>9, <2>11, <2>12 DEF PlainInv
<1>5. CASE Finish
  <2>1. /\ tmp' = <<>> /\ Len(tmp') = 0 /\ message' = message /\ pc' = "done"
        /\ \A i \in 1 .. Len(tmp') : FALSE
    BY <1>5 DEF Finish
  <2>2. TextKept'
    <3>1. CASE tmp # <<>>
      <4>1. tmp = tmp \o tmp' /\ tmp' \in Seq(Chars) /\ out' = Append(out, tmp)
        BY <1>2, <1>5, <2>1, <3>1, ConcatEmptySeq, EmptySeq DEF Finish
      <4> QED
        BY <1>2, <2>1, <4>1, TextMoved DEF PlainInv
    <3>2. CASE tmp = <<>>
      BY <1>5, <2>1, <3>2 DEF Finish, TextKept, PlainInv
    <3> QED
      BY <3>1, <3>2
  <2>3. WordsWhole'
    BY <1>1, <2>1 DEF WordsWhole
  <2> QED
    BY <1>1, <2>1, <2>2, <2>3 DEF PlainInv
<1>6. CASE UNCHANGED vars
  BY <1>6 DEF vars, PlainInv, TextKept, WordsWhole
<1> QED
  BY <1>3, <1>4, <1>5, <1>6 DEF Next

\* The message is an argument: no round changes it.
LEMMA PlainKept == [Next]_vars => (Plain' <=> Plain)
BY DEF Next, HardCut, SoftCut, Finish, vars, Plain

\* A message without Cyrillic letters is split without a panic and without
\* losing a letter or the order of two: what LastIndex counts in bytes is then
\* what the loop cuts in characters.
THEOREM TextKeptCorrect == Spec => [](Plain => TextKept)
<1>1. PlainInv => TextKept
  BY DEF PlainInv
<1> QED
  BY IInvInit, IInvStep, PlainInit, PlainStep, PlainKept, <1>1, PTL DEF Spec

\* In such a message a word is divided only where maxLength letters in a row
\* leave no choice.
THEOREM WordsWholeCorrect == Spec => [](Plain => WordsWhole)
<1>1. PlainInv => WordsWhole
  BY DEF PlainInv
<1> QED
  BY IInvInit, IInvStep, PlainInit, PlainStep, PlainKept, <1>1, PTL DEF Spec
=============================================================================
