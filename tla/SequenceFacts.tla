---------------------------- MODULE SequenceFacts ---------------------------
(***************************************************************************)
(* Facts about numbers and sequences that the proofs of several modules    *)
(* rest on: induction in a form without operators, the existence of        *)
(* recursively defined functions, what Picked does to a concatenation, and *)
(* sequences with one element more or less.                                *)
(***************************************************************************)
EXTENDS Picks, SequenceTheorems, WellFoundedInduction, TLAPS

\* A set of natural numbers has a least one.
LEMMA LeastNatural ==
    ASSUME NEW S \in SUBSET Nat, S # {}
    PROVE  \E x \in S : \A y \in S : x <= y
<1> DEFINE R == {p \in Nat \X Nat : p[1] < p[2]}
<1>1. IsWellFoundedOn(R, Nat)
  BY NatLessThanWellFounded DEF OpToRel
<1>2. PICK x \in S : \A y \in S : <<y, x>> \notin R
  <2> HIDE DEF R
  <2> QED
    BY <1>1, WFMin
<1>3. \A y \in S : ~ (y < x)
  BY <1>2
<1> QED
  BY <1>3

\* Induction: a set with 0 that is closed under the successor has all of Nat.
LEMMA Induction ==
    ASSUME NEW S, 0 \in S, \A n \in Nat : n \in S => n + 1 \in S
    PROVE  Nat \subseteq S
<1> SUFFICES ASSUME Nat \ S # {} PROVE FALSE
  OBVIOUS
<1>1. PICK n \in Nat \ S : \A m \in Nat \ S : n <= m
  BY LeastNatural
<1>2. n - 1 \in Nat /\ n - 1 \in S
  BY <1>1
<1> QED
  BY <1>1, <1>2

\* The values up to n of the function with base and step.
Begins(g, n, base, step) ==
    g[0] = base /\ \A i \in 0 .. n - 1 : g[i + 1] = step[<<g[i], i>>]

Recurs(f, base, step) ==
    f[0] = base /\ \A n \in Nat : f[n + 1] = step[<<f[n], n>>]

\* A function can be defined by its value at 0 and the step from n to n + 1.
LEMMA PrimitiveRecursion ==
    ASSUME NEW V, NEW base \in V, NEW step \in [V \X Nat -> V]
    PROVE  \E f \in [Nat -> V] : Recurs(f, base, step)
<1> DEFINE S == {n \in Nat : \E g \in [Nat -> V] : Begins(g, n, base, step)}
<1>1. 0 \in S
  <2>1. Begins([i \in Nat |-> base], 0, base, step)
    BY DEF Begins
  <2> QED
    BY <2>1
<1>2. ASSUME NEW n \in Nat, n \in S PROVE n + 1 \in S
  <2>1. PICK g \in [Nat -> V] : Begins(g, n, base, step)
    BY <1>2
  <2> DEFINE h == [g EXCEPT ![n + 1] = step[<<g[n], n>>]]
  <2>2. h \in [Nat -> V]
    OBVIOUS
  <2>3. \A i \in 0 .. n : h[i] = g[i] /\ h[n + 1] = step[<<g[n], n>>]
    OBVIOUS
  <2>4. Begins(h, n + 1, base, step)
    BY <2>1, <2>3 DEF Begins
  <2> HIDE DEF h
  <2> QED
    BY <2>2, <2>4
<1>3. Nat \subseteq S
  <2> HIDE DEF S
  <2> QED
    BY <1>1, <1>2, Induction
<1>4. \A n \in Nat : \E g \in [Nat -> V] : Begins(g, n, base, step)
  BY <1>3
<1>5. ASSUME NEW n \in Nat, NEW m \in Nat, NEW g, NEW h,
             Begins(g, n, base, step), Begins(h, m, base, step)
      PROVE  \A i \in Nat : i <= n /\ i <= m => g[i] = h[i]
  <2> DEFINE T == {i \in Nat : i <= n /\ i <= m => g[i] = h[i]}
  <2>1. 0 \in T
    BY <1>5 DEF Begins
  <2>2. ASSUME NEW i \in Nat, i \in T PROVE i + 1 \in T
    <3> SUFFICES ASSUME i + 1 <= n, i + 1 <= m PROVE g[i + 1] = h[i + 1]
      OBVIOUS
    <3>1. i \in 0 .. n - 1 /\ i \in 0 .. m - 1 /\ g[i] = h[i]
      BY <2>2
    <3> QED
      BY <1>5, <3>1 DEF Begins
  <2>3. Nat \subseteq T
    <3> HIDE DEF T
    <3> QED
      BY <2>1, <2>2, Induction
  <2> QED
    BY <2>3
<1> DEFINE G(n) == CHOOSE g \in [Nat -> V] : Begins(g, n, base, step)
<1>6. \A n \in Nat : G(n) \in [Nat -> V] /\ Begins(G(n), n, base, step)
  BY <1>4, Zenon
<1> DEFINE f == [n \in Nat |-> G(n)[n]]
<1> HIDE DEF G
<1>7. f \in [Nat -> V]
  BY <1>6
<1>8. f[0] = base
  BY <1>6 DEF Begins
<1>9. ASSUME NEW n \in Nat PROVE f[n + 1] = step[<<f[n], n>>]
  <2>1. G(n + 1)[n + 1] = step[<<G(n + 1)[n], n>>]
    BY <1>6 DEF Begins
  <2>2. G(n + 1)[n] = G(n)[n]
    BY <1>5, <1>6
  <2> QED
    BY <2>1, <2>2
<1>10. Recurs(f, base, step)
  BY <1>8, <1>9 DEF Recurs
<1> HIDE DEF f
<1> QED
  BY <1>7, <1>10

-----------------------------------------------------------------------------
(* Picked. *)

\* The function of Picked.
Pick(s, T) ==
    CHOOSE pick : pick = [n \in 0 .. Len(s) |->
        IF n = 0 THEN <<>>
        ELSE IF s[n] \in T THEN Append(pick[n - 1], s[n]) ELSE pick[n - 1]]

\* It exists, and its values are sequences.
LEMMA PickExists ==
    ASSUME NEW S, NEW s \in Seq(S), NEW T
    PROVE  /\ \A n \in 0 .. Len(s) : Pick(s, T)[n] \in Seq(S \cap T)
           /\ Pick(s, T)[0] = <<>>
           /\ \A n \in 1 .. Len(s) :
                Pick(s, T)[n] = IF s[n] \in T THEN Append(Pick(s, T)[n - 1], s[n])
                                               ELSE Pick(s, T)[n - 1]
<1> DEFINE Add(q, n) == IF n + 1 \in 1 .. Len(s) /\ s[n + 1] \in T
                           THEN Append(q, s[n + 1]) ELSE q
           step == [p \in Seq(S \cap T) \X Nat |-> Add(p[1], p[2])]
<1>1. Len(s) \in Nat /\ \A n \in 1 .. Len(s) : s[n] \in S
  BY LenProperties, ElementOfSeq
<1>2. step \in [Seq(S \cap T) \X Nat -> Seq(S \cap T)]
  <2>1. ASSUME NEW q \in Seq(S \cap T), NEW n \in Nat
        PROVE  Add(q, n) \in Seq(S \cap T)
    BY <1>1, AppendProperties
  <2> HIDE DEF Add
  <2> QED
    BY <2>1
<1>3. PICK f \in [Nat -> Seq(S \cap T)] : Recurs(f, <<>>, step)
  <2>1. <<>> \in Seq(S \cap T)
    BY EmptySeq
  <2> HIDE DEF step
  <2> QED
    BY <1>2, <2>1, PrimitiveRecursion, Zenon
<1>4. f[0] = <<>> /\ \A n \in Nat : f[n + 1] = Add(f[n], n)
  <2> HIDE DEF Add
  <2> QED
    BY <1>3 DEF Recurs
<1> DEFINE g == [n \in 0 .. Len(s) |-> f[n]]
           Eq(h) == h = [n \in 0 .. Len(s) |->
                           IF n = 0 THEN <<>>
                           ELSE IF s[n] \in T THEN Append(h[n - 1], s[n]) ELSE h[n - 1]]
<1>5. Eq(g)
  <2>1. ASSUME NEW n \in 1 .. Len(s)
        PROVE  f[n] = IF s[n] \in T THEN Append(f[n - 1], s[n]) ELSE f[n - 1]
    <3>1. n - 1 \in Nat /\ (n - 1) + 1 = n
      BY <1>1
    <3> QED
      BY <1>4, <3>1
  <2>2. ASSUME NEW n \in 0 .. Len(s)
        PROVE  f[n] = IF n = 0 THEN <<>>
                      ELSE IF s[n] \in T THEN Append(g[n - 1], s[n]) ELSE g[n - 1]
    <3>1. CASE n = 0
      BY <1>4, <3>1
    <3>2. CASE n # 0
      <4>1. n \in 1 .. Len(s) /\ n - 1 \in 0 .. Len(s)
        BY <1>1, <3>2
      <4>2. g[n - 1] = f[n - 1]
        BY <4>1
      <4> QED
        BY <2>1, <3>2, <4>1, <4>2
    <3> QED
      BY <3>1, <3>2
  <2> QED
    BY <2>2
<1>6. Eq(Pick(s, T))
  <2>1. Pick(s, T) = CHOOSE h : Eq(h)
    BY Zenon DEF Pick
  <2> HIDE DEF Eq, g
  <2> QED
    BY <1>5, <2>1, Zenon
<1>7. /\ Pick(s, T)[0] = <<>>
      /\ \A n \in 1 .. Len(s) :
           Pick(s, T)[n] = IF s[n] \in T THEN Append(Pick(s, T)[n - 1], s[n])
                                          ELSE Pick(s, T)[n - 1]
      /\ Pick(s, T) = [n \in 0 .. Len(s) |-> Pick(s, T)[n]]
  <2>1. Pick(s, T) = [n \in 0 .. Len(s) |->
                        IF n = 0 THEN <<>>
                        ELSE IF s[n] \in T THEN Append(Pick(s, T)[n - 1], s[n])
                                           ELSE Pick(s, T)[n - 1]]
    BY <1>6
  <2>2. ASSUME NEW n \in 0 .. Len(s)
        PROVE  Pick(s, T)[n] = IF n = 0 THEN <<>>
                               ELSE IF s[n] \in T THEN Append(Pick(s, T)[n - 1], s[n])
                                                  ELSE Pick(s, T)[n - 1]
    BY <2>1, Zenon
  <2>3. 0 \in 0 .. Len(s) /\ \A n \in 1 .. Len(s) : n \in 0 .. Len(s) /\ n # 0
    BY <1>1
  <2>4. Pick(s, T) = [n \in 0 .. Len(s) |-> Pick(s, T)[n]]
    BY <2>1, Zenon
  <2> QED
    BY <2>2, <2>3, <2>4, Zenon
<1> DEFINE V == {n \in Nat : n <= Len(s) => Pick(s, T)[n] \in Seq(S \cap T)}
<1>8. Nat \subseteq V
  <2>1. 0 \in V
    BY <1>7, EmptySeq
  <2>2. ASSUME NEW n \in Nat, n \in V PROVE n + 1 \in V
    <3> SUFFICES ASSUME n + 1 <= Len(s) PROVE Pick(s, T)[n + 1] \in Seq(S \cap T)
      OBVIOUS
    <3>1. n + 1 \in 1 .. Len(s) /\ (n + 1) - 1 = n
      BY <1>1
    <3>2. Pick(s, T)[n] \in Seq(S \cap T) /\ s[n + 1] \in S
      BY <1>1, <2>2, <3>1
    <3>3. Pick(s, T)[n + 1] = IF s[n + 1] \in T THEN Append(Pick(s, T)[n], s[n + 1])
                                                 ELSE Pick(s, T)[n]
      BY <1>7, <3>1
    <3> QED
      BY <3>2, <3>3, AppendProperties
  <2> HIDE DEF V
  <2> QED
    BY <2>1, <2>2, Induction
<1>9. \A n \in 0 .. Len(s) : Pick(s, T)[n] \in Seq(S \cap T)
  <2> TAKE n \in 0 .. Len(s)
  <2>1. n \in Nat /\ n <= Len(s)
    BY <1>1
  <2> QED
    BY <1>8, <2>1
<1> QED
  BY <1>7, <1>9

\* Its equations.
LEMMA PickStep ==
    ASSUME NEW S, NEW s \in Seq(S), NEW T
    PROVE  /\ Pick(s, T)[0] = <<>>
           /\ \A n \in 1 .. Len(s) :
                Pick(s, T)[n] = IF s[n] \in T THEN Append(Pick(s, T)[n - 1], s[n])
                                               ELSE Pick(s, T)[n - 1]
BY PickExists, ZenonT(60)

\* What is picked is a sequence of what there is to pick.
LEMMA PickedType ==
    ASSUME NEW S, NEW s \in Seq(S), NEW T
    PROVE  /\ Picked(s, T) = Pick(s, T)[Len(s)]
           /\ Picked(s, T) \in Seq(S \cap T)
           /\ Picked(s, T) \in Seq(S)
<1>1. Picked(s, T) = Pick(s, T)[Len(s)]
  BY Zenon DEF Picked, Pick
<1>2. Len(s) \in 0 .. Len(s)
  BY LenProperties
<1>3. Picked(s, T) \in Seq(S \cap T)
  BY <1>1, <1>2, PickExists
<1>4. S \cap T \subseteq S
  OBVIOUS
<1> QED
  BY <1>1, <1>3, <1>4, SeqMonotonic

\* Nothing is picked from nothing.
LEMMA PickedEmpty ==
    ASSUME NEW S, NEW s \in Seq(S), NEW T
    PROVE  Len(s) = 0 => Picked(s, T) = <<>>
<1>1. Picked(s, T) = Pick(s, T)[Len(s)]
  BY PickedType
<1>2. Pick(s, T)[0] = <<>>
  BY PickStep
<1> QED
  BY <1>1, <1>2

\* One element more is picked or not.
LEMMA PickedAppend ==
    ASSUME NEW S, NEW s \in Seq(S), NEW e \in S, NEW T
    PROVE  Picked(Append(s, e), T) = IF e \in T THEN Append(Picked(s, T), e)
                                               ELSE Picked(s, T)
<1> DEFINE t == Append(s, e)
<1>1. /\ t \in Seq(S) /\ Len(t) = Len(s) + 1 /\ Len(s) \in Nat
      /\ \A n \in 1 .. Len(s) : t[n] = s[n]
      /\ t[Len(s) + 1] = e
  BY AppendProperties, LenProperties
<1> HIDE DEF t
<1> DEFINE V == {n \in Nat : n <= Len(s) => Pick(t, T)[n] = Pick(s, T)[n]}
<1>2. 0 \in V
  BY <1>1, PickStep
<1>3. ASSUME NEW n \in Nat, n \in V PROVE n + 1 \in V
  <2> SUFFICES ASSUME n + 1 <= Len(s) PROVE Pick(t, T)[n + 1] = Pick(s, T)[n + 1]
    OBVIOUS
  <2>1. /\ n + 1 \in 1 .. Len(s) /\ n + 1 \in 1 .. Len(t) /\ (n + 1) - 1 = n
        /\ Pick(t, T)[n] = Pick(s, T)[n]
    BY <1>1, <1>3
  <2>2. Pick(s, T)[n + 1] = IF s[n + 1] \in T THEN Append(Pick(s, T)[n], s[n + 1])
                                               ELSE Pick(s, T)[n]
    BY <2>1, PickStep
  <2>3. Pick(t, T)[n + 1] = IF t[n + 1] \in T THEN Append(Pick(t, T)[n], t[n + 1])
                                               ELSE Pick(t, T)[n]
    BY <1>1, <2>1, PickStep
  <2> QED
    BY <1>1, <2>1, <2>2, <2>3
<1>4. Nat \subseteq V
  <2> HIDE DEF V
  <2> QED
    BY <1>2, <1>3, Induction
<1>5. Pick(t, T)[Len(s)] = Pick(s, T)[Len(s)]
  BY <1>1, <1>4
<1>6. Len(t) \in 1 .. Len(t) /\ Len(t) - 1 = Len(s)
  BY <1>1
<1>7. Pick(t, T)[Len(t)] = IF e \in T THEN Append(Pick(t, T)[Len(s)], e)
                                       ELSE Pick(t, T)[Len(s)]
  BY <1>1, <1>6, PickStep
<1>8. Picked(t, T) = Pick(t, T)[Len(t)] /\ Picked(s, T) = Pick(s, T)[Len(s)]
  BY <1>1, PickedType
<1> QED
  BY <1>5, <1>7, <1>8 DEF t

\* Concatenation is associative.
LEMMA Reassociate ==
    \A S : \A a, b, c \in Seq(S) : (a \o b) \o c = a \o (b \o c)
  BY ConcatAssociative

\* An element appended to the second of two sequences is appended to both.
LEMMA ConcatAppend ==
    ASSUME NEW S, NEW s \in Seq(S), NEW t \in Seq(S), NEW e \in S
    PROVE  s \o Append(t, e) = Append(s \o t, e)
<1> DEFINE one == <<e>>
<1>1. one \in Seq(S) /\ s \o t \in Seq(S)
  BY ConcatProperties
<1>2. Append(t, e) = t \o one /\ Append(s \o t, e) = (s \o t) \o one
  BY <1>1, AppendIsConcat
<1> HIDE DEF one
<1>3. (s \o t) \o one = s \o (t \o one)
  BY <1>1, Reassociate
<1> QED
  BY <1>2, <1>3

\* What is picked from two sequences is picked from each.
LEMMA PickedConcat ==
    ASSUME NEW S, NEW s \in Seq(S), NEW t \in Seq(S), NEW T
    PROVE  Picked(s \o t, T) = Picked(s, T) \o Picked(t, T)
<1> DEFINE V == {n \in Nat : \A u \in Seq(S) :
                   Len(u) = n => Picked(s \o u, T) = Picked(s, T) \o Picked(u, T)}
<1>1. 0 \in V
  <2> SUFFICES ASSUME NEW u \in Seq(S), Len(u) = 0
               PROVE  Picked(s \o u, T) = Picked(s, T) \o Picked(u, T)
    OBVIOUS
  <2>1. u = <<>>
    BY EmptySeq
  <2> QED
    <3>1. Picked(u, T) = <<>> /\ s \o <<>> = s
      BY PickedEmpty, ConcatEmptySeq
    <3>2. Picked(s, T) \o <<>> = Picked(s, T)
      BY PickedType, ConcatEmptySeq
    <3> QED
      BY <2>1, <3>1, <3>2
<1>2. ASSUME NEW n \in Nat, n \in V PROVE n + 1 \in V
  <2> SUFFICES ASSUME NEW u \in Seq(S), Len(u) = n + 1
               PROVE  Picked(s \o u, T) = Picked(s, T) \o Picked(u, T)
    OBVIOUS
  <2>1. PICK w \in Seq(S), e \in S : u = Append(w, e)
    <3>1. u # <<>>
      BY EmptySeq
    <3> QED
      BY <3>1, SequenceEmptyOrAppend
  <2>2. Len(w) = n
    BY <2>1, AppendProperties, LenProperties
  <2>3. Picked(s \o w, T) = Picked(s, T) \o Picked(w, T)
    BY <1>2, <2>2
  <2>4. s \o w \in Seq(S) /\ s \o u = Append(s \o w, e)
    BY <2>1, ConcatProperties, ConcatAppend
  <2>5. Picked(Append(s \o w, e), T) = IF e \in T THEN Append(Picked(s \o w, T), e)
                                                  ELSE Picked(s \o w, T)
    BY <2>4, PickedAppend
  <2>6. Picked(u, T) = IF e \in T THEN Append(Picked(w, T), e) ELSE Picked(w, T)
    BY <2>1, PickedAppend
  <2>7. Append(Picked(s, T) \o Picked(w, T), e) = Picked(s, T) \o Append(Picked(w, T), e)
    <3> DEFINE p == Picked(s, T)
               q == Picked(w, T)
    <3>1. p \in Seq(S) /\ q \in Seq(S)
      BY PickedType
    <3> HIDE DEF p, q, V
    <3>2. p \o Append(q, e) = Append(p \o q, e)
      BY <3>1, ConcatAppend
    <3> QED
      BY <3>2 DEF p, q
  <2> QED
    BY <2>3, <2>4, <2>5, <2>6, <2>7
<1>3. Nat \subseteq V
  <2> HIDE DEF V
  <2> QED
    BY <1>1, <1>2, Induction
<1> QED
  BY <1>3, LenProperties

\* What is picked from a sequence all of whose members belong to the set.
LEMMA PickedAll ==
    ASSUME NEW S, NEW s \in Seq(S), NEW T, S \subseteq T
    PROVE  Picked(s, T) = s
  <1>. DEFINE Whole == {n \in Nat : n <= Len(s) => Pick(s, T)[n] = SubSeq(s, 1, n)}
  <1>1. Len(s) \in Nat
    BY LenProperties
  <1>2. 0 \in Whole
    <2>1. SubSeq(s, 1, 0) = <<>>
      BY <1>1, SubSeqEmpty
    <2>. QED
      BY <2>1, PickStep
  <1>3. ASSUME NEW n \in Nat, n \in Whole PROVE n + 1 \in Whole
    <2>. SUFFICES ASSUME n + 1 <= Len(s) PROVE Pick(s, T)[n + 1] = SubSeq(s, 1, n + 1)
      OBVIOUS
    <2>1. n + 1 \in 1 .. Len(s) /\ (n + 1) - 1 = n /\ n <= Len(s)
      BY <1>1
    <2>2. s[n + 1] \in T
      BY <2>1, ElementOfSeq
    <2>3. Pick(s, T)[n + 1] = Append(Pick(s, T)[n], s[n + 1])
      BY <2>1, <2>2, PickStep
    <2>4. Pick(s, T)[n] = SubSeq(s, 1, n)
      BY <1>3, <2>1
    <2>5. SubSeq(s, 1, n + 1) = Append(SubSeq(s, 1, n), s[n + 1])
      BY <1>1, <2>1, SubSeqProperties, AppendProperties, LenProperties, ElementOfSeq, SeqEqual
    <2>. QED
      BY <2>3, <2>4, <2>5
  <1>4. Len(s) \in Whole
    <2>. HIDE DEF Whole
    <2>. QED
      BY <1>1, <1>2, <1>3, Induction
  <1>5. Pick(s, T)[Len(s)] = SubSeq(s, 1, Len(s))
    BY <1>1, <1>4
  <1>. QED
    BY <1>5, PickedType, SubSeqFull

\* The first element is picked or not.
LEMMA PickedHead ==
    ASSUME NEW S, NEW s \in Seq(S), s # <<>>, NEW T
    PROVE  Picked(s, T) = IF Head(s) \in T THEN <<Head(s)>> \o Picked(Tail(s), T)
                                           ELSE Picked(Tail(s), T)
  <1>. DEFINE e == Head(s)
              t == Tail(s)
              one == <<e>>
              none == <<>>
  <1>1. /\ e \in S /\ t \in Seq(S) /\ one \in Seq(S) /\ s = one \o t
    BY HeadTailProperties, ConcatProperties
  <1>2. one = Append(none, e) /\ none \in Seq(S) /\ Len(none) = 0
    BY EmptySeq
  <1>. HIDE DEF e, t, one, none
  <1>3. Picked(s, T) = Picked(one, T) \o Picked(t, T)
    BY <1>1, PickedConcat
  <1>4. Picked(none, T) = none
    BY <1>2, PickedEmpty DEF none
  <1>5. Picked(one, T) = IF e \in T THEN one ELSE none
    BY <1>1, <1>2, <1>4, PickedAppend
  <1>6. none \o Picked(t, T) = Picked(t, T)
    BY <1>1, PickedType, ConcatEmptySeq DEF none
  <1>. QED
    BY <1>3, <1>5, <1>6 DEF e, t, one

-----------------------------------------------------------------------------
(* Elements put in front of a sequence and taken out of it. *)

\* An element before a sequence is its head.
LEMMA HeadTailOfCons ==
    ASSUME NEW S, NEW e \in S, NEW s \in Seq(S)
    PROVE  <<e>> \o s # <<>> /\ Head(<<e>> \o s) = e /\ Tail(<<e>> \o s) = s
  <1>. DEFINE one == <<e>>
              t == one \o s
  <1>1. one \in Seq(S) /\ Len(one) = 1 /\ one[1] = e /\ Len(s) \in Nat
    BY LenProperties
  <1>. HIDE DEF one
  <1>2. /\ t \in Seq(S) /\ Len(t) = 1 + Len(s) /\ t[1] = e
        /\ \A i \in 1 .. Len(s) : t[i + 1] = s[i]
    <2>1. /\ t \in Seq(S) /\ Len(t) = Len(one) + Len(s)
          /\ \A i \in 1 .. Len(one) + Len(s) :
               t[i] = IF i <= Len(one) THEN one[i] ELSE s[i - Len(one)]
      BY <1>1, ConcatProperties
    <2>. HIDE DEF t
    <2>. QED
      BY <1>1, <2>1
  <1>. HIDE DEF t
  <1>3. t # <<>>
    BY <1>1, <1>2, EmptySeq
  <1>4. /\ Head(t) = e /\ Tail(t) \in Seq(S) /\ Len(Tail(t)) = Len(s)
        /\ \A i \in 1 .. Len(s) : Tail(t)[i] = s[i]
    BY <1>1, <1>2, <1>3, HeadTailProperties
  <1>5. Tail(t) = s
    BY <1>4, SeqEqual
  <1>. QED
    BY <1>3, <1>4, <1>5 DEF t, one

\* v is w with one element taken out.
Misses(w, v) ==
    \E i \in 1 .. Len(w) : v = SubSeq(w, 1, i - 1) \o SubSeq(w, i + 1, Len(w))

\* Taking an element out of a sequence.
LEMMA TakeOut ==
    ASSUME NEW S, NEW a \in Seq(S), NEW n \in S, NEW b \in Seq(S)
    PROVE  Misses(a \o (<<n>> \o b), a \o b)
  <1>. DEFINE c == <<n>> \o b
              w == a \o c
              i == Len(a) + 1
  <1>1. Len(a) \in Nat /\ Len(b) \in Nat
    BY LenProperties
  <1>2. c \in Seq(S) /\ Len(c) = Len(b) + 1 /\ \A j \in 1 .. Len(b) : c[j + 1] = b[j]
    <2>1. <<n>> \in Seq(S) /\ Len(<<n>>) = 1
      OBVIOUS
    <2>. QED
      BY <1>1, <2>1, ConcatProperties
  <1>. HIDE DEF c
  <1>3. /\ w \in Seq(S) /\ Len(w) = Len(a) + Len(c)
        /\ \A j \in 1 .. Len(a) + Len(c) : w[j] = IF j <= Len(a) THEN a[j] ELSE c[j - Len(a)]
    BY <1>2, ConcatProperties
  <1>. HIDE DEF w
  <1>4. Len(w) = Len(a) + Len(b) + 1 /\ i \in 1 .. Len(w) /\ i - 1 = Len(a)
    BY <1>1, <1>2, <1>3
  <1>5. SubSeq(w, 1, i - 1) = a
    <2>. DEFINE u == SubSeq(w, 1, i - 1)
    <2>1. /\ u \in Seq(S) /\ Len(u) = Len(a)
          /\ \A j \in 1 .. Len(a) : u[j] = w[j]
      <3>1. \A j \in 1 .. i - 1 : w[j] \in S
        BY <1>1, <1>3, <1>4, ElementOfSeq
      <3>. QED
        BY <1>1, <1>4, <3>1, SubSeqProperties
    <2>. HIDE DEF u
    <2>2. \A j \in 1 .. Len(u) : u[j] = a[j]
      BY <1>1, <1>3, <1>4, <2>1
    <2>3. u = a
      BY <2>1, <2>2, SeqEqual
    <2>. QED
      BY <2>3 DEF u
  <1>6. SubSeq(w, i + 1, Len(w)) = b
    <2>. DEFINE u == SubSeq(w, i + 1, Len(w))
    <2>1. /\ u \in Seq(S) /\ Len(u) = Len(b)
          /\ \A j \in 1 .. Len(b) : u[j] = w[i + j]
      <3>1. \A j \in i + 1 .. Len(w) : w[j] \in S
        BY <1>1, <1>3, <1>4, ElementOfSeq
      <3>. QED
        BY <1>1, <1>4, <3>1, SubSeqProperties
    <2>. HIDE DEF u
    <2>2. \A j \in 1 .. Len(u) : u[j] = b[j]
      <3>. TAKE j \in 1 .. Len(u)
      <3>1. w[i + j] = c[j + 1]
        BY <1>1, <1>3, <1>4, <2>1
      <3>. QED
        BY <1>2, <2>1, <3>1
    <2>3. u = b
      BY <2>1, <2>2, SeqEqual
    <2>. QED
      BY <2>3 DEF u
  <1>. QED
    BY <1>4, <1>5, <1>6 DEF w, c, Misses
=============================================================================
