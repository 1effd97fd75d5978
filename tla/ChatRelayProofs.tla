--------------------------- MODULE ChatRelayProofs --------------------------
(***************************************************************************)
(* Theorems about ChatRelay, for any players, messages and route changes:  *)
(* the types, one name query at a time, names that stay, and that the      *)
(* relay implements SenderFifo.                                            *)
(***************************************************************************)
EXTENDS ChatRelay, SequenceFacts, FiniteSetTheorems, FunctionTheorems

Packets == [kind : {"chat"}, guid : Senders, n : Nat]
             \cup [kind : {"name"}, guid : Players, known : BOOLEAN]
             \cup {Addon}
Lines   == [guid : Senders, n : Nat, name : Senders \cup {"UNKNOWN"}]

\* The types, with what TypeOK does not say of the packets and the lines.
Typed ==
    /\ said \in [Senders -> Nat]
    /\ inbox \in Seq(Packets)
    /\ asked \in [Players -> Nat]
    /\ names \in SUBSET Players
    /\ pending \in [Players -> Seq(Nat)]
    /\ out \in Seq(Lines) /\ posted \in Seq(Lines)
    /\ wanted \in BOOLEAN /\ broken \in BOOLEAN
    /\ reroutes \in 0 .. MaxReroutes

\* What is on its way has been said.
Said ==
    /\ \A i \in 1 .. Len(inbox) :
         inbox[i].kind = "chat" => inbox[i].n \in 1 .. said[inbox[i].guid]
    /\ \A g \in Players : \A i \in 1 .. Len(pending[g]) : pending[g][i] \in 1 .. said[g]
    /\ \A i \in 1 .. Len(out) : out[i].n \in 1 .. said[out[i].guid]

\* The answers about g that are on their way.
Under(s, g) == Cardinality(Answers(s, g))

\* One query or answer about a sender at most, exactly one while its messages are
\* kept and the connection is up, and none once its name is known.
Queries ==
    \A g \in Players :
      /\ asked[g] + Under(inbox, g) <= 1
      /\ ~broken => asked[g] + Under(inbox, g) = IF pending[g] = <<>> THEN 0 ELSE 1
      /\ g \in names => pending[g] = <<>> /\ asked[g] + Under(inbox, g) = 0

Known == names \cup {Nobody}

\* A line under a name is of a sender whose name is known, and the lines under way
\* of such a sender are under its name.
Named ==
    /\ \A i \in 1 .. Len(out) : IF out[i].guid \in Known THEN out[i].name = out[i].guid
                                                         ELSE out[i].name = "UNKNOWN"
    /\ \A i \in 1 .. Len(posted) :
         \/ posted[i].name = "UNKNOWN"
         \/ posted[i].name = posted[i].guid /\ posted[i].guid \in Known

\* The inductive invariant.
IInv == Typed /\ Said /\ Queries /\ Named /\ NameStays

-----------------------------------------------------------------------------
(* Counting answers. *)

\* The answers about g can be counted.
LEMMA UnderType ==
    ASSUME NEW P, NEW s \in Seq(P), NEW g
    PROVE  IsFiniteSet(Answers(s, g)) /\ Under(s, g) \in Nat
  <1>1. Len(s) \in Nat
    BY LenProperties
  <1>2. IsFiniteSet(1 .. Len(s))
    BY <1>1, FS_Interval
  <1>3. IsFiniteSet(Answers(s, g))
    BY <1>2, FS_Subset DEF Answers
  <1>. QED
    BY <1>3, FS_CardinalityType DEF Under

\* One packet more at the end.
LEMMA UnderAppend ==
    ASSUME NEW P, NEW s \in Seq(P), NEW p \in P, NEW g
    PROVE  Under(Append(s, p), g)
             = IF p.kind = "name" /\ p.guid = g THEN Under(s, g) + 1 ELSE Under(s, g)
  <1>. DEFINE t == Append(s, p)
  <1>1. /\ Len(s) \in Nat /\ Len(t) = Len(s) + 1
        /\ \A i \in 1 .. Len(s) : t[i] = s[i]
        /\ t[Len(s) + 1] = p
    BY AppendProperties, LenProperties
  <1>. HIDE DEF t
  <1>2. Answers(t, g) = IF p.kind = "name" /\ p.guid = g
                          THEN Answers(s, g) \cup {Len(s) + 1} ELSE Answers(s, g)
    BY <1>1 DEF Answers
  <1>3. Len(s) + 1 \notin Answers(s, g)
    BY <1>1 DEF Answers
  <1>4. IsFiniteSet(Answers(s, g))
    BY UnderType
  <1>5. Cardinality(Answers(s, g) \cup {Len(s) + 1}) = Cardinality(Answers(s, g)) + 1
    BY <1>3, <1>4, FS_AddElement
  <1>. QED
    BY <1>2, <1>5 DEF Under, t

\* One packet less at the beginning.
LEMMA UnderTail ==
    ASSUME NEW P, NEW s \in Seq(P), s # <<>>, NEW g
    PROVE  Under(s, g) = IF Head(s).kind = "name" /\ Head(s).guid = g
                           THEN Under(Tail(s), g) + 1 ELSE Under(Tail(s), g)
  <1>. DEFINE t == Tail(s)
              Rest == Answers(s, g) \ {1}
              f == [i \in Answers(t, g) |-> i + 1]
  <1>1. /\ t \in Seq(P) /\ Len(s) \in Nat /\ Len(s) > 0 /\ Len(t) = Len(s) - 1
        /\ \A i \in 1 .. Len(t) : t[i] = s[i + 1]
        /\ Head(s) = s[1]
    BY HeadTailProperties, LenProperties, EmptySeq
  <1>. HIDE DEF t
  <1>2. f \in Bijection(Answers(t, g), Rest)
    <2>1. f \in [Answers(t, g) -> Rest]
      BY <1>1 DEF Answers
    <2>2. \A a, b \in Answers(t, g) : f[a] = f[b] => a = b
      BY <1>1 DEF Answers
    <2>3. ASSUME NEW j \in Rest PROVE \E i \in Answers(t, g) : f[i] = j
      <3>1. j - 1 \in Answers(t, g)
        BY <1>1, <2>3 DEF Answers
      <3>2. f[j - 1] = j
        BY <3>1, <1>1 DEF Answers
      <3>. QED
        BY <3>1, <3>2
    <2>. HIDE DEF f, Rest
    <2>4. f \in Injection(Answers(t, g), Rest)
      BY <2>1, <2>2, Fun_IsInj
    <2>5. f \in Surjection(Answers(t, g), Rest)
      BY <2>1, <2>3, Fun_IsSurj
    <2>. QED
      BY <2>4, <2>5 DEF Bijection
  <1>3. IsFiniteSet(Answers(t, g)) /\ Under(t, g) \in Nat
        /\ IsFiniteSet(Answers(s, g)) /\ Under(s, g) \in Nat
    BY <1>1, UnderType
  <1>4. Cardinality(Rest) = Under(t, g)
    <2>1. ExistsBijection(Answers(t, g), Rest)
      BY <1>2 DEF ExistsBijection
    <2>. QED
      BY <2>1, <1>3, FS_Bijection DEF Under
  <1>5. Cardinality(Rest) = IF 1 \in Answers(s, g) THEN Under(s, g) - 1 ELSE Under(s, g)
    BY <1>3, FS_RemoveElement DEF Under
  <1>6. 1 \in Answers(s, g) <=> Head(s).kind = "name" /\ Head(s).guid = g
    BY <1>1 DEF Answers
  <1>. QED
    BY <1>3, <1>4, <1>5, <1>6 DEF t

-----------------------------------------------------------------------------
(* The server, the network and the routes. *)

\* A packet arrives that is no answer.
LEMMA Arrive ==
    ASSUME IInv, NEW p \in Packets, p.kind # "name", inbox' = Append(inbox, p),
           said' \in [Senders -> Nat], \A g \in Senders : said[g] <= said'[g],
           p.kind = "chat" => p.n \in 1 .. said'[p.guid],
           UNCHANGED <<asked, names, pending, out, wanted, reroutes, posted, broken>>
    PROVE  IInv'
  <1>1. /\ inbox \in Seq(Packets) /\ said \in [Senders -> Nat]
        /\ pending \in [Players -> Seq(Nat)] /\ out \in Seq(Lines)
    BY DEF IInv, Typed
  <1>2. /\ inbox' \in Seq(Packets) /\ Len(inbox) \in Nat
        /\ Len(inbox') = Len(inbox) + 1
        /\ \A i \in 1 .. Len(inbox) : inbox'[i] = inbox[i]
        /\ inbox'[Len(inbox) + 1] = p
    BY <1>1, AppendProperties, LenProperties
  <1>3. Typed'
    BY <1>2 DEF IInv, Typed
  <1>4. \A g \in Senders : 1 .. said[g] \subseteq 1 .. said'[g]
    BY <1>1
  <1>5. Said'
    <2>1. ASSUME NEW i \in 1 .. Len(inbox'), inbox'[i].kind = "chat"
          PROVE  inbox'[i].n \in 1 .. said'[inbox'[i].guid]
      <3>1. CASE i \in 1 .. Len(inbox)
        <4>1. inbox[i] \in Packets
          BY <1>1, <3>1, ElementOfSeq
        <4>2. inbox[i].guid \in Senders
          BY <1>2, <2>1, <3>1, <4>1 DEF Packets, Addon
        <4>. QED
          BY <1>2, <1>4, <2>1, <3>1, <4>2 DEF IInv, Said
      <3>2. CASE i = Len(inbox) + 1
        BY <1>2, <2>1, <3>2
      <3>. QED
        BY <1>2, <3>1, <3>2
    <2>2. ASSUME NEW g \in Players, NEW i \in 1 .. Len(pending'[g])
          PROVE  pending'[g][i] \in 1 .. said'[g]
      BY <1>4 DEF IInv, Said, Senders
    <2>3. ASSUME NEW i \in 1 .. Len(out') PROVE out'[i].n \in 1 .. said'[out'[i].guid]
      <3>1. out[i] \in Lines
        BY <1>1, ElementOfSeq
      <3>2. out[i].guid \in Senders
        BY <3>1 DEF Lines
      <3>. QED
        BY <1>4, <3>2 DEF IInv, Said
    <2>. QED
      BY <2>1, <2>2, <2>3 DEF Said
  <1>6. Queries'
    <2>1. \A g \in Players : Under(inbox', g) = Under(inbox, g)
      BY <1>1, UnderAppend
    <2>. QED
      BY <2>1 DEF IInv, Queries
  <1>7. Named' /\ NameStays'
    BY DEF IInv, Named, NameStays, Known
  <1>. QED
    BY <1>3, <1>5, <1>6, <1>7 DEF IInv

LEMMA SayInv ==
    ASSUME IInv, NEW g \in Senders, Say(g)
    PROVE  IInv'
  <1>. DEFINE p == Chat(g, said[g] + 1)
  <1>1. /\ said' = [said EXCEPT ![g] = said[g] + 1] /\ inbox' = Append(inbox, p)
        /\ UNCHANGED <<asked, names, pending, out, wanted, reroutes, posted, broken>>
    BY DEF Say
  <1>2. said \in [Senders -> Nat] /\ said[g] \in Nat
    BY DEF IInv, Typed
  <1>3. /\ said' \in [Senders -> Nat] /\ said'[g] = said[g] + 1
        /\ \A h \in Senders : said[h] <= said'[h]
    BY <1>1, <1>2
  <1>4. p \in Packets /\ p.kind = "chat" /\ p.guid = g /\ p.n = said[g] + 1
    BY <1>2 DEF Chat, Packets
  <1>. HIDE DEF p
  <1>5. p.n \in 1 .. said'[p.guid]
    BY <1>2, <1>3, <1>4
  <1>. QED
    BY <1>1, <1>3, <1>4, <1>5, Arrive

LEMMA SayNoiseInv ==
    ASSUME IInv, SayNoise
    PROVE  IInv'
  <1>1. inbox' = Append(inbox, Addon)
    BY DEF SayNoise
  <1>2. Addon \in Packets /\ Addon.kind = "addon"
    BY DEF Addon, Packets
  <1>3. /\ said' \in [Senders -> Nat] /\ \A g \in Senders : said[g] <= said'[g]
        /\ UNCHANGED <<asked, names, pending, out, wanted, reroutes, posted, broken>>
    BY DEF SayNoise, IInv, Typed
  <1>. QED
    BY <1>1, <1>2, <1>3, Arrive

\* A query becomes an answer.
LEMMA AnswerInv ==
    ASSUME IInv, NEW g \in Players, NEW yes \in BOOLEAN, AnswerQuery(g, yes)
    PROVE  IInv'
  <1>. DEFINE p == Answer(g, yes)
  <1>1. /\ inbox \in Seq(Packets) /\ asked \in [Players -> Nat] /\ asked[g] > 0
        /\ asked' = [asked EXCEPT ![g] = asked[g] - 1] /\ inbox' = Append(inbox, p)
        /\ UNCHANGED <<said, names, pending, out, wanted, reroutes, posted, broken>>
    BY DEF AnswerQuery, IInv, Typed
  <1>2. p \in Packets /\ p.kind = "name" /\ p.guid = g
    BY DEF Answer, Packets
  <1>. HIDE DEF p
  <1>3. /\ inbox' \in Seq(Packets) /\ Len(inbox) \in Nat
        /\ Len(inbox') = Len(inbox) + 1
        /\ \A i \in 1 .. Len(inbox) : inbox'[i] = inbox[i]
        /\ inbox'[Len(inbox) + 1] = p
    BY <1>1, <1>2, AppendProperties, LenProperties
  <1>4. asked' \in [Players -> Nat]
    BY <1>1
  <1>5. Typed'
    BY <1>1, <1>3, <1>4 DEF IInv, Typed
  <1>6. Said'
    <2>1. ASSUME NEW i \in 1 .. Len(inbox'), inbox'[i].kind = "chat"
          PROVE  inbox'[i].n \in 1 .. said[inbox'[i].guid]
      <3>1. CASE i \in 1 .. Len(inbox)
        BY <1>3, <2>1, <3>1 DEF IInv, Said
      <3>2. CASE i = Len(inbox) + 1
        BY <1>2, <1>3, <2>1, <3>2
      <3>. QED
        BY <1>3, <3>1, <3>2
    <2>. QED
      BY <1>1, <2>1 DEF IInv, Said
  <1>7. Queries'
    <2>1. ASSUME NEW h \in Players
          PROVE  asked'[h] + Under(inbox', h) = asked[h] + Under(inbox, h)
      <3>1. Under(inbox, h) \in Nat
        BY <1>1, UnderType
      <3>2. CASE h = g
        <4>1. Under(inbox', h) = Under(inbox, h) + 1
          BY <1>1, <1>2, <3>2, UnderAppend
        <4>2. asked'[h] = asked[h] - 1 /\ asked[h] \in Nat
          BY <1>1, <3>2
        <4>. QED
          BY <3>1, <4>1, <4>2
      <3>3. CASE h # g
        <4>1. Under(inbox', h) = Under(inbox, h)
          BY <1>1, <1>2, <3>3, UnderAppend
        <4>2. asked'[h] = asked[h]
          BY <1>1, <3>3
        <4>. QED
          BY <4>1, <4>2
      <3>. QED
        BY <3>2, <3>3
    <2>. QED
      BY <1>1, <2>1 DEF IInv, Queries
  <1>8. Named' /\ NameStays'
    BY <1>1 DEF IInv, Named, NameStays, Known
  <1>. QED
    BY <1>5, <1>6, <1>7, <1>8 DEF IInv

\* The connection breaks, or the routes change.
LEMMA OutsideInv ==
    ASSUME IInv, Break \/ Reroute
    PROVE  IInv'
  <1>1. CASE Break
    BY <1>1 DEF Break, IInv, Typed, Said, Queries, Named, NameStays, Known
  <1>2. CASE Reroute
    <2>1. /\ reroutes' \in 0 .. MaxReroutes /\ wanted' \in BOOLEAN
          /\ UNCHANGED <<said, inbox, asked, names, pending, out, posted, broken>>
      BY <1>2, RelayAssumption DEF Reroute, IInv, Typed
    <2>. QED
      BY <2>1 DEF IInv, Typed, Said, Queries, Named, NameStays, Known
  <1>. QED
    BY <1>1, <1>2

-----------------------------------------------------------------------------
(* The handlers. *)

\* The next packet is taken from the inbox.
LEMMA Take ==
    ASSUME IInv, inbox # <<>>, inbox' = Tail(inbox), UNCHANGED said
    PROVE  /\ inbox' \in Seq(Packets) /\ Head(inbox) \in Packets
           /\ \A i \in 1 .. Len(inbox') :
                inbox'[i].kind = "chat" => inbox'[i].n \in 1 .. said'[inbox'[i].guid]
           /\ Head(inbox).kind = "chat" =>
                /\ Head(inbox).guid \in Senders /\ Head(inbox).n \in Nat
                /\ Head(inbox).n \in 1 .. said[Head(inbox).guid]
           /\ Head(inbox).kind = "name" =>
                /\ Head(inbox).guid \in Players /\ Head(inbox).known \in BOOLEAN
  <1>1. inbox \in Seq(Packets)
    BY DEF IInv, Typed
  <1>2. /\ inbox' \in Seq(Packets) /\ Len(inbox) \in Nat /\ Len(inbox) > 0
        /\ Len(inbox') = Len(inbox) - 1
        /\ \A i \in 1 .. Len(inbox') : inbox'[i] = inbox[i + 1]
        /\ Head(inbox) = inbox[1]
    BY <1>1, HeadTailProperties, LenProperties, EmptySeq
  <1>3. 1 \in 1 .. Len(inbox)
    BY <1>2
  <1>4. Head(inbox) \in Packets
    BY <1>1, <1>2, <1>3, ElementOfSeq
  <1>5. ASSUME NEW i \in 1 .. Len(inbox'), inbox'[i].kind = "chat"
        PROVE  inbox'[i].n \in 1 .. said'[inbox'[i].guid]
    <2>1. i + 1 \in 1 .. Len(inbox) /\ inbox'[i] = inbox[i + 1]
      BY <1>2
    <2>. QED
      BY <1>5, <2>1 DEF IInv, Said
  <1>6. Head(inbox).kind = "chat" => Head(inbox).n \in 1 .. said[Head(inbox).guid]
    BY <1>2, <1>3 DEF IInv, Said
  <1>. QED
    BY <1>2, <1>4, <1>5, <1>6 DEF Packets, Addon

\* A packet that leaves nothing behind.
LEMMA DropInv ==
    ASSUME IInv, IgnoreChat \/ DropChat
    PROVE  IInv'
  <1>1. /\ inbox # <<>> /\ inbox' = Tail(inbox) /\ Head(inbox).kind # "name"
        /\ UNCHANGED <<said, asked, names, pending, out, wanted, reroutes, posted, broken>>
    BY DEF IgnoreChat, DropChat, Handling
  <1>2. /\ inbox' \in Seq(Packets)
        /\ \A i \in 1 .. Len(inbox') :
             inbox'[i].kind = "chat" => inbox'[i].n \in 1 .. said'[inbox'[i].guid]
    BY <1>1, Take
  <1>3. \A g \in Players : Under(inbox', g) = Under(inbox, g)
    BY <1>1, UnderTail DEF IInv, Typed
  <1>4. Typed' /\ Said'
    BY <1>1, <1>2 DEF IInv, Typed, Said
  <1>5. Queries'
    BY <1>1, <1>3 DEF IInv, Queries
  <1>6. Named' /\ NameStays'
    BY <1>1 DEF IInv, Named, NameStays, Known
  <1>. QED
    BY <1>4, <1>5, <1>6 DEF IInv

\* A message under a known name, or of nobody.
LEMMA PassInv ==
    ASSUME IInv, PassChat
    PROVE  IInv'
  <1>. DEFINE m == Head(inbox)
              l == Line(m.guid, m.n, m.guid)
  <1>1. /\ inbox # <<>> /\ inbox' = Tail(inbox) /\ m.kind = "chat"
        /\ m.guid \in Known /\ out' = <<l>>
        /\ UNCHANGED <<said, asked, names, pending, wanted, reroutes, posted, broken>>
    BY DEF PassChat, Handling, Known
  <1>2. /\ inbox' \in Seq(Packets) /\ m.guid \in Senders /\ m.n \in Nat
        /\ m.n \in 1 .. said[m.guid]
        /\ \A i \in 1 .. Len(inbox') :
             inbox'[i].kind = "chat" => inbox'[i].n \in 1 .. said'[inbox'[i].guid]
    BY <1>1, Take
  <1>3. \A g \in Players : Under(inbox', g) = Under(inbox, g)
    BY <1>1, UnderTail DEF IInv, Typed
  <1>4. l \in Lines /\ l.guid = m.guid /\ l.n = m.n /\ l.name = m.guid
    BY <1>2 DEF Line, Lines
  <1>. HIDE DEF l, m
  <1>5. out' \in Seq(Lines) /\ Len(out') = 1 /\ out'[1] = l
    BY <1>1, <1>4
  <1>6. Typed' /\ Said'
    BY <1>1, <1>2, <1>4, <1>5 DEF IInv, Typed, Said
  <1>7. Queries'
    BY <1>1, <1>3 DEF IInv, Queries
  <1>8. Named' /\ NameStays'
    BY <1>1, <1>4, <1>5 DEF IInv, Named, NameStays, Known
  <1>. QED
    BY <1>6, <1>7, <1>8 DEF IInv

\* A message that waits for its name.
LEMMA KeepInv ==
    ASSUME IInv, KeepChat
    PROVE  IInv'
  <1>. DEFINE m == Head(inbox)
              g == m.guid
              more == Append(pending[g], m.n)
  <1>1. /\ inbox # <<>> /\ inbox' = Tail(inbox) /\ m.kind = "chat"
        /\ g \notin names \cup {Nobody}
        /\ pending' = [pending EXCEPT ![g] = more]
        /\ asked' = IF pending[g] = <<>> /\ ~broken
                      THEN [asked EXCEPT ![g] = asked[g] + 1] ELSE asked
        /\ UNCHANGED <<said, names, out, wanted, reroutes, posted, broken>>
    BY DEF KeepChat, Handling
  <1>2. /\ inbox' \in Seq(Packets) /\ g \in Senders /\ m.n \in Nat
        /\ m.n \in 1 .. said[g]
        /\ \A i \in 1 .. Len(inbox') :
             inbox'[i].kind = "chat" => inbox'[i].n \in 1 .. said'[inbox'[i].guid]
    BY <1>1, Take
  <1>3. \A h \in Players : Under(inbox', h) = Under(inbox, h) /\ Under(inbox, h) \in Nat
    BY <1>1, UnderTail, UnderType DEF IInv, Typed
  <1>4. g \in Players
    BY <1>1, <1>2 DEF Senders
  <1>5. /\ pending[g] \in Seq(Nat) /\ pending \in [Players -> Seq(Nat)]
        /\ asked \in [Players -> Nat] /\ asked[g] \in Nat
    BY <1>4 DEF IInv, Typed
  <1>6. /\ more \in Seq(Nat) /\ Len(pending[g]) \in Nat
        /\ Len(more) = Len(pending[g]) + 1
        /\ \A i \in 1 .. Len(pending[g]) : more[i] = pending[g][i]
        /\ more[Len(pending[g]) + 1] = m.n
    BY <1>2, <1>5, AppendProperties, LenProperties
  <1>7. more # <<>>
    BY <1>6, EmptySeq
  <1>. HIDE DEF m, g, more
  <1>8. /\ pending' \in [Players -> Seq(Nat)]
        /\ \A h \in Players : pending'[h] = IF h = g THEN more ELSE pending[h]
    BY <1>1, <1>4, <1>5, <1>6
  <1>9. /\ asked' \in [Players -> Nat]
        /\ \A h \in Players : asked'[h] = IF h = g /\ pending[g] = <<>> /\ ~broken
                                            THEN asked[h] + 1 ELSE asked[h]
    BY <1>1, <1>4, <1>5
  <1>10. Typed'
    BY <1>1, <1>2, <1>8, <1>9 DEF IInv, Typed
  <1>11. Said'
    <2>1. ASSUME NEW h \in Players, NEW i \in 1 .. Len(pending'[h])
          PROVE  pending'[h][i] \in 1 .. said[h]
      <3>1. CASE h # g
        BY <1>8, <3>1 DEF IInv, Said
      <3>2. CASE h = g
        <4>1. pending'[h] = more
          BY <1>8, <3>2
        <4>2. i \in 1 .. Len(pending[g]) \/ i = Len(pending[g]) + 1
          BY <1>6, <4>1
        <4>3. CASE i \in 1 .. Len(pending[g])
          BY <1>4, <1>6, <3>2, <4>1, <4>3 DEF IInv, Said
        <4>4. CASE i = Len(pending[g]) + 1
          BY <1>2, <1>6, <3>2, <4>1, <4>4
        <4>. QED
          BY <4>2, <4>3, <4>4
      <3>. QED
        BY <3>1, <3>2
    <2>. QED
      BY <1>1, <1>2, <2>1 DEF IInv, Said
  <1>12. Queries'
    <2>1. ASSUME NEW h \in Players
          PROVE  /\ asked'[h] + Under(inbox', h) <= 1
                 /\ ~broken' => asked'[h] + Under(inbox', h)
                                  = IF pending'[h] = <<>> THEN 0 ELSE 1
                 /\ h \in names' => pending'[h] = <<>>
                                    /\ asked'[h] + Under(inbox', h) = 0
      <3>1. CASE h # g
        BY <1>1, <1>3, <1>8, <1>9, <3>1 DEF IInv, Queries
      <3>2. CASE h = g
        <4>1. /\ asked[g] + Under(inbox, g) <= 1
              /\ ~broken => asked[g] + Under(inbox, g)
                              = IF pending[g] = <<>> THEN 0 ELSE 1
          BY <1>4 DEF IInv, Queries
        <4>2. g \notin names' /\ pending'[g] # <<>>
          BY <1>1, <1>4, <1>7, <1>8
        <4>3. Under(inbox', g) = Under(inbox, g) /\ Under(inbox, g) \in Nat
          BY <1>3, <1>4
        <4>4. asked'[g] = IF pending[g] = <<>> /\ ~broken THEN asked[g] + 1 ELSE asked[g]
          BY <1>4, <1>9
        <4>. QED
          BY <1>1, <1>5, <3>2, <4>1, <4>2, <4>3, <4>4
      <3>. QED
        BY <3>1, <3>2
    <2>. QED
      BY <2>1 DEF Queries
  <1>13. Named' /\ NameStays'
    BY <1>1 DEF IInv, Named, NameStays, Known
  <1>. QED
    BY <1>10, <1>11, <1>12, <1>13 DEF IInv

\* The answer about a sender, and the messages that have waited for it.
LEMMA TakeNameInv ==
    ASSUME IInv, TakeName
    PROVE  IInv'
  <1>. DEFINE m == Head(inbox)
              g == m.guid
              name == IF m.known THEN g ELSE "UNKNOWN"
              lines == Queued(g, name)
  <1>1. /\ inbox # <<>> /\ inbox' = Tail(inbox) /\ m.kind = "name" /\ out = <<>>
        /\ out' = lines /\ pending' = [pending EXCEPT ![g] = <<>>]
        /\ names' = IF m.known THEN names \cup {g} ELSE names
        /\ UNCHANGED <<said, asked, wanted, reroutes, posted, broken>>
    BY DEF TakeName, Handling
  <1>2. /\ inbox' \in Seq(Packets) /\ g \in Players /\ m.known \in BOOLEAN
        /\ \A i \in 1 .. Len(inbox') :
             inbox'[i].kind = "chat" => inbox'[i].n \in 1 .. said'[inbox'[i].guid]
    BY <1>1, Take
  <1>3. /\ \A h \in Players : Under(inbox', h) \in Nat
        /\ \A h \in Players : h # g => Under(inbox', h) = Under(inbox, h)
        /\ Under(inbox, g) = Under(inbox', g) + 1
    BY <1>1, <1>2, UnderTail, UnderType DEF IInv, Typed
  <1>4. /\ pending \in [Players -> Seq(Nat)] /\ pending[g] \in Seq(Nat)
        /\ Len(pending[g]) \in Nat
        /\ \A i \in 1 .. Len(pending[g]) : pending[g][i] \in Nat
        /\ asked \in [Players -> Nat] /\ asked[g] \in Nat
        /\ names \in SUBSET Players
    BY <1>2, LenProperties, ElementOfSeq DEF IInv, Typed
  <1>. DEFINE n == Len(pending[g])
  <1>5. /\ lines = [i \in 1 .. n |-> Line(g, pending[g][i], name)]
        /\ name \in Senders \cup {"UNKNOWN"} /\ g \in Senders
    BY <1>2 DEF Queued, Senders
  <1>6. \A i \in 1 .. n : Line(g, pending[g][i], name) \in Lines
    BY <1>4, <1>5 DEF Line, Lines
  <1>7. /\ out' \in Seq(Lines) /\ Len(out') = n
        /\ \A i \in 1 .. n : out'[i] = Line(g, pending[g][i], name)
    <2>. HIDE DEF name, n, lines, g
    <2>. QED
      BY <1>1, <1>4, <1>5, <1>6 DEF n
  <1>8. \A i \in 1 .. n : /\ out'[i].guid = g /\ out'[i].n = pending[g][i]
                         /\ out'[i].name = name
    <2>. HIDE DEF name, n, lines, g
    <2>. QED
      BY <1>7 DEF Line
  <1>9. name = IF m.known THEN g ELSE "UNKNOWN"
    OBVIOUS
  <1>. HIDE DEF m, g, name, lines, n
  <1>10. <<>> \in Seq(Nat) /\ Len(<<>>) = 0
    BY EmptySeq
  <1>11. /\ pending' \in [Players -> Seq(Nat)]
         /\ \A h \in Players : pending'[h] = IF h = g THEN <<>> ELSE pending[h]
    BY <1>1, <1>2, <1>4, <1>10
  <1>12. Typed'
    BY <1>1, <1>2, <1>4, <1>7, <1>11 DEF IInv, Typed
  <1>13. Said'
    <2>1. ASSUME NEW h \in Players, NEW i \in 1 .. Len(pending'[h])
          PROVE  pending'[h][i] \in 1 .. said[h]
      <3>1. h # g
        BY <1>10, <1>11
      <3>. QED
        BY <1>11, <3>1 DEF IInv, Said
    <2>2. ASSUME NEW i \in 1 .. Len(out') PROVE out'[i].n \in 1 .. said[out'[i].guid]
      <3>1. i \in 1 .. n /\ n = Len(pending[g])
        BY <1>7 DEF n
      <3>2. out'[i].guid = g /\ out'[i].n = pending[g][i]
        BY <1>8, <3>1
      <3>. QED
        BY <1>2, <3>1, <3>2 DEF IInv, Said
    <2>. QED
      BY <1>1, <1>2, <2>1, <2>2 DEF Said
  <1>14. g \notin names /\ asked[g] = 0 /\ Under(inbox', g) = 0
    <2>1. /\ asked[g] + Under(inbox, g) <= 1
          /\ g \in names => asked[g] + Under(inbox, g) = 0
      BY <1>2 DEF IInv, Queries
    <2>2. Under(inbox', g) \in Nat /\ Under(inbox, g) = Under(inbox', g) + 1
      BY <1>2, <1>3
    <2>. QED
      BY <1>4, <2>1, <2>2
  <1>15. Queries'
    <2>1. ASSUME NEW h \in Players
          PROVE  /\ asked'[h] + Under(inbox', h) <= 1
                 /\ ~broken' => asked'[h] + Under(inbox', h)
                                  = IF pending'[h] = <<>> THEN 0 ELSE 1
                 /\ h \in names' => pending'[h] = <<>>
                                    /\ asked'[h] + Under(inbox', h) = 0
      <3>1. CASE h # g
        <4>1. h \in names' <=> h \in names
          BY <1>1, <3>1
        <4>. QED
          BY <1>1, <1>3, <1>11, <3>1, <4>1 DEF IInv, Queries
      <3>2. CASE h = g
        BY <1>1, <1>2, <1>11, <1>14, <3>2
      <3>. QED
        BY <3>1, <3>2
    <2>. QED
      BY <2>1 DEF Queries
  <1>16. Named'
    <2>1. g \in Known' <=> m.known
      BY <1>1, <1>2, <1>14, RelayAssumption DEF Known
    <2>2. Known \subseteq Known'
      BY <1>1 DEF Known
    <2>. QED
      BY <1>1, <1>7, <1>8, <1>9, <2>1, <2>2 DEF IInv, Named
  <1>17. NameStays'
    BY <1>1 DEF IInv, NameStays
  <1>. QED
    BY <1>12, <1>13, <1>15, <1>16, <1>17 DEF IInv

\* A line is posted, or has no target by now.
LEMMA SendInv ==
    ASSUME IInv, SendFromWoW
    PROVE  IInv'
  <1>. DEFINE l == Head(out)
  <1>1. /\ out # <<>> /\ out' = Tail(out)
        /\ posted' = IF wanted THEN Append(posted, l) ELSE posted
        /\ UNCHANGED <<said, inbox, asked, names, pending, wanted, reroutes, broken>>
    BY DEF SendFromWoW
  <1>2. out \in Seq(Lines) /\ posted \in Seq(Lines)
    BY DEF IInv, Typed
  <1>3. /\ out' \in Seq(Lines) /\ Len(out) \in Nat /\ Len(out) > 0
        /\ Len(out') = Len(out) - 1
        /\ \A i \in 1 .. Len(out') : out'[i] = out[i + 1]
        /\ l = out[1] /\ 1 \in 1 .. Len(out)
    BY <1>1, <1>2, HeadTailProperties, LenProperties, EmptySeq
  <1>4. l \in Lines
    BY <1>2, <1>3, ElementOfSeq
  <1>5. IF l.guid \in Known THEN l.name = l.guid ELSE l.name = "UNKNOWN"
    BY <1>3 DEF IInv, Named
  <1>. HIDE DEF l
  <1>6. \A i \in 1 .. Len(out') : i + 1 \in 1 .. Len(out) /\ out'[i] = out[i + 1]
    BY <1>3
  <1>7. /\ posted' \in Seq(Lines) /\ Len(posted) \in Nat
        /\ wanted => /\ Len(posted') = Len(posted) + 1
                     /\ \A i \in 1 .. Len(posted) : posted'[i] = posted[i]
                     /\ posted'[Len(posted) + 1] = l
        /\ ~wanted => posted' = posted
    BY <1>1, <1>2, <1>4, AppendProperties, LenProperties
  <1>8. Typed' /\ Queries'
    BY <1>1, <1>3, <1>7 DEF IInv, Typed, Queries
  <1>9. Said'
    BY <1>1, <1>6 DEF IInv, Said
  <1>10. \A i \in 1 .. Len(posted') :
           \/ i \in 1 .. Len(posted) /\ posted'[i] = posted[i]
           \/ wanted /\ i = Len(posted) + 1 /\ posted'[i] = l
    BY <1>7
  <1>11. Named'
    <2>1. Known' = Known
      BY <1>1 DEF Known
    <2>2. ASSUME NEW i \in 1 .. Len(posted')
          PROVE  \/ posted'[i].name = "UNKNOWN"
                 \/ posted'[i].name = posted'[i].guid /\ posted'[i].guid \in Known
      BY <1>5, <1>10 DEF IInv, Named
    <2>3. ASSUME NEW i \in 1 .. Len(out')
          PROVE  IF out'[i].guid \in Known THEN out'[i].name = out'[i].guid
                                           ELSE out'[i].name = "UNKNOWN"
      BY <1>6 DEF IInv, Named
    <2>. QED
      BY <2>1, <2>2, <2>3 DEF Named
  <1>12. NameStays'
    <2>1. ASSUME NEW i \in 1 .. Len(posted'), NEW j \in 1 .. Len(posted'), i < j,
                 posted'[i].guid = posted'[j].guid, posted'[i].name # "UNKNOWN"
          PROVE  posted'[j].name # "UNKNOWN"
      <3>1. i \in 1 .. Len(posted) /\ posted'[i] = posted[i]
        BY <1>7, <1>10, <2>1
      <3>2. CASE j \in 1 .. Len(posted) /\ posted'[j] = posted[j]
        BY <2>1, <3>1, <3>2 DEF IInv, NameStays
      <3>3. CASE posted'[j] = l
        <4>1. posted[i].name = posted[i].guid /\ posted[i].guid \in Known
          BY <2>1, <3>1 DEF IInv, Named
        <4>. QED
          BY <1>5, <2>1, <3>1, <3>3, <4>1
      <3>. QED
        BY <1>10, <3>2, <3>3
    <2>. QED
      BY <2>1 DEF NameStays
  <1>. QED
    BY <1>8, <1>9, <1>11, <1>12 DEF IInv

-----------------------------------------------------------------------------
(* The invariant and the properties. *)

LEMMA InitInv == Init => IInv
  <1>. SUFFICES ASSUME Init PROVE IInv
    OBVIOUS
  <1>1. /\ Len(<<>>) = 0 /\ <<>> \in Seq(Packets) /\ <<>> \in Seq(Lines)
        /\ <<>> \in Seq(Nat)
    BY EmptySeq
  <1>2. ASSUME NEW g PROVE Under(<<>>, g) = 0
    BY <1>1, FS_EmptySet DEF Under, Answers
  <1>3. Typed
    <2>1. /\ said \in [Senders -> Nat] /\ asked \in [Players -> Nat]
          /\ pending \in [Players -> Seq(Nat)]
      BY <1>1 DEF Init
    <2>2. inbox \in Seq(Packets) /\ out \in Seq(Lines) /\ posted \in Seq(Lines)
      BY <1>1 DEF Init
    <2>3. names \in SUBSET Players /\ reroutes \in 0 .. MaxReroutes
      BY RelayAssumption DEF Init
    <2>4. wanted \in BOOLEAN /\ broken \in BOOLEAN
      BY DEF Init
    <2>. QED
      BY <2>1, <2>2, <2>3, <2>4 DEF Typed
  <1>4. Said
    BY <1>1 DEF Init, Said
  <1>5. Queries
    BY <1>2 DEF Init, Queries
  <1>6. Named /\ NameStays
    BY <1>1 DEF Init, Named, NameStays
  <1>. QED
    BY <1>3, <1>4, <1>5, <1>6 DEF IInv

LEMMA NextInv == IInv /\ [Next]_vars => IInv'
  <1>. SUFFICES ASSUME IInv, [Next]_vars PROVE IInv'
    OBVIOUS
  <1>1. CASE Server
    BY <1>1, SayInv, SayNoiseInv, AnswerInv DEF Server
  <1>2. CASE Break \/ Reroute
    BY <1>2, OutsideInv
  <1>3. CASE Handlers
    BY <1>3, DropInv, PassInv, KeepInv, TakeNameInv, SendInv DEF Handlers
  <1>4. CASE UNCHANGED vars
    BY <1>4 DEF vars, IInv, Typed, Said, Queries, Named, NameStays, Known
  <1>. QED
    BY <1>1, <1>2, <1>3, <1>4 DEF Next

\* In whatever order the server, the routes and the handlers take their turns, the
\* inductive invariant holds.
THEOREM Invariance == Spec => []IInv
  BY InitInv, NextInv, PTL DEF Spec

\* The relay's state has its types, and keeps or passes on only what has been said.
THEOREM TypeCorrect == Spec => []TypeOK
  <1>1. IInv => TypeOK
    <2>. SUFFICES ASSUME IInv PROVE TypeOK
      OBVIOUS
    <2>1. Typed
      BY DEF IInv
    <2>2. \A i \in 1 .. Len(inbox) : inbox[i].kind \in {"chat", "name", "addon"}
      <3>1. \A i \in 1 .. Len(inbox) : inbox[i] \in Packets
        BY <2>1, ElementOfSeq DEF Typed
      <3>. QED
        BY <3>1 DEF Packets, Addon
    <2>3. asked \in [Players -> 0 .. 1]
      <3>1. ASSUME NEW g \in Players PROVE asked[g] \in 0 .. 1
        <4>1. asked[g] \in Nat /\ Under(inbox, g) \in Nat
          BY <2>1, UnderType DEF Typed
        <4>2. asked[g] + Under(inbox, g) <= 1
          BY DEF IInv, Queries
        <4>. QED
          BY <4>1, <4>2
      <3>. QED
        BY <2>1, <3>1 DEF Typed
    <2>4. ASSUME NEW g \in Players PROVE pending[g] \in Seq(1 .. said[g])
      <3>1. /\ pending[g] \in Seq(Nat)
            /\ \A i \in 1 .. Len(pending[g]) : pending[g][i] \in 1 .. said[g]
        BY <2>1 DEF Typed, IInv, Said
      <3>. DEFINE s == pending[g]
                  n == Len(s)
      <3>2. n \in Nat /\ s \in [1 .. n -> Nat]
        BY <3>1, LenProperties
      <3>3. s = [i \in 1 .. n |-> s[i]]
        BY <3>2
      <3>. HIDE DEF s, n
      <3>4. [i \in 1 .. n |-> s[i]] \in Seq(1 .. said[g])
        BY <3>1, <3>2 DEF s, n
      <3>. QED
        BY <3>3, <3>4 DEF s
    <2>5. \A i \in 1 .. Len(out) : out[i].guid \in Senders
      <3>1. \A i \in 1 .. Len(out) : out[i] \in Lines
        BY <2>1, ElementOfSeq DEF Typed
      <3>. QED
        BY <3>1 DEF Lines
    <2>6. \A i \in 1 .. Len(out) : out[i].n \in 1 .. said[out[i].guid]
      BY DEF IInv, Said
    <2>. QED
      BY <2>1, <2>2, <2>3, <2>4, <2>5, <2>6 DEF Typed, TypeOK
  <1>. QED
    BY <1>1, Invariance, PTL

\* A sender whose messages wait has one query or answer under way, and any other
\* none.
THEOREM OneQueryEachCorrect == Spec => []OneQueryEach
  <1>1. IInv => OneQueryEach
    BY DEF IInv, Queries, Under, OneQueryEach
  <1>. QED
    BY <1>1, Invariance, PTL

\* Nobody who has been posted under a name becomes UNKNOWN again.
THEOREM NameStaysCorrect == Spec => []NameStays
  <1>1. IInv => NameStays
    BY DEF IInv
  <1>. QED
    BY <1>1, Invariance, PTL

-----------------------------------------------------------------------------
(* The relay keeps SenderFifo's promise: the messages of a sender on their way are *)
(* the lines still to be sent, then the messages kept, then those in the inbox.    *)

\* The numbers of the messages of a sender, among lines and among packets.
LineNumbers(s, g) == Numbers(Picked(s, LinesOf(g)))
ChatNumbers(s, g) == Numbers(Picked(s, ChatsOf(g)))

\* The numbers of numbered records.
LEMMA NumbersType ==
    ASSUME NEW S, \A e \in S : e.n \in Nat, NEW s \in Seq(S)
    PROVE  /\ Numbers(s) \in Seq(Nat) /\ Len(Numbers(s)) = Len(s)
           /\ \A i \in 1 .. Len(s) : Numbers(s)[i] = s[i].n
  <1>1. Len(s) \in Nat /\ \A i \in 1 .. Len(s) : s[i] \in S
    BY LenProperties, ElementOfSeq
  <1>2. \A i \in 1 .. Len(s) : s[i].n \in Nat
    BY <1>1
  <1>. QED
    BY <1>1, <1>2 DEF Numbers

\* One record more at the end.
LEMMA NumbersAppend ==
    ASSUME NEW S, \A e \in S : e.n \in Nat, NEW s \in Seq(S), NEW e \in S
    PROVE  Numbers(Append(s, e)) = Append(Numbers(s), e.n)
  <1>. DEFINE t == Append(s, e)
  <1>1. /\ t \in Seq(S) /\ Len(s) \in Nat /\ Len(t) = Len(s) + 1
        /\ \A i \in 1 .. Len(s) : t[i] = s[i]
        /\ t[Len(s) + 1] = e
    BY AppendProperties, LenProperties
  <1>. HIDE DEF t
  <1>2. /\ Numbers(s) \in Seq(Nat) /\ Len(Numbers(s)) = Len(s)
        /\ \A i \in 1 .. Len(s) : Numbers(s)[i] = s[i].n
    BY NumbersType
  <1>3. /\ Numbers(t) \in Seq(Nat) /\ Len(Numbers(t)) = Len(t)
        /\ \A i \in 1 .. Len(t) : Numbers(t)[i] = t[i].n
    BY <1>1, NumbersType
  <1>. DEFINE u == Append(Numbers(s), e.n)
  <1>4. /\ u \in Seq(Nat) /\ Len(u) = Len(s) + 1
        /\ \A i \in 1 .. Len(s) : u[i] = s[i].n
        /\ u[Len(s) + 1] = e.n
    BY <1>2, AppendProperties
  <1>. HIDE DEF u
  <1>5. \A i \in 1 .. Len(u) : u[i] = Numbers(t)[i]
    <2>. TAKE i \in 1 .. Len(u)
    <2>1. i \in 1 .. Len(s) \/ i = Len(s) + 1
      BY <1>1, <1>4
    <2>. QED
      BY <1>1, <1>3, <1>4, <2>1
  <1>6. u = Numbers(t)
    BY <1>1, <1>3, <1>4, <1>5, SeqEqual
  <1>. QED
    BY <1>6 DEF t, u

\* One record more in front.
LEMMA NumbersCons ==
    ASSUME NEW S, \A e \in S : e.n \in Nat, NEW s \in Seq(S), NEW e \in S
    PROVE  Numbers(<<e>> \o s) = <<e.n>> \o Numbers(s)
  <1>. DEFINE t == <<e>> \o s
              u == <<e.n>> \o Numbers(s)
  <1>1. /\ <<e>> \in Seq(S) /\ Len(<<e>>) = 1 /\ <<e>>[1] = e
        /\ <<e.n>> \in Seq(Nat) /\ Len(<<e.n>>) = 1 /\ <<e.n>>[1] = e.n
        /\ Len(s) \in Nat
    BY LenProperties
  <1>2. /\ Numbers(s) \in Seq(Nat) /\ Len(Numbers(s)) = Len(s)
        /\ \A i \in 1 .. Len(s) : Numbers(s)[i] = s[i].n
    BY NumbersType
  <1>3. /\ t \in Seq(S) /\ Len(t) = Len(s) + 1 /\ t[1] = e
        /\ \A i \in 2 .. Len(s) + 1 : t[i] = s[i - 1]
    BY <1>1, ConcatProperties
  <1>4. /\ u \in Seq(Nat) /\ Len(u) = Len(s) + 1 /\ u[1] = e.n
        /\ \A i \in 2 .. Len(s) + 1 : u[i] = s[i - 1].n
    BY <1>1, <1>2, ConcatProperties
  <1>. HIDE DEF t, u
  <1>5. /\ Numbers(t) \in Seq(Nat) /\ Len(Numbers(t)) = Len(t)
        /\ \A i \in 1 .. Len(t) : Numbers(t)[i] = t[i].n
    BY <1>3, NumbersType
  <1>6. \A i \in 1 .. Len(u) : u[i] = Numbers(t)[i]
    <2>. TAKE i \in 1 .. Len(u)
    <2>1. i = 1 \/ i \in 2 .. Len(s) + 1
      BY <1>1, <1>4
    <2>. QED
      BY <1>1, <1>3, <1>4, <1>5, <2>1
  <1>7. u = Numbers(t)
    BY <1>1, <1>3, <1>4, <1>5, <1>6, SeqEqual
  <1>. QED
    BY <1>7 DEF t, u

-----------------------------------------------------------------------------
(* Chat packets and lines. *)

\* Which packets and lines are of a sender.
LEMMA Belongs ==
    ASSUME NEW g \in Senders
    PROVE  /\ \A p \in Packets : p \in ChatsOf(g) <=> p.kind = "chat" /\ p.guid = g
           /\ \A l \in Lines : l \in LinesOf(g) <=> l.guid = g
           /\ \A p \in ChatsOf(g) : p.n \in Nat
           /\ \A l \in LinesOf(g) : l.n \in Nat
  <1>1. \A p \in Packets : p \in ChatsOf(g) <=> p.kind = "chat" /\ p.guid = g
    BY DEF Packets, ChatsOf, Addon
  <1>2. \A l \in Lines : l \in LinesOf(g) <=> l.guid = g
    BY DEF Lines, LinesOf
  <1>. QED
    BY <1>1, <1>2 DEF ChatsOf, LinesOf

\* Their numbers are numbers.
LEMMA ChatNumbersType ==
    ASSUME NEW g \in Senders, NEW s \in Seq(Packets)
    PROVE  /\ Picked(s, ChatsOf(g)) \in Seq(ChatsOf(g))
           /\ ChatNumbers(s, g) \in Seq(Nat)
  <1>1. Picked(s, ChatsOf(g)) \in Seq(Packets \cap ChatsOf(g))
    BY PickedType
  <1>2. Picked(s, ChatsOf(g)) \in Seq(ChatsOf(g))
    <2>1. Packets \cap ChatsOf(g) \subseteq ChatsOf(g)
      OBVIOUS
    <2>. QED
      BY <1>1, <2>1, SeqMonotonic
  <1>. QED
    BY <1>2, Belongs, NumbersType DEF ChatNumbers

\* The same of lines.
LEMMA LineNumbersType ==
    ASSUME NEW g \in Senders, NEW s \in Seq(Lines)
    PROVE  /\ Picked(s, LinesOf(g)) \in Seq(LinesOf(g))
           /\ LineNumbers(s, g) \in Seq(Nat)
  <1>1. Picked(s, LinesOf(g)) \in Seq(Lines \cap LinesOf(g))
    BY PickedType
  <1>2. Picked(s, LinesOf(g)) \in Seq(LinesOf(g))
    <2>1. Lines \cap LinesOf(g) \subseteq LinesOf(g)
      OBVIOUS
    <2>. QED
      BY <1>1, <2>1, SeqMonotonic
  <1>. QED
    BY <1>2, Belongs, NumbersType DEF LineNumbers

\* A packet arrives.
LEMMA ChatAppend ==
    ASSUME NEW g \in Senders, NEW s \in Seq(Packets), NEW p \in Packets
    PROVE  ChatNumbers(Append(s, p), g)
             = IF p.kind = "chat" /\ p.guid = g THEN Append(ChatNumbers(s, g), p.n)
                                                ELSE ChatNumbers(s, g)
  <1>1. p \in ChatsOf(g) <=> p.kind = "chat" /\ p.guid = g
    BY Belongs
  <1>2. Picked(Append(s, p), ChatsOf(g))
          = IF p \in ChatsOf(g) THEN Append(Picked(s, ChatsOf(g)), p)
                                ELSE Picked(s, ChatsOf(g))
    BY PickedAppend
  <1>3. p \in ChatsOf(g) => Numbers(Append(Picked(s, ChatsOf(g)), p))
                              = Append(Numbers(Picked(s, ChatsOf(g))), p.n)
    BY ChatNumbersType, Belongs, NumbersAppend
  <1>. QED
    BY <1>1, <1>2, <1>3 DEF ChatNumbers

\* A packet is taken.
LEMMA ChatHead ==
    ASSUME NEW g \in Senders, NEW s \in Seq(Packets), s # <<>>
    PROVE  ChatNumbers(s, g)
             = IF Head(s).kind = "chat" /\ Head(s).guid = g
                 THEN <<Head(s).n>> \o ChatNumbers(Tail(s), g)
                 ELSE ChatNumbers(Tail(s), g)
  <1>1. Head(s) \in Packets /\ Tail(s) \in Seq(Packets)
    BY HeadTailProperties
  <1>2. Head(s) \in ChatsOf(g) <=> Head(s).kind = "chat" /\ Head(s).guid = g
    BY <1>1, Belongs
  <1>3. Picked(s, ChatsOf(g))
          = IF Head(s) \in ChatsOf(g) THEN <<Head(s)>> \o Picked(Tail(s), ChatsOf(g))
                                      ELSE Picked(Tail(s), ChatsOf(g))
    BY PickedHead
  <1>4. Head(s) \in ChatsOf(g) =>
          Numbers(<<Head(s)>> \o Picked(Tail(s), ChatsOf(g)))
            = <<Head(s).n>> \o Numbers(Picked(Tail(s), ChatsOf(g)))
    BY <1>1, ChatNumbersType, Belongs, NumbersCons
  <1>. QED
    BY <1>2, <1>3, <1>4 DEF ChatNumbers

\* A line is passed on.
LEMMA LineHead ==
    ASSUME NEW g \in Senders, NEW s \in Seq(Lines), s # <<>>
    PROVE  LineNumbers(s, g) = IF Head(s).guid = g
                                 THEN <<Head(s).n>> \o LineNumbers(Tail(s), g)
                                 ELSE LineNumbers(Tail(s), g)
  <1>1. Head(s) \in Lines /\ Tail(s) \in Seq(Lines)
    BY HeadTailProperties
  <1>2. Head(s) \in LinesOf(g) <=> Head(s).guid = g
    BY <1>1, Belongs
  <1>3. Picked(s, LinesOf(g))
          = IF Head(s) \in LinesOf(g) THEN <<Head(s)>> \o Picked(Tail(s), LinesOf(g))
                                      ELSE Picked(Tail(s), LinesOf(g))
    BY PickedHead
  <1>4. Head(s) \in LinesOf(g) =>
          Numbers(<<Head(s)>> \o Picked(Tail(s), LinesOf(g)))
            = <<Head(s).n>> \o Numbers(Picked(Tail(s), LinesOf(g)))
    BY <1>1, LineNumbersType, Belongs, NumbersCons
  <1>. QED
    BY <1>2, <1>3, <1>4 DEF LineNumbers

\* No lines have no numbers, nor do lines of somebody else.
LEMMA LineNone ==
    ASSUME NEW g \in Senders, NEW s \in Seq(Lines),
           \A i \in 1 .. Len(s) : s[i].guid # g
    PROVE  LineNumbers(s, g) = <<>>
  <1>1. Picked(s, LinesOf(g)) = <<>>
    <2>. DEFINE Others == {l \in Lines : l.guid # g}
    <2>1. s \in Seq(Others)
      <3>1. \A i \in 1 .. Len(s) : s[i] \in Others
        BY ElementOfSeq
      <3>2. Len(s) \in Nat /\ s \in [1 .. Len(s) -> Lines]
        BY LenProperties
      <3>3. s \in [1 .. Len(s) -> Others]
        BY <3>1, <3>2
      <3>. HIDE DEF Others
      <3>. QED
        BY <3>2, <3>3
    <2>2. Others \cap LinesOf(g) = {}
      BY DEF LinesOf
    <2>. HIDE DEF Others
    <2>3. Picked(s, LinesOf(g)) \in Seq({})
      BY <2>1, <2>2, PickedType
    <2>. QED
      BY <2>3, EmptySeq, LenProperties, ElementOfSeq
  <1>. QED
    BY <1>1, EmptySeq DEF LineNumbers, Numbers

-----------------------------------------------------------------------------
(* The line of a sender. *)

\* Concatenation of numbers is associative.
LEMMA NatAssociative ==
    \A a, b, c \in Seq(Nat) : (a \o b) \o c = a \o (b \o c)
  BY Reassociate

\* The messages kept of a sender.
Kept(g) == IF g \in Players THEN pending[g] ELSE <<>>

\* The parts of the line.
LEMMA WaitingParts ==
    ASSUME IInv, NEW g \in Senders
    PROVE  /\ Waiting(g) = LineNumbers(out, g) \o Kept(g) \o ChatNumbers(inbox, g)
           /\ LineNumbers(out, g) \in Seq(Nat)
           /\ Kept(g) \in Seq(Nat)
           /\ ChatNumbers(inbox, g) \in Seq(Nat)
           /\ Waiting(g) \in Seq(Nat)
  <1>1. Waiting(g) = LineNumbers(out, g) \o Kept(g) \o ChatNumbers(inbox, g)
    BY DEF Waiting, LineNumbers, ChatNumbers, Kept
  <1>2. inbox \in Seq(Packets) /\ out \in Seq(Lines) /\ pending \in [Players -> Seq(Nat)]
    BY DEF IInv, Typed
  <1>3. LineNumbers(out, g) \in Seq(Nat) /\ ChatNumbers(inbox, g) \in Seq(Nat)
    BY <1>2, LineNumbersType, ChatNumbersType
  <1>4. Kept(g) \in Seq(Nat)
    BY <1>2, EmptySeq DEF Kept
  <1>. QED
    BY <1>1, <1>3, <1>4, ConcatProperties

\* Between two handlers nothing is left to pass on.
LEMMA Returned ==
    ASSUME IInv, NEW g \in Senders
    PROVE  out = <<>> => LineNumbers(out, g) = <<>>
  <1>1. out \in Seq(Lines) /\ Len(<<>>) = 0
    BY EmptySeq DEF IInv, Typed
  <1>2. ASSUME out = <<>> PROVE \A i \in 1 .. Len(out) : out[i].guid # g
    BY <1>1, <1>2
  <1>. QED
    BY <1>1, <1>2, LineNone

\* A packet of the inbox that is no chat is taken, or one arrives.
LEMMA ChatStays ==
    ASSUME IInv, NEW g \in Senders,
           \/ /\ inbox # <<>> /\ inbox' = Tail(inbox)
              /\ Head(inbox).kind = "chat" => Head(inbox).guid # g
           \/ \E p \in Packets : /\ inbox' = Append(inbox, p)
                                 /\ p.kind = "chat" => p.guid # g
    PROVE  ChatNumbers(inbox', g) = ChatNumbers(inbox, g)
  <1>1. inbox \in Seq(Packets)
    BY DEF IInv, Typed
  <1>. QED
    BY <1>1, ChatHead, ChatAppend

\* What the abstract specification sees.
Lined == [g \in Senders |-> Waiting(g)]
Seen  == [i \in 1 .. Len(posted) |-> [guid |-> posted[i].guid, n |-> posted[i].n]]

\* The line of one sender changes.
LEMMA OneLine ==
    ASSUME NEW g \in Senders, \A h \in Senders \ {g} : Waiting(h)' = Waiting(h)
    PROVE  Lined' = [Lined EXCEPT ![g] = Waiting(g)']
  BY DEF Lined

\* No line changes.
LEMMA SameLines ==
    ASSUME \A h \in Senders : Waiting(h)' = Waiting(h)
    PROVE  Lined' = Lined
  BY DEF Lined

\* A message joins the end of its sender's line.
LEMMA SayStep ==
    ASSUME IInv, NEW g \in Senders, Say(g)
    PROVE  Fifo!Say(g)
  <1>. DEFINE p == Chat(g, said[g] + 1)
  <1>1. /\ said' = [said EXCEPT ![g] = said[g] + 1] /\ inbox' = Append(inbox, p)
        /\ UNCHANGED <<pending, out, wanted, posted>>
    BY DEF Say
  <1>2. said[g] \in Nat /\ inbox \in Seq(Packets)
    BY DEF IInv, Typed
  <1>3. p \in Packets /\ p.kind = "chat" /\ p.guid = g /\ p.n = said[g] + 1
    BY <1>2 DEF Chat, Packets
  <1>. HIDE DEF p
  <1>4. \A h \in Senders \ {g} : Waiting(h)' = Waiting(h)
    <2>. TAKE h \in Senders \ {g}
    <2>1. ChatNumbers(inbox', h) = ChatNumbers(inbox, h)
      BY <1>1, <1>3, ChatStays
    <2>. QED
      BY <1>1, <2>1 DEF Waiting, ChatNumbers
  <1>5. Waiting(g)' = Append(Waiting(g), said[g] + 1)
    <2>1. ChatNumbers(inbox', g) = Append(ChatNumbers(inbox, g), said[g] + 1)
      BY <1>1, <1>2, <1>3, ChatAppend
    <2>. DEFINE a == LineNumbers(out, g)
                b == Kept(g)
                c == ChatNumbers(inbox, g)
                one == <<said[g] + 1>>
    <2>2. /\ Waiting(g) = a \o b \o c /\ a \in Seq(Nat) /\ b \in Seq(Nat)
          /\ c \in Seq(Nat) /\ one \in Seq(Nat)
      BY <1>2, WaitingParts
    <2>3. Waiting(g)' = a \o b \o Append(c, said[g] + 1)
      BY <1>1, <2>1 DEF Waiting, Kept, LineNumbers, ChatNumbers
    <2>. HIDE DEF a, b, c
    <2>4. Append(c, said[g] + 1) = c \o one
      BY <1>2, <2>2, AppendIsConcat
    <2>5. a \o b \in Seq(Nat) /\ (a \o b) \o c \in Seq(Nat)
      BY <2>2, ConcatProperties
    <2>6. Append((a \o b) \o c, said[g] + 1) = ((a \o b) \o c) \o one
      BY <1>2, <2>5, AppendIsConcat
    <2>. HIDE DEF one
    <2>7. (a \o b) \o (c \o one) = ((a \o b) \o c) \o one
      BY <2>2, <2>5, NatAssociative, Zenon
    <2>. QED
      BY <2>2, <2>3, <2>4, <2>6, <2>7
  <1>6. Lined' = [Lined EXCEPT ![g] = Append(Lined[g], said[g] + 1)]
    BY <1>4, <1>5, OneLine DEF Lined
  <1>. QED
    BY <1>1, <1>6 DEF Fifo!Say, Lined

\* Chat that is never relayed, answers and a broken connection change no line.
LEMMA OutsideStep ==
    ASSUME IInv, SayNoise \/ Break \/ \E g \in Players, yes \in BOOLEAN : AnswerQuery(g, yes)
    PROVE  UNCHANGED Fifo!vars
  <1>1. UNCHANGED <<said, pending, out, wanted, posted>>
    BY DEF SayNoise, Break, AnswerQuery
  <1>2. \A h \in Senders : ChatNumbers(inbox', h) = ChatNumbers(inbox, h)
    <2>1. CASE SayNoise
      <3>1. inbox' = Append(inbox, Addon) /\ Addon \in Packets /\ Addon.kind = "addon"
        BY <2>1 DEF SayNoise, Addon, Packets
      <3>. QED
        BY <3>1, ChatStays
    <2>2. ASSUME NEW g \in Players, NEW yes \in BOOLEAN, AnswerQuery(g, yes)
          PROVE  \A h \in Senders : ChatNumbers(inbox', h) = ChatNumbers(inbox, h)
      <3>1. /\ inbox' = Append(inbox, Answer(g, yes))
            /\ Answer(g, yes) \in Packets /\ Answer(g, yes).kind = "name"
        BY <2>2 DEF AnswerQuery, Answer, Packets
      <3>. QED
        BY <3>1, ChatStays
    <2>3. CASE Break
      BY <2>3 DEF Break
    <2>. QED
      BY <2>1, <2>2, <2>3
  <1>3. \A h \in Senders : Waiting(h)' = Waiting(h)
    BY <1>1, <1>2 DEF Waiting, ChatNumbers
  <1>. QED
    BY <1>1, <1>3, SameLines DEF Fifo!vars, Lined

\* The routes change, and no line does.
LEMMA RerouteStep ==
    ASSUME IInv, Reroute
    PROVE  Fifo!Reroute
  <1>1. wanted' = ~wanted /\ UNCHANGED <<said, inbox, pending, out, posted>>
    BY DEF Reroute
  <1>2. \A h \in Senders : Waiting(h)' = Waiting(h)
    BY <1>1 DEF Waiting
  <1>. QED
    BY <1>1, <1>2, SameLines DEF Fifo!Reroute, Lined

\* A message nobody wants leaves the line, from behind those that are kept.
LEMMA DropStep ==
    ASSUME IInv, DropChat
    PROVE  \E g \in Senders : Fifo!Lose(g)
  <1>. DEFINE m == Head(inbox)
  <1>1. /\ out = <<>> /\ inbox # <<>> /\ inbox' = Tail(inbox) /\ m.kind = "chat" /\ ~wanted
        /\ UNCHANGED <<said, pending, out, wanted, posted>>
    BY DEF DropChat, Handling
  <1>2. PICK g \in Senders : g = m.guid
    BY <1>1, Take
  <1>3. m.n \in Nat /\ inbox \in Seq(Packets) /\ inbox' \in Seq(Packets)
    BY <1>1, Take DEF IInv, Typed
  <1>4. \A h \in Senders \ {g} : Waiting(h)' = Waiting(h)
    <2>. TAKE h \in Senders \ {g}
    <2>1. ChatNumbers(inbox', h) = ChatNumbers(inbox, h)
      BY <1>1, <1>2, ChatStays
    <2>. QED
      BY <1>1, <2>1 DEF Waiting, ChatNumbers
  <1>5. \E i \in 1 .. Len(Waiting(g)) :
          Waiting(g)' = SubSeq(Waiting(g), 1, i - 1)
                          \o SubSeq(Waiting(g), i + 1, Len(Waiting(g)))
    <2>. DEFINE a == LineNumbers(out, g)
                b == Kept(g)
                c == ChatNumbers(inbox', g)
    <2>1. ChatNumbers(inbox, g) = <<m.n>> \o c
      BY <1>1, <1>2, <1>3, ChatHead
    <2>2. /\ Waiting(g) = a \o b \o (<<m.n>> \o c)
          /\ a \in Seq(Nat) /\ b \in Seq(Nat) /\ c \in Seq(Nat)
      BY <1>3, <2>1, WaitingParts, ChatNumbersType
    <2>3. Waiting(g)' = a \o b \o c
      BY <1>1 DEF Waiting, Kept, LineNumbers, ChatNumbers
    <2>4. a \o b \in Seq(Nat)
      BY <2>2, ConcatProperties
    <2>. HIDE DEF a, b, c, m
    <2>. QED
      <3>. DEFINE u == a \o b
                  n == m.n
                  w == u \o (<<n>> \o c)
      <3>1. u \in Seq(Nat) /\ n \in Nat /\ c \in Seq(Nat)
        BY <1>3, <2>2, <2>4
      <3>. HIDE DEF u, n
      <3>3. Misses(w, u \o c)
        BY <3>1, TakeOut, Zenon
      <3>. HIDE DEF w
      <3>2. Waiting(g) = w /\ Waiting(g)' = u \o c
        BY <2>2, <2>3 DEF u, n, w
      <3>. QED
        BY <3>2, <3>3 DEF Misses
  <1>. HIDE DEF m
  <1>6. \E i \in 1 .. Len(Lined[g]) :
          Lined' = [Lined EXCEPT ![g] = SubSeq(Lined[g], 1, i - 1)
                                          \o SubSeq(Lined[g], i + 1, Len(Lined[g]))]
    BY <1>2, <1>4, <1>5, OneLine DEF Lined
  <1>7. Fifo!Lose(g)
    BY <1>1, <1>6 DEF Fifo!Lose, Lined
  <1>. QED
    BY <1>2, <1>7

\* A message whose sender is known moves from the inbox to the lines; nothing of
\* its sender is kept, so it overtakes nothing.
LEMMA PassStep ==
    ASSUME IInv, PassChat
    PROVE  UNCHANGED Fifo!vars
  <1>. DEFINE m == Head(inbox)
              g == m.guid
              l == Line(g, m.n, g)
              none == <<>>
  <1>1. /\ out = none /\ inbox # <<>> /\ inbox' = Tail(inbox) /\ m.kind = "chat"
        /\ g \in Known /\ out' = <<l>>
        /\ UNCHANGED <<said, pending, wanted, posted>>
    BY DEF PassChat, Handling, Known
  <1>2. g \in Senders /\ m.n \in Nat /\ inbox \in Seq(Packets) /\ inbox' \in Seq(Packets)
    BY <1>1, Take DEF IInv, Typed
  <1>3. l \in Lines /\ l.guid = g /\ l.n = m.n
    BY <1>2 DEF Line, Lines
  <1>. HIDE DEF l
  <1>4. /\ out' \in Seq(Lines) /\ out' # <<>> /\ Head(out') = l /\ Tail(out') = none
        /\ none \in Seq(Lines) /\ Len(none) = 0
    BY <1>1, <1>3, EmptySeq
  <1>5. ASSUME NEW h \in Senders PROVE LineNumbers(none, h) = none
    <2>1. \A i \in 1 .. Len(none) : none[i].guid # h
      <3>. HIDE DEF none
      <3>. QED
        BY <1>4
    <2>. HIDE DEF none
    <2>2. LineNumbers(none, h) = <<>>
      BY <1>4, <1>5, <2>1, LineNone
    <2>. QED
      BY <2>2 DEF none
  <1>6. ASSUME NEW h \in Senders PROVE Waiting(h)' = Waiting(h)
    <2>. DEFINE c == ChatNumbers(inbox', h)
    <2>1. /\ Waiting(h) = LineNumbers(out, h) \o Kept(h) \o ChatNumbers(inbox, h)
          /\ Kept(h) \in Seq(Nat) /\ c \in Seq(Nat) /\ LineNumbers(out, h) = none
      BY <1>1, <1>2, <1>5, WaitingParts, ChatNumbersType
    <2>2. Waiting(h)' = LineNumbers(out', h) \o Kept(h) \o c
      BY <1>1 DEF Waiting, Kept, LineNumbers, ChatNumbers
    <2>3. CASE h = g
      <3>1. ChatNumbers(inbox, h) = <<m.n>> \o c
        BY <1>1, <1>2, <2>3, ChatHead
      <3>2. LineNumbers(out', h) = <<m.n>> \o none
        BY <1>3, <1>4, <1>5, <2>3, LineHead
      <3>3. Kept(h) = none
        <4>1. g \in names => pending[g] = none
          BY DEF IInv, Queries, Typed
        <4>. QED
          BY <1>1, <2>3, <4>1, RelayAssumption DEF Kept, Known
      <3>. HIDE DEF c, none, m, g
      <3>4. <<m.n>> \in Seq(Nat) /\ none = <<>>
        BY <1>2 DEF none
      <3>5. none \o none \o (<<m.n>> \o c) = <<m.n>> \o none \o none \o c
        BY <2>1, <3>4, ConcatEmptySeq, ConcatProperties
      <3>. QED
        BY <2>1, <2>2, <3>1, <3>2, <3>3, <3>5
    <2>4. CASE h # g
      <3>1. ChatNumbers(inbox, h) = c
        BY <1>1, <1>2, <2>4, ChatHead
      <3>2. LineNumbers(out', h) = none
        BY <1>3, <1>4, <1>5, <2>4, LineHead
      <3>. QED
        BY <2>1, <2>2, <3>1, <3>2
    <2>. QED
      BY <2>3, <2>4
  <1>. QED
    BY <1>1, <1>6, SameLines DEF Fifo!vars, Lined

\* A message moves from the inbox behind the messages kept.
LEMMA KeepStep ==
    ASSUME IInv, KeepChat
    PROVE  UNCHANGED Fifo!vars
  <1>. DEFINE m == Head(inbox)
              g == m.guid
  <1>1. /\ out = <<>> /\ inbox # <<>> /\ inbox' = Tail(inbox) /\ m.kind = "chat"
        /\ g \notin names \cup {Nobody}
        /\ pending' = [pending EXCEPT ![g] = Append(pending[g], m.n)]
        /\ UNCHANGED <<said, out, wanted, posted>>
    BY DEF KeepChat, Handling
  <1>2. /\ g \in Players /\ m.n \in Nat /\ inbox \in Seq(Packets) /\ inbox' \in Seq(Packets)
        /\ pending \in [Players -> Seq(Nat)]
    BY <1>1, Take DEF IInv, Typed, Senders
  <1>. HIDE DEF g, m
  <1>3. ASSUME NEW h \in Senders PROVE Waiting(h)' = Waiting(h)
    <2>. DEFINE a == LineNumbers(out, h)
                b == Kept(h)
                c == ChatNumbers(inbox', h)
    <2>1. /\ Waiting(h) = a \o b \o ChatNumbers(inbox, h)
          /\ a \in Seq(Nat) /\ b \in Seq(Nat) /\ c \in Seq(Nat)
      BY <1>2, WaitingParts, ChatNumbersType
    <2>2. Waiting(h)' = a \o Kept(h)' \o c
      BY <1>1 DEF Waiting, Kept, LineNumbers, ChatNumbers
    <2>3. CASE h = g
      <3>1. ChatNumbers(inbox, h) = <<m.n>> \o c
        BY <1>1, <1>2, <2>3, ChatHead DEF g, m
      <3>2. Kept(h)' = Append(b, m.n)
        BY <1>1, <1>2, <2>3 DEF Kept
      <3>. HIDE DEF a, b, c
      <3>. DEFINE one == <<m.n>>
      <3>3. one \in Seq(Nat) /\ Append(b, m.n) = b \o one
        BY <1>2, <2>1, AppendIsConcat
      <3>. HIDE DEF one
      <3>4. (a \o b) \o (one \o c) = ((a \o b) \o one) \o c
        <4>1. a \o b \in Seq(Nat)
          BY <2>1, ConcatProperties
        <4>. QED
          BY <2>1, <3>3, <4>1, NatAssociative, Zenon
      <3>5. a \o (b \o one) = (a \o b) \o one
        BY <2>1, <3>3, NatAssociative, Zenon
      <3>. QED
        BY <2>1, <2>2, <3>1, <3>2, <3>3, <3>4, <3>5 DEF one
    <2>4. CASE h # g
      <3>1. ChatNumbers(inbox, h) = ChatNumbers(inbox', h)
        BY <1>1, <1>2, <2>4, ChatHead DEF g, m
      <3>2. Kept(h)' = Kept(h)
        BY <1>1, <1>2, <2>4 DEF Kept
      <3>. QED
        BY <2>1, <2>2, <3>1, <3>2
    <2>. QED
      BY <2>3, <2>4
  <1>. QED
    BY <1>1, <1>3, SameLines DEF Fifo!vars, Lined

\* The lines sent for the messages kept of a sender bear their numbers.
LEMMA TakeNameStep ==
    ASSUME IInv, TakeName
    PROVE  UNCHANGED Fifo!vars
  <1>. DEFINE m == Head(inbox)
              g == m.guid
              name == IF m.known THEN g ELSE "UNKNOWN"
              none == <<>>
  <1>1. /\ out = none /\ inbox # <<>> /\ inbox' = Tail(inbox) /\ m.kind = "name"
        /\ out' = Queued(g, name) /\ pending' = [pending EXCEPT ![g] = none]
        /\ UNCHANGED <<said, wanted, posted>>
    BY DEF TakeName, Handling
  <1>2. /\ g \in Players /\ g \in Senders /\ inbox \in Seq(Packets)
        /\ inbox' \in Seq(Packets) /\ pending \in [Players -> Seq(Nat)]
        /\ name \in Senders \cup {"UNKNOWN"}
    BY <1>1, Take DEF IInv, Typed, Senders
  <1>3. /\ none \in Seq(Lines) /\ Len(none) = 0 /\ none \in Seq(Nat)
        /\ \A s \in Seq(Nat) : none \o s = s /\ s \o none = s
    BY EmptySeq, ConcatEmptySeq
  <1>. DEFINE kept == pending[g]
              n == Len(kept)
  <1>4. /\ kept \in Seq(Nat) /\ n \in Nat /\ \A i \in 1 .. n : kept[i] \in Nat
    BY <1>2, LenProperties, ElementOfSeq
  <1>5. out' = [i \in 1 .. n |-> Line(g, kept[i], name)]
    BY <1>1 DEF Queued
  <1>6. \A i \in 1 .. n : Line(g, kept[i], name) \in Lines \cap LinesOf(g)
    BY <1>2, <1>4 DEF Line, Lines, LinesOf
  <1>. HIDE DEF m, g, name, kept, n, none
  <1>7. /\ out' \in Seq(Lines) /\ out' \in Seq(LinesOf(g)) /\ Len(out') = n
        /\ \A i \in 1 .. n : out'[i].guid = g /\ out'[i].n = kept[i]
    BY <1>4, <1>5, <1>6 DEF Line
  <1>8. LineNumbers(out', g) = kept
    <2>1. Picked(out', LinesOf(g)) = out'
      BY <1>7, PickedAll
    <2>2. /\ Numbers(out') \in Seq(Nat) /\ Len(Numbers(out')) = n
          /\ \A i \in 1 .. n : Numbers(out')[i] = kept[i]
      BY <1>2, <1>7, Belongs, NumbersType
    <2>3. Numbers(out') = kept
      BY <1>4, <2>2, SeqEqual DEF n
    <2>. QED
      BY <2>1, <2>3 DEF LineNumbers
  <1>9. ASSUME NEW h \in Senders PROVE Waiting(h)' = Waiting(h)
    <2>. DEFINE c == ChatNumbers(inbox, h)
    <2>1. ChatNumbers(inbox', h) = c
      BY <1>1, ChatStays DEF m
    <2>2. /\ Waiting(h) = LineNumbers(out, h) \o Kept(h) \o c
          /\ LineNumbers(out, h) = none /\ Kept(h) \in Seq(Nat) /\ c \in Seq(Nat)
      BY <1>1, Returned, WaitingParts DEF none
    <2>3. Waiting(h)' = LineNumbers(out', h) \o Kept(h)' \o ChatNumbers(inbox', h)
      BY DEF Waiting, Kept, LineNumbers, ChatNumbers
    <2>. HIDE DEF c
    <2>4. CASE h = g
      <3>1. Kept(h) = kept /\ Kept(h)' = none
        BY <1>1, <1>2, <2>4 DEF Kept, kept
      <3>. QED
        BY <1>3, <1>4, <1>8, <2>1, <2>2, <2>3, <2>4, <3>1
    <2>5. CASE h # g
      <3>1. Kept(h)' = Kept(h)
        BY <1>1, <1>2, <2>5 DEF Kept
      <3>2. LineNumbers(out', h) = none
        BY <1>7, <2>5, LineNone DEF none
      <3>. QED
        BY <2>1, <2>2, <2>3, <3>1, <3>2
    <2>. QED
      BY <2>4, <2>5
  <1>. QED
    BY <1>1, <1>9, SameLines DEF Fifo!vars, Lined

\* One message leaves the head of its sender's line.
LEMMA SendStep ==
    ASSUME IInv, SendFromWoW
    PROVE  \E g \in Senders : Fifo!Post(g) \/ Fifo!Lose(g)
  <1>. DEFINE l == Head(out)
              n == l.n
  <1>1. /\ out # <<>> /\ out' = Tail(out)
        /\ posted' = IF wanted THEN Append(posted, l) ELSE posted
        /\ UNCHANGED <<said, inbox, pending, wanted>>
    BY DEF SendFromWoW
  <1>2. /\ out \in Seq(Lines) /\ out' \in Seq(Lines) /\ l \in Lines
        /\ inbox \in Seq(Packets) /\ posted \in Seq(Lines)
    BY <1>1, HeadTailProperties DEF IInv, Typed
  <1>3. PICK g \in Senders : g = l.guid
    BY <1>2 DEF Lines
  <1>4. n \in Nat
    BY <1>2 DEF Lines
  <1>5. ASSUME NEW h \in Senders PROVE
          LineNumbers(out, h) = IF h = g THEN <<n>> \o LineNumbers(out', h)
                                         ELSE LineNumbers(out', h)
    BY <1>1, <1>2, <1>3, LineHead
  <1>. HIDE DEF l, n
  <1>6. \A h \in Senders \ {g} : Waiting(h)' = Waiting(h)
    <2>. TAKE h \in Senders \ {g}
    <2>1. LineNumbers(out', h) = LineNumbers(out, h)
      BY <1>5
    <2>. QED
      BY <1>1, <2>1 DEF Waiting, LineNumbers
  <1>. DEFINE v == Waiting(g)'
  <1>7. v \in Seq(Nat) /\ Waiting(g) = <<n>> \o v
    <2>. DEFINE a == LineNumbers(out', g)
                b == Kept(g)
                c == ChatNumbers(inbox, g)
                one == <<n>>
    <2>1. /\ Waiting(g) = (one \o a) \o b \o c
          /\ a \in Seq(Nat) /\ b \in Seq(Nat) /\ c \in Seq(Nat) /\ one \in Seq(Nat)
      <3>1. a \in Seq(Nat) /\ one \in Seq(Nat)
        BY <1>2, <1>4, LineNumbersType
      <3>2. LineNumbers(out, g) = one \o a
        BY <1>5
      <3>3. /\ Waiting(g) = LineNumbers(out, g) \o b \o c
            /\ b \in Seq(Nat) /\ c \in Seq(Nat)
        BY WaitingParts
      <3>. QED
        BY <3>1, <3>2, <3>3
    <2>2. v = a \o b \o c
      BY <1>1 DEF Waiting, Kept, LineNumbers, ChatNumbers
    <2>. HIDE DEF a, b, c, one, v
    <2>3. a \o b \in Seq(Nat) /\ (a \o b) \o c \in Seq(Nat)
      BY <2>1, ConcatProperties
    <2>4. (one \o a) \o b = one \o (a \o b)
      BY <2>1, NatAssociative, Zenon
    <2>5. (one \o (a \o b)) \o c = one \o ((a \o b) \o c)
      BY <2>1, <2>3, NatAssociative, Zenon
    <2>. QED
      BY <2>1, <2>2, <2>3, <2>4, <2>5 DEF one
  <1>8. CASE wanted
    <2>1. Waiting(g) # <<>> /\ Head(Waiting(g)) = n /\ Tail(Waiting(g)) = v
      <3>. HIDE DEF v
      <3>. QED
        BY <1>4, <1>7, HeadTailOfCons
    <2>2. Lined' = [Lined EXCEPT ![g] = Tail(Lined[g])]
      BY <1>6, <2>1, OneLine DEF Lined
    <2>3. Seen' = Append(Seen, [guid |-> g, n |-> Head(Lined[g])])
      BY <1>1, <1>2, <1>3, <1>8, <2>1 DEF Seen, Lined, n
    <2>4. Fifo!Post(g)
      BY <1>1, <1>8, <2>1, <2>2, <2>3 DEF Fifo!Post, Lined, Seen
    <2>. QED
      BY <2>4
  <1>9. CASE ~wanted
    <2>1. Misses(Waiting(g), v)
      <3>. DEFINE none == <<>>
      <3>1. none \in Seq(Nat) /\ n \in Nat /\ v \in Seq(Nat)
        BY <1>4, <1>7
      <3>2. none \o (<<n>> \o v) = <<n>> \o v /\ none \o v = v
        BY <1>4, <1>7, ConcatEmptySeq, WaitingParts
      <3>. HIDE DEF none, v
      <3>3. Misses(none \o (<<n>> \o v), none \o v)
        BY <3>1, TakeOut, Zenon
      <3>. QED
        BY <1>7, <3>2, <3>3
    <2>2. \E i \in 1 .. Len(Lined[g]) :
            Lined' = [Lined EXCEPT ![g] = SubSeq(Lined[g], 1, i - 1)
                                            \o SubSeq(Lined[g], i + 1, Len(Lined[g]))]
      BY <1>6, <2>1, OneLine DEF Lined, Misses
    <2>3. Fifo!Lose(g)
      BY <1>1, <1>9, <2>2 DEF Fifo!Lose, Lined
    <2>. QED
      BY <2>3
  <1>. QED
    BY <1>8, <1>9

\* Chat that is not relayed is in no line.
LEMMA IgnoreStep ==
    ASSUME IInv, IgnoreChat
    PROVE  UNCHANGED Fifo!vars
  <1>1. /\ inbox # <<>> /\ inbox' = Tail(inbox) /\ Head(inbox).kind = "addon"
        /\ UNCHANGED <<said, pending, out, wanted, posted>>
    BY DEF IgnoreChat, Handling
  <1>2. \A h \in Senders : ChatNumbers(inbox', h) = ChatNumbers(inbox, h)
    BY <1>1, ChatStays
  <1>3. \A h \in Senders : Waiting(h)' = Waiting(h)
    BY <1>1, <1>2 DEF Waiting, ChatNumbers
  <1>. QED
    BY <1>1, <1>3, SameLines DEF Fifo!vars, Lined

\* Every step is a step of the promise, or nothing that it sees.
LEMMA FifoStep == IInv /\ [Next]_vars => [Fifo!Next]_(Fifo!vars)
  <1>. SUFFICES ASSUME IInv, [Next]_vars PROVE [Fifo!Next]_(Fifo!vars)
    OBVIOUS
  <1>1. CASE Server
    <2>1. ASSUME NEW g \in Senders, Say(g) PROVE Fifo!Next
      BY <2>1, SayStep DEF Fifo!Next
    <2>. QED
      BY <1>1, <2>1, OutsideStep DEF Server
  <1>2. CASE Break
    BY <1>2, OutsideStep
  <1>3. CASE Reroute
    BY <1>3, RerouteStep DEF Fifo!Next
  <1>4. CASE Handlers
    <2>1. CASE IgnoreChat
      BY <2>1, IgnoreStep
    <2>2. CASE DropChat
      BY <2>2, DropStep DEF Fifo!Next
    <2>3. CASE PassChat
      BY <2>3, PassStep
    <2>4. CASE KeepChat
      BY <2>4, KeepStep
    <2>5. CASE TakeName
      BY <2>5, TakeNameStep
    <2>6. CASE SendFromWoW
      BY <2>6, SendStep DEF Fifo!Next
    <2>. QED
      BY <1>4, <2>1, <2>2, <2>3, <2>4, <2>5, <2>6 DEF Handlers
  <1>5. CASE UNCHANGED vars
    <2>1. UNCHANGED <<said, inbox, pending, out, wanted, posted>>
      BY <1>5 DEF vars
    <2>2. \A h \in Senders : Waiting(h)' = Waiting(h)
      BY <2>1 DEF Waiting
    <2>. QED
      BY <2>1, <2>2, SameLines DEF Fifo!vars, Lined
  <1>. QED
    BY <1>1, <1>2, <1>3, <1>4, <1>5 DEF Next

\* At the start every line is empty.
LEMMA FifoInit == Init => Fifo!Init
  <1>. SUFFICES ASSUME Init PROVE Fifo!Init
    OBVIOUS
  <1>. DEFINE none == <<>>
  <1>1. /\ inbox = none /\ out = none /\ posted = none /\ wanted \in BOOLEAN
        /\ said = [g \in Senders |-> 0] /\ pending = [g \in Players |-> none]
    BY DEF Init
  <1>2. /\ none \in Seq(Packets) /\ none \in Seq(Lines) /\ Len(none) = 0
        /\ none \in Seq(Nat) /\ none \o none = none
    BY EmptySeq, ConcatEmptySeq
  <1>. HIDE DEF none
  <1>3. ASSUME NEW g \in Senders PROVE Waiting(g) = none
    <2>1. Picked(out, LinesOf(g)) = none /\ Picked(inbox, ChatsOf(g)) = none
      BY <1>1, <1>2, PickedEmpty DEF none
    <2>2. Numbers(none) = none
      BY <1>2 DEF Numbers, none
    <2>3. Kept(g) = none
      BY <1>1 DEF Kept, none
    <2>. QED
      BY <1>2, <2>1, <2>2, <2>3 DEF Waiting, Kept
  <1>4. [i \in 1 .. Len(posted) |-> [guid |-> posted[i].guid, n |-> posted[i].n]] = none
    BY <1>1, <1>2 DEF none
  <1>. QED
    BY <1>1, <1>3, <1>4 DEF Fifo!Init, none

\* What each sender says is posted in the order in which it was said, each message
\* at most once, and is lost only while no route wants it.
THEOREM FifoCorrect == Spec => ImplementsFifo
  BY FifoInit, FifoStep, Invariance, PTL DEF Spec, ImplementsFifo, Fifo!Spec
=============================================================================
