-------------------------- MODULE GameSessionProofs -------------------------
(***************************************************************************)
(* Theorems about GameSession, for any number of channels, ticks, messages *)
(* and surprises of the server.                                            *)
(***************************************************************************)
EXTENDS GameSession, SequenceTheorems, FiniteSetTheorems, FunctionTheorems, TLAPS

Num(s, op) == Cardinality(Of(s, op))
Has(s, op) == Of(s, op) # {}

\* The types, with what TypeOK does not say of the sequences.
Typed ==
    /\ inbox \in Seq([op : FromServer, arg : {0}])
    /\ log \in Seq([op : FromBot, arg : Nat])
    /\ run \in {"loop", "returned"}
    /\ joining \in 0 .. NumChannels
    /\ inWorld \in BOOLEAN /\ joined \in BOOLEAN
    /\ language \in {0, Human}
    /\ pingers \in Seq(Nat) /\ Len(pingers) <= 1
    /\ keepers \in 0 .. 1
    /\ broken \in BOOLEAN /\ cancelled \in BOOLEAN /\ exists \in BOOLEAN
    /\ server \in [phase : {"new", "challenged", "open", "refused"},
                   enums : Nat, logins : Nat, extra : 0 .. MaxExtra]

\* What the log owes to earlier packets of it.
Ordered(s) ==
    \A i \in 1 .. Len(s) :
      /\ \A op \in Before(s[i].op) : \E j \in 1 .. i - 1 : s[j].op = op
      /\ s[i].op = "chat" => s[i].arg = Human

Joined(s) ==
    \A i \in Of(s, "join") : s[i].arg = Cardinality({j \in Of(s, "join") : j <= i})

Pinged(s) ==
    \A i \in Of(s, "ping") : s[i].arg = Cardinality({j \in Of(s, "ping") : j < i})

\* What is under way from the server has been asked for, and what Warden asks for
\* comes behind the server's welcome.
Asked ==
    /\ \A i \in 1 .. Len(inbox) :
         /\ inbox[i].op = "ok" => Has(log, "auth")
         /\ inbox[i].op = "chars" => Has(log, "enum")
         /\ inbox[i].op \in {"verify", "time"} => Has(log, "login")
         /\ inbox[i].op \in {"hash", "module"} =>
              \/ broken \/ Has(log, "enum")
              \/ \E j \in 1 .. i - 1 : inbox[j].op = "ok"
    /\ server.phase = "open" =>
         broken \/ Has(log, "enum") \/ \E j \in 1 .. Len(inbox) : inbox[j].op = "ok"
    /\ server.logins > 0 => Has(log, "login")

\* How often the bot has asked and been answered.
Counted ==
    /\ Num(log, "login") + Num(inbox, "chars") <= server.enums
    /\ server.enums <= Num(log, "enum")
    /\ server.logins <= Num(log, "login")
    /\ Num(log, "enum") + Num(inbox, "ok")
         <= Num(log, "warden") + (IF server.phase = "open" THEN 1 ELSE 0)

\* The flags tell how far the bot has come.
Flags ==
    /\ Has(log, "login") => language = Human
    /\ inWorld => joined /\ Has(log, "login")
    /\ ~inWorld => /\ pingers = <<>> /\ keepers = 0
                   /\ joining = 0 /\ ~joined
                   /\ ~Has(log, "ping") /\ ~Has(log, "join")

\* The next channel and the next ping follow those on the wire.
InTurn ==
    /\ joining > 0 => broken \/ joining = Num(log, "join") + 1
    /\ \A i \in 1 .. Len(pingers) : pingers[i] = Num(log, "ping")
    /\ Num(log, "ping") + Num(log, "keep") <= MaxTicks

Logged(s) == Ordered(s) /\ Joined(s) /\ Pinged(s)

\* The inductive invariant.
IInv == Typed /\ Logged(log) /\ Asked /\ Counted /\ Flags /\ InTurn

\* The packet p may follow the log s.
Follows(p, s) ==
    /\ \A op \in Before(p.op) : Has(s, op)
    /\ p.op = "chat" => p.arg = Human
    /\ p.op = "join" => p.arg = Num(s, "join") + 1
    /\ p.op = "ping" => p.arg = Num(s, "ping")

-----------------------------------------------------------------------------
(* Counting packets. *)

\* The places of a kind of packet can be counted.
LEMMA OfFinite ==
    ASSUME NEW P, NEW s \in Seq(P), NEW op
    PROVE  /\ IsFiniteSet(Of(s, op)) /\ Num(s, op) \in Nat
           /\ Has(s, op) <=> Num(s, op) > 0
  <1>1. Len(s) \in Nat
    BY LenProperties
  <1>2. IsFiniteSet(1 .. Len(s))
    BY <1>1, FS_Interval
  <1>3. IsFiniteSet(Of(s, op))
    BY <1>2, FS_Subset DEF Of
  <1>4. Num(s, op) \in Nat /\ (Num(s, op) = 0 <=> Of(s, op) = {})
    BY <1>3, FS_CardinalityType, FS_EmptySet DEF Num
  <1>. QED
    BY <1>3, <1>4 DEF Has

\* One packet more at the end.
LEMMA OfAppend ==
    ASSUME NEW P, NEW s \in Seq(P), NEW p \in P, NEW op
    PROVE  /\ Of(Append(s, p), op) = IF p.op = op THEN Of(s, op) \cup {Len(s) + 1}
                                                 ELSE Of(s, op)
           /\ Num(Append(s, p), op) = Num(s, op) + (IF p.op = op THEN 1 ELSE 0)
           /\ Has(s, op) => Has(Append(s, p), op)
  <1>. DEFINE t == Append(s, p)
  <1>1. /\ Len(s) \in Nat /\ Len(t) = Len(s) + 1
        /\ \A i \in 1 .. Len(s) : t[i] = s[i]
        /\ t[Len(s) + 1] = p
    BY AppendProperties, LenProperties
  <1>. HIDE DEF t
  <1>2. Of(t, op) = IF p.op = op THEN Of(s, op) \cup {Len(s) + 1} ELSE Of(s, op)
    BY <1>1 DEF Of
  <1>3. Len(s) + 1 \notin Of(s, op)
    BY <1>1 DEF Of
  <1>4. IsFiniteSet(Of(s, op)) /\ Num(s, op) \in Nat
    BY OfFinite
  <1>5. Cardinality(Of(s, op) \cup {Len(s) + 1}) = Cardinality(Of(s, op)) + 1
    BY <1>3, <1>4, FS_AddElement
  <1>6. Num(t, op) = Num(s, op) + (IF p.op = op THEN 1 ELSE 0)
    <2>1. CASE p.op = op
      BY <2>1, <1>2, <1>5 DEF Num
    <2>2. CASE p.op # op
      BY <2>2, <1>2, <1>4 DEF Num
    <2>. QED
      BY <2>1, <2>2
  <1>. QED
    BY <1>2, <1>6 DEF t, Has

\* One packet less at the beginning.
LEMMA OfTail ==
    ASSUME NEW P, NEW s \in Seq(P), s # <<>>, NEW op
    PROVE  Num(s, op) = Num(Tail(s), op) + (IF Head(s).op = op THEN 1 ELSE 0)
  <1>. DEFINE t == Tail(s)
              Rest == Of(s, op) \ {1}
              f == [i \in Of(t, op) |-> i + 1]
  <1>1. /\ t \in Seq(P) /\ Len(s) \in Nat /\ Len(s) > 0 /\ Len(t) = Len(s) - 1
        /\ \A i \in 1 .. Len(t) : t[i] = s[i + 1]
        /\ Head(s) = s[1]
    BY HeadTailProperties, LenProperties, EmptySeq
  <1>. HIDE DEF t
  <1>2. f \in Bijection(Of(t, op), Rest)
    <2>1. f \in [Of(t, op) -> Rest]
      BY <1>1 DEF Of
    <2>2. \A a, b \in Of(t, op) : f[a] = f[b] => a = b
      BY <1>1 DEF Of
    <2>3. ASSUME NEW j \in Rest PROVE \E i \in Of(t, op) : f[i] = j
      <3>1. j - 1 \in Of(t, op)
        BY <1>1, <2>3 DEF Of
      <3>2. f[j - 1] = j
        BY <3>1, <1>1 DEF Of
      <3>. QED
        BY <3>1, <3>2
    <2>. HIDE DEF f, Rest
    <2>4. f \in Injection(Of(t, op), Rest)
      BY <2>1, <2>2, Fun_IsInj
    <2>5. f \in Surjection(Of(t, op), Rest)
      BY <2>1, <2>3, Fun_IsSurj
    <2>. QED
      BY <2>4, <2>5 DEF Bijection
  <1>3. IsFiniteSet(Of(t, op)) /\ Num(t, op) \in Nat
        /\ IsFiniteSet(Of(s, op)) /\ Num(s, op) \in Nat
    BY <1>1, OfFinite
  <1>4. Cardinality(Rest) = Num(t, op)
    <2>1. ExistsBijection(Of(t, op), Rest)
      BY <1>2 DEF ExistsBijection
    <2>. QED
      BY <2>1, <1>3, FS_Bijection DEF Num
  <1>5. Cardinality(Rest) = IF 1 \in Of(s, op) THEN Num(s, op) - 1 ELSE Num(s, op)
    BY <1>3, FS_RemoveElement DEF Num
  <1>6. 1 \in Of(s, op) <=> Head(s).op = op
    BY <1>1 DEF Of
  <1>. QED
    BY <1>3, <1>4, <1>5, <1>6 DEF t

-----------------------------------------------------------------------------
(* Writing to the log. *)

\* A packet that may follow keeps the log in order.
LEMMA LogStep ==
    ASSUME NEW P, NEW s \in Seq(P), NEW p \in P, Logged(s), Follows(p, s)
    PROVE  Logged(Append(s, p))
  <1>. DEFINE t == Append(s, p)
              n == Len(s) + 1
  <1>1. /\ Len(s) \in Nat /\ Len(t) = n
        /\ \A i \in 1 .. Len(s) : t[i] = s[i]
        /\ t[n] = p
    BY AppendProperties, LenProperties
  <1>j. /\ Of(t, "join") = IF p.op = "join" THEN Of(s, "join") \cup {n}
                                            ELSE Of(s, "join")
        /\ Num(t, "join") = Num(s, "join") + (IF p.op = "join" THEN 1 ELSE 0)
    BY OfAppend
  <1>jj. Of(s, "join") \subseteq 1 .. Len(s)
    BY DEF Of
  <1>p. /\ Of(t, "ping") = IF p.op = "ping" THEN Of(s, "ping") \cup {n}
                                            ELSE Of(s, "ping")
        /\ Num(t, "ping") = Num(s, "ping") + (IF p.op = "ping" THEN 1 ELSE 0)
    BY OfAppend
  <1>pp. Of(s, "ping") \subseteq 1 .. Len(s)
    BY DEF Of
  <1>. HIDE DEF t
  <1>3. Ordered(t)
    <2>. SUFFICES ASSUME NEW i \in 1 .. Len(t)
                  PROVE  /\ \A op \in Before(t[i].op) : \E j \in 1 .. i - 1 : t[j].op = op
                         /\ t[i].op = "chat" => t[i].arg = Human
      BY DEF Ordered
    <2>1. CASE i \in 1 .. Len(s)
      <3>1. /\ t[i] = s[i]
            /\ \A j \in 1 .. i - 1 : t[j] = s[j]
        BY <1>1, <2>1
      <3>2. /\ \A op \in Before(s[i].op) : \E j \in 1 .. i - 1 : s[j].op = op
            /\ s[i].op = "chat" => s[i].arg = Human
        BY <2>1 DEF Logged, Ordered
      <3>. QED
        BY <3>1, <3>2
    <2>2. CASE i = n
      <3>1. t[i] = p /\ i - 1 = Len(s)
        BY <1>1, <2>2
      <3>2. ASSUME NEW op \in Before(p.op) PROVE \E j \in 1 .. Len(s) : t[j].op = op
        <4>1. Has(s, op)
          BY <3>2 DEF Follows
        <4>2. PICK j \in 1 .. Len(s) : s[j].op = op
          BY <4>1 DEF Has, Of
        <4>. QED
          BY <4>2, <1>1
      <3>. QED
        BY <3>1, <3>2 DEF Follows
    <2>. QED
      BY <1>1, <2>1, <2>2
  <1>4. Joined(t)
    <2>. SUFFICES ASSUME NEW i \in Of(t, "join")
                  PROVE  t[i].arg = Cardinality({j \in Of(t, "join") : j <= i})
      BY DEF Joined
    <2>1. CASE i \in Of(s, "join")
      <3>1. i \in 1 .. Len(s) /\ t[i] = s[i]
        BY <1>1, <1>j, <1>jj, <2>1
      <3>2. {j \in Of(t, "join") : j <= i} = {j \in Of(s, "join") : j <= i}
        BY <1>1, <1>j, <1>jj, <3>1
      <3>. QED
        BY <2>1, <3>1, <3>2 DEF Logged, Joined
    <2>2. CASE i \notin Of(s, "join")
      <3>1. i = n /\ p.op = "join"
        BY <1>j, <2>2
      <3>2. {j \in Of(t, "join") : j <= i} = Of(t, "join")
        BY <1>1, <1>j, <1>jj, <3>1
      <3>. QED
        <4>1. t[i] = p /\ p.arg = Num(s, "join") + 1
          BY <1>1, <3>1 DEF Follows
        <4>2. Num(t, "join") = Num(s, "join") + 1
          BY <1>j, <3>1
        <4>. QED
          BY <4>1, <4>2, <3>2 DEF Num
    <2>. QED
      BY <2>1, <2>2
  <1>5. Pinged(t)
    <2>. SUFFICES ASSUME NEW i \in Of(t, "ping")
                  PROVE  t[i].arg = Cardinality({j \in Of(t, "ping") : j < i})
      BY DEF Pinged
    <2>1. CASE i \in Of(s, "ping")
      <3>1. i \in 1 .. Len(s) /\ t[i] = s[i]
        BY <1>1, <1>p, <1>pp, <2>1
      <3>2. {j \in Of(t, "ping") : j < i} = {j \in Of(s, "ping") : j < i}
        BY <1>1, <1>p, <1>pp, <3>1
      <3>. QED
        BY <2>1, <3>1, <3>2 DEF Logged, Pinged
    <2>2. CASE i \notin Of(s, "ping")
      <3>1. i = n /\ p.op = "ping"
        BY <1>p, <2>2
      <3>2. {j \in Of(t, "ping") : j < i} = Of(s, "ping")
        BY <1>1, <1>p, <1>pp, <3>1
      <3>. QED
        <4>1. t[i] = p /\ p.arg = Num(s, "ping")
          BY <1>1, <3>1 DEF Follows
        <4>. QED
          BY <4>1, <3>2 DEF Num
    <2>. QED
      BY <2>1, <2>2
  <1>. QED
    BY <1>3, <1>4, <1>5 DEF Logged, t

Sent == [op : FromBot, arg : Nat]

\* A packet is written, or is lost because the connection is gone.
LEMMA WriteCounts ==
    ASSUME IInv, NEW p \in Sent, log' = Written(<<p>>), NEW op
    PROVE  /\ Num(log', op) = Num(log, op) + (IF ~broken /\ p.op = op THEN 1 ELSE 0)
           /\ Has(log, op) => Has(log', op)
           /\ Num(log, op) \in Nat
  <1>1. log \in Seq(Sent)
    BY DEF IInv, Typed, Sent
  <1>2. log' = IF broken THEN log ELSE Append(log, p)
    BY <1>1, AppendIsConcat DEF Written
  <1>3. Num(log, op) \in Nat
    BY <1>1, OfFinite
  <1>4. CASE broken
    BY <1>2, <1>3, <1>4
  <1>5. CASE ~broken
    <2>1. log' = Append(log, p)
      BY <1>2, <1>5
    <2>2. /\ Num(Append(log, p), op) = Num(log, op) + (IF p.op = op THEN 1 ELSE 0)
          /\ Has(log, op) => Has(Append(log, p), op)
      BY <1>1, OfAppend
    <2>. QED
      BY <1>3, <1>5, <2>1, <2>2
  <1>. QED
    BY <1>4, <1>5

\* A packet that may follow is written or lost.
LEMMA WriteOne ==
    ASSUME IInv, NEW p \in Sent, broken \/ Follows(p, log), log' = Written(<<p>>)
    PROVE  log' \in Seq(Sent) /\ Logged(log')
  <1>1. log \in Seq(Sent) /\ Logged(log)
    BY DEF IInv, Typed, Sent
  <1>2. log' = IF broken THEN log ELSE Append(log, p)
    BY <1>1, AppendIsConcat DEF Written
  <1>3. CASE broken
    BY <1>1, <1>2, <1>3
  <1>4. CASE ~broken
    <2>1. Append(log, p) \in Seq(Sent) /\ Logged(Append(log, p))
      BY <1>1, <1>4, AppendProperties, LogStep
    <2>. QED
      BY <1>2, <1>4, <2>1
  <1>. QED
    BY <1>3, <1>4

-----------------------------------------------------------------------------
(* The inbox. *)

Received   == [op : FromServer, arg : {0}]
ServerType == [phase : {"new", "challenged", "open", "refused"},
               enums : Nat, logins : Nat, extra : 0 .. MaxExtra]

\* What the next packet of the server, which leaves it as s, has to answer.
Answers(op, s) ==
    /\ op \in FromServer /\ s \in ServerType
    /\ op = "ok" => Has(log, "auth") /\ server.phase # "open"
    /\ op = "chars" => Has(log, "enum")
    /\ op \in {"verify", "time"} => Has(log, "login")
    /\ op \in {"hash", "module"} => server.phase = "open"
    /\ s.phase = "open" <=> server.phase = "open" \/ op = "ok"
    /\ s.enums = server.enums + (IF op = "chars" THEN 1 ELSE 0)
    /\ s.enums <= Num(log, "enum") /\ s.logins <= Num(log, "login")

\* A packet from the server arrives.
LEMMA ServerSendsInv ==
    ASSUME IInv, NEW op, NEW s, ServerSends(op, s), Answers(op, s)
    PROVE  IInv'
  <1>. DEFINE p == Packet(op, 0)
  <1>1. /\ inbox \in Seq(Received) /\ p \in Received /\ p.op = op
        /\ inbox' = Append(inbox, p) /\ server' = s
        /\ UNCHANGED <<log, run, joining, inWorld, joined, language, pingers, keepers,
                       broken, cancelled, exists>>
    BY DEF IInv, Typed, Received, ServerSends, Packet, Answers, maintVars, envVars
  <1>. HIDE DEF p
  <1>2. /\ inbox' \in Seq(Received) /\ Len(inbox) \in Nat
        /\ Len(inbox') = Len(inbox) + 1
        /\ \A i \in 1 .. Len(inbox) : inbox'[i] = inbox[i]
        /\ inbox'[Len(inbox) + 1] = p
    BY <1>1, AppendProperties, LenProperties
  <1>3. /\ Num(inbox', "chars") = Num(inbox, "chars") + (IF op = "chars" THEN 1 ELSE 0)
        /\ Num(inbox', "ok") = Num(inbox, "ok") + (IF op = "ok" THEN 1 ELSE 0)
    BY <1>1, OfAppend
  <1>4. Typed'
    BY <1>1, <1>2 DEF IInv, Typed, Answers, Received, ServerType
  <1>5. Logged(log') /\ Flags' /\ InTurn'
    BY <1>1 DEF IInv, Flags, InTurn
  <1>6. Counted'
    <2>1. log \in Seq(Sent)
      BY DEF IInv, Typed, Sent
    <2>2. /\ Num(inbox, "chars") \in Nat /\ Num(inbox, "ok") \in Nat
          /\ Num(log, "login") \in Nat /\ Num(log, "enum") \in Nat
          /\ Num(log, "warden") \in Nat
      BY <1>1, <2>1, OfFinite
    <2>3. server.enums \in Nat
      BY DEF IInv, Typed
    <2>. QED
      BY <1>1, <1>3, <2>2, <2>3 DEF IInv, Counted, Answers
  <1>7. Asked'
    <2>1. ASSUME NEW i \in 1 .. Len(inbox')
          PROVE  /\ inbox'[i].op = "ok" => Has(log', "auth")
                 /\ inbox'[i].op = "chars" => Has(log', "enum")
                 /\ inbox'[i].op \in {"verify", "time"} => Has(log', "login")
                 /\ inbox'[i].op \in {"hash", "module"} =>
                      \/ broken' \/ Has(log', "enum")
                      \/ \E j \in 1 .. i - 1 : inbox'[j].op = "ok"
      <3>1. CASE i \in 1 .. Len(inbox)
        <4>1. inbox'[i] = inbox[i] /\ \A j \in 1 .. i - 1 : inbox'[j] = inbox[j]
          BY <1>2, <3>1
        <4>. QED
          BY <1>1, <3>1, <4>1 DEF IInv, Asked
      <3>2. CASE i = Len(inbox) + 1
        <4>1. inbox'[i].op = op /\ i - 1 = Len(inbox)
          BY <1>1, <1>2, <3>2
        <4>. QED
          BY <1>1, <1>2, <4>1 DEF IInv, Asked, Answers
      <3>. QED
        BY <1>2, <3>1, <3>2
    <2>2. server'.phase = "open" =>
            broken' \/ Has(log', "enum") \/ \E j \in 1 .. Len(inbox') : inbox'[j].op = "ok"
      <3>1. CASE op = "ok"
        BY <1>1, <1>2, <3>1
      <3>2. CASE op # "ok"
        BY <1>1, <1>2, <3>2 DEF IInv, Asked, Answers
      <3>. QED
        BY <3>1, <3>2
    <2>3. server'.logins > 0 => Has(log', "login")
      <3>1. log \in Seq(Sent)
        BY DEF IInv, Typed, Sent
      <3>2. Num(log, "login") \in Nat /\ (Has(log, "login") <=> Num(log, "login") > 0)
        BY <3>1, OfFinite
      <3>. QED
        BY <1>1, <3>2 DEF Answers, ServerType
    <2>. QED
      BY <2>1, <2>2, <2>3 DEF Asked
  <1>. QED
    BY <1>4, <1>5, <1>6, <1>7 DEF IInv

\* The server's actions.
LEMMA ServerInv ==
    ASSUME IInv, Server
    PROVE  IInv'
  <1>1. log \in Seq(Sent) /\ server \in ServerType
    BY DEF IInv, Typed, Sent, ServerType
  <1>2. /\ Num(log, "enum") \in Nat /\ (Has(log, "enum") <=> Num(log, "enum") > 0)
        /\ Num(log, "login") \in Nat /\ (Has(log, "login") <=> Num(log, "login") > 0)
        /\ Num(log, "auth") \in Nat /\ (Has(log, "auth") <=> Num(log, "auth") > 0)
    BY <1>1, OfFinite
  <1>3. /\ server.enums <= Num(log, "enum") /\ server.logins <= Num(log, "login")
        /\ server.logins > 0 => Has(log, "login")
        /\ server.enums \in Nat /\ server.logins \in Nat
    BY DEF IInv, Typed, Counted, Asked
  <1>. DEFINE more == [server EXCEPT !.extra = @ + 1]
  <1>m. ASSUME server.extra < MaxExtra
        PROVE  /\ more \in ServerType
               /\ more.phase = server.phase
               /\ more.enums = server.enums /\ more.logins = server.logins
    <2>1. MaxExtra \in Nat
      BY SessionAssumption
    <2>2. server.extra \in 0 .. MaxExtra
      BY <1>1 DEF ServerType
    <2>3. server.extra + 1 \in 0 .. MaxExtra
      BY <1>m, <2>1, <2>2
    <2>. QED
      BY <1>1, <2>3 DEF ServerType
  <1>. HIDE DEF more
  <1>. USE DEF Answers, FromServer
  <1>4. CASE Queue
    <2>1. ServerSends("queue", more) /\ server.extra < MaxExtra
      BY <1>4 DEF Queue, more
    <2>2. Answers("queue", more)
      BY <2>1, <1>3, <1>m
    <2>. QED
      BY <2>1, <2>2, ServerSendsInv
  <1>5. CASE LetInAgain
    <2>1. ServerSends("verify", more) /\ server.extra < MaxExtra /\ server.logins > 0
      BY <1>5 DEF LetInAgain, more
    <2>2. Answers("verify", more)
      BY <2>1, <1>3, <1>m
    <2>. QED
      BY <2>1, <2>2, ServerSendsInv
  <1>6. CASE AskTime
    <2>1. ServerSends("time", more) /\ server.extra < MaxExtra /\ server.logins > 0
      BY <1>6 DEF AskTime, more
    <2>2. Answers("time", more)
      BY <2>1, <1>3, <1>m
    <2>. QED
      BY <2>1, <2>2, ServerSendsInv
  <1>7. ASSUME NEW op \in {"hash", "module"}, AskWarden(op) PROVE IInv'
    <2>1. ServerSends(op, more) /\ server.extra < MaxExtra /\ server.phase = "open"
      BY <1>7 DEF AskWarden, more
    <2>2. Answers(op, more)
      BY <2>1, <1>3, <1>m
    <2>. QED
      BY <2>1, <2>2, ServerSendsInv
  <1>. USE DEF ServerType
  <1>8. CASE Challenge
    BY <1>1, <1>3, <1>8, ServerSendsInv DEF Challenge
  <1>9. CASE AuthResult("ok", "open")
    BY <1>1, <1>2, <1>3, <1>9, ServerSendsInv DEF AuthResult, Count, Num
  <1>10. CASE AuthResult("refused", "refused")
    BY <1>1, <1>2, <1>3, <1>10, ServerSendsInv DEF AuthResult, Count, Num
  <1>11. CASE ListCharacters
    BY <1>1, <1>2, <1>3, <1>11, ServerSendsInv DEF ListCharacters, Count, Num
  <1>12. CASE LetIn
    BY <1>1, <1>2, <1>3, <1>12, ServerSendsInv DEF LetIn, Count, Num
  <1>. QED
    BY <1>4, <1>5, <1>6, <1>7, <1>8, <1>9, <1>10, <1>11, <1>12 DEF Server, Answer

-----------------------------------------------------------------------------
(* The handlers. *)

\* What is on the wire has behind it what it needs.
LEMMA Behind ==
    ASSUME IInv, NEW op, Has(log, op), NEW b \in Before(op)
    PROVE  Has(log, b)
  <1>1. PICK i \in 1 .. Len(log) : log[i].op = op
    BY DEF Has, Of
  <1>2. PICK j \in 1 .. i - 1 : log[j].op = b
    BY <1>1 DEF IInv, Logged, Ordered
  <1>3. Len(log) \in Nat
    BY LenProperties DEF IInv, Typed
  <1>4. j \in 1 .. Len(log)
    BY <1>1, <1>2, <1>3
  <1>. QED
    BY <1>2, <1>4 DEF Has, Of

\* What the next packet of the inbox lets the bot rely on.
LEMMA HeadAsked ==
    ASSUME IInv, inbox # <<>>
    PROVE  /\ Head(inbox).op = "ok" => Has(log, "auth")
           /\ Head(inbox).op = "chars" => Has(log, "enum")
           /\ Head(inbox).op \in {"verify", "time"} => Has(log, "login")
           /\ Head(inbox).op \in {"hash", "module"} => broken \/ Has(log, "enum")
  <1>1. inbox \in Seq(Received)
    BY DEF IInv, Typed, Received
  <1>2. Len(inbox) \in Nat /\ Len(inbox) > 0 /\ Head(inbox) = inbox[1]
    BY <1>1, HeadTailProperties, LenProperties, EmptySeq
  <1>3. 1 \in 1 .. Len(inbox) /\ 1 .. (1 - 1) = {}
    BY <1>2
  <1>. QED
    BY <1>2, <1>3 DEF IInv, Asked

\* The next packet is taken, and the log has grown or not.
LEMMA Taken ==
    ASSUME IInv, inbox # <<>>, inbox' = Tail(inbox), UNCHANGED <<server, broken>>,
           \A op : Has(log, op) => Has(log', op),
           Head(inbox).op = "ok" => broken \/ Has(log', "enum")
    PROVE  /\ Asked'
           /\ inbox' \in Seq(Received)
           /\ \A op : /\ Num(inbox', op) \in Nat
                       /\ Num(inbox, op) = Num(inbox', op)
                                          + (IF Head(inbox).op = op THEN 1 ELSE 0)
  <1>1. inbox \in Seq(Received)
    BY DEF IInv, Typed, Received
  <1>2. /\ inbox' \in Seq(Received) /\ Len(inbox) \in Nat /\ Len(inbox) > 0
        /\ Len(inbox') = Len(inbox) - 1
        /\ \A i \in 1 .. Len(inbox') : inbox'[i] = inbox[i + 1]
        /\ Head(inbox) = inbox[1]
    BY <1>1, HeadTailProperties, LenProperties, EmptySeq
  <1>3. ASSUME NEW n \in 0 .. Len(inbox),
               \/ broken \/ Has(log, "enum")
               \/ \E j \in 1 .. n : inbox[j].op = "ok"
        PROVE  \/ broken \/ Has(log', "enum")
               \/ \E j \in 1 .. n - 1 : inbox'[j].op = "ok"
    <2>1. CASE broken \/ Has(log, "enum")
      BY <2>1
    <2>2. ASSUME NEW j \in 1 .. n, inbox[j].op = "ok"
          PROVE  \/ broken \/ Has(log', "enum")
                 \/ \E k \in 1 .. n - 1 : inbox'[k].op = "ok"
      <3>1. CASE j = 1
        BY <1>2, <2>2, <3>1
      <3>2. CASE j > 1
        <4>1. j - 1 \in 1 .. n - 1 /\ inbox'[j - 1] = inbox[j]
          BY <1>2, <3>2
        <4>. QED
          BY <2>2, <4>1
      <3>. QED
        BY <1>2, <3>1, <3>2
    <2>. QED
      BY <1>3, <2>1, <2>2
  <1>4. Asked'
    <2>1. ASSUME NEW i \in 1 .. Len(inbox')
          PROVE  /\ inbox'[i].op = "ok" => Has(log', "auth")
                 /\ inbox'[i].op = "chars" => Has(log', "enum")
                 /\ inbox'[i].op \in {"verify", "time"} => Has(log', "login")
                 /\ inbox'[i].op \in {"hash", "module"} =>
                      \/ broken' \/ Has(log', "enum")
                      \/ \E j \in 1 .. i - 1 : inbox'[j].op = "ok"
      <3>1. i + 1 \in 1 .. Len(inbox) /\ inbox'[i] = inbox[i + 1] /\ i \in 0 .. Len(inbox)
            /\ (i + 1) - 1 = i
        BY <1>2
      <3>2. /\ inbox[i + 1].op = "ok" => Has(log, "auth")
            /\ inbox[i + 1].op = "chars" => Has(log, "enum")
            /\ inbox[i + 1].op \in {"verify", "time"} => Has(log, "login")
            /\ inbox[i + 1].op \in {"hash", "module"} =>
                 \/ broken \/ Has(log, "enum")
                 \/ \E j \in 1 .. i : inbox[j].op = "ok"
        BY <3>1 DEF IInv, Asked
      <3>. QED
        BY <1>3, <3>1, <3>2
    <2>2. server'.phase = "open" =>
            broken' \/ Has(log', "enum") \/ \E j \in 1 .. Len(inbox') : inbox'[j].op = "ok"
      <3>1. Len(inbox) \in 0 .. Len(inbox) /\ Len(inbox) - 1 = Len(inbox')
        BY <1>2
      <3>. QED
        BY <1>3, <3>1 DEF IInv, Asked
    <2>3. server'.logins > 0 => Has(log', "login")
      BY DEF IInv, Asked
    <2>. QED
      BY <2>1, <2>2, <2>3 DEF Asked
  <1>. QED
    BY <1>1, <1>2, <1>4, OfTail, OfFinite

\* A handler that writes nothing.
LEMMA ReplyNone ==
    ASSUME IInv, NEW op, Reply(op, <<>>), op # "ok"
    PROVE  IInv'
  <1>1. /\ log \in Seq(Sent) /\ inbox # <<>> /\ Head(inbox).op = op
        /\ inbox' = Tail(inbox)
        /\ UNCHANGED <<run, joining, inWorld, joined, language, pingers, keepers,
                       broken, cancelled, exists, server>>
    BY DEF IInv, Typed, Sent, Reply, Dispatching, maintVars, envVars
  <1>2. log' = log
    <2>1. log \o <<>> = log
      BY <1>1, ConcatEmptySeq
    <2>. QED
      BY <2>1 DEF Reply, Written
  <1>3. /\ Asked' /\ inbox' \in Seq(Received)
        /\ \A o : /\ Num(inbox', o) \in Nat
                  /\ Num(inbox, o) = Num(inbox', o) + (IF op = o THEN 1 ELSE 0)
    BY <1>1, <1>2, Taken
  <1>4. Typed'
    BY <1>1, <1>2, <1>3 DEF IInv, Typed, Received
  <1>5. Logged(log') /\ Flags' /\ InTurn'
    BY <1>1, <1>2 DEF IInv, Flags, InTurn
  <1>6. Counted'
    <2>1. /\ Num(inbox', "chars") \in Nat /\ Num(inbox', "ok") \in Nat
          /\ Num(inbox', "chars") <= Num(inbox, "chars")
          /\ Num(inbox', "ok") <= Num(inbox, "ok")
      BY <1>3
    <2>2. /\ Num(log, "login") \in Nat /\ Num(log, "enum") \in Nat
          /\ Num(log, "warden") \in Nat /\ server.enums \in Nat
      BY <1>1, OfFinite DEF IInv, Typed
    <2>3. Num(inbox, "chars") \in Nat /\ Num(inbox, "ok") \in Nat
      BY OfFinite DEF IInv, Typed
    <2>. QED
      BY <1>1, <1>2, <2>1, <2>2, <2>3 DEF IInv, Counted
  <1>. QED
    BY <1>3, <1>4, <1>5, <1>6 DEF IInv

\* A handler that writes one packet: a list of characters is asked for only when
\* the server says welcome.
LEMMA ReplyOne ==
    ASSUME IInv, NEW op, NEW p \in Sent, Reply(op, <<p>>), Follows(p, log),
           p.op \in {"auth", "enum", "warden", "time"},
           op = "ok" <=> p.op = "enum"
    PROVE  IInv'
  <1>1. /\ log \in Seq(Sent) /\ inbox # <<>> /\ Head(inbox).op = op
        /\ inbox' = Tail(inbox) /\ log' = Written(<<p>>)
        /\ UNCHANGED <<run, joining, inWorld, joined, language, pingers, keepers,
                       broken, cancelled, exists, server>>
    BY DEF IInv, Typed, Sent, Reply, Dispatching, maintVars, envVars
  <1>2. /\ log' \in Seq(Sent) /\ Logged(log')
        /\ \A o : /\ Num(log', o) = Num(log, o)
                                   + (IF ~broken /\ p.op = o THEN 1 ELSE 0)
                  /\ Has(log, o) => Has(log', o)
                  /\ Num(log, o) \in Nat
    <2>1. IInv /\ log' = Written(<<p>>)
      BY <1>1
    <2>2. log' \in Seq(Sent) /\ Logged(log')
      BY <2>1, WriteOne
    <2>3. ASSUME NEW o
          PROVE  /\ Num(log', o) = Num(log, o)
                                  + (IF ~broken /\ p.op = o THEN 1 ELSE 0)
                 /\ Has(log, o) => Has(log', o)
                 /\ Num(log, o) \in Nat
      BY <2>1, WriteCounts
    <2>. QED
      BY <2>2, <2>3
  <1>e. op = "ok" => broken \/ Has(log', "enum")
    <2>1. Num(log', "enum") = Num(log, "enum") + (IF ~broken /\ p.op = "enum" THEN 1 ELSE 0)
          /\ Num(log, "enum") \in Nat
      BY <1>2
    <2>2. Has(log', "enum") <=> Num(log', "enum") > 0
      BY <1>2, OfFinite
    <2>. QED
      BY <2>1, <2>2
  <1>3. /\ Asked' /\ inbox' \in Seq(Received)
        /\ \A o : /\ Num(inbox', o) \in Nat
                  /\ Num(inbox, o) = Num(inbox', o) + (IF op = o THEN 1 ELSE 0)
    BY <1>1, <1>2, <1>e, Taken
  <1>4. Typed'
    BY <1>1, <1>2, <1>3 DEF IInv, Typed, Received, Sent
  <1>n. /\ Num(log', "login") = Num(log, "login") /\ Num(log', "join") = Num(log, "join")
        /\ Num(log', "ping") = Num(log, "ping") /\ Num(log', "keep") = Num(log, "keep")
        /\ Num(log, "login") \in Nat /\ Num(log, "join") \in Nat
        /\ Num(log, "ping") \in Nat /\ Num(log, "keep") \in Nat
    BY <1>2
  <1>h. /\ Has(log', "login") <=> Has(log, "login")
        /\ Has(log', "ping") <=> Has(log, "ping")
        /\ Has(log', "join") <=> Has(log, "join")
    <2>1. \A o : /\ Has(log', o) <=> Num(log', o) > 0
                 /\ Has(log, o) <=> Num(log, o) > 0
      BY <1>1, <1>2, OfFinite
    <2>. QED
      BY <1>n, <2>1
  <1>5. Flags' /\ InTurn'
    BY <1>1, <1>n, <1>h DEF IInv, Flags, InTurn
  <1>6. Counted'
    <2>1. /\ Num(inbox', "chars") \in Nat /\ Num(inbox', "ok") \in Nat
          /\ Num(inbox, "chars") = Num(inbox', "chars") + (IF op = "chars" THEN 1 ELSE 0)
          /\ Num(inbox, "ok") = Num(inbox', "ok") + (IF op = "ok" THEN 1 ELSE 0)
      BY <1>3
    <2>2. /\ Num(log, "enum") \in Nat /\ Num(log, "warden") \in Nat
          /\ Num(log', "enum") = Num(log, "enum") + (IF ~broken /\ op = "ok" THEN 1 ELSE 0)
          /\ Num(log', "warden") \in Nat /\ Num(log', "warden") >= Num(log, "warden")
      BY <1>2
    <2>3. server.enums \in Nat /\ server.logins \in Nat
      BY DEF IInv, Typed
    <2>4. /\ Num(log, "login") + Num(inbox, "chars") <= server.enums
          /\ server.enums <= Num(log, "enum") /\ server.logins <= Num(log, "login")
          /\ Num(log, "enum") + Num(inbox, "ok")
               <= Num(log, "warden") + (IF server.phase = "open" THEN 1 ELSE 0)
      BY DEF IInv, Counted
    <2>5. Num(log', "login") + Num(inbox', "chars") <= server.enums
      BY <1>n, <2>1, <2>3, <2>4
    <2>6. server.enums <= Num(log', "enum") /\ server.logins <= Num(log', "login")
      BY <1>n, <2>2, <2>3, <2>4
    <2>7. Num(log', "enum") + Num(inbox', "ok")
            <= Num(log', "warden") + (IF server.phase = "open" THEN 1 ELSE 0)
      BY <2>1, <2>2, <2>4
    <2>. QED
      BY <1>1, <2>5, <2>6, <2>7 DEF Counted
  <1>. QED
    BY <1>2, <1>3, <1>4, <1>5, <1>6 DEF IInv

\* The handlers that only write.
LEMMA ReplyInv ==
    ASSUME IInv, AuthChallenge \/ Welcome \/ Queued \/ Refused \/ VerifyWorldAgain
                 \/ TimeSync \/ WardenOther
    PROVE  IInv'
  <1>. USE DEF Packet, Sent, FromBot
  <1>1. CASE AuthChallenge
    <2>1. Follows(Packet("auth", 0), log)
      BY DEF Follows, Before
    <2>. QED
      BY <1>1, <2>1, ReplyOne DEF AuthChallenge
  <1>2. CASE Welcome
    <2>1. inbox # <<>> /\ Head(inbox).op = "ok"
      BY <1>2 DEF Welcome, Reply, Dispatching
    <2>2. Follows(Packet("enum", 0), log)
      BY <2>1, HeadAsked DEF Follows, Before
    <2>. QED
      BY <1>2, <2>2, ReplyOne DEF Welcome
  <1>3. CASE Queued
    BY <1>3, ReplyNone DEF Queued
  <1>4. CASE Refused
    BY <1>4, ReplyNone DEF Refused
  <1>5. CASE VerifyWorldAgain
    BY <1>5, ReplyNone DEF VerifyWorldAgain
  <1>6. CASE TimeSync
    <2>1. inbox # <<>> /\ Head(inbox).op = "time"
      BY <1>6 DEF TimeSync, Reply, Dispatching
    <2>2. Has(log, "login")
      BY <2>1, HeadAsked
    <2>3. Has(log, "auth") /\ Has(log, "enum")
      BY <2>2, Behind DEF Before
    <2>4. Follows(Packet("time", 0), log)
      BY <2>2, <2>3 DEF Follows, Before
    <2>. QED
      BY <1>6, <2>4, ReplyOne DEF TimeSync
  <1>7. CASE Reply("module", <<>>)
    BY <1>7, ReplyNone
  <1>8. CASE Reply("module", <<Packet("warden", 0)>>)
    <2>1. inbox # <<>> /\ Head(inbox).op = "module"
      BY <1>8 DEF Reply, Dispatching
    <2>2. CASE Has(log, "enum")
      <3>1. Has(log, "auth")
        BY <2>2, Behind DEF Before
      <3>2. Follows(Packet("warden", 0), log)
        BY <2>2, <3>1 DEF Follows, Before
      <3>. QED
        BY <1>8, <3>2, ReplyOne
    <2>3. CASE broken
      <3>1. Reply("module", <<>>)
        BY <1>8, <2>3 DEF Reply, Written
      <3>. QED
        BY <3>1, ReplyNone
    <2>. QED
      BY <2>1, <2>2, <2>3, HeadAsked
  <1>. QED
    BY <1>1, <1>2, <1>3, <1>4, <1>5, <1>6, <1>7, <1>8 DEF WardenOther

\* The list of characters, which logs in or does not.
LEMMA CharEnumInv ==
    ASSUME IInv, CharEnum
    PROVE  IInv'
  <1>. DEFINE p == Packet("login", 0)
  <1>1. /\ log \in Seq(Sent) /\ inbox # <<>> /\ Head(inbox).op = "chars"
        /\ inbox' = Tail(inbox)
        /\ UNCHANGED <<run, joining, inWorld, joined, pingers, keepers,
                       broken, cancelled, exists, server>>
    BY DEF IInv, Typed, Sent, CharEnum, Dispatching, maintVars, envVars
  <1>2. CASE ~exists
    <2>1. Reply("chars", <<>>)
      <3>1. log \o <<>> = log
        BY <1>1, ConcatEmptySeq
      <3>. QED
        BY <1>1, <1>2, <3>1 DEF CharEnum, Reply, Written, maintVars, envVars
    <2>. QED
      BY <2>1, ReplyNone
  <1>3. CASE exists
    <2>1. log' = Written(<<p>>) /\ language' = Human
      BY <1>3 DEF CharEnum
    <2>2. p \in Sent /\ p.op = "login"
      BY DEF Packet, Sent, FromBot
    <2>3. Follows(p, log)
      <3>1. Has(log, "enum")
        BY <1>1, HeadAsked
      <3>2. Has(log, "auth")
        BY <3>1, Behind DEF Before
      <3>. QED
        BY <2>2, <3>1, <3>2 DEF Follows, Before
    <2>. HIDE DEF p
    <2>4. log' \in Seq(Sent) /\ Logged(log')
      BY <2>1, <2>2, <2>3, WriteOne
    <2>5. ASSUME NEW o
          PROVE  /\ Num(log', o) = Num(log, o) + (IF ~broken /\ p.op = o THEN 1 ELSE 0)
                 /\ Has(log, o) => Has(log', o)
                 /\ Num(log, o) \in Nat
                 /\ Has(log', o) <=> Num(log', o) > 0
                 /\ Has(log, o) <=> Num(log, o) > 0
      BY <2>1, <2>2, <2>4, <1>1, WriteCounts, OfFinite
    <2>6. /\ Asked' /\ inbox' \in Seq(Received)
          /\ \A o : /\ Num(inbox', o) \in Nat
                    /\ Num(inbox, o) = Num(inbox', o)
                                       + (IF Head(inbox).op = o THEN 1 ELSE 0)
      BY <1>1, <2>5, Taken
    <2>7. Typed'
      BY <1>1, <2>1, <2>4, <2>6 DEF IInv, Typed, Received, Sent
    <2>8. /\ Num(log', "join") = Num(log, "join") /\ Num(log', "ping") = Num(log, "ping")
          /\ Num(log', "keep") = Num(log, "keep") /\ Num(log', "enum") = Num(log, "enum")
          /\ Num(log', "warden") = Num(log, "warden")
          /\ Num(log, "join") \in Nat /\ Num(log, "ping") \in Nat
          /\ Num(log, "keep") \in Nat /\ Num(log, "enum") \in Nat
          /\ Num(log, "warden") \in Nat
          /\ Has(log', "ping") <=> Has(log, "ping")
          /\ Has(log', "join") <=> Has(log, "join")
          /\ Has(log, "login") => Has(log', "login")
      BY <2>2, <2>5
    <2>9. Flags' /\ InTurn'
      BY <1>1, <2>1, <2>8 DEF IInv, Flags, InTurn
    <2>10. Counted'
      <3>1. /\ Num(log, "login") \in Nat /\ Num(log', "login") \in Nat
            /\ Num(log, "login") <= Num(log', "login")
            /\ Num(log', "login") <= Num(log, "login") + 1
        BY <2>2, <2>5
      <3>2. /\ Num(inbox', "chars") \in Nat /\ Num(inbox', "ok") \in Nat
            /\ Num(inbox, "chars") = Num(inbox', "chars") + 1
            /\ Num(inbox, "ok") = Num(inbox', "ok")
        BY <1>1, <2>6
      <3>3. server.enums \in Nat /\ server.logins \in Nat
        BY DEF IInv, Typed
      <3>4. /\ Num(log, "login") + Num(inbox, "chars") <= server.enums
            /\ server.enums <= Num(log, "enum") /\ server.logins <= Num(log, "login")
            /\ Num(log, "enum") + Num(inbox, "ok")
                 <= Num(log, "warden") + (IF server.phase = "open" THEN 1 ELSE 0)
        BY DEF IInv, Counted
      <3>. QED
        BY <1>1, <2>8, <3>1, <3>2, <3>3, <3>4, SMTT(60) DEF Counted
    <2>. QED
      BY <2>4, <2>6, <2>7, <2>9, <2>10 DEF IInv
  <1>. QED
    BY <1>2, <1>3

\* The bot enters the world, with nothing of it on the wire yet.
LEMMA VerifyWorldInv ==
    ASSUME IInv, VerifyWorld
    PROVE  IInv'
  <1>1. /\ log \in Seq(Sent) /\ inbox # <<>> /\ Head(inbox).op = "verify"
        /\ inbox' = Tail(inbox) /\ ~inWorld /\ inWorld' = TRUE /\ joined' = TRUE
        /\ pingers' = Append(pingers, 0) /\ keepers' = keepers + 1
        /\ joining' = IF joined \/ NumChannels = 0 THEN 0 ELSE 1
        /\ UNCHANGED <<log, run, language, broken, cancelled, exists, server>>
    BY DEF IInv, Typed, Sent, VerifyWorld, Dispatching, maintVars, envVars
  <1>2. /\ pingers = <<>> /\ keepers = 0 /\ joining = 0 /\ ~joined
        /\ ~Has(log, "ping") /\ ~Has(log, "join")
    BY <1>1 DEF IInv, Flags
  <1>3. /\ Num(log, "ping") = 0 /\ Num(log, "join") = 0
    <2>1. /\ Num(log, "ping") \in Nat /\ Num(log, "join") \in Nat
          /\ Has(log, "ping") <=> Num(log, "ping") > 0
          /\ Has(log, "join") <=> Num(log, "join") > 0
      BY <1>1, OfFinite
    <2>. QED
      BY <1>2, <2>1
  <1>4. pingers' \in Seq(Nat) /\ Len(pingers') = 1 /\ pingers'[1] = 0
    <2>1. <<>> \in Seq(Nat) /\ Len(<<>>) = 0
      BY EmptySeq
    <2>. QED
      BY <1>1, <1>2, <2>1, AppendProperties
  <1>5. /\ Asked' /\ inbox' \in Seq(Received)
        /\ \A o : /\ Num(inbox', o) \in Nat
                  /\ Num(inbox, o) = Num(inbox', o)
                                     + (IF Head(inbox).op = o THEN 1 ELSE 0)
    BY <1>1, Taken
  <1>6. Typed'
    BY <1>1, <1>2, <1>4, <1>5, SessionAssumption DEF IInv, Typed, Received
  <1>7. Flags' /\ InTurn'
    <2>1. Has(log, "login")
      BY <1>1, HeadAsked
    <2>. QED
      BY <1>1, <1>2, <1>3, <1>4, <2>1 DEF IInv, Flags, InTurn
  <1>8. Counted'
    <2>1. /\ Num(inbox', "chars") = Num(inbox, "chars")
          /\ Num(inbox', "ok") = Num(inbox, "ok")
      BY <1>1, <1>5
    <2>. QED
      BY <1>1, <2>1 DEF IInv, Counted
  <1>. QED
    BY <1>1, <1>5, <1>6, <1>7, <1>8 DEF IInv

\* The answer to a hash request, and the characters asked for again.
LEMMA WardenHashInv ==
    ASSUME IInv, WardenHash
    PROVE  IInv'
  <1>. DEFINE w == Packet("warden", 0)
              e == Packet("enum", 0)
  <1>1. /\ log \in Seq(Sent) /\ inbox # <<>> /\ Head(inbox).op = "hash"
        /\ inbox' = Tail(inbox)
        /\ UNCHANGED <<run, joining, inWorld, joined, language, pingers, keepers,
                       broken, cancelled, exists, server>>
    BY DEF IInv, Typed, Sent, WardenHash, Reply, Dispatching, maintVars, envVars
  <1>2. CASE broken \/ ~OnMac
    <2>1. log \o <<>> = log
      BY <1>1, ConcatEmptySeq
    <2>2. Reply("hash", <<>>)
      BY <1>2, <2>1 DEF WardenHash, Reply, Written
    <2>. QED
      BY <2>2, ReplyNone
  <1>3. CASE ~broken /\ OnMac
    <2>1. log' = log \o <<w, e>>
      BY <1>3 DEF WardenHash, Reply, Written
    <2>2. w \in Sent /\ e \in Sent /\ w.op = "warden" /\ e.op = "enum"
      BY DEF Packet, Sent, FromBot
    <2>3. Has(log, "enum") /\ Has(log, "auth")
      <3>1. Has(log, "enum")
        BY <1>1, <1>3, HeadAsked
      <3>. QED
        BY <3>1, Behind DEF Before
    <2>. HIDE DEF w, e
    <2>4. log' = Append(Append(log, w), e)
      BY <1>1, <2>1, <2>2, SMTT(30)
    <2>. DEFINE mid == Append(log, w)
    <2>5. mid \in Seq(Sent) /\ Logged(mid)
      <3>1. Follows(w, log)
        BY <2>2, <2>3 DEF Follows, Before
      <3>2. Logged(log)
        BY DEF IInv
      <3>. QED
        BY <1>1, <2>2, <3>1, <3>2, AppendProperties, LogStep
    <2>6. ASSUME NEW o
          PROVE  /\ Num(mid, o) = Num(log, o) + (IF w.op = o THEN 1 ELSE 0)
                 /\ Has(log, o) => Has(mid, o)
      BY <1>1, <2>2, OfAppend
    <2>. HIDE DEF mid
    <2>7. log' = Append(mid, e)
      BY <2>4 DEF mid
    <2>8. log' \in Seq(Sent) /\ Logged(log')
      <3>1. Follows(e, mid)
        BY <2>2, <2>3, <2>6 DEF Follows, Before
      <3>2. Append(mid, e) \in Seq(Sent) /\ Logged(Append(mid, e))
        BY <2>2, <2>5, <3>1, AppendProperties, LogStep
      <3>. QED
        BY <2>7, <3>2
    <2>9. ASSUME NEW o
          PROVE  /\ Num(log', o) = Num(log, o) + (IF w.op = o THEN 1 ELSE 0)
                                              + (IF e.op = o THEN 1 ELSE 0)
                 /\ Has(log, o) => Has(log', o)
                 /\ Num(log, o) \in Nat
                 /\ Has(log', o) <=> Num(log', o) > 0
                 /\ Has(log, o) <=> Num(log, o) > 0
      <3>1. /\ Num(Append(mid, e), o) = Num(mid, o) + (IF e.op = o THEN 1 ELSE 0)
            /\ Has(mid, o) => Has(Append(mid, e), o)
        BY <2>2, <2>5, OfAppend
      <3>2. /\ Num(log, o) \in Nat
            /\ Has(log', o) <=> Num(log', o) > 0
            /\ Has(log, o) <=> Num(log, o) > 0
        BY <1>1, <2>8, OfFinite
      <3>. QED
        BY <2>6, <2>7, <3>1, <3>2
    <2>10. /\ Asked' /\ inbox' \in Seq(Received)
           /\ \A o : /\ Num(inbox', o) \in Nat
                     /\ Num(inbox, o) = Num(inbox', o)
                                        + (IF Head(inbox).op = o THEN 1 ELSE 0)
      BY <1>1, <2>9, Taken
    <2>11. Typed'
      BY <1>1, <2>8, <2>10 DEF IInv, Typed, Received, Sent
    <2>12. /\ Num(log', "login") = Num(log, "login")
           /\ Num(log', "join") = Num(log, "join")
           /\ Num(log', "ping") = Num(log, "ping")
           /\ Num(log', "keep") = Num(log, "keep")
           /\ Num(log', "enum") = Num(log, "enum") + 1
           /\ Num(log', "warden") = Num(log, "warden") + 1
           /\ Num(log, "enum") \in Nat /\ Num(log, "warden") \in Nat
           /\ Has(log', "login") <=> Has(log, "login")
           /\ Has(log', "ping") <=> Has(log, "ping")
           /\ Has(log', "join") <=> Has(log, "join")
      BY <2>2, <2>9
    <2>13. Flags' /\ InTurn'
      BY <1>1, <2>12 DEF IInv, Flags, InTurn
    <2>14. Counted'
      <3>1. Num(inbox', "chars") = Num(inbox, "chars") /\ Num(inbox', "ok") = Num(inbox, "ok")
            /\ Num(inbox, "ok") \in Nat
        BY <1>1, <2>10
      <3>2. server.enums \in Nat
        BY DEF IInv, Typed
      <3>. QED
        BY <1>1, <2>12, <3>1, <3>2 DEF IInv, Counted
    <2>. QED
      BY <2>8, <2>10, <2>11, <2>13, <2>14 DEF IInv
  <1>. QED
    BY <1>2, <1>3

-----------------------------------------------------------------------------
(* The joins and the other goroutines, in the world. *)

\* Nothing of what has been asked for is lost while the inbox stands.
LEMMA AskedKept ==
    ASSUME IInv, UNCHANGED <<inbox, server>>, broken => broken',
           \A op : Has(log, op) => Has(log', op)
    PROVE  Asked'
  BY DEF IInv, Asked

\* A packet of a bot that is in the world.
LEMMA WriteMore ==
    ASSUME IInv, NEW p \in Sent, broken \/ Follows(p, log), log' = Written(<<p>>),
           p.op \in {"join", "ping", "keep", "chat"}, inWorld,
           UNCHANGED <<inbox, run, inWorld, joined, language, envVars, server>>,
           joining' \in 0 .. NumChannels, keepers' \in 0 .. 1,
           pingers' \in Seq(Nat), Len(pingers') <= 1, InTurn'
    PROVE  IInv'
  <1>1. log \in Seq(Sent) /\ UNCHANGED <<broken, cancelled, exists>>
    BY DEF IInv, Typed, Sent, envVars
  <1>2. log' \in Seq(Sent) /\ Logged(log')
    BY WriteOne
  <1>3. ASSUME NEW o
        PROVE  /\ Num(log', o) = Num(log, o) + (IF ~broken /\ p.op = o THEN 1 ELSE 0)
               /\ Has(log, o) => Has(log', o)
               /\ Num(log, o) \in Nat
    BY WriteCounts
  <1>4. Asked'
    BY <1>1, <1>3, AskedKept
  <1>5. Typed'
    BY <1>1, <1>2 DEF IInv, Typed, Sent
  <1>6. Flags'
    BY <1>3 DEF IInv, Flags
  <1>7. Counted'
    <2>1. /\ Num(log', "login") = Num(log, "login") /\ Num(log', "enum") = Num(log, "enum")
          /\ Num(log', "warden") = Num(log, "warden")
      BY <1>3
    <2>. QED
      BY <2>1 DEF IInv, Counted
  <1>. QED
    BY <1>2, <1>4, <1>5, <1>6, <1>7, <1>1 DEF IInv

\* What a bot in the world has behind it.
LEMMA InWorld ==
    ASSUME IInv, inWorld
    PROVE  Has(log, "login") /\ Has(log, "enum") /\ Has(log, "auth")
  <1>1. Has(log, "login")
    BY DEF IInv, Flags
  <1>. QED
    BY <1>1, Behind DEF Before

\* A channel is joined.
LEMMA JoinChannelInv ==
    ASSUME IInv, JoinChannel
    PROVE  IInv'
  <1>. DEFINE p == Packet("join", joining)
  <1>1. /\ joining \in 1 .. NumChannels /\ log' = Written(<<p>>)
        /\ joining' = IF joining = NumChannels THEN 0 ELSE joining + 1
        /\ UNCHANGED <<inbox, run, inWorld, joined, language, pingers, keepers,
                       envVars, server>>
    BY SessionAssumption DEF IInv, Typed, JoinChannel, maintVars
  <1>2. inWorld
    BY <1>1, SessionAssumption DEF IInv, Flags, Typed
  <1>3. p \in Sent /\ p.op = "join" /\ p.arg = joining
    BY <1>1, SessionAssumption DEF Packet, Sent, FromBot
  <1>. HIDE DEF p
  <1>4. broken \/ Follows(p, log)
    BY <1>1, <1>2, <1>3, InWorld, SessionAssumption DEF IInv, InTurn, Follows, Before
  <1>5. /\ Num(log', "join") = Num(log, "join") + (IF ~broken THEN 1 ELSE 0)
        /\ Num(log', "ping") = Num(log, "ping") /\ Num(log', "keep") = Num(log, "keep")
        /\ Num(log, "join") \in Nat /\ Num(log, "ping") \in Nat
        /\ Num(log, "keep") \in Nat
    <2>1. ASSUME NEW o
          PROVE  /\ Num(log', o) = Num(log, o) + (IF ~broken /\ p.op = o THEN 1 ELSE 0)
                 /\ Num(log, o) \in Nat
      BY <1>1, <1>3, WriteCounts
    <2>. QED
      BY <1>3, <2>1
  <1>6. InTurn'
    BY <1>1, <1>5, SessionAssumption DEF IInv, InTurn, envVars
  <1>7. /\ joining' \in 0 .. NumChannels /\ keepers' \in 0 .. 1
        /\ pingers' \in Seq(Nat) /\ Len(pingers') <= 1
    BY <1>1, SessionAssumption DEF IInv, Typed
  <1>. QED
    BY <1>1, <1>2, <1>3, <1>4, <1>6, <1>7, WriteMore

\* The one ping goroutine.
LEMMA OnePinger ==
    ASSUME IInv, NEW i \in 1 .. Len(pingers)
    PROVE  /\ i = 1 /\ inWorld /\ pingers[1] \in Nat /\ Len(pingers) = 1
           /\ RemoveAt(pingers, i) \in Seq(Nat) /\ Len(RemoveAt(pingers, i)) = 0
  <1>1. pingers \in Seq(Nat) /\ Len(pingers) <= 1 /\ Len(pingers) \in Nat
    BY LenProperties DEF IInv, Typed
  <1>2. i = 1 /\ Len(pingers) = 1
    <2>. DEFINE n == Len(pingers)
    <2>1. n \in Nat /\ n <= 1 /\ i \in 1 .. n
      BY <1>1
    <2>. HIDE DEF n
    <2>2. n = 1 /\ i = 1
      BY <2>1
    <2>. QED
      BY <2>2 DEF n
  <1>3. pingers[1] \in Nat
    BY <1>1, <1>2, ElementOfSeq
  <1>4. inWorld
    <2>1. Len(<<>>) = 0
      BY EmptySeq
    <2>. QED
      BY <1>2, <2>1 DEF IInv, Flags
  <1>5. RemoveAt(pingers, i) = [j \in 1 .. 0 |-> pingers[j + 1]]
    <2>1. (Len(pingers) - 1) = 0
      BY <1>2
    <2>. QED
      BY <1>2, <2>1 DEF RemoveAt
  <1>6. RemoveAt(pingers, i) \in Seq(Nat) /\ Len(RemoveAt(pingers, i)) = 0
    BY <1>5
  <1>. QED
    BY <1>2, <1>3, <1>4, <1>6

\* A ping is written, or fails and ends the goroutine.
LEMMA PingInv ==
    ASSUME IInv, NEW i \in 1 .. Len(pingers), Ping(i)
    PROVE  IInv'
  <1>. DEFINE p == Packet("ping", pingers[i])
  <1>1. /\ i = 1 /\ inWorld /\ pingers[1] \in Nat /\ Len(pingers) = 1
        /\ RemoveAt(pingers, i) \in Seq(Nat) /\ Len(RemoveAt(pingers, i)) = 0
        /\ pingers \in Seq(Nat)
    BY OnePinger DEF IInv, Typed
  <1>2. /\ log' = Written(<<p>>)
        /\ pingers' = IF broken THEN RemoveAt(pingers, i)
                                ELSE [pingers EXCEPT ![i] = @ + 1]
        /\ UNCHANGED <<inbox, run, joining, inWorld, joined, language, keepers,
                       envVars, server>>
        /\ Ticks < MaxTicks
    BY DEF Ping
  <1>3. p \in Sent /\ p.op = "ping" /\ p.arg = Num(log, "ping")
    BY <1>1 DEF Packet, Sent, FromBot, IInv, InTurn
  <1>. HIDE DEF p
  <1>4. Follows(p, log)
    BY <1>1, <1>3, InWorld DEF Follows, Before
  <1>5. /\ Num(log', "ping") = Num(log, "ping") + (IF ~broken THEN 1 ELSE 0)
        /\ Num(log', "join") = Num(log, "join") /\ Num(log', "keep") = Num(log, "keep")
        /\ Num(log, "join") \in Nat /\ Num(log, "ping") \in Nat
        /\ Num(log, "keep") \in Nat
    <2>1. ASSUME NEW o
          PROVE  /\ Num(log', o) = Num(log, o) + (IF ~broken /\ p.op = o THEN 1 ELSE 0)
                 /\ Num(log, o) \in Nat
      BY <1>2, <1>3, WriteCounts
    <2>. QED
      BY <1>3, <2>1
  <1>6. /\ pingers' \in Seq(Nat) /\ Len(pingers') <= 1
        /\ \A j \in 1 .. Len(pingers') : pingers'[j] = Num(log', "ping")
    <2>1. CASE broken
      <3>1. pingers' = RemoveAt(pingers, i)
        BY <1>2, <2>1
      <3>. QED
        BY <1>1, <3>1
    <2>2. CASE ~broken
      <3>1. pingers' = [pingers EXCEPT ![1] = pingers[1] + 1]
        BY <1>1, <1>2, <2>2
      <3>2. pingers' \in Seq(Nat) /\ Len(pingers') = 1 /\ pingers'[1] = pingers[1] + 1
        BY <1>1, <3>1, ExceptSeq
      <3>3. pingers[1] = Num(log, "ping")
        BY <1>1 DEF IInv, InTurn
      <3>. QED
        BY <1>5, <2>2, <3>2, <3>3
    <2>. QED
      BY <2>1, <2>2
  <1>7. InTurn'
    BY <1>2, <1>5, <1>6, SessionAssumption
       DEF IInv, InTurn, Ticks, Count, Num, envVars
  <1>8. joining' \in 0 .. NumChannels /\ keepers' \in 0 .. 1
    BY <1>2 DEF IInv, Typed
  <1>. QED
    BY <1>1, <1>2, <1>3, <1>4, <1>6, <1>7, <1>8, WriteMore

\* A keep-alive, or its failure.
LEMMA KeepAliveInv ==
    ASSUME IInv, KeepAlive
    PROVE  IInv'
  <1>. DEFINE p == Packet("keep", 0)
  <1>1. /\ log' = Written(<<p>>) /\ keepers > 0 /\ Ticks < MaxTicks
        /\ keepers' = IF broken THEN keepers - 1 ELSE keepers
        /\ UNCHANGED <<inbox, run, joining, inWorld, joined, language, pingers,
                       envVars, server>>
    BY DEF KeepAlive
  <1>2. p \in Sent /\ p.op = "keep"
    BY DEF Packet, Sent, FromBot
  <1>. HIDE DEF p
  <1>3. inWorld
    BY <1>1 DEF IInv, Flags, Typed
  <1>4. Follows(p, log)
    BY <1>2, <1>3, InWorld DEF Follows, Before
  <1>5. /\ Num(log', "keep") = Num(log, "keep") + (IF ~broken THEN 1 ELSE 0)
        /\ Num(log', "ping") = Num(log, "ping") /\ Num(log', "join") = Num(log, "join")
        /\ Num(log, "join") \in Nat /\ Num(log, "ping") \in Nat
        /\ Num(log, "keep") \in Nat
    <2>1. ASSUME NEW o
          PROVE  /\ Num(log', o) = Num(log, o) + (IF ~broken /\ p.op = o THEN 1 ELSE 0)
                 /\ Num(log, o) \in Nat
      BY <1>1, <1>2, WriteCounts
    <2>. QED
      BY <1>2, <2>1
  <1>6. InTurn'
    BY <1>1, <1>5, SessionAssumption DEF IInv, InTurn, Ticks, Count, Num, envVars
  <1>7. /\ joining' \in 0 .. NumChannels /\ keepers' \in 0 .. 1
        /\ pingers' \in Seq(Nat) /\ Len(pingers') <= 1
    BY <1>1 DEF IInv, Typed
  <1>. QED
    BY <1>1, <1>2, <1>3, <1>4, <1>6, <1>7, WriteMore

\* Chat from Discord, in the language of a character that is in the world.
LEMMA SendChatInv ==
    ASSUME IInv, SendChat
    PROVE  IInv'
  <1>. DEFINE p == Packet("chat", language)
  <1>1. /\ log' = Written(<<p>>) /\ inWorld
        /\ UNCHANGED <<inbox, run, joining, inWorld, joined, language, pingers, keepers,
                       envVars, server>>
    BY DEF SendChat, maintVars
  <1>2. language = Human
    BY <1>1 DEF IInv, Flags
  <1>3. p \in Sent /\ p.op = "chat" /\ p.arg = Human
    BY <1>2 DEF Packet, Sent, FromBot, Human
  <1>. HIDE DEF p
  <1>4. Follows(p, log)
    BY <1>1, <1>3, InWorld DEF Follows, Before
  <1>5. /\ Num(log', "keep") = Num(log, "keep") /\ Num(log', "ping") = Num(log, "ping")
        /\ Num(log', "join") = Num(log, "join")
    <2>1. ASSUME NEW o
          PROVE  /\ Num(log', o) = Num(log, o) + (IF ~broken /\ p.op = o THEN 1 ELSE 0)
                 /\ Num(log, o) \in Nat
      BY <1>1, <1>3, WriteCounts
    <2>. QED
      BY <1>3, <2>1
  <1>6. InTurn'
    BY <1>1, <1>5 DEF IInv, InTurn, envVars
  <1>7. /\ joining' \in 0 .. NumChannels /\ keepers' \in 0 .. 1
        /\ pingers' \in Seq(Nat) /\ Len(pingers') <= 1
    BY <1>1 DEF IInv, Typed
  <1>. QED
    BY <1>1, <1>3, <1>4, <1>6, <1>7, WriteMore

-----------------------------------------------------------------------------
(* The ends of things. *)

\* The ping goroutine stays or ends.
PingersEnd ==
    \/ UNCHANGED pingers
    \/ inWorld /\ pingers' \in Seq(Nat) /\ Len(pingers') = 0

\* A step that writes and reads nothing, and ends goroutines or the connection.
LEMMA Ending ==
    ASSUME IInv, UNCHANGED <<inbox, log, joining, inWorld, joined, language, exists, server>>,
           broken => broken', broken' \in BOOLEAN, cancelled' \in BOOLEAN,
           run' \in {"loop", "returned"},
           keepers' \in 0 .. keepers,
           PingersEnd
    PROVE  IInv'
  <1>1. Asked'
    BY AskedKept
  <1>2. Typed'
    BY DEF IInv, Typed, PingersEnd
  <1>3. Flags'
    BY DEF IInv, Flags, PingersEnd
  <1>4. InTurn'
    BY DEF IInv, InTurn, PingersEnd
  <1>5. Counted' /\ Logged(log')
    BY DEF IInv, Counted
  <1>. QED
    BY <1>1, <1>2, <1>3, <1>4, <1>5 DEF IInv

LEMMA EndingsInv ==
    ASSUME IInv, Break \/ Cancel \/ Return \/ StopMaintenance
    PROVE  IInv'
  <1>1. /\ keepers \in Nat /\ keepers \in 0 .. keepers /\ keepers - 1 \in Int
        /\ run \in {"loop", "returned"} /\ broken \in BOOLEAN /\ cancelled \in BOOLEAN
    BY DEF IInv, Typed
  <1>2. CASE Break
    <2>1. UNCHANGED <<inbox, log, joining, inWorld, joined, language, exists, server>>
      BY <1>2 DEF Break, botVars, maintVars
    <2>2. /\ broken => broken'
          /\ broken' \in BOOLEAN /\ cancelled' \in BOOLEAN
          /\ run' \in {"loop", "returned"}
          /\ keepers' \in 0 .. keepers /\ PingersEnd
      BY <1>1, <1>2 DEF PingersEnd, Break, botVars, maintVars
    <2>. QED
      BY <2>1, <2>2, Ending
  <1>3. CASE Cancel
    <2>1. UNCHANGED <<inbox, log, joining, inWorld, joined, language, exists, server>>
      BY <1>3 DEF Cancel, botVars, maintVars
    <2>2. /\ broken => broken'
          /\ broken' \in BOOLEAN /\ cancelled' \in BOOLEAN
          /\ run' \in {"loop", "returned"}
          /\ keepers' \in 0 .. keepers /\ PingersEnd
      BY <1>1, <1>3 DEF PingersEnd, Cancel, botVars, maintVars
    <2>. QED
      BY <2>1, <2>2, Ending
  <1>4. CASE Return
    <2>1. UNCHANGED <<inbox, log, joining, inWorld, joined, language, exists, server>>
      BY <1>4 DEF Return, maintVars
    <2>2. /\ broken => broken'
          /\ broken' \in BOOLEAN /\ cancelled' \in BOOLEAN
          /\ run' \in {"loop", "returned"}
          /\ keepers' \in 0 .. keepers /\ PingersEnd
      BY <1>1, <1>4 DEF PingersEnd, Return, maintVars
    <2>. QED
      BY <2>1, <2>2, Ending
  <1>5. CASE KeepAliveStop
    <2>1. UNCHANGED <<inbox, log, joining, inWorld, joined, language, exists, server>>
      BY <1>5 DEF KeepAliveStop, botVars, envVars
    <2>2. /\ broken => broken'
          /\ broken' \in BOOLEAN /\ cancelled' \in BOOLEAN
          /\ run' \in {"loop", "returned"}
          /\ keepers' \in 0 .. keepers /\ PingersEnd
      BY <1>1, <1>5 DEF PingersEnd, KeepAliveStop, botVars, envVars
    <2>. QED
      BY <2>1, <2>2, Ending
  <1>6. ASSUME NEW i \in 1 .. Len(pingers), PingStop(i) PROVE IInv'
    <2>1. inWorld /\ RemoveAt(pingers, i) \in Seq(Nat) /\ Len(RemoveAt(pingers, i)) = 0
      BY OnePinger
    <2>. QED
      BY <1>1, <1>6, <2>1, Ending DEF PingersEnd, PingStop, botVars, envVars
  <1>. QED
    BY <1>2, <1>3, <1>4, <1>5, <1>6 DEF StopMaintenance

-----------------------------------------------------------------------------
(* The invariant and the properties. *)

LEMMA InitInv == Init => IInv
  <1>. SUFFICES ASSUME Init PROVE IInv
    OBVIOUS
  <1>1. /\ inbox = <<>> /\ log = <<>> /\ pingers = <<>>
        /\ Len(<<>>) = 0
        /\ <<>> \in Seq(Received) /\ <<>> \in Seq(Sent) /\ <<>> \in Seq(Nat)
    BY EmptySeq DEF Init
  <1>2. ASSUME NEW o PROVE Of(<<>>, o) = {} /\ Num(<<>>, o) = 0
    BY <1>1, FS_EmptySet DEF Of, Num
  <1>3. Typed
    <2>1. MaxExtra \in Nat /\ 0 \in 0 .. MaxExtra /\ 0 \in 0 .. NumChannels
      BY SessionAssumption
    <2>2. server \in ServerType
      BY <2>1 DEF Init, ServerType
    <2>3. inbox \in Seq(Received) /\ log \in Seq(Sent) /\ pingers \in Seq(Nat)
      BY <1>1
    <2>4. /\ run \in {"loop", "returned"} /\ joining \in 0 .. NumChannels
          /\ language \in {0, Human} /\ keepers \in 0 .. 1
      BY <2>1 DEF Init
    <2>5. Len(pingers) <= 1
      BY <1>1
    <2>6. /\ inWorld \in BOOLEAN /\ joined \in BOOLEAN
          /\ broken \in BOOLEAN /\ cancelled \in BOOLEAN /\ exists \in BOOLEAN
      BY DEF Init
    <2>. QED
      BY <2>2, <2>3, <2>4, <2>5, <2>6 DEF Typed, Received, Sent, ServerType
  <1>4. Logged(log)
    BY <1>1, <1>2 DEF Logged, Ordered, Joined, Pinged
  <1>5. Asked
    BY <1>1 DEF Init, Asked
  <1>6. Counted
    BY <1>1, <1>2 DEF Init, Counted
  <1>7. Flags /\ InTurn
    BY <1>1, <1>2, SessionAssumption DEF Init, Flags, InTurn, Has
  <1>. QED
    BY <1>3, <1>4, <1>5, <1>6, <1>7 DEF IInv

LEMMA NextInv == IInv /\ [Next]_vars => IInv'
  <1>. SUFFICES ASSUME IInv, [Next]_vars PROVE IInv'
    OBVIOUS
  <1>1. CASE Server
    BY <1>1, ServerInv
  <1>2. CASE Break \/ Cancel \/ Return \/ StopMaintenance
    BY <1>2, EndingsInv
  <1>3. CASE Handlers
    BY <1>3, ReplyInv, CharEnumInv, VerifyWorldInv, JoinChannelInv, WardenHashInv
       DEF Handlers
  <1>4. CASE \E i \in 1 .. Len(pingers) : Ping(i)
    BY <1>4, PingInv
  <1>5. CASE KeepAlive
    BY <1>5, KeepAliveInv
  <1>6. CASE SendChat
    BY <1>6, SendChatInv
  <1>7. CASE UNCHANGED vars
    BY <1>7 DEF vars, botVars, maintVars, envVars, IInv, Typed, Asked, Counted, Flags,
                InTurn
  <1>. QED
    BY <1>1, <1>2, <1>3, <1>4, <1>5, <1>6, <1>7 DEF Next

\* Whatever the server sends and whenever the goroutines run, the inductive
\* invariant holds.
THEOREM Invariance == Spec => []IInv
  BY InitInv, NextInv, PTL DEF Spec

\* The session's state has its types, and has one goroutine of each kind at most.
THEOREM TypeCorrect == Spec => []TypeOK
  <1>1. IInv => TypeOK
    <2>. SUFFICES ASSUME IInv PROVE TypeOK
      OBVIOUS
    <2>1. Typed
      BY DEF IInv
    <2>2. \A i \in 1 .. Len(inbox) : inbox[i] \in Received
      BY <2>1, ElementOfSeq DEF Typed, Received
    <2>3. \A i \in 1 .. Len(log) : log[i] \in Sent
      BY <2>1, ElementOfSeq DEF Typed, Sent
    <2>4. \A i \in 1 .. Len(pingers) : pingers[i] \in 0 .. MaxTicks
      <3>1. Num(log, "ping") \in Nat /\ Num(log, "keep") \in Nat
        BY <2>1, OfFinite DEF Typed
      <3>. QED
        BY <3>1, SessionAssumption DEF IInv, InTurn
    <2>. QED
      BY <2>1, <2>2, <2>3, <2>4 DEF Typed, Received, Sent, TypeOK
  <1>. QED
    BY <1>1, Invariance, PTL

\* The server reads the packets of the bot in the protocol's order, chat in the
\* character's language, and as many logins as lists were asked for at most.
THEOREM WrittenInOrderCorrect == Spec => []WrittenInOrder
  <1>1. IInv => WrittenInOrder
    <2>. SUFFICES ASSUME IInv PROVE WrittenInOrder
      OBVIOUS
    <2>1. /\ \A i \in 1 .. Len(log) :
               /\ \A op \in Before(log[i].op) : \E j \in 1 .. i - 1 : log[j].op = op
               /\ log[i].op = "chat" => log[i].arg = Human
      BY DEF IInv, Logged, Ordered
    <2>2. /\ Num(log, "login") \in Nat /\ Num(log, "enum") \in Nat
          /\ Num(log, "warden") \in Nat /\ Num(inbox, "chars") \in Nat
          /\ Num(inbox, "ok") \in Nat /\ server.enums \in Nat
      BY OfFinite DEF IInv, Typed
    <2>3. Count("login") <= Count("enum") /\ Count("enum") <= 1 + Count("warden")
      BY <2>2 DEF IInv, Counted, Count, Num
    <2>. QED
      BY <2>1, <2>3 DEF WrittenInOrder
  <1>. QED
    BY <1>1, Invariance, PTL

\* The channels are joined once each, in their order.
THEOREM JoinsOnceCorrect == Spec => []JoinsOnce
  <1>1. IInv => JoinsOnce
    BY DEF IInv, Logged, Joined, JoinsOnce
  <1>. QED
    BY <1>1, Invariance, PTL

\* The ping ids on the wire are 0, 1, 2, ...
THEOREM PingsInTurnCorrect == Spec => []PingsInTurn
  <1>1. IInv => PingsInTurn
    BY DEF IInv, Logged, Pinged, PingsInTurn
  <1>. QED
    BY <1>1, Invariance, PTL
=============================================================================
