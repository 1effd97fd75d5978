---------------------------- MODULE AppRunProofs ----------------------------
(***************************************************************************)
(* Proofs about AppRun and the modules it is made of, for any number of    *)
(* Discord handlers, sessions and chunks, of proxy headers, and any width  *)
(* of a digest:                                                            *)
(*   BigNum: client and server derive the same secret from any numbers,    *)
(*     and a session key survives its way through a number;                *)
(*   RealmLogin: what is on its way to the client is always the one answer *)
(*     that the client reads for, and a server that is found to know the   *)
(*     password has found the same of the client;                          *)
(*   AppRun: the types, the validity of Client.game, that a message is     *)
(*     never divided between two sessions, and that a session has a proven *)
(*     key, finds the first packet of its server and leaves no socket.     *)
(***************************************************************************)
EXTENDS AppRun, SequenceFacts, FiniteSetTheorems

-----------------------------------------------------------------------------
(* Powers and congruence. *)

\* x and y differ by a multiple of m.
Congruent(x, y, m) == \E k \in Int : x = y + k * m

\* The powers of n.
Power(n) == CHOOSE f \in [Nat -> Int] : f[0] = 1 /\ \A i \in Nat : f[i + 1] = f[i] * n

LEMMA PowerExists ==
    ASSUME NEW n \in Int
    PROVE  /\ Power(n) \in [Nat -> Int]
           /\ Power(n)[0] = 1
           /\ \A i \in Nat : Power(n)[i + 1] = Power(n)[i] * n
<1> DEFINE step == [p \in Int \X Nat |-> p[1] * n]
<1>1. step \in [Int \X Nat -> Int]
  OBVIOUS
<1>2. PICK f \in [Nat -> Int] : Recurs(f, 1, step)
  <2>1. 1 \in Int
    OBVIOUS
  <2> HIDE DEF step
  <2> QED
    BY <1>1, <2>1, PrimitiveRecursion, Zenon
<1>3. f[0] = 1 /\ \A i \in Nat : f[i + 1] = f[i] * n
  BY <1>2 DEF Recurs
<1> QED
  BY <1>3, Zenon DEF Power

LEMMA CongruentRefl ==
    ASSUME NEW x \in Int, NEW m \in Int PROVE Congruent(x, x, m)
<1>1. x = x + 0 * m
  OBVIOUS
<1> QED
  BY <1>1 DEF Congruent

LEMMA CongruentTrans ==
    ASSUME NEW x \in Int, NEW y \in Int, NEW z \in Int, NEW m \in Int,
           Congruent(x, y, m), Congruent(y, z, m)
    PROVE  Congruent(x, z, m)
<1>1. PICK k \in Int : x = y + k * m
  BY DEF Congruent
<1>2. PICK l \in Int : y = z + l * m
  BY DEF Congruent
<1>3. x = z + (k + l) * m /\ k + l \in Int
  BY <1>1, <1>2
<1> QED
  BY <1>3 DEF Congruent

LEMMA CongruentSym ==
    ASSUME NEW x \in Int, NEW y \in Int, NEW m \in Int, Congruent(x, y, m)
    PROVE  Congruent(y, x, m)
<1>1. PICK k \in Int : x = y + k * m
  BY DEF Congruent
<1>3. y = x + (-k) * m /\ -k \in Int
  BY <1>1
<1> QED
  BY <1>3 DEF Congruent

LEMMA CongruentTimes ==
    ASSUME NEW x \in Int, NEW y \in Int, NEW a \in Int, NEW b \in Int, NEW m \in Int,
           Congruent(x, y, m), Congruent(a, b, m)
    PROVE  Congruent(x * a, y * b, m)
<1>1. PICK k \in Int : x = y + k * m
  BY DEF Congruent
<1>2. PICK l \in Int : a = b + l * m
  BY DEF Congruent
<1>3. x * a = y * b + (y * l + k * b + k * l * m) * m
  BY <1>1, <1>2
<1>4. y * l + k * b + k * l * m \in Int
  OBVIOUS
<1> QED
  BY <1>3, <1>4 DEF Congruent

LEMMA ModCongruent ==
    ASSUME NEW x \in Int, NEW m \in Nat \ {0}
    PROVE  x % m \in 0 .. m - 1 /\ Congruent(x % m, x, m)
<1>1. x % m \in 0 .. m - 1
  OBVIOUS
<1>2. x % m = x - m * (x \div m)
  OBVIOUS
<1>3. PICK q \in Int : q = x \div m
  OBVIOUS
<1>4. -q \in Int /\ x % m = x + (-q) * m
  BY <1>2, <1>3
<1> QED
  BY <1>1, <1>4 DEF Congruent

LEMMA CongruentEqual ==
    ASSUME NEW m \in Nat \ {0}, NEW x \in 0 .. m - 1, NEW y \in 0 .. m - 1,
           Congruent(x, y, m)
    PROVE  x = y
<1>1. PICK k \in Int : x = y + k * m
  BY DEF Congruent
<1>2. ~ (k >= 1)
  <2> SUFFICES ASSUME k >= 1 PROVE FALSE
    OBVIOUS
  <2>1. k * m = m + (k - 1) * m /\ (k - 1) * m >= 0
    OBVIOUS
  <2> QED
    BY <1>1, <2>1
<1>3. ~ (k <= -1)
  <2> SUFFICES ASSUME k <= -1 PROVE FALSE
    OBVIOUS
  <2>1. k * m = -m - (-1 - k) * m /\ (-1 - k) * m >= 0
    OBVIOUS
  <2> QED
    BY <1>1, <2>1
<1>4. k = 0
  BY <1>2, <1>3
<1> QED
  BY <1>1, <1>4

LEMMA PowerSum ==
    ASSUME NEW n \in Int, NEW i \in Nat, NEW j \in Nat
    PROVE  Power(n)[i + j] = Power(n)[i] * Power(n)[j]
<1> DEFINE V == {k \in Nat : Power(n)[i + k] = Power(n)[i] * Power(n)[k]}
<1>1. 0 \in V
  <2>1. Power(n)[0] = 1 /\ Power(n)[i] \in Int /\ i + 0 = i
    BY PowerExists
  <2> QED
    BY <2>1
<1>2. ASSUME NEW k \in Nat, k \in V PROVE k + 1 \in V
  <2>1. Power(n)[(i + k) + 1] = Power(n)[i + k] * n /\ i + k \in Nat
    BY PowerExists
  <2>2. Power(n)[k + 1] = Power(n)[k] * n
    BY PowerExists
  <2>3. Power(n)[i] \in Int /\ Power(n)[k] \in Int
    BY PowerExists
  <2>4. (Power(n)[i] * Power(n)[k]) * n = Power(n)[i] * (Power(n)[k] * n)
    BY <2>3
  <2>5. i + (k + 1) = (i + k) + 1
    OBVIOUS
  <2> QED
    BY <1>2, <2>1, <2>2, <2>4, <2>5
<1>3. Nat \subseteq V
  <2> HIDE DEF V
  <2> QED
    BY <1>1, <1>2, Induction
<1> QED
  BY <1>3

LEMMA PowerProduct ==
    ASSUME NEW n \in Int, NEW i \in Nat, NEW j \in Nat
    PROVE  Power(Power(n)[i])[j] = Power(n)[i * j]
<1> DEFINE q == Power(n)[i]
           V == {k \in Nat : Power(q)[k] = Power(n)[i * k]}
<1>0. q \in Int
  BY PowerExists
<1> HIDE DEF q
<1>1. 0 \in V
  <2>1. i * 0 = 0
    OBVIOUS
  <2> QED
    BY <1>0, <2>1, PowerExists
<1>2. ASSUME NEW k \in Nat, k \in V PROVE k + 1 \in V
  <2>1. Power(q)[k + 1] = Power(q)[k] * q
    BY <1>0, PowerExists
  <2>2. i * (k + 1) = i * k + i /\ i * k \in Nat
    OBVIOUS
  <2>3. Power(n)[i * k + i] = Power(n)[i * k] * q
    BY <2>2, PowerSum DEF q
  <2> QED
    BY <1>2, <2>1, <2>2, <2>3
<1>3. Nat \subseteq V
  <2> HIDE DEF V
  <2> QED
    BY <1>1, <1>2, Induction
<1> QED
  BY <1>3 DEF q

LEMMA PowerCongruent ==
    ASSUME NEW x \in Int, NEW y \in Int, NEW m \in Int, Congruent(x, y, m), NEW i \in Nat
    PROVE  Congruent(Power(x)[i], Power(y)[i], m)
<1> DEFINE V == {k \in Nat : Congruent(Power(x)[k], Power(y)[k], m)}
<1>1. 0 \in V
  <2>1. Power(x)[0] = 1 /\ Power(y)[0] = 1
    BY PowerExists
  <2> QED
    BY <2>1, CongruentRefl
<1>2. ASSUME NEW k \in Nat, k \in V PROVE k + 1 \in V
  <2>1. Power(x)[k + 1] = Power(x)[k] * x /\ Power(x)[k] \in Int
    BY PowerExists
  <2>2. Power(y)[k + 1] = Power(y)[k] * y /\ Power(y)[k] \in Int
    BY PowerExists
  <2>3. Congruent(Power(x)[k] * x, Power(y)[k] * y, m)
    BY <1>2, <2>1, <2>2, CongruentTimes
  <2> QED
    BY <2>1, <2>2, <2>3
<1>3. Nat \subseteq V
  <2> HIDE DEF V
  <2> QED
    BY <1>1, <1>2, Induction
<1> QED
  BY <1>3

\* Exp's result is the power, reduced.
Raised(n, e, m) ==
    CHOOSE pow : pow = [i \in 0 .. e |-> IF i = 0 THEN 1 % m ELSE (pow[i - 1] * n) % m]

LEMMA RaisedExists ==
    ASSUME NEW n \in Int, NEW e \in Nat, NEW m \in Nat \ {0}
    PROVE  \A i \in 0 .. e :
             Raised(n, e, m)[i] = IF i = 0 THEN 1 % m ELSE (Raised(n, e, m)[i - 1] * n) % m
<1> DEFINE step == [p \in Int \X Nat |-> (p[1] * n) % m]
<1>1. step \in [Int \X Nat -> Int] /\ 1 % m \in Int
  OBVIOUS
<1>2. PICK f \in [Nat -> Int] : Recurs(f, 1 % m, step)
  <2> HIDE DEF step
  <2> QED
    BY <1>1, PrimitiveRecursion, Zenon
<1>3. f[0] = 1 % m /\ \A i \in Nat : f[i + 1] = (f[i] * n) % m
  BY <1>2 DEF Recurs
<1> DEFINE g == [i \in 0 .. e |-> f[i]]
           Eq(h) == h = [i \in 0 .. e |-> IF i = 0 THEN 1 % m ELSE (h[i - 1] * n) % m]
<1>4. Eq(g)
  <2>1. ASSUME NEW i \in 0 .. e
        PROVE  f[i] = IF i = 0 THEN 1 % m ELSE (g[i - 1] * n) % m
    <3>1. CASE i = 0
      BY <1>3, <3>1
    <3>2. CASE i # 0
      <4>1. i - 1 \in Nat /\ i - 1 \in 0 .. e /\ (i - 1) + 1 = i
        BY <3>2
      <4>2. f[i] = (f[i - 1] * n) % m
        BY <1>3, <4>1
      <4> QED
        BY <3>2, <4>1, <4>2
    <3> QED
      BY <3>1, <3>2
  <2> QED
    BY <2>1
<1>5. Eq(Raised(n, e, m))
  <2>1. Raised(n, e, m) = CHOOSE h : Eq(h)
    BY Zenon DEF Raised
  <2> HIDE DEF Eq, g
  <2> QED
    BY <1>4, <2>1, Zenon
<1> QED
  BY <1>5, Zenon

LEMMA ModPowCorrect ==
    ASSUME NEW n \in Int, NEW e \in Nat, NEW m \in Nat \ {0}
    PROVE  /\ ModPow(n, e, m) \in 0 .. m - 1
           /\ Congruent(ModPow(n, e, m), Power(n)[e], m)
<1>1. ModPow(n, e, m) = Raised(n, e, m)[e]
  BY Zenon DEF ModPow, Raised
<1> DEFINE V == {i \in Nat : i <= e => /\ Raised(n, e, m)[i] \in 0 .. m - 1
                                       /\ Congruent(Raised(n, e, m)[i], Power(n)[i], m)}
<1>2. 0 \in V
  <2>1. Raised(n, e, m)[0] = 1 % m
    BY RaisedExists
  <2>2. Power(n)[0] = 1
    BY PowerExists
  <2>3. 1 % m \in 0 .. m - 1 /\ Congruent(1 % m, 1, m)
    BY ModCongruent
  <2> QED
    BY <2>1, <2>2, <2>3
<1>3. ASSUME NEW i \in Nat, i \in V PROVE i + 1 \in V
  <2> SUFFICES ASSUME i + 1 <= e
               PROVE  /\ Raised(n, e, m)[i + 1] \in 0 .. m - 1
                      /\ Congruent(Raised(n, e, m)[i + 1], Power(n)[i + 1], m)
    OBVIOUS
  <2>1. i + 1 \in 0 .. e /\ i + 1 # 0 /\ (i + 1) - 1 = i
    OBVIOUS
  <2>2. Raised(n, e, m)[i + 1] = (Raised(n, e, m)[i] * n) % m
    BY <2>1, RaisedExists
  <2>3. Raised(n, e, m)[i] \in Int /\ Congruent(Raised(n, e, m)[i], Power(n)[i], m)
    BY <1>3
  <2>4. Power(n)[i] \in Int /\ Power(n)[i + 1] = Power(n)[i] * n
    BY PowerExists
  <2>5. Congruent(Raised(n, e, m)[i] * n, Power(n)[i] * n, m)
    <3>1. m \in Int /\ Congruent(n, n, m)
      BY CongruentRefl
    <3> QED
      BY <2>3, <2>4, <3>1, CongruentTimes, Zenon
  <2>6. Raised(n, e, m)[i] * n \in Int /\ Power(n)[i] * n \in Int
    BY <2>3, <2>4
  <2>7. /\ (Raised(n, e, m)[i] * n) % m \in 0 .. m - 1
        /\ Congruent((Raised(n, e, m)[i] * n) % m, Raised(n, e, m)[i] * n, m)
    BY <2>6, ModCongruent
  <2>8. Congruent((Raised(n, e, m)[i] * n) % m, Power(n)[i] * n, m)
    BY <2>5, <2>6, <2>7, CongruentTrans
  <2> QED
    BY <2>2, <2>4, <2>7, <2>8
<1>4. Nat \subseteq V
  <2> HIDE DEF V
  <2> QED
    BY <1>2, <1>3, Induction
<1> QED
  BY <1>1, <1>4

LEMMA ModPowPower ==
    ASSUME NEW n \in Int, NEW p \in Int, NEW e \in Nat, NEW m \in Nat \ {0}, Congruent(n, p, m)
    PROVE  /\ ModPow(n, e, m) \in 0 .. m - 1
           /\ Congruent(ModPow(n, e, m), Power(p)[e], m)
<1>1. /\ ModPow(n, e, m) \in 0 .. m - 1
      /\ Congruent(ModPow(n, e, m), Power(n)[e], m)
  BY ModPowCorrect
<1>2. Congruent(Power(n)[e], Power(p)[e], m)
  BY PowerCongruent
<1>3. ModPow(n, e, m) \in Int
  BY <1>1
<1>4. Power(n)[e] \in Int /\ Power(p)[e] \in Int
  BY PowerExists
<1> QED
  BY <1>1, <1>2, <1>3, <1>4, CongruentTrans

\* The server's B for its private b and the password's x.
ServerPublic(b, x, g, N) == 3 * ModPow(g, x, N) + ModPow(g, b, N)

\* Client and server derive the same secret from a, b, u, x and the B sent.
Agreed(a, b, u, x, g, N, B) ==
    ClientSecret(a, B, u, x, g, N)
      = ServerSecret(ModPow(g, a, N), b, u, ModPow(g, x, N), N)

\* They do when B is congruent to what the protocol says.
LEMMA SecretsCongruent ==
    ASSUME NEW a \in Nat, NEW b \in Nat, NEW u \in Nat, NEW x \in Nat,
           NEW g \in Int, NEW N \in Nat \ {0}, NEW B \in Int,
           Congruent(B, ServerPublic(b, x, g, N), N)
    PROVE  Agreed(a, b, u, x, g, N, B)
<1> DEFINE v == ModPow(g, x, N)
           A == ModPow(g, a, N)
           vu == ModPow(v, u, N)
           gb == ModPow(g, b, N)
           gbp == Power(g)[b]
           gs == Power(g)[a + u * x]
<1>0. a + u * x \in Nat /\ x * u \in Nat
  OBVIOUS
<1>1. v \in Int /\ A \in Int /\ gb \in Int /\ gbp \in Int /\ gs \in Int
  <2>1. v \in 0 .. N - 1 /\ A \in 0 .. N - 1 /\ gb \in 0 .. N - 1
    BY ModPowCorrect
  <2>2. gbp \in Int /\ gs \in Int
    BY <1>0, PowerExists
  <2> HIDE DEF v, A, gb
  <2> QED
    BY <2>1, <2>2
<1>2. Congruent(v, Power(g)[x], N) /\ Congruent(A, Power(g)[a], N) /\ Congruent(gb, gbp, N)
  BY ModPowCorrect
<1>3. Congruent(B - 3 * v, gbp, N)
  <2> HIDE DEF v, gb, gbp
  <2>1. PICK k \in Int : B = (3 * v + gb) + k * N
    BY DEF Congruent, ServerPublic, v, gb
  <2>2. PICK l \in Int : gb = gbp + l * N
    BY <1>2 DEF Congruent
  <2>3. B - 3 * v = gbp + (k + l) * N /\ k + l \in Int
    BY <1>1, <2>1, <2>2
  <2> QED
    BY <2>3 DEF Congruent
<1>4. Congruent(A * vu, gs, N) /\ vu \in Int
  <2>1. Congruent(vu, Power(Power(g)[x])[u], N) /\ vu \in 0 .. N - 1 /\ Power(g)[x] \in Int
    <3> HIDE DEF v
    <3>1. Power(g)[x] \in Int
      BY PowerExists
    <3> QED
      BY <1>1, <1>2, <3>1, ModPowPower
  <2>2. Power(Power(g)[x])[u] = Power(g)[x * u] /\ Power(g)[x * u] \in Int
    BY <1>0, PowerProduct, PowerExists
  <2>3. Power(g)[a] \in Int
    BY PowerExists
  <2> HIDE DEF A, vu
  <2>4. Congruent(A * vu, Power(g)[a] * Power(g)[x * u], N)
    <3>1. vu \in Int /\ N \in Int /\ Congruent(vu, Power(g)[x * u], N)
      BY <2>1, <2>2
    <3> QED
      BY <1>1, <1>2, <2>2, <2>3, <3>1, CongruentTimes, Zenon
  <2>5. Power(g)[a] * Power(g)[x * u] = Power(g)[a + x * u] /\ x * u = u * x
    BY <1>0, PowerSum
  <2> QED
    BY <2>1, <2>4, <2>5
<1>5. /\ ClientSecret(a, B, u, x, g, N) = ModPow(B - 3 * v, a + u * x, N)
      /\ ServerSecret(A, b, u, v, N) = ModPow(A * vu, b, N)
  BY DEF ClientSecret, ServerSecret
<1> DEFINE cs == ModPow(B - 3 * v, a + u * x, N)
           ss == ModPow(A * vu, b, N)
<1>6. /\ cs \in 0 .. N - 1
      /\ Congruent(cs, Power(gbp)[a + u * x], N)
  <2> HIDE DEF v, gbp
  <2>1. B - 3 * v \in Int
    BY <1>1
  <2> QED
    BY <1>0, <1>1, <1>3, <2>1, ModPowPower
<1>7. /\ ss \in 0 .. N - 1
      /\ Congruent(ss, Power(gs)[b], N)
  <2> HIDE DEF A, vu, gs
  <2>1. A * vu \in Int
    BY <1>1, <1>4
  <2> QED
    BY <1>1, <1>4, <2>1, ModPowPower
<1>8. Power(gbp)[a + u * x] = Power(gs)[b] /\ Power(gs)[b] \in Int
  <2>1. Power(gbp)[a + u * x] = Power(g)[b * (a + u * x)]
    BY <1>0, PowerProduct
  <2>2. Power(gs)[b] = Power(g)[(a + u * x) * b]
    BY <1>0, PowerProduct
  <2>3. b * (a + u * x) = (a + u * x) * b
    BY <1>0
  <2>4. Power(gs)[b] \in Int
    BY <1>1, PowerExists
  <2> QED
    BY <2>1, <2>2, <2>3, <2>4
<1>9. cs = ss
  <2> HIDE DEF cs, ss, gs, gbp
  <2>1. cs \in Int /\ ss \in Int
    BY <1>6, <1>7
  <2>2. Congruent(cs, ss, N)
    BY <1>6, <1>7, <1>8, <2>1, CongruentSym, CongruentTrans
  <2> QED
    BY <1>6, <1>7, <2>2, CongruentEqual
<1> QED
  BY <1>5, <1>9 DEF Agreed

\* SRP: with the verifier of the password, the secret of the client is that of
\* the server, in any group and whether or not the server reduces its B, though
\* the base of the client's power may be negative.
THEOREM SecretsEqual ==
    ASSUME NEW a \in Nat, NEW b \in Nat, NEW u \in Nat, NEW x \in Nat,
           NEW g \in Int, NEW N \in Nat \ {0}
    PROVE  LET B == ServerPublic(b, x, g, N) IN
             Agreed(a, b, u, x, g, N, B) /\ Agreed(a, b, u, x, g, N, B % N)
<1> DEFINE B == ServerPublic(b, x, g, N)
<1>1. B \in Int
  <2> DEFINE v == ModPow(g, x, N)
             w == ModPow(g, b, N)
  <2>1. v \in 0 .. N - 1 /\ w \in 0 .. N - 1
    BY ModPowCorrect
  <2>2. B = 3 * v + w
    BY DEF ServerPublic
  <2> HIDE DEF v, w, B
  <2> QED
    BY <2>1, <2>2
<1> HIDE DEF B
<1>2. Congruent(B % N, B, N) /\ B % N \in 0 .. N - 1
  BY <1>1, ModCongruent
<1>3. Congruent(B, B, N)
  BY <1>1, CongruentRefl
<1>4. B % N \in Int
  BY <1>2
<1>5. \A C \in Int : Congruent(C, B, N) => Agreed(a, b, u, x, g, N, C)
  BY SecretsCongruent DEF B
<1>6. Agreed(a, b, u, x, g, N, B) /\ Agreed(a, b, u, x, g, N, B % N)
  BY <1>1, <1>2, <1>3, <1>4, <1>5
<1> QED
  BY <1>6 DEF B

\* So every exchange that the model draws its secrets from ends in agreement.
LEMMA ExchangesAgree == \A e \in Exchanges : e.client = e.server
<1> SUFFICES ASSUME NEW e \in Exchanges PROVE e.client = e.server
  OBVIOUS
<1>1. PICK n \in [1 .. 4 -> 0 .. 7 - 2], reduced \in BOOLEAN :
        LET B == IF reduced THEN ServerPublic(n[2], n[4], 3, 7) % 7
                            ELSE ServerPublic(n[2], n[4], 3, 7)
        IN  e = [client |-> ClientSecret(n[1], B, n[3], n[4], 3, 7),
                 server |-> ServerSecret(ModPow(3, n[1], 7), n[2], n[3],
                                         ModPow(3, n[4], 7), 7)]
  BY DEF Exchanges, ServerPublic
<1>2. n[1] \in Nat /\ n[2] \in Nat /\ n[3] \in Nat /\ n[4] \in Nat
  OBVIOUS
<1>3. 3 \in Int /\ 7 \in Nat \ {0}
  OBVIOUS
<1>4. LET B == ServerPublic(n[2], n[4], 3, 7) IN
        Agreed(n[1], n[2], n[3], n[4], 3, 7, B) /\ Agreed(n[1], n[2], n[3], n[4], 3, 7, B % 7)
  BY <1>2, <1>3, SecretsEqual, Zenon
<1> QED
  BY <1>1, <1>4, Zenon DEF Agreed

-----------------------------------------------------------------------------
(* Bytes and numbers. *)

\* Division by the base undoes one step of reading.
LEMMA Quotient ==
    ASSUME NEW x \in Nat, NEW c \in 0 .. Base - 1
    PROVE  (x * Base + c) \div Base = x /\ (x * Base + c) % Base = c
<1>1. Base \in Nat /\ Base > 1
  BY BaseAssumption
<1> DEFINE n == x * Base + c
           q == n \div Base
<1>2. n \in Nat
  BY <1>1
<1>3. n % Base = n - Base * q /\ n % Base \in 0 .. Base - 1 /\ q \in Int
  <2> HIDE DEF n
  <2> QED
    BY <1>1, <1>2
<1> HIDE DEF q
<1>4. (x - q) * Base = (n % Base) - c /\ x - q \in Int
  BY <1>1, <1>3
<1>5. ~ (x - q >= 1)
  <2> SUFFICES ASSUME x - q >= 1 PROVE FALSE
    OBVIOUS
  <2>1. (x - q) * Base = Base + (x - q - 1) * Base /\ (x - q - 1) * Base >= 0
    BY <1>1, <1>3
  <2> HIDE DEF n
  <2> QED
    BY <1>1, <1>3, <1>4, <2>1
<1>6. ~ (x - q <= -1)
  <2> SUFFICES ASSUME x - q <= -1 PROVE FALSE
    OBVIOUS
  <2>1. (x - q) * Base = -Base - (q - x - 1) * Base /\ (q - x - 1) * Base >= 0
    BY <1>1, <1>3
  <2> HIDE DEF n
  <2> QED
    BY <1>1, <1>3, <1>4, <2>1
<1>7. q = x
  BY <1>3, <1>5, <1>6
<1>8. n % Base = c
  <2>1. (x - q) * Base = 0
    BY <1>1, <1>7
  <2> HIDE DEF n
  <2> QED
    BY <1>1, <1>3, <1>4, <2>1
<1> QED
  BY <1>7, <1>8 DEF q

\* Division makes a number smaller.
LEMMA Smaller ==
    ASSUME NEW x \in Nat
    PROVE  x \div Base \in Nat /\ (x = 0 => x \div Base = 0) /\ (x > 0 => x \div Base < x)
<1>1. Base \in Nat /\ Base > 1
  BY BaseAssumption
<1> DEFINE q == x \div Base
<1>2. x % Base = x - Base * q /\ x % Base \in 0 .. Base - 1 /\ q \in Int
  BY <1>1
<1> HIDE DEF q
<1>3. q >= 0
  <2> SUFFICES ASSUME q <= -1 PROVE FALSE
    BY <1>2
  <2>1. Base * q = -Base - (-1 - q) * Base /\ (-1 - q) * Base >= 0
    BY <1>1, <1>2
  <2> QED
    BY <1>1, <1>2, <2>1
<1>4. Base * q <= x
  BY <1>1, <1>2
<1>5. Base * q = q + (Base - 1) * q /\ (Base - 1) * q >= 0
  BY <1>1, <1>2, <1>3
<1>6. q > 0 => (Base - 1) * q > 0
  BY <1>1, <1>2, <1>3
<1>7. q \in Nat /\ (x = 0 => q = 0) /\ (x > 0 => q < x)
  <2>1. CASE q = 0
    BY <2>1
  <2>2. CASE q > 0
    BY <1>1, <1>2, <1>4, <1>5, <1>6, <2>2
  <2> QED
    BY <1>2, <1>3, <2>1, <2>2
<1> QED
  BY <1>7 DEF q

\* The functions of FromBytes and of Digits.
Horner(b) ==
    CHOOSE value : value = [i \in 0 .. Len(b) |->
                              IF i = 0 THEN 0 ELSE value[i - 1] * Base + b[i]]

Rest(n) ==
    CHOOSE rest : rest = [i \in 0 .. n |-> IF i = 0 THEN n ELSE rest[i - 1] \div Base]

LEMMA HornerExists ==
    ASSUME NEW W \in Nat, NEW b \in Strings(W)
    PROVE  /\ b \in Seq(0 .. Base - 1) /\ Len(b) = W
           /\ \A i \in 0 .. W : Horner(b)[i] \in Nat
           /\ \A i \in 0 .. W :
                Horner(b)[i] = IF i = 0 THEN 0 ELSE Horner(b)[i - 1] * Base + b[i]
<1>1. Base \in Nat /\ b \in [1 .. W -> 0 .. Base - 1]
  BY BaseAssumption DEF Strings
<1>2. b \in Seq(0 .. Base - 1) /\ Len(b) = W
  BY <1>1
<1> DEFINE Add(n, i) == IF i + 1 \in 1 .. W THEN n * Base + b[i + 1] ELSE n
           step == [p \in Nat \X Nat |-> Add(p[1], p[2])]
<1>3. step \in [Nat \X Nat -> Nat] /\ 0 \in Nat
  <2>1. ASSUME NEW n \in Nat, NEW i \in Nat PROVE Add(n, i) \in Nat
    <3>1. i + 1 \in 1 .. W => b[i + 1] \in Nat
      BY <1>1
    <3> QED
      BY <1>1, <3>1
  <2> HIDE DEF Add
  <2> QED
    BY <2>1
<1>4. PICK f \in [Nat -> Nat] : Recurs(f, 0, step)
  <2> HIDE DEF step
  <2> QED
    BY <1>3, PrimitiveRecursion, Zenon
<1>5. f[0] = 0 /\ \A i \in Nat : f[i + 1] = Add(f[i], i)
  <2> HIDE DEF Add
  <2> QED
    BY <1>4 DEF Recurs
<1> DEFINE g == [i \in 0 .. Len(b) |-> f[i]]
           Eq(h) == h = [i \in 0 .. Len(b) |-> IF i = 0 THEN 0 ELSE h[i - 1] * Base + b[i]]
<1>6. Eq(g)
  <2>1. ASSUME NEW i \in 0 .. Len(b)
        PROVE  f[i] = IF i = 0 THEN 0 ELSE g[i - 1] * Base + b[i]
    <3>1. CASE i = 0
      BY <1>5, <3>1
    <3>2. CASE i # 0
      <4>1. i - 1 \in Nat /\ i - 1 \in 0 .. Len(b) /\ (i - 1) + 1 = i /\ i \in 1 .. W
        BY <1>2, <3>2
      <4>2. g[i - 1] = f[i - 1] /\ f[i] = Add(f[i - 1], i - 1)
        BY <1>5, <4>1
      <4> QED
        BY <3>2, <4>1, <4>2
    <3> QED
      BY <3>1, <3>2
  <2> QED
    BY <2>1
<1>7. Eq(Horner(b))
  <2>1. Horner(b) = CHOOSE h : Eq(h)
    BY Zenon DEF Horner
  <2> HIDE DEF Eq, g
  <2> QED
    BY <1>6, <2>1, Zenon
<1>8. \A i \in 0 .. Len(b) :
        Horner(b)[i] = IF i = 0 THEN 0 ELSE Horner(b)[i - 1] * Base + b[i]
  BY <1>7, Zenon
<1> DEFINE V == {i \in Nat : i <= W => Horner(b)[i] \in Nat}
<1>9. 0 \in V
  <2>1. Horner(b)[0] = 0
    BY <1>2, <1>8
  <2> QED
    BY <2>1
<1>10. ASSUME NEW i \in Nat, i \in V PROVE i + 1 \in V
  <2> SUFFICES ASSUME i + 1 <= W PROVE Horner(b)[i + 1] \in Nat
    OBVIOUS
  <2>1. i + 1 \in 0 .. Len(b) /\ i + 1 # 0 /\ (i + 1) - 1 = i /\ i + 1 \in 1 .. W
    BY <1>2
  <2>2. Horner(b)[i + 1] = Horner(b)[i] * Base + b[i + 1]
    BY <1>8, <2>1
  <2>3. Horner(b)[i] \in Nat /\ b[i + 1] \in Nat
    BY <1>1, <1>10, <2>1
  <2>4. \A p \in Nat, q \in Nat : p * Base + q \in Nat
    <3>1. Base \in Nat
      BY <1>1
    <3> HIDE <1>1
    <3> QED
      BY <3>1
  <2> QED
    BY <2>2, <2>3, <2>4
<1>11. Nat \subseteq V
  <2> HIDE DEF V
  <2> QED
    BY <1>9, <1>10, Induction
<1>12. \A i \in 0 .. W : Horner(b)[i] \in Nat
  BY <1>11
<1> QED
  BY <1>2, <1>8, <1>12

LEMMA RestExists ==
    ASSUME NEW n \in Nat
    PROVE  /\ \A i \in 0 .. n : Rest(n)[i] \in Nat /\ Rest(n)[i] <= n - i
           /\ \A i \in 0 .. n : Rest(n)[i] = IF i = 0 THEN n ELSE Rest(n)[i - 1] \div Base
<1> DEFINE step == [p \in Nat \X Nat |-> p[1] \div Base]
<1>1. step \in [Nat \X Nat -> Nat]
  BY Smaller
<1>2. PICK f \in [Nat -> Nat] : Recurs(f, n, step)
  <2> HIDE DEF step
  <2> QED
    BY <1>1, PrimitiveRecursion, Zenon
<1>3. f[0] = n /\ \A i \in Nat : f[i + 1] = f[i] \div Base
  BY <1>2 DEF Recurs
<1> DEFINE g == [i \in 0 .. n |-> f[i]]
           Eq(h) == h = [i \in 0 .. n |-> IF i = 0 THEN n ELSE h[i - 1] \div Base]
<1>4. Eq(g)
  <2>1. ASSUME NEW i \in 0 .. n
        PROVE  f[i] = IF i = 0 THEN n ELSE g[i - 1] \div Base
    <3>1. CASE i = 0
      BY <1>3, <3>1
    <3>2. CASE i # 0
      <4>1. i - 1 \in Nat /\ i - 1 \in 0 .. n /\ (i - 1) + 1 = i
        BY <3>2
      <4>2. f[i] = f[i - 1] \div Base
        BY <1>3, <4>1
      <4> QED
        BY <3>2, <4>1, <4>2
    <3> QED
      BY <3>1, <3>2
  <2> QED
    BY <2>1
<1>5. Eq(Rest(n))
  <2>1. Rest(n) = CHOOSE h : Eq(h)
    BY Zenon DEF Rest
  <2> HIDE DEF Eq, g
  <2> QED
    BY <1>4, <2>1, Zenon
<1>6. \A i \in 0 .. n : Rest(n)[i] = IF i = 0 THEN n ELSE Rest(n)[i - 1] \div Base
  BY <1>5, Zenon
<1> DEFINE V == {i \in Nat : i <= n => Rest(n)[i] \in Nat /\ Rest(n)[i] <= n - i}
<1>7. 0 \in V
  BY <1>6
<1>8. ASSUME NEW i \in Nat, i \in V PROVE i + 1 \in V
  <2> SUFFICES ASSUME i + 1 <= n PROVE Rest(n)[i + 1] \in Nat /\ Rest(n)[i + 1] <= n - (i + 1)
    OBVIOUS
  <2>1. i + 1 \in 0 .. n /\ i + 1 # 0 /\ (i + 1) - 1 = i
    OBVIOUS
  <2>2. Rest(n)[i + 1] = Rest(n)[i] \div Base
    BY <1>6, <2>1
  <2>3. Rest(n)[i] \in Nat /\ Rest(n)[i] <= n - i
    BY <1>8
  <2> DEFINE p == Rest(n)[i]
             q == p \div Base
  <2>4. q \in Nat /\ (p = 0 => q = 0) /\ (p > 0 => q < p)
    BY <2>3, Smaller
  <2> HIDE DEF p, q
  <2>5. p \in Nat /\ p <= n - i /\ Rest(n)[i + 1] = q
    BY <2>2, <2>3 DEF p, q
  <2> QED
    BY <2>4, <2>5
<1>9. Nat \subseteq V
  <2> HIDE DEF V
  <2> QED
    BY <1>7, <1>8, Induction
<1> QED
  BY <1>6, <1>9

\* The digits are what the divisions leave, as long as there is something to
\* divide.
LEMMA DigitsCorrect ==
    ASSUME NEW n \in Nat
    PROVE  \E len \in 0 .. n :
             /\ Rest(n)[len] = 0
             /\ \A i \in 0 .. len - 1 : Rest(n)[i] # 0
             /\ Digits(n) = [i \in 1 .. len |-> Rest(n)[len - i] % Base]
<1> DEFINE Ends(k) == Rest(n)[k] = 0 /\ \A i \in 0 .. k - 1 : Rest(n)[i] # 0
           len == CHOOSE k \in 0 .. n : Ends(k)
<1>1. \E k \in 0 .. n : Ends(k)
  <2> DEFINE S == {k \in 0 .. n : Rest(n)[k] = 0}
  <2>1. n \in S
    BY RestExists
  <2>2. S \in SUBSET Nat /\ S # {}
    BY <2>1
  <2>3. PICK k \in S : \A j \in S : k <= j
    <3> HIDE DEF S
    <3> QED
      BY <2>2, LeastNatural
  <2>4. k \in 0 .. n /\ Rest(n)[k] = 0
    BY <2>3
  <2>5. ASSUME NEW i \in 0 .. k - 1 PROVE Rest(n)[i] # 0
    <3>1. i \in 0 .. n /\ ~ (k <= i)
      BY <2>4
    <3> QED
      BY <2>3, <3>1
  <2> QED
    BY <2>4, <2>5
<1>2. len \in 0 .. n /\ Ends(len)
  <2> HIDE DEF Ends
  <2> QED
    BY <1>1, Zenon
<1>3. Digits(n) = [i \in 1 .. len |-> Rest(n)[len - i] % Base]
  BY Zenon DEF Digits, Rest
<1> HIDE DEF len
<1> QED
  BY <1>2, <1>3

\* Reading a string of bytes and writing the number gives the string without
\* its leading zeros.
LEMMA DigitsOfString ==
    ASSUME NEW W \in Nat, NEW b \in Strings(W)
    PROVE  \E len \in 0 .. W :
             /\ Digits(Horner(b)[W]) = [i \in 1 .. len |-> b[W - len + i]]
             /\ \A i \in 1 .. W - len : b[i] = 0
<1> DEFINE n == Horner(b)[W]
<1>1. /\ \A i \in 0 .. W : Horner(b)[i] \in Nat
      /\ Horner(b)[0] = 0
      /\ \A i \in 1 .. W : Horner(b)[i] = Horner(b)[i - 1] * Base + b[i]
  BY HornerExists
<1>2. n \in Nat
  BY <1>1
<1>3. \A i \in 1 .. W : b[i] \in 0 .. Base - 1
  BY DEF Strings
<1> HIDE DEF n
<1>4. PICK len \in 0 .. n : /\ Rest(n)[len] = 0
                            /\ \A i \in 0 .. len - 1 : Rest(n)[i] # 0
                            /\ Digits(n) = [i \in 1 .. len |-> Rest(n)[len - i] % Base]
  BY <1>2, DigitsCorrect
<1>5. /\ Rest(n)[0] = n
      /\ \A i \in 1 .. n : Rest(n)[i] = Rest(n)[i - 1] \div Base
  BY <1>2, RestExists
<1> DEFINE V == {j \in Nat : j <= W /\ j <= n => Rest(n)[j] = Horner(b)[W - j]}
<1>6. 0 \in V
  BY <1>5 DEF n
<1>7. ASSUME NEW j \in Nat, j \in V PROVE j + 1 \in V
  <2> SUFFICES ASSUME j + 1 <= W, j + 1 <= n PROVE Rest(n)[j + 1] = Horner(b)[W - (j + 1)]
    OBVIOUS
  <2>1. /\ j + 1 \in 1 .. n /\ (j + 1) - 1 = j /\ W - j \in 1 .. W
        /\ (W - j) - 1 = W - (j + 1) /\ W - (j + 1) \in 0 .. W
    BY <1>2
  <2>2. Rest(n)[j + 1] = Horner(b)[W - j] \div Base
    <3>1. Rest(n)[j] = Horner(b)[W - j]
      BY <1>2, <1>7
    <3> QED
      BY <1>5, <2>1, <3>1
  <2>3. Horner(b)[W - j] = Horner(b)[W - (j + 1)] * Base + b[W - j]
    BY <1>1, <2>1
  <2>4. Horner(b)[W - (j + 1)] \in Nat /\ b[W - j] \in 0 .. Base - 1
    BY <1>1, <1>3, <2>1
  <2> QED
    BY <2>2, <2>3, <2>4, Quotient
<1>8. Nat \subseteq V
  <2> HIDE DEF V
  <2> QED
    BY <1>6, <1>7, Induction
<1>9. \A j \in Nat : j <= W /\ j <= n => Rest(n)[j] = Horner(b)[W - j]
  BY <1>8
<1>10. len <= W
  <2> SUFFICES ASSUME W < len PROVE FALSE
    BY <1>2
  <2>1. W \in 0 .. len - 1 /\ W <= n /\ W - W = 0
    BY <1>2
  <2>2. Rest(n)[W] = 0
    BY <1>1, <1>9, <2>1
  <2> QED
    BY <1>4, <2>1, <2>2
<1>11. ASSUME NEW i \in 1 .. len PROVE Rest(n)[len - i] % Base = b[W - len + i]
  <2>1. /\ len - i \in Nat /\ len - i <= W /\ len - i <= n
        /\ W - (len - i) = W - len + i /\ W - len + i \in 1 .. W
        /\ (W - len + i) - 1 \in 0 .. W
    BY <1>2, <1>10
  <2>2. Rest(n)[len - i] = Horner(b)[W - len + i]
    BY <1>9, <2>1
  <2>3. Horner(b)[W - len + i] = Horner(b)[(W - len + i) - 1] * Base + b[W - len + i]
    BY <1>1, <2>1
  <2>4. Horner(b)[(W - len + i) - 1] \in Nat /\ b[W - len + i] \in 0 .. Base - 1
    BY <1>1, <1>3, <2>1
  <2> QED
    BY <2>2, <2>3, <2>4, Quotient
<1>12. Digits(n) = [i \in 1 .. len |-> b[W - len + i]]
  BY <1>4, <1>11
<1> DEFINE M == W - len
           U == {j \in Nat : j <= M => Horner(b)[M - j] = 0}
<1>13. M \in Nat /\ M <= W
  BY <1>2, <1>10
<1>14. Horner(b)[M] = 0
  BY <1>2, <1>4, <1>9, <1>10
<1> HIDE DEF M
<1>15. ASSUME NEW i \in 1 .. W, Horner(b)[i] = 0 PROVE Horner(b)[i - 1] = 0 /\ b[i] = 0
  <2> DEFINE h == Horner(b)[i - 1]
             c == b[i]
  <2>1. h \in Nat /\ c \in Nat /\ h * Base + c = 0
    <3>1. i - 1 \in 0 .. W
      OBVIOUS
    <3> QED
      BY <1>1, <1>3, <1>15, <3>1, BaseAssumption
  <2>2. Base \in Nat /\ Base > 1
    BY BaseAssumption
  <2> HIDE DEF h, c
  <2>3. h * Base >= 0 /\ (h > 0 => h * Base > 0)
    BY <2>1, <2>2
  <2>4. h = 0 /\ c = 0
    BY <2>1, <2>2, <2>3
  <2> QED
    BY <2>4 DEF h, c
<1>16. 0 \in U
  BY <1>13, <1>14
<1>17. ASSUME NEW j \in Nat, j \in U PROVE j + 1 \in U
  <2> SUFFICES ASSUME j + 1 <= M PROVE Horner(b)[M - (j + 1)] = 0
    OBVIOUS
  <2>1. M - j \in 1 .. W /\ (M - j) - 1 = M - (j + 1) /\ Horner(b)[M - j] = 0
    BY <1>13, <1>17
  <2> QED
    BY <1>15, <2>1
<1>18. Nat \subseteq U
  <2> HIDE DEF U
  <2> QED
    BY <1>16, <1>17, Induction
<1>19. ASSUME NEW i \in 1 .. M PROVE b[i] = 0
  <2>1. M - i \in Nat /\ M - i <= M /\ M - (M - i) = i /\ i \in 1 .. W
    BY <1>13
  <2>2. Horner(b)[i] = 0
    BY <1>18, <2>1
  <2> QED
    BY <1>15, <2>1, <2>2
<1> QED
  BY <1>10, <1>12, <1>19 DEF n, M

\* Numbers made from bytes in either order.
LEMMA FromBytesIs ==
    ASSUME NEW b
    PROVE  /\ FromBytes(b, FALSE) = Horner(b)[Len(b)]
           /\ FromBytes(b, TRUE) = Horner(Reverse(b))[Len(Reverse(b))]
<1>1. FromBytes(b, FALSE) = Horner(b)[Len(b)]
  BY Zenon DEF FromBytes, Horner
<1>2. FromBytes(b, TRUE) = Horner(Reverse(b))[Len(Reverse(b))]
  BY Zenon DEF FromBytes, Horner
<1> QED
  BY <1>1, <1>2

\* Padding.
LEMMA ZerosAreBytes ==
    ASSUME NEW n \in Nat
    PROVE  Zeros(n) \in Seq(0 .. Base - 1) /\ Len(Zeros(n)) = n
<1>1. 0 \in 0 .. Base - 1
  BY BaseAssumption
<1> QED
  BY <1>1 DEF Zeros

\* A key of any bytes is the same after its way through a number: the zeros that
\* the number loses are those that the padding appends.
THEOREM KeyRoundTrip ==
    ASSUME NEW W \in Nat, NEW d \in Strings(W)
    PROVE  SessionKey(d) = d
<1> DEFINE r == Reverse(d)
           n == FromBytes(d, TRUE)
<1>1. d \in Seq(0 .. Base - 1) /\ Len(d) = W /\ d = [i \in 1 .. W |-> d[i]]
  BY HornerExists DEF Strings
<1>2. /\ r \in Strings(W) /\ Len(r) = W
      /\ \A i \in 1 .. W : r[i] = d[W - i + 1]
  <2>1. r = [i \in 1 .. W |-> d[(W - i) + 1]]
    BY <1>1 DEF Reverse
  <2>2. \A i \in 1 .. W : (W - i) + 1 \in 1 .. W
    OBVIOUS
  <2>3. r \in Strings(W)
    BY <2>1, <2>2 DEF Strings
  <2> HIDE DEF r
  <2> QED
    BY <2>1, <2>3, HornerExists
<1>3. n = Horner(r)[W]
  BY <1>2, FromBytesIs
<1> HIDE DEF r, n
<1>4. PICK len \in 0 .. W : /\ Digits(n) = [i \in 1 .. len |-> r[W - len + i]]
                            /\ \A i \in 1 .. W - len : r[i] = 0
  BY <1>2, <1>3, DigitsOfString
<1> DEFINE b == Reverse(Digits(n))
<1>5. b = [i \in 1 .. len |-> d[i]]
  <2>1. Len(Digits(n)) = len
    BY <1>4
  <2>2. b = [i \in 1 .. len |-> Digits(n)[(len - i) + 1]]
    BY <2>1 DEF Reverse
  <2>3. ASSUME NEW i \in 1 .. len PROVE Digits(n)[(len - i) + 1] = d[i]
    <3>1. /\ (len - i) + 1 \in 1 .. len /\ W - len + ((len - i) + 1) \in 1 .. W
          /\ W - (W - len + ((len - i) + 1)) + 1 = i
      OBVIOUS
    <3> QED
      BY <1>2, <1>4, <3>1
  <2> QED
    BY <2>2, <2>3
<1> HIDE DEF b
<1>6. ASSUME NEW i \in len + 1 .. W PROVE d[i] = 0
  <2>1. W - i + 1 \in 1 .. W - len /\ W - i + 1 \in 1 .. W /\ W - (W - i + 1) + 1 = i
    OBVIOUS
  <2> QED
    BY <1>2, <1>4, <2>1
<1>7. SessionKey(d) = IF W > Len(b) THEN b \o Zeros(W - Len(b)) ELSE b
  BY <1>1 DEF SessionKey, AsByteArray, Pad, n, b
<1>8. Len(b) = len /\ b \in Seq(0 .. Base - 1)
  <2>1. \A i \in 1 .. len : d[i] \in 0 .. Base - 1
    BY DEF Strings
  <2> QED
    BY <1>5, <2>1
<1>9. CASE len = W
  BY <1>1, <1>5, <1>7, <1>8, <1>9
<1>10. CASE len # W
  <2> DEFINE z == Zeros(W - len)
  <2>1. W - len \in Nat /\ \A i \in 1 .. W - len : z[i] = 0
    BY DEF Zeros
  <2>2. z \in Seq(0 .. Base - 1) /\ Len(z) = W - len
    BY <2>1, ZerosAreBytes
  <2> HIDE DEF z
  <2>3. /\ b \o z \in Seq(0 .. Base - 1) /\ Len(b \o z) = Len(b) + Len(z)
        /\ \A i \in 1 .. Len(b) + Len(z) :
             (b \o z)[i] = IF i <= Len(b) THEN b[i] ELSE z[i - Len(b)]
    BY <1>8, <2>2, ConcatProperties
  <2>4. Len(b) = len /\ Len(b) + Len(z) = W
    BY <1>8, <2>2
  <2>5. ASSUME NEW i \in 1 .. W PROVE (b \o z)[i] = d[i]
    <3>1. CASE i <= len
      BY <1>5, <2>3, <2>4, <3>1
    <3>2. CASE ~ (i <= len)
      <4>1. i - len \in 1 .. W - len /\ i \in len + 1 .. W
        BY <3>2
      <4> QED
        BY <1>6, <2>1, <2>3, <2>4, <3>2, <4>1
    <3> QED
      BY <3>1, <3>2
  <2>6. b \o z = d
    BY <1>1, <2>3, <2>4, <2>5, SeqEqual
  <2> QED
    BY <1>7, <1>8, <1>10, <2>6 DEF z
<1> QED
  BY <1>9, <1>10

\* The client's proof arrives as it was computed unless it begins with a zero.
THEOREM ProofRoundTrip ==
    ASSUME NEW W \in Nat \ {0}, NEW d \in Strings(W), d[1] # 0
    PROVE  ClientProof(d) = d
<1> DEFINE n == FromBytes(d, FALSE)
<1>1. Len(d) = W /\ d = [i \in 1 .. W |-> d[i]]
  BY HornerExists DEF Strings
<1>2. n = Horner(d)[W]
  BY <1>1, FromBytesIs
<1> HIDE DEF n
<1>3. PICK len \in 0 .. W : /\ Digits(n) = [i \in 1 .. len |-> d[W - len + i]]
                            /\ \A i \in 1 .. W - len : d[i] = 0
  BY <1>2, DigitsOfString
<1>4. len = W
  <2> SUFFICES ASSUME len # W PROVE FALSE
    OBVIOUS
  <2>1. 1 \in 1 .. W - len
    OBVIOUS
  <2> QED
    BY <1>3, <2>1
<1>5. Digits(n) = d /\ Len(Digits(n)) = W
  <2>1. \A i \in 1 .. W : W - W + i = i
    OBVIOUS
  <2> QED
    BY <1>1, <1>3, <1>4, <2>1
<1>6. ClientProof(d) = IF W > Len(Digits(n)) THEN Pad(Digits(n), W) ELSE Digits(n)
  BY <1>1, Zenon DEF ClientProof, AsByteArray, n
<1> QED
  BY <1>5, <1>6

-----------------------------------------------------------------------------
(* Login: what may be on its way. *)

\* A packet op of len cells, with contents v, may answer the request ph.
Possible(ph, op, v, len) ==
    \/ op = "other" /\ v = "ok" /\ len = 1
    \/ op = ph /\ CASE ph = "challenge" ->
                         \/ v \in {"ok", "malformed"} /\ len = 3
                         \/ v \in {"token", "emptyToken", "otherFlags"} /\ len = 4
                         \/ v = "refused" /\ len = 2
                    [] ph = "proof" ->
                         \/ v = "ok" /\ len = 3 /\ agree /\ accepted
                         \/ v \in {"refused", "forged"} /\ len = 3
                         \/ v = "refusedShort" /\ len = 2
                    [] OTHER -> v \in {"found", "missing", "malformed"} /\ len = 3

\* What has been read and what is still to be read are this packet.
Holds(op, v, len) ==
    /\ Len(buf) + Len(wire) = len
    /\ \A k \in 1 .. Len(buf) : buf[k] = Cell(op, v, k)
    /\ \A k \in 1 .. Len(wire) : wire[k] = Cell(op, v, Len(buf) + k)

\* While an answer is read there is nothing but that answer; the server's "ok" to
\* the proof tells the truth.
Answering ==
    phase \in Answers =>
      /\ dial = "up" /\ peer # "proxy"
      /\ held = <<>>
      /\ asked \in {phase, "none"}
      /\ asked = phase => buf = <<>> /\ wire = <<>>
      /\ asked = "none" =>
           \E op \in Ops, v \in Values, len \in 1 .. 4 :
             Possible(phase, op, v, len) /\ Holds(op, v, len)

\* A proxy's answer ends with its blank line, behind which nothing has come yet.
BlankIsLast ==
    /\ \A k \in 1 .. Len(held) : held[k] = Line("blank") => k = Len(held) /\ wire = <<>>
    /\ \A k \in 1 .. Len(wire) : wire[k] = Line("blank") => k = Len(wire)

\* While Login dials, there are no bytes but the proxy's.
Dialling ==
    phase = "dial" =>
      /\ dial # "off"
      /\ dial \in Reading => BlankIsLast
      /\ peer = "proxy" => wire = <<>> /\ held = <<>>
      /\ dial \notin Reading => peer # "proxy" /\ wire = <<>> /\ held = <<>>

\* Between two logins nothing is left.
Quiet ==
    /\ phase \notin Answers => asked = "none"
    /\ phase \notin Answers \cup {"panic"} => buf = <<>>
    /\ phase \in {"idle", "failed"} => wire = <<>> /\ held = <<>> /\ dial = "off"
    /\ phase \in {"idle", "failed"} => peer = "none"

\* Who has proved what.
Proven ==
    /\ phase \in {"list", "done"} => agree /\ accepted
    /\ phase \in {"proof", "list", "done"} => digest \in Strings(Width)

\* Where nothing is connected no socket is open.
NoSocket == dial \in {"off", "tcp", "failed"} => ~sock /\ peer = "none"

LoginIInv ==
    /\ LoginTypeOK /\ Answering /\ Dialling /\ Quiet /\ Proven /\ NoSocket

-----------------------------------------------------------------------------
(* Facts about cells and packets. *)

LEMMA PacketCells ==
  ASSUME NEW op \in Ops, NEW v \in Values, NEW len \in 1 .. 4
  PROVE  /\ Packet(op, v, len) \in Seq(Cells)
         /\ Len(Packet(op, v, len)) = len
         /\ \A k \in 1 .. len : Packet(op, v, len)[k] = Cell(op, v, k)
  BY DEF Packet, Cell, Cells

\* A part of a sequence of cells.
LEMMA Part ==
  ASSUME NEW s \in Seq(Cells), NEW m \in 1 .. Len(s) + 1, NEW n \in 0 .. Len(s)
  PROVE  /\ SubSeq(s, m, n) \in Seq(Cells)
         /\ Len(SubSeq(s, m, n)) = IF m <= n THEN n - m + 1 ELSE 0
         /\ \A k \in 1 .. n - m + 1 : SubSeq(s, m, n)[k] = s[m + k - 1]
<1>1. \A k \in m .. n : s[k] \in Cells
  BY ElementOfSeq
<1> QED
  BY <1>1, SubSeqProperties

\* Two sequences of cells, one behind the other.
LEMMA Joined ==
  ASSUME NEW s \in Seq(Cells), NEW t \in Seq(Cells)
  PROVE  /\ s \o t \in Seq(Cells)
         /\ Len(s \o t) = Len(s) + Len(t)
         /\ \A k \in 1 .. Len(s) : (s \o t)[k] = s[k]
         /\ \A k \in 1 .. Len(t) : (s \o t)[Len(s) + k] = t[k]
<1>1. Len(s) \in Nat /\ Len(t) \in Nat
  BY LenProperties
<1>2. /\ s \o t \in Seq(Cells)
      /\ Len(s \o t) = Len(s) + Len(t)
      /\ \A k \in 1 .. Len(s) + Len(t) :
           (s \o t)[k] = IF k <= Len(s) THEN s[k] ELSE t[k - Len(s)]
  BY ConcatProperties
<1>3. ASSUME NEW k \in 1 .. Len(s) PROVE (s \o t)[k] = s[k]
  BY <1>1, <1>2
<1>4. ASSUME NEW k \in 1 .. Len(t) PROVE (s \o t)[Len(s) + k] = t[k]
  BY <1>1, <1>2
<1> QED
  BY <1>2, <1>3, <1>4

\* The proxy's answer.
LEMMA ReplyCells ==
  ASSUME NEW status \in {"200", "407", "bad"}, NEW headers \in 0 .. MaxHeaders
  PROVE  LET reply == ProxyReply(status, headers) IN
         /\ reply \in Seq(Cells)
         /\ Len(reply) = headers + 2
         /\ \A k \in 1 .. Len(reply) : reply[k] = Line("blank") => k = Len(reply)
<1> DEFINE first == <<Line(status)>>
           mid == [i \in 1 .. headers |-> Line("header")]
           last == <<Line("blank")>>
<1>0. /\ headers \in Nat
      /\ Line(status) \in Cells /\ Line("header") \in Cells /\ Line("blank") \in Cells
  BY DialAssumption DEF Line, Cell, Cells, Ops, Values
<1>1. first \in Seq(Cells) /\ mid \in Seq(Cells) /\ last \in Seq(Cells)
  <2>1. first \in Seq(Cells) /\ last \in Seq(Cells)
    BY <1>0
  <2>2. mid \in Seq(Cells)
    BY <1>0
  <2> QED
    BY <2>1, <2>2
<1>2. Len(first) = 1 /\ Len(mid) = headers /\ Len(last) = 1
  BY DialAssumption
<1>3. Line(status) # Line("blank") /\ Line("header") # Line("blank")
  BY DEF Line, Cell
<1>4. first[1] = Line(status) /\ \A i \in 1 .. headers : mid[i] = Line("header")
  OBVIOUS
<1> HIDE DEF first, mid, last
<1>5. /\ first \o mid \in Seq(Cells)
      /\ Len(first \o mid) = headers + 1
      /\ \A i \in 1 .. headers + 1 : (first \o mid)[i] # Line("blank")
  <2>1. headers + 1 \in Nat /\ 1 + headers = headers + 1
    BY <1>0
  <2>2. /\ first \o mid \in Seq(Cells)
        /\ Len(first \o mid) = 1 + headers
        /\ \A i \in 1 .. 1 + headers :
             (first \o mid)[i] = IF i <= 1 THEN first[i] ELSE mid[i - 1]
    BY ConcatProperties, <1>1, <1>2
  <2>3. \A i \in 1 .. headers + 1 : i > 1 => i - 1 \in 1 .. headers
    BY <1>0
  <2>4. ASSUME NEW i \in 1 .. headers + 1 PROVE (first \o mid)[i] # Line("blank")
    <3>1. CASE i = 1
      BY <3>1, <2>1, <2>2, <1>0, <1>3, <1>4
    <3>2. CASE i # 1
      BY <3>2, <2>1, <2>2, <2>3, <1>0, <1>3, <1>4
    <3> QED
      BY <3>1, <3>2
  <2> QED
    BY <2>1, <2>2, <2>4
<1>6. /\ (first \o mid) \o last \in Seq(Cells)
      /\ Len((first \o mid) \o last) = headers + 2
      /\ \A i \in 1 .. headers + 1 :
           ((first \o mid) \o last)[i] # Line("blank")
  BY <1>0, <1>1, <1>2, <1>5, ConcatProperties
<1>7. ProxyReply(status, headers) = (first \o mid) \o last
  BY DEF ProxyReply, first, mid, last
<1> QED
  BY <1>0, <1>6, <1>7

-----------------------------------------------------------------------------
(* Types. *)

LEMMA TypeDialStep == LoginTypeOK /\ DialStep /\ UNCHANGED loginVars => LoginTypeOK'
<1> SUFFICES ASSUME LoginTypeOK, DialStep, UNCHANGED loginVars PROVE LoginTypeOK'
  OBVIOUS
<1> USE DEF LoginTypeOK, Reading, loginVars, secretVars
<1>1. wire \in Seq(Cells) /\ held \in Seq(Cells) /\ <<>> \in Seq(Cells)
  BY EmptySeq
<1>2. CASE Fill
  <2>1. PICK n \in 1 .. Len(wire) : held' = SubSeq(wire, 1, n)
                                    /\ wire' = SubSeq(wire, n + 1, Len(wire))
    BY <1>2 DEF Fill
  <2>2. held' \in Seq(Cells) /\ wire' \in Seq(Cells)
    BY <1>1, <2>1, Part, LenProperties
  <2> QED
    BY <1>2, <2>2 DEF Fill
<1>3. CASE StatusLine \/ HeaderLine \/ Tunnel
  <2>1. held # <<>> /\ held' = Tail(held)
    BY <1>3 DEF StatusLine, HeaderLine, Tunnel
  <2>2. held' \in Seq(Cells)
    BY <1>1, <2>1, HeadTailProperties
  <2> QED
    BY <1>3, <2>2 DEF StatusLine, HeaderLine, Tunnel
<1>4. CASE TCPFails \/ TCPConnects
  BY <1>4 DEF TCPFails, TCPConnects
<1>5. CASE ConnectBroken \/ BadStatusLine \/ Refused
  BY <1>5, <1>1 DEF ConnectBroken, BadStatusLine, Refused, Closed
<1> QED
  BY <1>2, <1>3, <1>4, <1>5 DEF DialStep

LEMMA TypeLoginStep == LoginTypeOK /\ LoginStep => LoginTypeOK'
<1> SUFFICES ASSUME LoginTypeOK, LoginStep PROVE LoginTypeOK'
  OBVIOUS
<1>1. CASE DialStep /\ UNCHANGED loginVars
  BY <1>1, TypeDialStep
<1> USE DEF LoginTypeOK, Answers, Phases, secretVars, dialVars, Reading
<1>0. <<>> \in Seq(Cells)
  BY EmptySeq
<1>2. CASE ReadSome
  <2>1. PICK n \in 1 .. Len(Readable) :
          /\ buf' = buf \o SubSeq(Readable, 1, n)
          /\ Consume(n)
    BY <1>2 DEF ReadSome
  <2>2. Readable \in Seq(Cells)
    BY DEF Readable
  <2>3. SubSeq(Readable, 1, n) \in Seq(Cells)
    BY <2>2, Part, LenProperties
  <2>4. buf' \in Seq(Cells)
    BY <2>1, <2>3, ConcatProperties
  <2>5. SubSeq(Readable, n + 1, Len(Readable)) \in Seq(Cells)
    BY <2>2, Part, LenProperties
  <2>6. wire' \in Seq(Cells) /\ held' \in Seq(Cells)
    BY <2>1, <2>5 DEF Consume, Readable
  <2> QED
    BY <1>2, <2>4, <2>6 DEF ReadSome
<1>3. CASE StartLogin \/ SendChallenge
  BY <1>3, <1>0 DEF StartLogin, SendChallenge, Ask
<1>4. CASE Fail
  BY <1>4, <1>0 DEF Fail, Exit, Forget, Closed
<1>5. CASE HandleChallenge
  BY <1>5, <1>0 DEF HandleChallenge, Ask
<1>6. CASE HandleProof
  BY <1>6, <1>0 DEF HandleProof, Ask
<1>7. CASE RealmFound
  BY <1>7, <1>0 DEF RealmFound, Exit, Closed
<1>8. CASE MustPanics
  BY <1>8 DEF MustPanics
<1> QED
  BY <1>1, <1>2, <1>3, <1>4, <1>5, <1>6, <1>7, <1>8
     DEF LoginStep, DialError, IOError, WrongOpcode, ChallengeError, ProofError,
         RealmMissing

LEMMA TypePeerStep == LoginTypeOK /\ PeerStep => LoginTypeOK'
<1> SUFFICES ASSUME LoginTypeOK, PeerStep PROVE LoginTypeOK'
  OBVIOUS
<1> USE DEF LoginTypeOK, Answers
<1>1. ASSUME NEW op \in Ops, NEW v \in Values, NEW len \in 1 .. 4,
             ServerSays(Packet(op, v, len)), accepted' \in BOOLEAN
      PROVE  LoginTypeOK'
  <2>1. wire' \in Seq(Cells)
    BY <1>1, PacketCells, ConcatProperties DEF ServerSays
  <2> QED
    BY <1>1, <2>1 DEF ServerSays
<1>2. CASE AnswerChallenge
  BY <1>2, <1>1 DEF AnswerChallenge, Ops, Values
<1>3. CASE AcceptProof
  BY <1>3, <1>1 DEF AcceptProof, Ops, Values
<1>8. CASE DenyProof
  BY <1>8, <1>1 DEF DenyProof, Ops, Values
<1>4. CASE AnswerList
  BY <1>4, <1>1 DEF AnswerList, Ops, Values
<1>5. CASE AnswerWrong
  BY <1>5, <1>1 DEF AnswerWrong, Ops, Values
<1>6. CASE ProxyAnswers /\ UNCHANGED loginVars
  <2>1. PICK status \in {"200", "407", "bad"}, headers \in 0 .. MaxHeaders :
          LET reply == ProxyReply(status, headers) IN
            \/ wire' = reply /\ peer' = "up"
            \/ \E k \in 0 .. Len(reply) - 1 :
                 wire' = SubSeq(reply, 1, k) /\ peer' = "gone"
    BY <1>6 DEF ProxyAnswers
  <2>2. ProxyReply(status, headers) \in Seq(Cells)
    BY ReplyCells
  <2>3. \A k \in 0 .. Len(ProxyReply(status, headers)) - 1 :
          SubSeq(ProxyReply(status, headers), 1, k) \in Seq(Cells)
    BY <2>2, Part, LenProperties
  <2>4. wire' \in Seq(Cells) /\ peer' \in {"up", "gone"}
    BY <2>1, <2>2, <2>3
  <2> QED
    BY <1>6, <2>4 DEF ProxyAnswers, loginVars, secretVars
<1>7. CASE HangUp /\ UNCHANGED loginVars
  BY <1>7 DEF HangUp, loginVars, secretVars
<1> QED
  BY <1>2, <1>3, <1>4, <1>5, <1>6, <1>7, <1>8 DEF PeerStep

-----------------------------------------------------------------------------
(* The invariant. *)

\* A packet that readRealmPacket takes for whole is the whole answer.
LEMMA WholeAnswer ==
  ASSUME LoginIInv, Complete
  PROVE  /\ asked = "none" /\ wire = <<>> /\ held = <<>>
         /\ \E v \in Values :
              /\ Possible(phase, phase, v, Size(buf))
              /\ Len(buf) = Size(buf)
              /\ \A k \in 1 .. Len(buf) : buf[k] = Cell(phase, v, k)
<1> USE DEF LoginIInv, Complete, InPacket
<1>1. /\ phase \in Answers /\ asked = "none" /\ held = <<>>
      /\ buf \in Seq(Cells) /\ wire \in Seq(Cells)
  BY DEF Answering, LoginTypeOK
<1>2. PICK op \in Ops, v \in Values, len \in 1 .. 4 :
        Possible(phase, op, v, len) /\ Holds(op, v, len)
  BY <1>1 DEF Answering
<1>3. Len(buf) \in Nat /\ Len(wire) \in Nat /\ Len(buf) >= 2
  BY <1>1 DEF Size
<1>0. /\ buf[1] = Cell(op, v, 1) /\ buf[2] = Cell(op, v, 2)
      /\ Len(buf) >= 3 => buf[3] = Cell(op, v, 3)
  <2>1. 1 \in 1 .. Len(buf) /\ 2 \in 1 .. Len(buf)
    BY <1>3
  <2>2. Len(buf) >= 3 => 3 \in 1 .. Len(buf)
    BY <1>3
  <2> QED
    BY <1>2, <2>1, <2>2 DEF Holds
<1>4. op = phase
  BY <1>0 DEF Cell
<1>5. buf[2].v = v /\ (Len(buf) >= 3 => buf[3].v = v)
  BY <1>0 DEF Cell
<1>6. Len(buf) >= len
  <2>1. CASE phase = "challenge"
    BY <2>1, <1>2, <1>3, <1>4, <1>5 DEF Size, Possible, Succeeds, Flagged
  <2>2. CASE phase # "challenge"
    BY <2>2, <1>1, <1>2, <1>3, <1>4 DEF Size, Possible, Answers
  <2> QED
    BY <2>1, <2>2
<1>7. Len(buf) = len /\ Len(wire) = 0
  BY <1>2, <1>3, <1>6 DEF Holds
<1>8. Size(buf) = len
  <2>1. CASE phase = "challenge"
    BY <2>1, <1>2, <1>3, <1>4, <1>5, <1>7 DEF Size, Possible, Succeeds, Flagged
  <2>2. CASE phase # "challenge"
    BY <2>2, <1>1, <1>2, <1>3, <1>4, <1>7 DEF Size, Possible, Answers
  <2> QED
    BY <2>1, <2>2
<1> QED
  BY <1>1, <1>2, <1>4, <1>7, <1>8, EmptySeq DEF Holds

\* The invariant implies what is checked of packets.
LEMMA AnswersAreWhole == LoginIInv => AnswersWhole
<1> SUFFICES ASSUME LoginIInv, Complete
             PROVE  /\ asked = "none" /\ wire = <<>> /\ held = <<>>
                    /\ buf = Packet(phase, buf[1].v, Size(buf))
  BY DEF AnswersWhole
<1>1. PICK v \in Values :
        /\ Len(buf) = Size(buf)
        /\ \A k \in 1 .. Len(buf) : buf[k] = Cell(phase, v, k)
  BY WholeAnswer
<1>2. buf \in Seq(Cells) /\ buf # <<>>
  BY DEF LoginIInv, LoginTypeOK, Complete, InPacket
<1>3. Len(buf) \in Nat /\ 1 \in 1 .. Len(buf) /\ buf = [k \in 1 .. Len(buf) |-> buf[k]]
  BY <1>2
<1>4. buf[1].v = v
  BY <1>1, <1>3 DEF Cell
<1>5. buf = Packet(phase, v, Size(buf))
  BY <1>1, <1>3 DEF Packet
<1> QED
  BY <1>4, <1>5, WholeAnswer

LEMMA LoginInitInv == LoginInit => LoginIInv
<1> SUFFICES ASSUME LoginInit PROVE LoginIInv
  OBVIOUS
<1> USE DEF LoginInit, DialInit
<1>1. LoginTypeOK
  BY EmptySeq DEF LoginTypeOK, Reading, Phases
<1> QED
  BY <1>1 DEF LoginIInv, Answering, Dialling, Quiet, Proven, NoSocket, Answers

\* The dialling of the realm server, and later that of the game server.
LEMMA DialStepInv ==
  ASSUME LoginIInv, phase \in {"dial", "done"}, DialStep, UNCHANGED loginVars
  PROVE  LoginIInv'
<1> USE DEF LoginIInv, loginVars, secretVars
<1>1. LoginTypeOK'
  BY TypeDialStep
<1>2. Answering' /\ Quiet' /\ Proven'
  BY DEF Answering, Quiet, Proven, Answers
<1>3. ASSUME phase = "dial" PROVE Dialling'
  <2> USE <1>3 DEF Dialling, Reading
  <2>0. /\ wire \in Seq(Cells) /\ held \in Seq(Cells)
        /\ Len(wire) \in Nat /\ Len(held) \in Nat
    BY DEF LoginTypeOK
  <2>1. CASE TCPFails \/ TCPConnects
    BY <2>1 DEF TCPFails, TCPConnects, BlankIsLast
  <2>2. CASE ConnectBroken \/ BadStatusLine \/ Refused
    BY <2>2 DEF ConnectBroken, BadStatusLine, Refused, Closed
  <2>3. CASE Fill
    <3>1. PICK n \in 1 .. Len(wire) : /\ held' = SubSeq(wire, 1, n)
                                      /\ wire' = SubSeq(wire, n + 1, Len(wire))
      BY <2>3 DEF Fill
    <3>2. /\ Len(held') = n /\ \A k \in 1 .. n : held'[k] = wire[k]
          /\ Len(wire') = Len(wire) - n
          /\ \A k \in 1 .. Len(wire) - n : wire'[k] = wire[n + k]
          /\ wire' \in Seq(Cells)
      BY <2>0, <3>1, Part
    <3>3. BlankIsLast'
      BY <2>0, <2>3, <3>1, <3>2, EmptySeq DEF Fill, BlankIsLast
    <3>4. peer # "proxy"
      BY <2>0, <2>3, <3>1 DEF Fill
    <3> QED
      BY <2>3, <3>3, <3>4 DEF Fill
  <2>4. CASE StatusLine \/ HeaderLine \/ Tunnel
    <3>1. /\ held # <<>> /\ held' = Tail(held) /\ wire' = wire /\ peer' = peer
          /\ dial \in Reading
      BY <2>4 DEF StatusLine, HeaderLine, Tunnel
    <3>2. peer # "proxy"
      BY <3>1
    <3>3. /\ Len(held') = Len(held) - 1 /\ held' \in Seq(Cells)
          /\ \A k \in 1 .. Len(held) - 1 : held'[k] = held[k + 1]
      BY <2>0, <3>1, HeadTailProperties
    <3>4. BlankIsLast'
      <4>1. ASSUME NEW k \in 1 .. Len(held'), held'[k] = Line("blank")
            PROVE  k = Len(held') /\ wire' = <<>>
        <5>1. k + 1 \in 1 .. Len(held) /\ held[k + 1] = Line("blank")
          BY <2>0, <3>3, <4>1
        <5>2. k + 1 = Len(held) /\ wire = <<>>
          BY <3>1, <5>1 DEF BlankIsLast
        <5>3. k = Len(held) - 1
          BY <2>0, <5>2
        <5> QED
          BY <3>1, <3>3, <5>2, <5>3
      <4>2. \A k \in 1 .. Len(wire') : wire'[k] = Line("blank") => k = Len(wire')
        BY <3>1 DEF BlankIsLast
      <4> QED
        BY <4>1, <4>2 DEF BlankIsLast
    <3>5. CASE Tunnel
      <4>1. held[1] = Line("blank") /\ 1 \in 1 .. Len(held)
        BY <2>0, <3>1, <3>5 DEF Tunnel
      <4>2. Len(held) = 1 /\ wire = <<>>
        BY <3>1, <4>1 DEF BlankIsLast
      <4>3. held' = <<>>
        BY <4>2, <3>3
      <4> QED
        BY <3>1, <3>2, <3>5, <4>2, <4>3 DEF Tunnel
    <3>6. CASE StatusLine \/ HeaderLine
      BY <3>1, <3>2, <3>4, <3>6 DEF StatusLine, HeaderLine
    <3> QED
      BY <2>4, <3>5, <3>6
  <2> QED
    BY <2>1, <2>2, <2>3, <2>4 DEF DialStep
<1>4. ASSUME phase = "done" PROVE Dialling'
  BY <1>4 DEF Dialling
<1>5. NoSocket'
  BY DEF NoSocket, DialStep, TCPFails, TCPConnects, ConnectBroken, Fill, StatusLine,
         BadStatusLine, HeaderLine, Tunnel, Refused, Closed
<1> QED
  BY <1>1, <1>2, <1>3, <1>4, <1>5

\* Login's other steps.
LEMMA ReadSomeInv ==
  ASSUME LoginIInv, ReadSome
  PROVE  Answering'
<1> USE DEF LoginIInv, ReadSome, secretVars
<1>1. /\ buf \in Seq(Cells) /\ wire \in Seq(Cells) /\ held = <<>>
      /\ phase \in Answers /\ asked \in {phase, "none"}
      /\ Len(buf) \in Nat /\ Len(wire) \in Nat
  BY DEF LoginTypeOK, Answering
<1>2. Readable = wire
  BY <1>1 DEF Readable
<1>3. PICK n \in 1 .. Len(wire) :
        /\ buf' = buf \o SubSeq(wire, 1, n)
        /\ wire' = SubSeq(wire, n + 1, Len(wire)) /\ held' = held
  BY <1>1, <1>2 DEF Consume
<1>4. asked = "none"
  BY <1>1, <1>3, EmptySeq DEF Answering
<1>5. PICK op \in Ops, v \in Values, len \in 1 .. 4 :
        Possible(phase, op, v, len) /\ Holds(op, v, len)
  BY <1>1, <1>4 DEF Answering
<1> DEFINE part == SubSeq(wire, 1, n)
<1>6. /\ part \in Seq(Cells) /\ Len(part) = n
      /\ \A k \in 1 .. n : part[k] = wire[k]
      /\ Len(wire') = Len(wire) - n
      /\ \A k \in 1 .. Len(wire) - n : wire'[k] = wire[n + k]
  BY <1>1, <1>3, Part, SMTT(60)
<1> HIDE DEF part
<1>7. /\ Len(buf') = Len(buf) + n
      /\ \A k \in 1 .. Len(buf) : buf'[k] = buf[k]
      /\ \A k \in 1 .. n : buf'[Len(buf) + k] = wire[k]
  <2>1. buf' = buf \o part
    BY <1>3 DEF part
  <2> QED
    BY <2>1, <1>1, <1>6, Joined
<1>8. ASSUME NEW k \in 1 .. Len(buf') PROVE buf'[k] = Cell(op, v, k)
  <2>1. CASE k <= Len(buf)
    <3>1. k \in 1 .. Len(buf)
      BY <2>1, <1>1, <1>7
    <3> QED
      BY <3>1, <1>5, <1>7 DEF Holds
  <2>2. CASE ~(k <= Len(buf))
    <3>1. PICK m \in 1 .. n : k = Len(buf) + m
      <4>1. k - Len(buf) \in 1 .. n /\ k = Len(buf) + (k - Len(buf))
        BY <2>2, <1>1, <1>7
      <4> QED
        BY <4>1
    <3>2. buf'[k] = wire[m] /\ m \in 1 .. Len(wire)
      BY <3>1, <1>1, <1>7
    <3> QED
      BY <3>1, <3>2, <1>5 DEF Holds
  <2> QED
    BY <2>1, <2>2
<1>9. ASSUME NEW k \in 1 .. Len(wire') PROVE wire'[k] = Cell(op, v, Len(buf') + k)
  <2>0. k \in 1 .. Len(wire) - n
    BY <1>6
  <2>1. /\ k \in Int /\ n \in Int /\ n + k \in 1 .. Len(wire)
        /\ Len(buf) + (n + k) = (Len(buf) + n) + k
    BY <2>0, <1>1
  <2>2. wire[n + k] = Cell(op, v, Len(buf) + (n + k))
    BY <2>1, <1>5 DEF Holds
  <2> QED
    BY <2>0, <2>1, <2>2, <1>6, <1>7
<1>10. Len(buf') + Len(wire') = len
  BY <1>1, <1>5, <1>6, <1>7 DEF Holds
<1>11. Holds(op, v, len)'
  BY <1>8, <1>9, <1>10 DEF Holds
<1>12. Possible(phase, op, v, len)'
  BY <1>5 DEF Possible
<1> QED
  BY <1>1, <1>3, <1>4, <1>11, <1>12 DEF Answering

LEMMA LoginStepInv == LoginIInv /\ LoginStep => LoginIInv'
<1> SUFFICES ASSUME LoginIInv, LoginStep PROVE LoginIInv'
  OBVIOUS
<1>1. LoginTypeOK'
  BY TypeLoginStep DEF LoginIInv
<1>2. CASE phase = "dial" /\ DialStep /\ UNCHANGED loginVars
  BY <1>2, DialStepInv
<1> USE DEF LoginIInv, Answers, secretVars, dialVars
<1>3. CASE StartLogin
  BY <1>1, <1>3 DEF StartLogin, Answering, Dialling, Quiet, Proven, NoSocket, Reading
<1>4. CASE SendChallenge
  BY <1>1, <1>4 DEF SendChallenge, Ask, Answering, Dialling, Quiet, Proven, NoSocket, Reading
<1>5. CASE ReadSome
  <2>1. Dialling' /\ Quiet' /\ Proven' /\ NoSocket'
    BY <1>5 DEF ReadSome, Dialling, Quiet, Proven, NoSocket
  <2> QED
    BY <1>1, <1>5, <2>1, ReadSomeInv
<1>6. CASE Fail
  BY <1>1, <1>6 DEF Fail, Exit, Forget, Closed, Answering, Dialling, Quiet, Proven, NoSocket
<1>7. CASE HandleChallenge
  <2>1. wire = <<>> /\ held = <<>> /\ dial = "up" /\ peer # "proxy"
    BY <1>7, WholeAnswer DEF HandleChallenge, Answering
  <2> QED
    BY <1>1, <1>7, <2>1 DEF HandleChallenge, Ask, Answering, Dialling, Quiet, Proven, NoSocket
<1>8. CASE HandleProof
  <2>1. /\ wire = <<>> /\ held = <<>> /\ dial = "up" /\ peer # "proxy"
        /\ phase = "proof" /\ Complete /\ buf[2].v = "ok"
    BY <1>8, WholeAnswer DEF HandleProof, Answering
  <2>2. PICK v \in Values :
          /\ Possible(phase, phase, v, Size(buf))
          /\ Len(buf) = Size(buf)
          /\ \A k \in 1 .. Len(buf) : buf[k] = Cell(phase, v, k)
    BY <2>1, WholeAnswer
  <2>3. Size(buf) = 3
    BY <2>1 DEF Size, Complete
  <2>4. v = "ok"
    BY <2>1, <2>2, <2>3 DEF Cell
  <2>5. agree /\ accepted
    BY <2>1, <2>2, <2>4 DEF Possible
  <2> QED
    BY <1>1, <1>8, <2>1, <2>5 DEF HandleProof, Ask, Answering, Dialling, Quiet, Proven, NoSocket
<1>9. CASE RealmFound
  BY <1>1, <1>9 DEF RealmFound, Exit, Closed, Answering, Dialling, Quiet, Proven, NoSocket
<1>10. CASE MustPanics
  BY <1>1, <1>10, WholeAnswer DEF MustPanics, Answering, Dialling, Quiet, Proven, NoSocket
<1> QED
  BY <1>2, <1>3, <1>4, <1>5, <1>6, <1>7, <1>8, <1>9, <1>10
     DEF LoginStep, DialError, IOError, WrongOpcode, ChallengeError, ProofError,
         RealmMissing

\* An answer is put on its way while nothing else is.
LEMMA ServerSaysInv ==
  ASSUME LoginIInv, NEW op \in Ops, NEW v \in Values, NEW len \in 1 .. 4,
         asked # "none",
         ServerSays(Packet(op, v, len)), accepted' \in BOOLEAN,
         accepted => accepted',
         Possible(phase, op, v, len)'
  PROVE  Answering' /\ Dialling' /\ Quiet' /\ Proven' /\ NoSocket'
<1> USE DEF LoginIInv
<1>1. phase \in Answers /\ asked = phase /\ buf = <<>> /\ wire = <<>>
  BY DEF Quiet, Answering, LoginTypeOK, Phases, Answers
<1>2. /\ UNCHANGED <<via, dial, sock, peer, held, phase, buf, knows, agree, digest>>
      /\ asked' = "none" /\ wire' = wire \o Packet(op, v, len)
  BY DEF ServerSays
<1>3. wire' = Packet(op, v, len)
  BY <1>1, <1>2, PacketCells, ConcatEmptySeq
<1>4. Holds(op, v, len)'
  <2>1. Len(wire') = len /\ \A k \in 1 .. len : wire'[k] = Cell(op, v, k)
    BY <1>3, PacketCells
  <2>2. buf' = <<>> /\ Len(buf') = 0 /\ len \in Int
    BY <1>1, <1>2, EmptySeq
  <2>3. \A k \in 1 .. len : 0 + k = k
    BY <2>2
  <2> QED
    BY <2>1, <2>2, <2>3 DEF Holds
<1>5. Answering'
  BY <1>1, <1>2, <1>4 DEF Answering
<1> QED
  BY <1>1, <1>2, <1>5 DEF Dialling, Quiet, Proven, NoSocket, Answers

LEMMA PeerStepInv == LoginIInv /\ PeerStep => LoginIInv'
<1> SUFFICES ASSUME LoginIInv, PeerStep PROVE LoginIInv'
  OBVIOUS
<1>1. LoginTypeOK'
  BY TypePeerStep DEF LoginIInv
<1>2. asked # "none" => phase \in Answers /\ asked = phase
  BY DEF LoginIInv, Quiet, Answering, LoginTypeOK, Phases, Answers
<1>3. ASSUME NEW op \in Ops, NEW v \in Values, NEW len \in 1 .. 4,
             asked # "none", ServerSays(Packet(op, v, len)),
             accepted => accepted', Possible(phase, op, v, len)'
      PROVE  LoginIInv'
  <2>1. accepted' \in BOOLEAN
    BY <1>1 DEF LoginTypeOK
  <2> QED
    BY <1>1, <1>3, <2>1, ServerSaysInv DEF LoginIInv
<1>4. CASE AnswerChallenge
  <2>1. asked # "none" /\ phase' = "challenge" /\ accepted' = accepted
    BY <1>2, <1>4 DEF AnswerChallenge, ServerSays
  <2>2. ASSUME NEW v \in {"ok", "malformed"}, ServerSays(Packet("challenge", v, 3))
        PROVE  LoginIInv'
    BY <2>1, <2>2, <1>3 DEF Possible, Ops, Answers, Values
  <2>3. ASSUME NEW v \in {"token", "emptyToken", "otherFlags"},
               ServerSays(Packet("challenge", v, 4))
        PROVE  LoginIInv'
    BY <2>1, <2>3, <1>3 DEF Possible, Ops, Answers, Values
  <2>4. CASE ServerSays(Packet("challenge", "refused", 2))
    BY <2>1, <2>4, <1>3 DEF Possible, Ops, Answers, Values
  <2> QED
    BY <1>4, <2>2, <2>3, <2>4 DEF AnswerChallenge
<1>5. CASE AcceptProof
  <2>1. asked # "none" /\ phase' = "proof" /\ accepted' /\ agree'
    BY <1>2, <1>5 DEF AcceptProof, ServerSays
  <2> QED
    BY <2>1, <1>5, <1>3 DEF AcceptProof, Possible, Ops, Answers, Values
<1>6. CASE DenyProof
  <2>1. asked # "none" /\ phase' = "proof" /\ accepted' = accepted
    BY <1>2, <1>6 DEF DenyProof, ServerSays
  <2>2. ASSUME NEW v \in {"refused", "forged"}, ServerSays(Packet("proof", v, 3))
        PROVE  LoginIInv'
    BY <2>1, <2>2, <1>3 DEF Possible, Ops, Answers, Values
  <2>3. CASE ServerSays(Packet("proof", "refusedShort", 2))
    BY <2>1, <2>3, <1>3 DEF Possible, Ops, Answers, Values
  <2> QED
    BY <1>6, <2>2, <2>3 DEF DenyProof
<1>7. CASE AnswerList
  <2>1. asked # "none" /\ phase' = "list" /\ accepted' = accepted
    BY <1>2, <1>7 DEF AnswerList, ServerSays
  <2>2. ASSUME NEW v \in {"found", "missing", "malformed"},
               ServerSays(Packet("list", v, 3))
        PROVE  LoginIInv'
    BY <2>1, <2>2, <1>3 DEF Possible, Ops, Answers, Values
  <2> QED
    BY <1>7, <2>2 DEF AnswerList
<1>8. CASE AnswerWrong
  BY <1>8, <1>3 DEF AnswerWrong, Possible, Ops, Values
<1>9. CASE HangUp /\ UNCHANGED loginVars
  BY <1>1, <1>9
     DEF LoginIInv, HangUp, loginVars, secretVars, Answering, Dialling, Quiet, Proven, NoSocket,
         Possible, Holds, BlankIsLast
<1>10. CASE ProxyAnswers /\ UNCHANGED loginVars
  <2> USE <1>10 DEF LoginIInv, ProxyAnswers
  <2>1. phase \notin Answers /\ phase \notin {"idle", "failed"}
    BY DEF Answering, Quiet
  <2>2. Answering' /\ Quiet' /\ Proven' /\ NoSocket'
    BY <2>1 DEF loginVars, secretVars, Answering, Quiet, Proven, NoSocket
  <2>3. ASSUME phase = "dial" PROVE Dialling'
    <3>1. wire = <<>> /\ held = <<>> /\ dial \in Reading
      BY <2>3 DEF Dialling
    <3>2. PICK status \in {"200", "407", "bad"}, headers \in 0 .. MaxHeaders :
            LET reply == ProxyReply(status, headers) IN
              \/ wire' = reply /\ peer' = "up"
              \/ \E k \in 0 .. Len(reply) - 1 :
                   wire' = SubSeq(reply, 1, k) /\ peer' = "gone"
      OBVIOUS
    <3> DEFINE reply == ProxyReply(status, headers)
    <3>3. /\ reply \in Seq(Cells) /\ Len(reply) \in Nat
          /\ \A k \in 1 .. Len(reply) : reply[k] = Line("blank") => k = Len(reply)
      BY ReplyCells, LenProperties
    <3> HIDE DEF reply
    <3>4. /\ peer' # "proxy"
          /\ \A k \in 1 .. Len(wire') : wire'[k] = Line("blank") => k = Len(wire')
      <4>1. CASE wire' = reply /\ peer' = "up"
        BY <4>1, <3>3
      <4>2. ASSUME NEW k \in 0 .. Len(reply) - 1, wire' = SubSeq(reply, 1, k),
                   peer' = "gone"
            PROVE  \A j \in 1 .. Len(wire') : wire'[j] # Line("blank")
        <5>1. k \in 0 .. Len(reply) /\ 1 \in 1 .. Len(reply) + 1 /\ k \in Int
          BY <3>3
        <5>2. Len(wire') = k /\ \A j \in 1 .. k : wire'[j] = reply[j]
          BY <4>2, <5>1, <3>3, Part
        <5>3. \A j \in 1 .. k : j \in 1 .. Len(reply) /\ j # Len(reply)
          BY <3>3, <5>1
        <5> QED
          BY <3>3, <5>2, <5>3
      <4> QED
        BY <3>2, <4>1, <4>2 DEF reply
    <3>5. held' = <<>> /\ Len(held') = 0 /\ dial' = dial /\ phase' = phase
      BY <3>1, EmptySeq DEF loginVars
    <3> QED
      BY <3>1, <3>4, <3>5 DEF Dialling, BlankIsLast, Reading
  <2> QED
    BY <1>1, <2>2, <2>3 DEF Dialling, loginVars
<1> QED
  BY <1>4, <1>5, <1>6, <1>7, <1>8, <1>9, <1>10 DEF PeerStep

\* Login succeeds only with its connection closed.
LEMMA DoneIsClosed ==
  ASSUME LoginIInv, LoginStep, phase' = "done"
  PROVE  phase # "done" /\ dial' = "off"
BY DEF LoginStep, StartLogin, DialError, SendChallenge, ReadSome, IOError, WrongOpcode,
       HandleChallenge, ChallengeError, HandleProof, ProofError, RealmFound, RealmMissing,
       MustPanics, Ask, Fail, Exit, Answers, loginVars

\* Nothing depends on anything else.
LEMMA LoginStutter == LoginIInv /\ UNCHANGED <<dialVars, loginVars>> => LoginIInv'
BY DEF dialVars, loginVars, secretVars, LoginIInv, LoginTypeOK, Answering, Dialling, Quiet,
       Proven, NoSocket, Possible, Holds, BlankIsLast

-----------------------------------------------------------------------------
(* The application. *)

\* A handler's chunks went nowhere but to the session it copied.
Faithful == \A h \in Handlers : task[h].to \subseteq {task[h].game}

\* Where the loop stands, and how far the login and the dialling are.
InStep ==
    /\ InSession => phase = "done"
    /\ ~InSession /\ app \notin {"login", "exited"} => phase = "idle"
    /\ app \notin {"login", "dial", "exited"} => dial = "off"
    /\ app = "login" /\ phase = "done" => dial = "off"
    /\ app = "exited" => ~sock

\* A read loop with a socket works for the session that Run has in hand.
Served == \A s \in ours \cap reading : app = "run" /\ s = sess

\* The inductive invariant.
IInv == LoginIInv /\ TypeOK /\ GameIsCurrent /\ Faithful /\ InStep /\ Served

-----------------------------------------------------------------------------
\* The initial state satisfies the inductive invariant.
LEMMA IInvInit == Init => IInv
<1> SUFFICES ASSUME Init PROVE IInv
  OBVIOUS
<1>0. LoginIInv
  BY LoginInitInv DEF Init
<1>1. TypeOK
  <2>1. task \in [Handlers -> [game : Sessions \cup {NoGame},
                              left : 0 .. MaxChunks, to : SUBSET Sessions]]
    BY AppAssumption DEF Init, Idle
  <2> QED
    BY <1>0, <2>1 DEF Init, TypeOK, AppPC, InSession, LoginIInv
<1>2. GameIsCurrent /\ Faithful /\ InStep /\ Served
  BY DEF Init, GameIsCurrent, Faithful, Idle, InSession, InStep, Served, LoginInit, DialInit
<1> QED
  BY <1>0, <1>1, <1>2 DEF IInv

\* The login's invariant is kept by the application's steps...
LEMMA LoginPart == IInv /\ [Next]_vars => LoginIInv'
<1> SUFFICES ASSUME IInv, [Next]_vars PROVE LoginIInv'
  OBVIOUS
<1> USE DEF IInv
<1>1. CASE UNCHANGED <<dialVars, loginVars>>
  BY <1>1, LoginStutter
<1>2. CASE Conversation
  BY <1>2, LoginStepInv, DialStepInv DEF Conversation, InStep, InSession
<1>3. CASE Peer
  BY <1>3, PeerStepInv DEF Peer
<1> USE DEF InStep, InSession, LoginIInv, LoginTypeOK, Answering, Dialling, Quiet, Proven,
        NoSocket, dialVars, loginVars, secretVars, Answers, Phases
<1>4. CASE LoginFails
  BY <1>4 DEF LoginFails, Reading
<1>5. CASE LoginPanics
  BY <1>5, EmptySeq DEF LoginPanics, Closed
<1>6. ASSUME NEW s \in Sessions, LoginOK(s) PROVE LoginIInv'
  BY <1>6 DEF LoginOK, Reading
<1>7. CASE DialFails
  BY <1>7 DEF DialFails
<1>8. CASE DialOK
  BY <1>8 DEF DialOK
<1>9. CASE Unset
  BY <1>9, EmptySeq DEF Unset, Forget
<1>10. CASE Greet
  <2>1. Cell("greeting", "ok", 1) \in Cells
    BY DEF Cell, Cells, Ops, Values
  <2>2. wire' \in Seq(Cells)
    BY <1>10, <2>1 DEF Greet
  <2> QED
    BY <1>10, <2>2 DEF Greet
<1> QED
  BY <1>1, <1>2, <1>3, <1>4, <1>5, <1>6, <1>7, <1>8, <1>9, <1>10
     DEF Next, Main, Turns, LoginReturns, DialReturns, netVars, vars

\* ...and so are the types...
LEMMA TypeStep == IInv /\ [Next]_vars => TypeOK'
<1> SUFFICES ASSUME IInv, [Next]_vars PROVE TypeOK'
  OBVIOUS
<1>0. LoginTypeOK'
  BY LoginPart DEF LoginIInv
<1> USE <1>0, AppAssumption DEF IInv, TypeOK, AppPC, InSession, appVars, netVars
<1>1. CASE Turns
  BY <1>1 DEF Turns, StartDiscord, Check, RunDone, RunCancelled, AfterSession, Wait
<1>2. CASE Conversation \/ Peer \/ Greet
  BY <1>2 DEF Conversation, Peer, Greet
<1>3. CASE LoginReturns
  BY <1>3 DEF LoginReturns, LoginFails, LoginPanics, LoginOK
<1>4. CASE DialReturns \/ Unset
  BY <1>4 DEF DialReturns, DialFails, DialOK, Unset
<1>5. CASE EnterWorld /\ UNCHANGED netVars
  BY <1>5 DEF EnterWorld
<1>6. CASE Signal /\ UNCHANGED netVars
  BY <1>6 DEF Signal
<1>7. ASSUME NEW s \in Sessions, ReadLoopEnds(s) \/ Drop(s), UNCHANGED netVars PROVE TypeOK'
  BY <1>7 DEF ReadLoopEnds, Drop
<1>8. ASSUME NEW h \in Handlers, Handler(h), UNCHANGED netVars PROVE TypeOK'
  BY <1>8 DEF Handler, TakeGame, SendChunk, FinishMessage, Idle
<1>9. CASE UNCHANGED vars
  BY <1>9 DEF vars
<1> QED
  BY <1>1, <1>2, <1>3, <1>4, <1>5, <1>6, <1>7, <1>8, <1>9 DEF Next, Main, Others

\* ...the agreement of the loop with the login and the dialling...
LEMMA InStepStep == IInv /\ [Next]_vars => InStep'
<1> SUFFICES ASSUME IInv, [Next]_vars PROVE InStep'
  OBVIOUS
<1> USE DEF IInv, InStep, InSession, appVars, netVars, dialVars, loginVars
<1>1. CASE Turns
  BY <1>1 DEF Turns, StartDiscord, Check, RunDone, RunCancelled, AfterSession, Wait,
              LoginIInv, NoSocket
<1>2. CASE app = "login" /\ LoginStep /\ UNCHANGED <<appVars, greeted>>
  BY <1>2, DoneIsClosed
<1>3. CASE app = "dial" /\ DialStep /\ UNCHANGED <<appVars, loginVars, greeted>>
  BY <1>3
<1>4. CASE Peer
  BY <1>4 DEF Peer, PeerStep, AnswerChallenge, AcceptProof, DenyProof, AnswerList,
              AnswerWrong, ServerSays, ProxyAnswers, HangUp
<1>5. CASE Greet
  BY <1>5 DEF Greet
<1>6. CASE LoginReturns
  BY <1>6 DEF LoginReturns, LoginFails, LoginPanics, LoginOK, LoginIInv, Quiet, Closed
<1>7. CASE DialReturns \/ Unset
  BY <1>7 DEF DialReturns, DialFails, DialOK, Unset
<1>8. CASE Others /\ UNCHANGED netVars
  BY <1>8 DEF Others, EnterWorld, ReadLoopEnds, Signal, Drop, Handler, TakeGame,
              SendChunk, FinishMessage
<1>9. CASE UNCHANGED vars
  BY <1>9 DEF vars
<1> QED
  BY <1>1, <1>2, <1>3, <1>4, <1>5, <1>6, <1>7, <1>8, <1>9 DEF Next, Main, Conversation

\* ...and Client.game and the handlers' chunks stay where they belong.
LEMMA IInvStep == IInv /\ [Next]_vars => IInv'
<1> SUFFICES ASSUME IInv, [Next]_vars PROVE IInv'
  OBVIOUS
<1> USE DEF IInv
<1>1. GameIsCurrent'
  <2> USE DEF TypeOK, GameIsCurrent, InSession, appVars
  <2>1. CASE Turns
    BY <2>1 DEF Turns, StartDiscord, Check, RunDone, RunCancelled, AfterSession, Wait
  <2>2. CASE LoginReturns \/ DialReturns \/ Unset
    BY <2>2 DEF LoginReturns, LoginFails, LoginPanics, LoginOK, DialReturns, DialFails,
                DialOK, Unset
  <2>3. CASE UNCHANGED appVars
    BY <2>3
  <2>4. CASE Others
    BY <2>4 DEF Others, EnterWorld, ReadLoopEnds, Signal, Drop, Handler, TakeGame,
                SendChunk, FinishMessage
  <2> QED
    BY <2>1, <2>2, <2>3, <2>4 DEF Next, Main, Conversation, Peer, Greet, vars
<1>2. Faithful'
  <2> USE DEF TypeOK, Faithful
  <2>1. ASSUME NEW h \in Handlers, Handler(h) PROVE Faithful'
    BY <2>1 DEF Handler, TakeGame, SendChunk, FinishMessage, Idle
  <2>2. CASE UNCHANGED task
    BY <2>2
  <2> QED
    BY <2>1, <2>2 DEF Next, Main, Turns, StartDiscord, Check, RunDone, RunCancelled,
         AfterSession, Wait, LoginReturns, LoginFails, LoginPanics, LoginOK,
         DialReturns, DialFails, DialOK, Unset, Conversation, Peer, Greet, Others,
         EnterWorld, ReadLoopEnds, Signal, Drop, appVars, vars
<1>3. Served'
  <2> USE DEF TypeOK, Served, appVars
  <2>1. CASE Turns
    BY <2>1 DEF Turns, StartDiscord, Check, RunDone, RunCancelled, AfterSession, Wait
  <2>2. CASE LoginFails \/ LoginPanics \/ DialReturns \/ Unset
    BY <2>2 DEF LoginFails, LoginPanics, DialReturns, DialFails, DialOK, Unset
  <2>3. ASSUME NEW s \in Sessions, LoginOK(s) PROVE Served'
    BY <2>3 DEF LoginOK
  <2>4. CASE UNCHANGED appVars
    BY <2>4
  <2>5. ASSUME NEW s \in Sessions, ReadLoopEnds(s) PROVE Served'
    BY <2>5 DEF ReadLoopEnds
  <2>6. CASE Others /\ UNCHANGED <<app, sess, ours, reading>>
    BY <2>6
  <2>7. CASE Others
    BY <2>5, <2>6, <2>7 DEF Others, EnterWorld, Signal, Drop, Handler, TakeGame,
                SendChunk, FinishMessage
  <2> QED
    BY <2>1, <2>2, <2>3, <2>4, <2>7
       DEF Next, Main, LoginReturns, Conversation, Peer, Greet, vars
<1> QED
  BY <1>1, <1>2, <1>3, LoginPart, TypeStep, InStepStep

\* The invariant holds in every reachable state.
THEOREM Invariance == Spec => []IInv
BY IInvInit, IInvStep, PTL DEF Spec

-----------------------------------------------------------------------------
\* App.Run's variables keep their types; sess is a session exactly while
\* connectOnce holds one.
THEOREM TypeCorrect == Spec => []TypeOK
<1>1. IInv => TypeOK
  BY DEF IInv
<1> QED
  BY Invariance, <1>1, PTL

\* Client.game is the session connectOnce works with, and nil when it has none.
THEOREM GameIsCurrentCorrect == Spec => []GameIsCurrent
<1>1. IInv => GameIsCurrent
  BY DEF IInv
<1> QED
  BY Invariance, <1>1, PTL

\* No Discord message is divided between two sessions by a reconnect.
THEOREM NoMixedSessionsCorrect == Spec => []NoMixedSessions
<1>1. ASSUME IInv PROVE NoMixedSessions
  <2> SUFFICES ASSUME NEW h \in Handlers PROVE Cardinality(task[h].to) <= 1
    BY DEF NoMixedSessions
  <2>1. IsFiniteSet({task[h].game}) /\ Cardinality({task[h].game}) = 1
    BY FS_Singleton
  <2>2. task[h].to \subseteq {task[h].game}
    BY <1>1 DEF IInv, Faithful
  <2> QED
    BY <2>1, <2>2, FS_Subset
<1> QED
  BY Invariance, <1>1, PTL

\* readRealmPacket never divides an answer, joins two, or leaves bytes behind.
THEOREM AnswersWholeCorrect == Spec => []AnswersWhole
<1>1. IInv => AnswersWhole
  BY AnswersAreWhole DEF IInv
<1> QED
  BY Invariance, <1>1, PTL

\* However Login and the dialling end, their socket is closed or the session's;
\* and no read loop keeps the socket of a session that Run is done with.
THEOREM SocketsClosedCorrect == Spec => []SocketsClosed
<1>1. IInv => SocketsClosed
  BY DEF IInv, InStep, Served, SocketsClosed, LoginIInv, NoSocket
<1> QED
  BY Invariance, <1>1, PTL

\* There is no session unless client and server have proved the password to each
\* other; and its key is the server's, whatever bytes it has.
THEOREM KeyProvenCorrect == Spec => []KeyProven
<1>1. \A d \in Strings(Width) : SessionKey(d) = d
  BY LoginAssumption, KeyRoundTrip
<1>2. IInv => KeyProven
  BY <1>1 DEF IInv, InStep, LoginIInv, Proven, KeyProven
<1> QED
  BY Invariance, <1>2, PTL

\* A server that knows the password derives the secret that the client derives.
THEOREM SecretsAgreeCorrect == Spec => []SecretsAgree
<1>1. Init => SecretsAgree
  BY DEF Init, LoginInit, SecretsAgree
<1>2. ASSUME IInv, SecretsAgree, [Next]_vars PROVE SecretsAgree'
  <2> USE DEF SecretsAgree
  <2>1. CASE UNCHANGED loginVars
    BY <1>2, <2>1 DEF loginVars, secretVars
  <2>2. CASE HandleChallenge
    BY <1>2, <2>2, ExchangesAgree DEF HandleChallenge, Ask
  <2>3. CASE Fail
    BY <2>3 DEF Fail, Forget
  <2>4. CASE StartLogin
    BY <1>2, <2>4 DEF StartLogin, IInv, LoginIInv, Quiet, Answers
  <2>5. CASE SendChallenge \/ HandleProof
    BY <2>5 DEF SendChallenge, HandleProof, Ask
  <2>6. CASE ReadSome \/ RealmFound \/ MustPanics
    BY <1>2, <2>6 DEF ReadSome, RealmFound, MustPanics, Exit, secretVars
  <2>7. CASE Conversation
    BY <2>1, <2>2, <2>3, <2>4, <2>5, <2>6, <2>7
       DEF Conversation, LoginStep, DialError, IOError, WrongOpcode, ChallengeError,
           ProofError, RealmMissing
  <2>8. CASE Peer
    BY <1>2, <2>1, <2>8 DEF Peer, PeerStep, AnswerChallenge, AcceptProof, DenyProof,
         AnswerList, AnswerWrong, ServerSays
  <2>9. CASE LoginReturns \/ DialReturns \/ Greet
    BY <1>2, <2>9 DEF LoginReturns, LoginFails, LoginPanics, LoginOK, DialReturns,
         DialFails, DialOK, Greet, loginVars, secretVars
  <2>10. CASE Unset
    BY <2>10 DEF Unset, Forget
  <2> QED
    BY <1>2, <2>1, <2>7, <2>8, <2>9, <2>10 DEF Next, Main, Turns, netVars, vars
<1> QED
  BY Invariance, <1>1, <1>2, PTL DEF Spec

-----------------------------------------------------------------------------
(* The first packet of the game server. *)

Stream == held \o wire

\* Position k of the stream has a greeting.
GreetingAt(k) == k \in 1 .. Len(Stream) /\ Stream[k].op = "greeting"

\* Position j ends the proxy's answer, and is not taken for its status line.
BlankAt(j) == /\ j \in 1 .. Len(Stream) /\ Stream[j] = Line("blank")
              /\ dial = "status" => j > 1

\* The game server speaks behind the proxy's last line, if it has spoken, and what
\* it says is there until somebody reads it who wants it.
GreetingInv ==
    /\ greeted => app \in {"dial", "run", "unset"}
    /\ app = "login" /\ phase = "done" => wire = <<>> /\ held = <<>>
    /\ app = "dial" /\ dial = "tcp" => wire = <<>> /\ held = <<>> /\ ~greeted
    /\ app = "dial" /\ peer = "proxy" =>
         dial = "status" /\ wire = <<>> /\ held = <<>> /\ ~greeted
    /\ app = "dial" /\ peer = "up" /\ dial \in Reading => \E j \in Nat : BlankAt(j)
    /\ app = "dial" /\ greeted /\ dial # "failed" =>
         \E k \in Nat : /\ GreetingAt(k)
                        /\ dial \in Reading => \E j \in Nat : j < k /\ BlankAt(j)
    /\ app = "run" /\ greeted => \E k \in Nat : GreetingAt(k)

\* Fill moves the front of what has arrived into the empty buffer.
LEMMA FillKeeps == LoginTypeOK /\ Fill => Stream' = Stream
<1> SUFFICES ASSUME LoginTypeOK, Fill PROVE Stream' = Stream
  OBVIOUS
<1>1. wire \in Seq(Cells) /\ held = <<>> /\ Len(wire) \in Nat
  BY LenProperties DEF LoginTypeOK, Fill
<1>2. PICK n \in 1 .. Len(wire) : /\ held' = SubSeq(wire, 1, n)
                                  /\ wire' = SubSeq(wire, n + 1, Len(wire))
  BY DEF Fill
<1>3. /\ held' \in Seq(Cells) /\ wire' \in Seq(Cells)
      /\ Len(held') = n /\ Len(wire') = Len(wire) - n
      /\ \A i \in 1 .. n : held'[i] = wire[i]
      /\ \A i \in 1 .. Len(wire) - n : wire'[i] = wire[n + i]
  BY <1>1, <1>2, Part
<1>4. /\ Stream' \in Seq(Cells) /\ Len(Stream') = Len(held') + Len(wire')
      /\ \A i \in 1 .. Len(held') : Stream'[i] = held'[i]
      /\ \A i \in 1 .. Len(wire') : Stream'[Len(held') + i] = wire'[i]
  <2>1. Stream' = held' \o wire'
    BY DEF Stream
  <2> QED
    BY <1>3, <2>1, Joined
<1>5. ASSUME NEW i \in 1 .. Len(wire) PROVE Stream'[i] = wire[i]
  <2>1. CASE i <= n
    BY <1>1, <1>3, <1>4, <2>1
  <2>2. CASE ~ (i <= n)
    <3> DEFINE m == i - n
    <3>1. m \in 1 .. Len(wire) - n /\ m \in 1 .. Len(wire') /\ i = n + m
      BY <1>1, <1>3, <2>2
    <3> HIDE DEF m
    <3>2. Stream'[Len(held') + m] = wire'[m] /\ wire'[m] = wire[n + m]
      BY <1>3, <1>4, <3>1
    <3> QED
      BY <1>3, <3>1, <3>2
  <2> QED
    BY <2>1, <2>2
<1>6. Len(Stream') = Len(wire)
  BY <1>1, <1>3, <1>4
<1>7. Stream' = wire
  BY <1>1, <1>4, <1>5, <1>6, SeqEqual
<1>8. Stream = wire
  BY <1>1, ConcatEmptySeq DEF Stream
<1> QED
  BY <1>7, <1>8

\* A line that is read leaves the stream.
LEMMA LineRead ==
    ASSUME LoginTypeOK, held # <<>>, held' = Tail(held), wire' = wire
    PROVE  /\ Stream \in Seq(Cells) /\ Len(Stream) \in Nat \ {0}
           /\ Stream[1] = Head(held)
           /\ Len(Stream') = Len(Stream) - 1
           /\ \A i \in 1 .. Len(Stream) - 1 : Stream'[i] = Stream[i + 1]
<1>1. /\ wire \in Seq(Cells) /\ held \in Seq(Cells)
      /\ Len(wire) \in Nat /\ Len(held) \in Nat \ {0}
  BY LenProperties, EmptySeq DEF LoginTypeOK
<1>2. /\ held' \in Seq(Cells) /\ Len(held') = Len(held) - 1
      /\ \A i \in 1 .. Len(held) - 1 : held'[i] = held[i + 1]
      /\ Head(held) = held[1]
  BY <1>1, HeadTailProperties
<1>3. /\ Stream \in Seq(Cells) /\ Len(Stream) = Len(held) + Len(wire)
      /\ \A i \in 1 .. Len(held) : Stream[i] = held[i]
      /\ \A i \in 1 .. Len(wire) : Stream[Len(held) + i] = wire[i]
  BY <1>1, Joined DEF Stream
<1>4. /\ Len(Stream') = Len(held') + Len(wire)
      /\ \A i \in 1 .. Len(held') : Stream'[i] = held'[i]
      /\ \A i \in 1 .. Len(wire) : Stream'[Len(held') + i] = wire[i]
  <2>1. Stream' = held' \o wire
    BY DEF Stream
  <2> QED
    BY <1>1, <1>2, <2>1, Joined
<1>5. ASSUME NEW i \in 1 .. Len(Stream) - 1 PROVE Stream'[i] = Stream[i + 1]
  <2>1. CASE i <= Len(held')
    <3>1. i \in 1 .. Len(held') /\ i \in 1 .. Len(held) - 1 /\ i + 1 \in 1 .. Len(held)
      BY <1>1, <1>2, <2>1
    <3> QED
      BY <1>2, <1>3, <1>4, <3>1
  <2>2. CASE ~ (i <= Len(held'))
    <3> DEFINE m == i - Len(held')
    <3>1. /\ m \in 1 .. Len(wire) /\ i = Len(held') + m
          /\ i + 1 = Len(held) + m
      BY <1>1, <1>2, <1>3, <2>2
    <3>2. Stream'[Len(held') + m] = wire[m] /\ Stream[Len(held) + m] = wire[m]
      BY <1>3, <1>4, <3>1
    <3> QED
      BY <3>1, <3>2
  <2> QED
    BY <2>1, <2>2
<1> QED
  BY <1>1, <1>2, <1>3, <1>4, <1>5

\* Greetings and blanks where the stream is the same, or a line shorter.
LEMMA SameStream ==
    ASSUME Stream' = Stream, dial' = dial
    PROVE  /\ \A k \in Nat : GreetingAt(k) => GreetingAt(k)'
           /\ \A j \in Nat : BlankAt(j) => BlankAt(j)'
BY DEF GreetingAt, BlankAt

\* The proxy's answer to CONNECT ends with a blank behind its status line.
LEMMA ReplyEnds ==
    ASSUME held = <<>>, held' = held, NEW status \in {"200", "407", "bad"},
           NEW headers \in 0 .. MaxHeaders, wire' = ProxyReply(status, headers)
    PROVE  \E j \in Nat : BlankAt(j)'
<1> DEFINE reply == ProxyReply(status, headers)
           all == <<Line(status)>> \o [i \in 1 .. headers |-> Line("header")]
<1>1. /\ headers \in Nat /\ Line(status) \in Cells /\ Line("header") \in Cells
      /\ Line("blank") \in Cells
  BY DialAssumption DEF Line, Cell, Cells, Ops, Values
<1>2. /\ <<Line(status)>> \in Seq(Cells) /\ Len(<<Line(status)>>) = 1
      /\ <<Line("blank")>> \in Seq(Cells) /\ Len(<<Line("blank")>>) = 1
      /\ <<Line("blank")>>[1] = Line("blank")
  BY <1>1
<1>3. /\ [i \in 1 .. headers |-> Line("header")] \in Seq(Cells)
      /\ Len([i \in 1 .. headers |-> Line("header")]) = headers
  BY <1>1
<1>4. all \in Seq(Cells) /\ Len(all) = headers + 1
  <2>1. all \in Seq(Cells) /\ Len(all) = 1 + headers
    BY <1>2, <1>3, Joined
  <2> HIDE DEF all
  <2> QED
    BY <1>1, <2>1
<1>5. reply = all \o <<Line("blank")>>
  BY DEF ProxyReply
<1> HIDE DEF all
<1>6. Len(reply) = Len(all) + 1 /\ reply[Len(all) + 1] = Line("blank") /\ reply \in Seq(Cells)
  <2>1. 1 \in 1 .. Len(<<Line("blank")>>)
    BY <1>2
  <2> QED
    BY <1>2, <1>4, <1>5, <2>1, Joined
<1> HIDE DEF reply
<1>7. Stream' = reply
  BY <1>6, ConcatEmptySeq DEF Stream, reply
<1>8. headers + 2 \in 1 .. Len(reply) /\ headers + 2 > 1 /\ Len(all) + 1 = headers + 2
  BY <1>1, <1>4, <1>6
<1> QED
  BY <1>1, <1>6, <1>7, <1>8 DEF BlankAt

LEMMA GreetingInit == Init => GreetingInv
BY DEF Init, LoginInit, DialInit, GreetingInv

\* The dialling of the game server.
LEMMA GreetingDial ==
    ASSUME IInv, GreetingInv, app = "dial", DialStep, UNCHANGED <<app, greeted, phase>>
    PROVE  GreetingInv'
<1> USE DEF GreetingInv
<1>0. LoginTypeOK /\ NoSocket
  BY DEF IInv, LoginIInv
<1>1. CASE TCPFails \/ TCPConnects
  <2>1. dial = "tcp" /\ wire' = wire /\ held' = held
    BY <1>1 DEF TCPFails, TCPConnects
  <2>2. dial' = "status" => peer' = "proxy"
    BY <1>1 DEF TCPFails, TCPConnects
  <2>3. peer' = "proxy" => dial' = "status"
    BY <1>0, <1>1 DEF TCPFails, TCPConnects, NoSocket
  <2> QED
    BY <1>1, <2>1, <2>2, <2>3 DEF TCPFails, TCPConnects, Reading
<1>2. CASE ConnectBroken \/ BadStatusLine \/ Refused
  BY <1>2 DEF ConnectBroken, BadStatusLine, Refused, Closed, Reading
<1>3. CASE Fill
  <2>1. Stream' = Stream /\ dial' = dial /\ peer' = peer
    BY <1>0, <1>3, FillKeeps DEF Fill
  <2>2. peer # "proxy" /\ dial # "tcp"
    BY <1>0, <1>3, EmptySeq DEF Fill, Reading, LoginTypeOK
  <2> QED
    BY <2>1, <2>2, SameStream
<1>4. CASE StatusLine \/ HeaderLine \/ Tunnel
  <2>1. /\ held # <<>> /\ held' = Tail(held) /\ wire' = wire /\ peer' = peer
        /\ dial \in Reading /\ dial' \in {"accepted", "refused", "up"}
    BY <1>4 DEF StatusLine, HeaderLine, Tunnel, Reading
  <2>2. peer # "proxy"
    BY <2>1
  <2>3. /\ Len(Stream) \in Nat \ {0} /\ Stream[1] = Head(held)
        /\ Len(Stream') = Len(Stream) - 1
        /\ \A i \in 1 .. Len(Stream) - 1 : Stream'[i] = Stream[i + 1]
    BY <1>0, <2>1, LineRead
  <2>4. ASSUME NEW k \in Nat, GreetingAt(k), k > 1 PROVE GreetingAt(k - 1)' /\ k - 1 \in Nat
    <3>1. k - 1 \in 1 .. Len(Stream) - 1 /\ (k - 1) + 1 = k
      BY <2>3, <2>4 DEF GreetingAt
    <3> QED
      BY <2>3, <2>4, <3>1 DEF GreetingAt
  <2>5. ASSUME NEW j \in Nat, BlankAt(j), ~ Tunnel PROVE BlankAt(j - 1)' /\ j - 1 \in Nat
    <3>1. j > 1
      <4>1. CASE StatusLine
        BY <2>3, <2>5, <4>1 DEF BlankAt, StatusLine
      <4>2. CASE HeaderLine
        BY <2>3, <2>5, <4>2 DEF BlankAt, HeaderLine
      <4> QED
        BY <1>4, <2>5, <4>1, <4>2
    <3>2. j - 1 \in 1 .. Len(Stream) - 1 /\ (j - 1) + 1 = j
      BY <2>3, <2>5, <3>1 DEF BlankAt
    <3> QED
      BY <2>1, <2>3, <2>5, <3>2 DEF BlankAt
  <2>6. ASSUME greeted
        PROVE  \E k \in Nat : /\ GreetingAt(k)'
                              /\ dial' \in Reading => \E j \in Nat : j < k /\ BlankAt(j)'
    <3>1. PICK k \in Nat, j \in Nat : GreetingAt(k) /\ j < k /\ BlankAt(j)
      BY <2>1, <2>6 DEF Reading
    <3>2. k > 1
      BY <3>1 DEF BlankAt
    <3>3. GreetingAt(k - 1)' /\ k - 1 \in Nat
      BY <2>4, <3>1, <3>2
    <3>4. CASE Tunnel
      BY <3>3, <3>4 DEF Tunnel, Reading
    <3>5. CASE ~ Tunnel
      <4>1. BlankAt(j - 1)' /\ j - 1 \in Nat /\ j - 1 < k - 1
        BY <2>5, <3>1, <3>5
      <4> QED
        BY <3>3, <4>1
    <3> QED
      BY <3>4, <3>5
  <2>7. ASSUME peer' = "up", dial' \in Reading PROVE \E j \in Nat : BlankAt(j)'
    <3>1. PICK j \in Nat : BlankAt(j)
      BY <2>1, <2>7
    <3>2. ~ Tunnel
      BY <2>7 DEF Tunnel, Reading
    <3> QED
      BY <2>5, <3>1, <3>2
  <2> QED
    BY <2>1, <2>2, <2>6, <2>7 DEF Reading
<1> QED
  BY <1>1, <1>2, <1>3, <1>4 DEF DialStep

\* The game server's first packet.
LEMMA GreetingSpoken ==
    ASSUME IInv, GreetingInv, Greet
    PROVE  GreetingInv'
<1> DEFINE cell == Cell("greeting", "ok", 1)
<1>1. /\ wire \in Seq(Cells) /\ held \in Seq(Cells)
      /\ dial \in Reading \cup {"up"} /\ peer = "up"
      /\ app = "dial" /\ app' = app /\ held' = held /\ dial' = dial /\ peer' = peer
      /\ wire' = Append(wire, cell) /\ greeted'
  BY DEF Greet, IInv, LoginIInv, LoginTypeOK, NoSocket, appVars
<1>2. cell \in Cells /\ cell.op = "greeting"
  BY DEF Cell, Cells, Ops, Values
<1> HIDE DEF cell
<1>3. Stream \in Seq(Cells) /\ Stream' = Append(Stream, cell)
  <2>1. <<cell>> \in Seq(Cells) /\ wire' = wire \o <<cell>>
    BY <1>1, <1>2, AppendIsConcat
  <2>2. held \o (wire \o <<cell>>) = (held \o wire) \o <<cell>>
    BY <1>1, <2>1, ConcatAssociative
  <2>3. Stream \in Seq(Cells)
    BY <1>1, ConcatProperties DEF Stream
  <2>4. Stream' = Stream \o <<cell>>
    BY <1>1, <2>1, <2>2 DEF Stream
  <2> QED
    BY <1>2, <2>3, <2>4, AppendIsConcat
<1>4. /\ Len(Stream) \in Nat /\ Len(Stream') = Len(Stream) + 1
      /\ \A i \in 1 .. Len(Stream) : Stream'[i] = Stream[i]
      /\ Stream'[Len(Stream) + 1] = cell
  BY <1>2, <1>3, AppendProperties, LenProperties
<1>5. \A j \in Nat : BlankAt(j) => BlankAt(j)' /\ j < Len(Stream) + 1
  BY <1>1, <1>4 DEF BlankAt
<1>6. PICK n \in Nat : n = Len(Stream) + 1
  BY <1>4
<1>8. GreetingAt(n)'
  BY <1>2, <1>4, <1>6 DEF GreetingAt
<1>7. dial \in Reading => \E j \in Nat : BlankAt(j)
  BY <1>1 DEF GreetingInv
<1>9. dial \in Reading => \E j \in Nat : BlankAt(j)' /\ j < n
  BY <1>5, <1>6, <1>7
<1> QED
  BY <1>1, <1>6, <1>8, <1>9 DEF GreetingInv, Reading

\* Every step keeps the first packet where it is looked for.
LEMMA GreetingStep == IInv /\ GreetingInv /\ [Next]_vars => GreetingInv'
<1> SUFFICES ASSUME IInv, GreetingInv, [Next]_vars PROVE GreetingInv'
  OBVIOUS
<1>0. LoginTypeOK /\ NoSocket /\ InStep /\ Quiet
  BY DEF IInv, LoginIInv
<1>1. UNCHANGED <<wire, held, dial>> => /\ \A k \in Nat : GreetingAt(k) => GreetingAt(k)'
                                        /\ \A j \in Nat : BlankAt(j) => BlankAt(j)'
  BY DEF GreetingAt, BlankAt, Stream
<1>2. CASE UNCHANGED netVars /\ app' = app
  BY <1>1, <1>2 DEF netVars, dialVars, loginVars, GreetingInv
<1>3. CASE Turns
  BY <1>0, <1>3 DEF Turns, StartDiscord, Check, RunDone, RunCancelled, AfterSession, Wait,
                    netVars, dialVars, loginVars, GreetingInv, InStep, InSession
<1>4. CASE app = "login" /\ LoginStep /\ UNCHANGED <<appVars, greeted>>
  <2>1. app' = "login" /\ ~greeted /\ ~greeted'
    BY <1>4 DEF appVars, GreetingInv
  <2>2. phase' = "done" => wire' = <<>> /\ held' = <<>>
    <3> SUFFICES ASSUME phase' = "done" PROVE wire' = <<>> /\ held' = <<>>
      OBVIOUS
    <3>1. phase # "done"
      BY <1>4, DoneIsClosed DEF IInv
    <3> QED
      BY <1>4, <3>1 DEF LoginStep, StartLogin, DialError, SendChallenge, ReadSome, IOError,
           WrongOpcode, HandleChallenge, ChallengeError, HandleProof, ProofError,
           RealmFound, RealmMissing, MustPanics, Ask, Fail, Exit, Closed, loginVars, Answers
  <2> QED
    BY <2>1, <2>2 DEF GreetingInv
<1>5. CASE app = "dial" /\ DialStep /\ UNCHANGED <<appVars, loginVars, greeted>>
  BY <1>5, GreetingDial DEF appVars, loginVars
<1>6. CASE Peer
  <2>1. app' = app /\ greeted' = greeted
    BY <1>6 DEF Peer, appVars
  <2>2. CASE app = "login"
    <3>1. phase' = phase /\ (phase = "done" => FALSE)
      BY <1>0, <1>6, <2>2 DEF Peer, PeerStep, AnswerChallenge, AcceptProof, DenyProof,
         AnswerList, AnswerWrong, ServerSays, ProxyAnswers, HangUp, loginVars, InStep, NoSocket
    <3> QED
      BY <2>1, <2>2, <3>1 DEF GreetingInv
  <2>3. CASE app = "dial"
    <3>1. asked = "none"
      BY <1>0, <2>3 DEF InStep, InSession, Quiet, Answers
    <3>2. (ProxyAnswers \/ HangUp) /\ UNCHANGED loginVars
      BY <1>6, <3>1 DEF Peer, PeerStep, AnswerChallenge, AcceptProof, DenyProof,
         AnswerList, AnswerWrong
    <3>3. CASE HangUp
      BY <1>0, <1>1, <2>1, <2>3, <3>2, <3>3 DEF HangUp, GreetingInv, NoSocket
    <3>4. CASE ProxyAnswers
      <4>1. /\ dial = "status" /\ dial' = dial /\ held = <<>> /\ held' = held /\ ~greeted
            /\ peer' \in {"up", "gone"}
        BY <2>3, <3>4 DEF ProxyAnswers, GreetingInv
      <4>2. ASSUME peer' = "up" PROVE \E j \in Nat : BlankAt(j)'
        <5>1. PICK status \in {"200", "407", "bad"}, headers \in 0 .. MaxHeaders :
                wire' = ProxyReply(status, headers)
          BY <3>4, <4>2 DEF ProxyAnswers
        <5> QED
          BY <4>1, <5>1, ReplyEnds
      <4> QED
        BY <2>1, <2>3, <4>1, <4>2 DEF GreetingInv
    <3> QED
      BY <3>2, <3>3, <3>4
  <2> QED
    BY <1>6, <2>2, <2>3 DEF Peer
<1>7. CASE Greet
  BY <1>7, GreetingSpoken
<1>8. CASE LoginFails \/ LoginPanics \/ Unset \/ DialFails
  BY <1>8 DEF LoginFails, LoginPanics, Unset, DialFails, GreetingInv
<1>9. ASSUME NEW s \in Sessions, LoginOK(s) PROVE GreetingInv'
  BY <1>0, <1>9 DEF LoginOK, GreetingInv, Reading, InStep, NoSocket
<1>10. CASE DialOK
  BY <1>1, <1>10 DEF DialOK, GreetingInv, Stream, GreetingAt
<1>11. CASE Others /\ UNCHANGED netVars
  BY <1>2, <1>11 DEF Others, EnterWorld, ReadLoopEnds, Signal, Drop, Handler, TakeGame,
                     SendChunk, FinishMessage
<1> QED
  BY <1>2, <1>3, <1>4, <1>5, <1>6, <1>7, <1>8, <1>9, <1>10, <1>11
     DEF Next, Main, Conversation, LoginReturns, DialReturns, vars, appVars

\* A session whose game server has spoken finds the packet, however its connection
\* was made and in whatever pieces the proxy's answer and the packet came.
THEOREM GreetingKeptCorrect == Spec => []GreetingKept
<1>1. IInv /\ GreetingInv => GreetingKept
  <2> SUFFICES ASSUME IInv, GreetingInv, app = "run", greeted
               PROVE  \E i \in DOMAIN Stream : Stream[i].op = "greeting"
    BY DEF GreetingKept, Stream
  <2>1. PICK k \in Nat : GreetingAt(k)
    BY DEF GreetingInv
  <2>2. Stream \in Seq(Cells)
    BY ConcatProperties DEF IInv, LoginIInv, LoginTypeOK, Stream
  <2>3. DOMAIN Stream = 1 .. Len(Stream)
    BY <2>2, LenProperties
  <2> QED
    BY <2>1, <2>3 DEF GreetingAt
<1> QED
  BY Invariance, GreetingInit, GreetingStep, <1>1, PTL DEF Spec
=============================================================================
