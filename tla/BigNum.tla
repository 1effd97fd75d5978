-------------------------------- MODULE BigNum ------------------------------
(***************************************************************************)
(* BigNumber and the arithmetic of SRPClient over bytes 0 .. Base-1: what  *)
(* a number looks like on the wire, and the secret both sides derive.      *)
(* Hashes are not computed: a digest is any string of bytes.               *)
(***************************************************************************)
EXTENDS Integers, Sequences, SequencesExt

CONSTANT Base

ASSUME BaseAssumption == Base \in Nat \ {0, 1}

Strings(width) == [1 .. width -> 0 .. Base - 1]

Zeros(n) == [i \in 1 .. n |-> 0]

-----------------------------------------------------------------------------
(* A fault a maintainer could introduce. *)

\* A negative base is made positive before it is raised.
AbsModPow(n, e, m) ==
    LET base == IF n < 0 THEN -n ELSE n
        pow[i \in 0 .. e] == IF i = 0 THEN 1 % m ELSE (pow[i - 1] * base) % m
    IN  pow[e]

-----------------------------------------------------------------------------
\* NewBigFromBytes; its guard byte keeps the number from being read as negative.
FromBytes(bytes, reverse) ==
    LET b == IF reverse THEN Reverse(bytes) ELSE bytes
        value[i \in 0 .. Len(b)] == IF i = 0 THEN 0 ELSE value[i - 1] * Base + b[i]
    IN  value[Len(b)]

\* big.Int.Bytes: the most significant byte first, none for zero.
Digits(n) ==
    LET rest[i \in 0 .. n] == IF i = 0 THEN n ELSE rest[i - 1] \div Base
        len == CHOOSE k \in 0 .. n : rest[k] = 0 /\ \A i \in 0 .. k - 1 : rest[i] # 0
    IN  [i \in 1 .. len |-> rest[len - i] % Base]

\* Zeros are appended, whichever end is the most significant one.
Pad(b, size) == b \o Zeros(size - Len(b))

AsByteArray(n, size, reverse) ==
    LET b == IF reverse THEN Reverse(Digits(n)) ELSE Digits(n)
    IN  IF size > Len(b) THEN Pad(b, size) ELSE b

\* Exp of math/big: the result is not negative even when n is.
ModPow(n, e, m) ==
    LET pow[i \in 0 .. e] == IF i = 0 THEN 1 % m ELSE (pow[i - 1] * n) % m
    IN  pow[e]

-----------------------------------------------------------------------------
\* The client's S for its private a, the server's public B, the scrambler u and
\* the hash x of salt and password.
ClientSecret(a, B, u, x, g, N) == ModPow(B - 3 * ModPow(g, x, N), a + u * x, N)

\* The server's, from the client's public A and the verifier v.
ServerSecret(A, b, u, v, N) == ModPow(A * ModPow(v, u, N), b, N)

\* The secrets that the numbers of one login lead to, in the group of order 6 and
\* whether or not the server reduces its B.
Exchanges ==
    LET g == 3
        N == 7
        Public(v, b) == 3 * v + ModPow(g, b, N)
        Exchange(a, b, u, x, reduced) ==
          LET v == ModPow(g, x, N)
              B == IF reduced THEN Public(v, b) % N ELSE Public(v, b)
          IN  [client |-> ClientSecret(a, B, u, x, g, N),
               server |-> ServerSecret(ModPow(g, a, N), b, u, v, N)]
    IN  {Exchange(n[1], n[2], n[3], n[4], reduced) :
            n \in [1 .. 4 -> 0 .. N - 2], reduced \in BOOLEAN}

\* The proof M, kept as a number, as the client sends it.
ClientProof(digest) == AsByteArray(FromBytes(digest, FALSE), Len(digest), FALSE)

\* The session key, kept as a number, as the game connection gets it.
SessionKey(bytes) == AsByteArray(FromBytes(bytes, TRUE), Len(bytes), TRUE)
=============================================================================
