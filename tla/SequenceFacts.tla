--------------------------- MODULE SequenceFacts ---------------------------
(***************************************************************************)
(* What the other proofs need to know about data: induction over a set of  *)
(* naturals, functions defined by recursion, the extreme elements of a     *)
(* set, and the cells of a concatenation. Everything is stated for sets    *)
(* and functions, never for operators, so that it can be cited with any    *)
(* set that a proof defines.                                               *)
(***************************************************************************)
EXTENDS Integers, Sequences, SequencesExt, FiniteSetsExt, WellFoundedInduction, TLAPS

\* A set of naturals has a least element.
LEMMA LeastOfSet ==
  ASSUME NEW S \in SUBSET Nat, S # {}
  PROVE  \E x \in S : \A y \in S : x <= y
<1> DEFINE R == OpToRel(<, Nat)
<1>1. IsWellFoundedOn(R, Nat)
  BY NatLessThanWellFounded
<1>2. \A x \in Nat, y \in Nat : y < x => <<y, x>> \in R
  BY DEF OpToRel
<1> HIDE DEF R
<1>3. PICK x \in S : \A y \in S : ~(<<y, x>> \in R)
  BY <1>1, WFMin
<1>4. ASSUME NEW y \in S PROVE x <= y
  <2>1. x \in Nat /\ y \in Nat
    OBVIOUS
  <2>2. ~(y < x)
    BY <1>2, <1>3, <2>1
  <2> QED BY <2>1, <2>2
<1> QED BY <1>4

\* Min() and Max() find what they are for.
LEMMA MinOfSet ==
  ASSUME NEW S \in SUBSET Nat, S # {}
  PROVE  Min(S) \in S /\ \A y \in S : Min(S) <= y
BY LeastOfSet DEF Min

LEMMA GreatestOfSet ==
  ASSUME NEW n \in Nat, NEW S \in SUBSET (0 .. n), S # {}
  PROVE  \E x \in S : \A y \in S : x >= y
<1> DEFINE T == {n - x : x \in S}
<1>1. T \in SUBSET Nat /\ T # {}
  <2>1. \A x \in S : n - x \in Nat
    OBVIOUS
  <2>2. PICK z \in S : TRUE
    OBVIOUS
  <2>3. n - z \in T
    OBVIOUS
  <2> QED BY <2>1, <2>3
<1>2. PICK t \in T : \A u \in T : t <= u
  BY <1>1, LeastOfSet
<1>3. PICK x \in S : t = n - x
  OBVIOUS
<1>4. ASSUME NEW y \in S PROVE x >= y
  <2>1. n - x <= n - y
    BY <1>2, <1>3
  <2> QED BY <2>1
<1> QED BY <1>4

LEMMA MaxOfSet ==
  ASSUME NEW n \in Nat, NEW S \in SUBSET (0 .. n), S # {}
  PROVE  Max(S) \in S /\ \A y \in S : Max(S) >= y
BY GreatestOfSet DEF Max

\* Induction: a set that holds 0, and with a number the next one, holds all.
LEMMA SetInduction ==
  ASSUME NEW S, 0 \in S, \A n \in Nat : n \in S => n + 1 \in S
  PROVE  \A n \in Nat : n \in S
<1> DEFINE T == {n \in Nat : n \notin S}
<1>1. SUFFICES ASSUME T # {} PROVE FALSE
  OBVIOUS
<1>2. PICK x \in T : \A y \in T : x <= y
  BY <1>1, LeastOfSet
<1>3. x \in Nat /\ x # 0 /\ x - 1 \in Nat /\ x - 1 \notin T
  BY <1>2
<1>4. x - 1 \in S /\ (x - 1) + 1 = x
  BY <1>3
<1> QED BY <1>2, <1>3, <1>4

\* The same over the positions up to a last one.
LEMMA BoundedInduction ==
  ASSUME NEW N \in Nat, NEW S, 0 \in S,
         \A n \in 0 .. N - 1 : n \in S => n + 1 \in S
  PROVE  \A n \in 0 .. N : n \in S
<1> DEFINE T == {n \in Nat : n <= N => n \in S}
<1>1. 0 \in T
  OBVIOUS
<1>2. ASSUME NEW n \in Nat, n \in T PROVE n + 1 \in T
  BY <1>2
<1> HIDE DEF T
<1>3. \A n \in Nat : n \in T
  BY <1>1, <1>2, SetInduction
<1> QED BY <1>3 DEF T

\* And from the last one down.
LEMMA DownwardInduction ==
  ASSUME NEW N \in Nat, NEW S, N \in S,
         \A n \in 0 .. N - 1 : n + 1 \in S => n \in S
  PROVE  \A n \in 0 .. N : n \in S
<1> DEFINE T == {n \in 0 .. N : N - n \in S}
<1>1. 0 \in T
  OBVIOUS
<1>2. ASSUME NEW n \in 0 .. N - 1, n \in T PROVE n + 1 \in T
  <2>1. N - n \in S /\ N - (n + 1) \in 0 .. N - 1 /\ (N - (n + 1)) + 1 = N - n
    BY <1>2
  <2> QED BY <2>1
<1> HIDE DEF T
<1>3. \A n \in 0 .. N : n \in T
  BY <1>1, <1>2, BoundedInduction
<1>4. ASSUME NEW n \in 0 .. N PROVE n \in S
  <2>1. N - n \in 0 .. N /\ N - (N - n) = n
    OBVIOUS
  <2> QED BY <2>1, <1>3 DEF T
<1> QED BY <1>4

\* Division by a number that is not zero leaves a remainder below it.
LEMMA Divided ==
  ASSUME NEW n \in Nat, NEW k \in Nat \ {0}
  PROVE  n \div k \in Nat /\ n % k \in 0 .. k - 1 /\ n = k * (n \div k) + (n % k)
<1>1. n % k \in 0 .. k - 1
  OBVIOUS
<1>2. n \div k \in Nat
  OBVIOUS
<1>3. n % k = n - k * (n \div k)
  OBVIOUS
<1> DEFINE r == n % k
           m == k * (n \div k)
<1>4. m \in Int
  BY <1>2
<1>5. r = n - m /\ r \in Int
  BY <1>1, <1>3
<1> HIDE DEF r, m
<1>6. n = m + r
  BY <1>4, <1>5
<1> QED BY <1>1, <1>2, <1>6 DEF r, m

\* And there is only one way to divide.
LEMMA DividedOnce ==
  ASSUME NEW k \in Nat \ {0}, NEW q \in Nat, NEW r \in 0 .. k - 1, NEW n, n = k * q + r
  PROVE  n \div k = q /\ n % k = r
<1>1. k * q \in Nat
  OBVIOUS
<1>2. n \in Nat
  BY <1>1
<1>3. n = q * k + r
  BY <1>1
<1> QED BY <1>2, <1>3

-----------------------------------------------------------------------------
(* Functions by recursion.                                                 *)

\* f starts with b, and each value up to N comes from the one before it.
Recurs(f, b, step, N) ==
  f[0] = b /\ \A n \in 1 .. N : f[n] = step[<<n, f[n - 1]>>]

\* There is a function up to any position that starts and steps as stated.
LEMMA BoundedRecursion ==
  ASSUME NEW S, NEW b \in S, NEW step \in [Nat \X S -> S], NEW N \in Nat
  PROVE  \E f \in [0 .. N -> S] : Recurs(f, b, step, N)
<1> DEFINE T == {k \in Nat : \E f \in [0 .. k -> S] : Recurs(f, b, step, k)}
<1>1. 0 \in T
  <2> DEFINE f == [n \in 0 .. 0 |-> b]
  <2>1. f \in [0 .. 0 -> S] /\ Recurs(f, b, step, 0)
    BY DEF Recurs
  <2> QED BY <2>1
<1>2. ASSUME NEW k \in Nat, k \in T PROVE k + 1 \in T
  <2>1. PICK f \in [0 .. k -> S] : Recurs(f, b, step, k)
    BY <1>2
  <2> DEFINE last == step[<<k + 1, f[k]>>]
             g == [n \in 0 .. k + 1 |-> IF n <= k THEN f[n] ELSE last]
  <2>2. <<k + 1, f[k]>> \in Nat \X S
    OBVIOUS
  <2>3. last \in S
    BY <2>2
  <2>4. g \in [0 .. k + 1 -> S]
    BY <2>3
  <2>5. g[0] = b
    BY <2>1 DEF Recurs
  <2>6. ASSUME NEW n \in 1 .. k + 1 PROVE g[n] = step[<<n, g[n - 1]>>]
    <3>1. CASE n = k + 1
      <4>1. g[n] = last /\ n - 1 = k /\ g[k] = f[k]
        BY <3>1
      <4> QED BY <4>1, <3>1
    <3>2. CASE n <= k
      <4>1. n \in 1 .. k /\ g[n] = f[n] /\ g[n - 1] = f[n - 1]
        BY <3>2
      <4> QED BY <4>1, <2>1 DEF Recurs
    <3> QED BY <3>1, <3>2
  <2> HIDE DEF g
  <2>7. Recurs(g, b, step, k + 1)
    BY <2>5, <2>6 DEF Recurs
  <2> QED BY <2>4, <2>7
<1> HIDE DEF T
<1>3. N \in T
  BY <1>1, <1>2, SetInduction
<1> QED BY <1>3 DEF T

\* And only one.
LEMMA RecursionUnique ==
  ASSUME NEW N \in Nat, NEW b, NEW step, NEW f, NEW g,
         Recurs(f, b, step, N), Recurs(g, b, step, N)
  PROVE  \A n \in 0 .. N : f[n] = g[n]
<1> DEFINE T == {n \in 0 .. N : f[n] = g[n]}
<1>1. 0 \in T
  BY DEF Recurs
<1>2. ASSUME NEW n \in 0 .. N - 1, n \in T PROVE n + 1 \in T
  <2>1. n + 1 \in 1 .. N /\ (n + 1) - 1 = n /\ f[n] = g[n]
    BY <1>2
  <2>2. /\ f[n + 1] = step[<<n + 1, f[(n + 1) - 1]>>]
        /\ g[n + 1] = step[<<n + 1, g[(n + 1) - 1]>>]
    BY <2>1 DEF Recurs
  <2> QED BY <2>1, <2>2
<1> HIDE DEF T
<1>3. \A n \in 0 .. N : n \in T
  BY <1>1, <1>2, BoundedInduction
<1> QED BY <1>3 DEF T

\* The same over all naturals.
LEMMA NatRecursion ==
  ASSUME NEW S, NEW b \in S, NEW step \in [Nat \X S -> S]
  PROVE  \E f \in [Nat -> S] :
           f[0] = b /\ \A n \in Nat \ {0} : f[n] = step[<<n, f[n - 1]>>]
<1> DEFINE Pick(k) == CHOOSE f : f \in [0 .. k -> S] /\ Recurs(f, b, step, k)
           h == [n \in Nat |-> Pick(n)[n]]
<1>1. ASSUME NEW k \in Nat PROVE Pick(k) \in [0 .. k -> S] /\ Recurs(Pick(k), b, step, k)
  <2>1. \E f \in [0 .. k -> S] : Recurs(f, b, step, k)
    BY BoundedRecursion
  <2> QED BY <2>1
<1> HIDE DEF Pick
<1>2. ASSUME NEW n \in Nat \ {0} PROVE Pick(n)[n - 1] = Pick(n - 1)[n - 1]
  <2> DEFINE m == n - 1
  <2>1. m \in Nat /\ Recurs(Pick(n), b, step, n) /\ Recurs(Pick(m), b, step, m)
    BY <1>1
  <2>2. Recurs(Pick(n), b, step, m)
    BY <2>1 DEF Recurs
  <2> HIDE DEF m
  <2>3. \A i \in 0 .. m : Pick(n)[i] = Pick(m)[i]
    BY <2>1, <2>2, RecursionUnique
  <2>4. Pick(n)[m] = Pick(m)[m]
    BY <2>1, <2>3
  <2> QED BY <2>4 DEF m
<1>3. h \in [Nat -> S]
  BY <1>1
<1>4. h[0] = b
  BY <1>1 DEF Recurs
<1>5. ASSUME NEW n \in Nat \ {0} PROVE h[n] = step[<<n, h[n - 1]>>]
  <2>1. n - 1 \in Nat /\ h[n] = Pick(n)[n] /\ h[n - 1] = Pick(n - 1)[n - 1]
    OBVIOUS
  <2>2. Recurs(Pick(n), b, step, n) /\ n \in 1 .. n
    BY <1>1
  <2>3. Pick(n)[n] = step[<<n, Pick(n)[n - 1]>>]
    BY <2>2 DEF Recurs
  <2> QED BY <2>1, <2>3, <1>2
<1> QED BY <1>3, <1>4, <1>5

\* What stands at a position comes from what stands above it.
LooksUp(body, N, S) ==
  \A c \in 0 .. N : \A f \in [0 .. N -> S], g \in [0 .. N -> S] :
    (\A e \in c + 1 .. N : f[e] = g[e]) => body[<<c, f>>] = body[<<c, g>>]

Settles(h, body, from, N) == \A c \in from .. N : h[c] = body[<<c, h>>]

\* There is a function that gives every position what the ones above it make of it.
LEMMA DownwardRecursion ==
  ASSUME NEW N \in Nat, NEW S, NEW b \in S,
         NEW body \in [(0 .. N) \X [0 .. N -> S] -> S], LooksUp(body, N, S)
  PROVE  \E h \in [0 .. N -> S] : Settles(h, body, 0, N)
<1> DEFINE M == N + 1
           T == {k \in 0 .. M : \E h \in [0 .. N -> S] : Settles(h, body, k, N)}
<1>1. M \in Nat
  OBVIOUS
<1>2. M \in T
  <2> DEFINE h == [c \in 0 .. N |-> b]
  <2>1. h \in [0 .. N -> S] /\ Settles(h, body, M, N)
    BY DEF Settles
  <2> QED BY <2>1
<1>3. ASSUME NEW k \in 0 .. M - 1, k + 1 \in T PROVE k \in T
  <2>1. PICK h \in [0 .. N -> S] : Settles(h, body, k + 1, N)
    BY <1>3
  <2> DEFINE g == [c \in 0 .. N |-> IF c = k THEN body[<<k, h>>] ELSE h[c]]
  <2>2. k \in 0 .. N /\ k \in Nat
    OBVIOUS
  <2>3. body[<<k, h>>] \in S
    BY <2>2
  <2>4. g \in [0 .. N -> S]
    BY <2>3
  <2>5. g[k] = body[<<k, h>>] /\ \A e \in k + 1 .. N : g[e] = h[e]
    BY <2>2
  <2> HIDE DEF g
  <2>6. ASSUME NEW c \in k .. N PROVE g[c] = body[<<c, g>>]
    <3>1. c \in 0 .. N /\ \A e \in c + 1 .. N : e \in k + 1 .. N
      BY <2>2
    <3>2. \A e \in c + 1 .. N : h[e] = g[e]
      BY <2>5, <3>1
    <3>3. body[<<c, h>>] = body[<<c, g>>]
      BY <2>4, <3>1, <3>2 DEF LooksUp
    <3>4. CASE c = k
      BY <2>5, <3>3, <3>4
    <3>5. CASE c # k
      <4>1. c \in k + 1 .. N
        BY <2>2, <3>5
      <4> QED BY <2>1, <2>5, <3>3, <4>1 DEF Settles
    <3> QED BY <3>4, <3>5
  <2>7. Settles(g, body, k, N)
    BY <2>6 DEF Settles
  <2> QED BY <2>2, <2>4, <2>7
<1> HIDE DEF T
<1>4. 0 \in T
  <2>1. \A k \in 0 .. M : k \in T
    <3> HIDE DEF M
    <3> QED BY <1>1, <1>2, <1>3, DownwardInduction
  <2> QED BY <1>1, <2>1
<1> QED BY <1>4 DEF T

-----------------------------------------------------------------------------
(* Concatenations.                                                         *)

\* A position in a part lies in the whole.
LEMMA PositionIn ==
  ASSUME NEW u \in Nat, NEW m \in Nat, NEW n \in Nat, u + m <= n, NEW i \in 1 .. m
  PROVE  u + i \in 1 .. n
OBVIOUS

\* Two parts, one behind the other.
Joins(whole, a, b) ==
  /\ Len(whole) = Len(a) + Len(b)
  /\ \A i \in 1 .. Len(a) : whole[i] = a[i]
  /\ \A i \in 1 .. Len(b) : whole[Len(a) + i] = b[i]

LEMMA Joined ==
  ASSUME NEW S, NEW a \in Seq(S), NEW b \in Seq(S)
  PROVE  a \o b \in Seq(S) /\ Joins(a \o b, a, b)
BY DEF Joins

\* The cells of a part of a sequence.
LEMMA Sliced ==
  ASSUME NEW S, NEW s \in Seq(S), NEW a \in Nat \ {0}, NEW b \in Nat, a <= b + 1, b <= Len(s)
  PROVE  /\ SubSeq(s, a, b) \in Seq(S) /\ Len(SubSeq(s, a, b)) = b - a + 1
         /\ \A i \in 1 .. b - a + 1 : SubSeq(s, a, b)[i] = s[a + i - 1]
<1> DEFINE r == SubSeq(s, a, b)
<1>1. Len(s) \in Nat /\ \A i \in a .. b : i \in 1 .. Len(s) /\ s[i] \in S
  OBVIOUS
<1>2. r = [i \in 1 .. b - a + 1 |-> s[a + i - 1]]
  BY <1>1
<1>3. \A i \in 1 .. b - a + 1 : s[a + i - 1] \in S
  <2>1. \A i \in 1 .. b - a + 1 : a + i - 1 \in a .. b
    OBVIOUS
  <2> QED BY <1>1, <2>1
<1>4. b - a + 1 \in Nat
  OBVIOUS
<1> QED BY <1>2, <1>3, <1>4

\* Sequences of one length with the same elements are the same.
LEMMA SameSequence ==
  ASSUME NEW S, NEW a \in Seq(S), NEW b \in Seq(S), Len(a) = Len(b),
         \A i \in 1 .. Len(a) : a[i] = b[i]
  PROVE  a = b
OBVIOUS

\* FlattenSeq() adds one part after another.
LEMMA FlattenPrefixes ==
  ASSUME NEW S, NEW parts \in Seq(Seq(S))
  PROVE  \E P \in [0 .. Len(parts) -> Seq(S)] :
           /\ P[0] = <<>>
           /\ \A i \in 1 .. Len(parts) : P[i] = P[i - 1] \o parts[i]
           /\ FlattenSeq(parts) = P[Len(parts)]
<1> DEFINE N == Len(parts)
           step == [x \in Nat \X Seq(S) |->
                      IF x[1] \in 1 .. N THEN x[2] \o parts[x[1]] ELSE <<>>]
<1>1. N \in Nat /\ \A i \in 1 .. N : parts[i] \in Seq(S)
  OBVIOUS
<1>2. <<>> \in Seq(S) /\ step \in [Nat \X Seq(S) -> Seq(S)]
  <2>1. ASSUME NEW x \in Nat \X Seq(S) PROVE step[x] \in Seq(S)
    <3>1. CASE x[1] \in 1 .. N
      <4>1. x[2] \in Seq(S) /\ parts[x[1]] \in Seq(S)
        BY <3>1, <1>1
      <4>2. x[2] \o parts[x[1]] \in Seq(S)
        BY <4>1
      <4> QED BY <3>1, <4>2
    <3>2. CASE ~(x[1] \in 1 .. N)
      BY <3>2
    <3> QED BY <3>1, <3>2
  <2> QED BY <2>1
<1>3. PICK P \in [0 .. N -> Seq(S)] : Recurs(P, <<>>, step, N)
  <2> HIDE DEF step, N
  <2> QED BY <1>1, <1>2, BoundedRecursion
<1>4. ASSUME NEW i \in 1 .. N PROVE P[i] = P[i - 1] \o parts[i]
  <2>1. P[i - 1] \in Seq(S) /\ i \in Nat
    <3> HIDE DEF N
    <3>1. i - 1 \in 0 .. N /\ i \in Nat
      BY <1>1
    <3> QED BY <3>1
  <2>2. P[i] = step[<<i, P[i - 1]>>]
    BY <1>3 DEF Recurs
  <2>3. <<i, P[i - 1]>> \in Nat \X Seq(S)
    BY <2>1
  <2>4. step[<<i, P[i - 1]>>] = P[i - 1] \o parts[i]
    <3> HIDE DEF N
    <3> QED BY <2>3
  <2> QED BY <2>2, <2>4
<1> HIDE DEF N
<1>0. P[0] = <<>>
  BY <1>3 DEF Recurs
<1>5. FlattenSeq(parts) = P[N]
  <2>1. CASE N = 0
    BY <2>1, <1>0 DEF FlattenSeq, N
  <2>2. CASE N # 0
    <3> DEFINE Def(f) == [i \in 1 .. N |-> IF i = 1 THEN parts[i] ELSE f[i - 1] \o parts[i]]
               F == CHOOSE f : f = Def(f)
               Q == [i \in 1 .. N |-> P[i]]
    <3>0. parts[1] \in Seq(S) /\ P[1] = parts[1]
      <4>1. 1 \in 1 .. N
        BY <2>2, <1>1
      <4>2. parts[1] \in Seq(S) /\ P[1] = P[1 - 1] \o parts[1]
        BY <4>1, <1>1, <1>4
      <4>3. P[1 - 1] = <<>>
        BY <1>0
      <4> QED BY <4>2, <4>3
    <3>1. Q = Def(Q)
      <4>1. ASSUME NEW i \in 1 .. N PROVE P[i] = IF i = 1 THEN parts[i] ELSE Q[i - 1] \o parts[i]
        <5>1. CASE i = 1
          BY <3>0, <5>1
        <5>2. CASE i # 1
          <6>1. i - 1 \in 1 .. N
            BY <5>2, <1>1
          <6> QED BY <6>1, <5>2, <1>4
        <5> QED BY <5>1, <5>2
      <4> HIDE DEF Q
      <4>2. Q = [i \in 1 .. N |-> P[i]]
        BY DEF Q
      <4> QED BY <4>1, <4>2
    <3>2. F = Def(F)
      <4> HIDE DEF Q, Def
      <4> QED BY <3>1
    <3>3. FlattenSeq(parts) = F[N]
      BY <2>2 DEF FlattenSeq, N
    <3> HIDE DEF F
    <3> DEFINE T == {n \in 0 .. N : n = 0 \/ F[n] = P[n]}
    <3>4. 0 \in T
      BY <1>1
    <3>5. ASSUME NEW n \in 0 .. N - 1, n \in T PROVE n + 1 \in T
      <4>1. n + 1 \in 1 .. N /\ (n + 1) - 1 = n
        BY <1>1
      <4>2. F[n + 1] = IF n + 1 = 1 THEN parts[n + 1] ELSE F[(n + 1) - 1] \o parts[n + 1]
        BY <3>2, <4>1
      <4>3. P[n + 1] = P[n] \o parts[n + 1]
        BY <4>1, <1>4
      <4>4. F[n + 1] = P[n + 1]
        <5>1. CASE n = 0
          BY <5>1, <4>2, <3>0
        <5>2. CASE n # 0
          <6>1. F[n] = P[n]
            BY <5>2, <3>5
          <6>2. n + 1 # 1
            BY <5>2
          <6>3. F[n + 1] = F[(n + 1) - 1] \o parts[n + 1]
            BY <6>2, <4>2
          <6>4. F[n + 1] = F[n] \o parts[n + 1]
            BY <6>3, <4>1
          <6> QED BY <6>1, <6>4, <4>3
        <5> QED BY <5>1, <5>2
      <4> QED BY <4>1, <4>4
    <3> HIDE DEF T
    <3>6. \A n \in 0 .. N : n \in T
      BY <1>1, <3>4, <3>5, BoundedInduction
    <3> QED BY <1>1, <2>2, <3>3, <3>6 DEF T
  <2> QED BY <2>1, <2>2
<1> QED BY <1>0, <1>4, <1>5 DEF N

\* The parts of a concatenation lie one behind another: part i fills the cells
\* behind o[i - 1], up to o[i].
Lies(o, flat, parts) ==
  /\ o[0] = 0 /\ Len(flat) = o[Len(parts)]
  /\ \A i \in 1 .. Len(parts) :
       /\ o[i] = o[i - 1] + Len(parts[i])
       /\ \A j \in 1 .. Len(parts[i]) : flat[o[i - 1] + j] = parts[i][j]

\* The offsets of the parts do not go back.
LEMMA OffsetsGrow ==
  ASSUME NEW N \in Nat, NEW o \in [0 .. N -> Nat],
         \A i \in 1 .. N : o[i - 1] <= o[i]
  PROVE  \A i \in 0 .. N, k \in 0 .. N : i <= k => o[i] <= o[k]
<1> DEFINE T == {k \in 0 .. N : \A i \in 0 .. k : o[i] <= o[k]}
<1>1. 0 \in T
  OBVIOUS
<1>2. ASSUME NEW k \in 0 .. N - 1, k \in T PROVE k + 1 \in T
  <2>1. k + 1 \in 1 .. N /\ (k + 1) - 1 = k
    OBVIOUS
  <2>2. o[(k + 1) - 1] <= o[k + 1]
    BY <2>1
  <2>3. o[k] <= o[k + 1] /\ o[k] \in Nat /\ o[k + 1] \in Nat
    BY <2>1, <2>2
  <2>4. ASSUME NEW i \in 0 .. k + 1 PROVE o[i] <= o[k + 1]
    <3>1. CASE i = k + 1
      BY <3>1, <2>3
    <3>2. CASE i <= k
      <4>1. i \in 0 .. k /\ o[i] \in Nat /\ o[i] <= o[k]
        BY <3>2, <1>2
      <4> QED BY <4>1, <2>3
    <3> QED BY <3>1, <3>2
  <2> QED BY <2>1, <2>4
<1> HIDE DEF T
<1>3. \A k \in 0 .. N : k \in T
  BY <1>1, <1>2, BoundedInduction
<1> QED BY <1>3 DEF T

\* Every cell is of one of the parts.
LEMMA CellOfPart ==
  ASSUME NEW N \in Nat, NEW o \in [0 .. N -> Nat], o[0] = 0, NEW p \in 1 .. o[N]
  PROVE  \E i \in 1 .. N : o[i - 1] < p /\ p <= o[i]
<1> DEFINE T == {i \in 0 .. N : p <= o[i]}
<1>1. T \in SUBSET Nat /\ N \in T
  OBVIOUS
<1>2. PICK i \in T : \A y \in T : i <= y
  BY <1>1, LeastOfSet
<1>3. i \in 1 .. N /\ p <= o[i] /\ i - 1 \in 0 .. N
  BY <1>2
<1>4. i - 1 \notin T
  BY <1>2, <1>3
<1>5. o[i - 1] < p
  BY <1>3, <1>4
<1> QED BY <1>3, <1>5

\* Where the parts of FlattenSeq() lie.
LEMMA FlattenPositions ==
  ASSUME NEW S, NEW parts \in Seq(Seq(S))
  PROVE  /\ FlattenSeq(parts) \in Seq(S)
         /\ \E o \in [0 .. Len(parts) -> Nat] : Lies(o, FlattenSeq(parts), parts)
<1> DEFINE N == Len(parts)
<1>0. N \in Nat /\ \A i \in 1 .. N : parts[i] \in Seq(S) /\ Len(parts[i]) \in Nat
  OBVIOUS
<1>1. PICK P \in [0 .. N -> Seq(S)] :
        /\ P[0] = <<>>
        /\ \A i \in 1 .. N : P[i] = P[i - 1] \o parts[i]
        /\ FlattenSeq(parts) = P[N]
  BY FlattenPrefixes
<1> HIDE DEF N
<1> DEFINE o == [i \in 0 .. N |-> Len(P[i])]
<1>2. o \in [0 .. N -> Nat] /\ o[0] = 0 /\ \A i \in 0 .. N : P[i] \in Seq(S) /\ o[i] = Len(P[i])
  BY <1>0, <1>1
<1>3. ASSUME NEW i \in 1 .. N
      PROVE  /\ o[i] = o[i - 1] + Len(parts[i]) /\ o[i - 1] \in Nat
             /\ \A j \in 1 .. Len(parts[i]) : P[i][o[i - 1] + j] = parts[i][j]
             /\ \A j \in 1 .. o[i - 1] : P[i][j] = P[i - 1][j]
  <2>1. i - 1 \in 0 .. N /\ i \in 0 .. N
    BY <1>0
  <2>2. P[i] = P[i - 1] \o parts[i] /\ P[i - 1] \in Seq(S) /\ parts[i] \in Seq(S)
        /\ o[i] = Len(P[i]) /\ o[i - 1] = Len(P[i - 1])
    BY <2>1, <1>0, <1>1, <1>2
  <2> HIDE DEF o
  <2> DEFINE a == P[i - 1]
             b == parts[i]
  <2>3. a \in Seq(S) /\ b \in Seq(S) /\ P[i] = a \o b /\ o[i - 1] = Len(a) /\ o[i] = Len(a \o b)
    BY <2>2
  <2> HIDE DEF a, b
  <2>4. /\ Len(a \o b) = Len(a) + Len(b) /\ Len(a) \in Nat /\ Len(b) \in Nat
        /\ \A j \in 1 .. Len(b) : (a \o b)[Len(a) + j] = b[j]
        /\ \A j \in 1 .. Len(a) : (a \o b)[j] = a[j]
    BY <2>3
  <2>5. /\ o[i] = o[i - 1] + Len(b) /\ o[i - 1] \in Nat
        /\ \A j \in 1 .. Len(b) : P[i][o[i - 1] + j] = b[j]
        /\ \A j \in 1 .. o[i - 1] : P[i][j] = a[j]
    BY <2>3, <2>4
  <2> QED BY <2>5 DEF a, b
<1> HIDE DEF o
<1>4. \A i \in 0 .. N, k \in 0 .. N : i <= k => o[i] <= o[k]
  <2>1. ASSUME NEW i \in 1 .. N PROVE o[i - 1] <= o[i]
    <3>1. o[i] = o[i - 1] + Len(parts[i]) /\ o[i - 1] \in Nat /\ Len(parts[i]) \in Nat
      BY <1>0, <1>3
    <3> QED BY <3>1
  <2> QED BY <1>0, <1>2, <2>1, OffsetsGrow
<1> DEFINE T == {n \in 0 .. N : \A i \in 1 .. n : \A j \in 1 .. Len(parts[i]) :
                                  P[n][o[i - 1] + j] = parts[i][j]}
<1>5. 0 \in T
  BY <1>0
<1>6. ASSUME NEW n \in 0 .. N - 1, n \in T PROVE n + 1 \in T
  <2>1. n + 1 \in 1 .. N /\ (n + 1) - 1 = n /\ n \in 0 .. N
    BY <1>0
  <2>2. ASSUME NEW i \in 1 .. n + 1, NEW j \in 1 .. Len(parts[i])
        PROVE  P[n + 1][o[i - 1] + j] = parts[i][j]
    <3>1. CASE i = n + 1
      BY <3>1, <2>1, <1>3
    <3>2. CASE i <= n
      <4>1. i \in 1 .. n /\ i \in 1 .. N /\ i \in 0 .. N
        BY <3>2, <2>1, <1>0
      <4>2. P[n][o[i - 1] + j] = parts[i][j]
        BY <4>1, <1>6
      <4>3. o[i] = o[i - 1] + Len(parts[i]) /\ o[i - 1] \in Nat
        BY <4>1, <1>3
      <4>4. o[i - 1] + j \in 1 .. o[n]
        <5>1. o[i] <= o[n] /\ o[n] \in Nat
          BY <4>1, <3>2, <2>1, <1>2, <1>4
        <5>2. Len(parts[i]) \in Nat
          BY <4>1, <1>0
        <5> QED BY <4>3, <5>1, <5>2
      <4>5. \A m \in 1 .. o[(n + 1) - 1] : P[n + 1][m] = P[(n + 1) - 1][m]
        BY <2>1, <1>3
      <4>6. P[n + 1][o[i - 1] + j] = P[n][o[i - 1] + j]
        BY <4>4, <4>5, <2>1
      <4> QED BY <4>2, <4>6
    <3> QED BY <3>1, <3>2
  <2> QED BY <2>1, <2>2
<1> HIDE DEF T
<1>7. N \in T
  <2>1. \A n \in 0 .. N : n \in T
    BY <1>0, <1>5, <1>6, BoundedInduction
  <2> QED BY <2>1, <1>0
<1>8. Lies(o, P[N], parts)
  <2>1. o[0] = 0 /\ Len(P[N]) = o[N]
    BY <1>0, <1>2
  <2>2. \A i \in 1 .. N : /\ o[i] = o[i - 1] + Len(parts[i])
                          /\ \A j \in 1 .. Len(parts[i]) : P[N][o[i - 1] + j] = parts[i][j]
    BY <1>3, <1>7 DEF T
  <2> QED BY <2>1, <2>2 DEF Lies, N
<1>9. FlattenSeq(parts) \in Seq(S) /\ FlattenSeq(parts) = P[N]
  BY <1>0, <1>1, <1>2
<1> QED BY <1>2, <1>8, <1>9 DEF N

\* Parts of one length: part i begins behind i - 1 lengths.
LEMMA FlattenEven ==
  ASSUME NEW S, NEW parts \in Seq(Seq(S)), NEW B \in Nat,
         \A i \in 1 .. Len(parts) : Len(parts[i]) = B
  PROVE  /\ FlattenSeq(parts) \in Seq(S)
         /\ Len(FlattenSeq(parts)) = Len(parts) * B
         /\ \A p \in 1 .. Len(FlattenSeq(parts)) :
              \E i \in 1 .. Len(parts), j \in 1 .. B :
                p = (i - 1) * B + j /\ FlattenSeq(parts)[p] = parts[i][j]
<1> DEFINE N == Len(parts)
           flat == FlattenSeq(parts)
<1>0. N \in Nat
  OBVIOUS
<1>1. flat \in Seq(S)
  BY FlattenPositions
<1>2. PICK o \in [0 .. N -> Nat] : Lies(o, flat, parts)
  BY FlattenPositions
<1> HIDE DEF N, flat
<1>3. /\ o[0] = 0 /\ Len(flat) = o[N]
      /\ \A i \in 1 .. N : /\ o[i] = o[i - 1] + Len(parts[i])
                           /\ \A j \in 1 .. Len(parts[i]) : flat[o[i - 1] + j] = parts[i][j]
  BY <1>2 DEF Lies, N
<1>4. \A i \in 1 .. N : Len(parts[i]) = B
  BY DEF N
<1> DEFINE T == {k \in 0 .. N : o[k] = k * B}
<1>5. 0 \in T
  BY <1>0, <1>3
<1>6. ASSUME NEW k \in 0 .. N - 1, k \in T PROVE k + 1 \in T
  <2>1. k + 1 \in 1 .. N /\ (k + 1) - 1 = k
    BY <1>0
  <2>2. o[k + 1] = o[(k + 1) - 1] + B
    BY <1>3, <1>4, <2>1
  <2>3. (k + 1) * B = k * B + B
    BY <1>0
  <2> QED BY <1>6, <2>1, <2>2, <2>3
<1> HIDE DEF T
<1>7. \A k \in 0 .. N : o[k] = k * B
  <2>1. \A k \in 0 .. N : k \in T
    BY <1>0, <1>5, <1>6, BoundedInduction
  <2> QED BY <2>1 DEF T
<1>8. Len(flat) = N * B
  BY <1>0, <1>3, <1>7
<1>9. ASSUME NEW p \in 1 .. Len(flat)
      PROVE  \E i \in 1 .. N, j \in 1 .. B :
               p = (i - 1) * B + j /\ flat[p] = parts[i][j]
  <2>1. PICK i \in 1 .. N : o[i - 1] < p /\ p <= o[i]
    BY <1>0, <1>3, CellOfPart
  <2>2. i - 1 \in 0 .. N /\ o[i] = o[i - 1] + B
    <3>1. i - 1 \in 0 .. N
      BY <1>0
    <3>2. o[i] = o[i - 1] + B
      BY <1>3, <1>4
    <3> QED BY <3>1, <3>2
  <2>3. o[i - 1] = (i - 1) * B /\ o[i - 1] \in Nat
    BY <1>7, <2>2
  <2> DEFINE j == p - o[i - 1]
  <2>4. p \in Int
    BY <1>0, <1>3
  <2>5. j \in 1 .. B /\ p = o[i - 1] + j
    BY <2>1, <2>2, <2>3, <2>4
  <2> HIDE DEF j
  <2>6. flat[o[i - 1] + j] = parts[i][j]
    BY <1>3, <1>4, <2>5
  <2> QED BY <2>3, <2>5, <2>6
<1> QED BY <1>1, <1>8, <1>9 DEF N, flat

\* A concatenation has the elements of its parts.
Gathers(flat, parts) ==
  \A x : (\E p \in 1 .. Len(flat) : flat[p] = x)
           <=> (\E i \in 1 .. Len(parts) : \E j \in 1 .. Len(parts[i]) : parts[i][j] = x)

LEMMA FlattenElements ==
  ASSUME NEW S, NEW parts \in Seq(Seq(S))
  PROVE  Gathers(FlattenSeq(parts), parts)
<1> SUFFICES ASSUME NEW x
             PROVE  (\E p \in 1 .. Len(FlattenSeq(parts)) : FlattenSeq(parts)[p] = x)
                      <=> (\E i \in 1 .. Len(parts) :
                             \E j \in 1 .. Len(parts[i]) : parts[i][j] = x)
  BY DEF Gathers
<1> DEFINE N == Len(parts)
           flat == FlattenSeq(parts)
<1>0. N \in Nat /\ \A i \in 1 .. N : Len(parts[i]) \in Nat
  OBVIOUS
<1>1. PICK o \in [0 .. N -> Nat] : Lies(o, flat, parts)
  BY FlattenPositions
<1> HIDE DEF N, flat
<1>2. /\ o[0] = 0 /\ Len(flat) = o[N]
      /\ \A i \in 1 .. N : /\ o[i] = o[i - 1] + Len(parts[i])
                           /\ \A j \in 1 .. Len(parts[i]) : flat[o[i - 1] + j] = parts[i][j]
  BY <1>1 DEF Lies, N
<1>3. ASSUME NEW i \in 1 .. N PROVE i - 1 \in 0 .. N /\ o[i - 1] \in Nat /\ o[i - 1] <= o[i]
  <2>1. i - 1 \in 0 .. N
    BY <1>0
  <2>2. o[i - 1] \in Nat
    BY <2>1
  <2>3. o[i] = o[i - 1] + Len(parts[i]) /\ Len(parts[i]) \in Nat
    BY <1>0, <1>2
  <2> QED BY <2>1, <2>2, <2>3
<1>4. ASSUME NEW p \in 1 .. Len(flat), flat[p] = x
      PROVE  \E i \in 1 .. N : \E j \in 1 .. Len(parts[i]) : parts[i][j] = x
  <2>1. PICK i \in 1 .. N : o[i - 1] < p /\ p <= o[i]
    BY <1>0, <1>2, CellOfPart
  <2> DEFINE j == p - o[i - 1]
  <2>2. o[i - 1] \in Nat /\ o[i] = o[i - 1] + Len(parts[i]) /\ Len(parts[i]) \in Nat
    BY <1>0, <1>2, <1>3
  <2>3. p \in Int
    BY <1>0, <1>2
  <2>4. j \in 1 .. Len(parts[i]) /\ p = o[i - 1] + j
    BY <2>1, <2>2, <2>3
  <2> HIDE DEF j
  <2>5. parts[i][j] = x
    BY <1>2, <1>4, <2>4
  <2> QED BY <2>4, <2>5
<1>5. ASSUME NEW i \in 1 .. N, NEW j \in 1 .. Len(parts[i]), parts[i][j] = x
      PROVE  \E p \in 1 .. Len(flat) : flat[p] = x
  <2>1. \A k \in 0 .. N, m \in 0 .. N : k <= m => o[k] <= o[m]
    BY <1>0, <1>3, OffsetsGrow
  <2>2. o[i] <= o[N] /\ o[N] \in Nat /\ o[i] \in Nat
    BY <1>0, <2>1
  <2>3. o[i - 1] \in Nat /\ o[i] = o[i - 1] + Len(parts[i]) /\ Len(parts[i]) \in Nat
    BY <1>0, <1>2, <1>3
  <2>4. o[i - 1] + j \in 1 .. Len(flat)
    <3>1. j \in Int /\ 1 <= j /\ j <= Len(parts[i]) /\ Len(flat) = o[N]
      BY <1>2, <2>3
    <3> QED BY <2>2, <2>3, <3>1
  <2>5. flat[o[i - 1] + j] = x
    BY <1>2, <1>5
  <2> QED BY <2>4, <2>5
<1> QED BY <1>4, <1>5 DEF N, flat
=============================================================================
