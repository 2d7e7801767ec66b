---------------------------- MODULE ValueProofs ----------------------------
(***************************************************************************)
(* Proofs about the values that cross the library's boundary: the category *)
(* set as a machine word, the bounded text and the pinned digest, for      *)
(* every limit, every declaration order and every text; and about the      *)
(* guarded secrets, for every literal, seed and signature and every hash.  *)
(***************************************************************************)
EXTENDS HostValues, Secrets, SequenceFacts, FiniteSetTheorems

-----------------------------------------------------------------------------
(* The word of a category set.                                             *)

\* Shifting right is halving (category.rs:99-111): the recursion has one
\* solution, and Shifted() is it.
LEMMA ShiftedHalves ==
  ASSUME NEW bits \in Nat
  PROVE  /\ Shifted(bits) \in [Positions -> Nat]
         /\ Shifted(bits)[0] = bits
         /\ \A i \in 1 .. 31 : Shifted(bits)[i] = Shifted(bits)[i - 1] \div 2
<1> DEFINE Def(f) == [i \in Positions |-> IF i = 0 THEN bits ELSE f[i - 1] \div 2]
           next == [x \in Nat \X Nat |-> x[2] \div 2]
           F == CHOOSE f : f = Def(f)
<1>1. PICK Q \in [0 .. 31 -> Nat] : Recurs(Q, bits, next, 31)
  <2>1. next \in [Nat \X Nat -> Nat] /\ 31 \in Nat
    OBVIOUS
  <2> HIDE DEF next
  <2> QED BY <2>1, BoundedRecursion
<1>2. Q = Def(Q)
  <2>1. ASSUME NEW i \in Positions PROVE Q[i] = IF i = 0 THEN bits ELSE Q[i - 1] \div 2
    <3>1. CASE i = 0
      BY <1>1, <3>1 DEF Recurs
    <3>2. CASE i # 0
      <4>1. i \in 1 .. 31 /\ i - 1 \in 0 .. 31 /\ i \in Nat
        BY <3>2 DEF Positions
      <4>2. Q[i] = next[<<i, Q[i - 1]>>] /\ <<i, Q[i - 1]>> \in Nat \X Nat
        BY <4>1, <1>1 DEF Recurs
      <4> QED BY <3>2, <4>2
    <3> QED BY <3>1, <3>2
  <2> QED BY <2>1 DEF Positions
<1>3. F = Def(F)
  <2> HIDE DEF Def
  <2> QED BY <1>2
<1>4. Shifted(bits) = F
  BY DEF Shifted
<1> HIDE DEF F
<1>5. /\ F[0] = bits
      /\ \A i \in 1 .. 31 : F[i] = F[i - 1] \div 2
  BY <1>3 DEF Positions
<1> DEFINE T == {n \in 0 .. 31 : F[n] \in Nat}
<1>6. 0 \in T
  BY <1>5
<1>7. ASSUME NEW n \in 0 .. 31 - 1, n \in T PROVE n + 1 \in T
  <2>1. n + 1 \in 1 .. 31 /\ (n + 1) - 1 = n
    OBVIOUS
  <2>2. F[n + 1] = F[n] \div 2
    BY <2>1, <1>5
  <2> QED BY <1>7, <2>1, <2>2
<1> HIDE DEF T
<1>8. \A n \in 0 .. 31 : n \in T
  BY <1>6, <1>7, BoundedInduction
<1>9. F \in [Positions -> Nat]
  <2>1. \A n \in Positions : F[n] \in Nat
    BY <1>8 DEF T, Positions
  <2> QED BY <1>3, <2>1
<1> QED BY <1>4, <1>5, <1>9

\* A mask is the double of the one before it (category.rs:101, 110).
LEMMA MaskDoubles ==
  /\ Mask \in [Positions -> Nat \ {0}]
  /\ Mask[0] = 1
  /\ \A i \in 1 .. 31 : Mask[i] = 2 * Mask[i - 1]
<1> DEFINE Def(f) == [i \in Positions |-> IF i = 0 THEN 1 ELSE 2 * f[i - 1]]
           next == [x \in Nat \X Nat |-> 2 * x[2]]
           F == CHOOSE f : f = Def(f)
<1>1. PICK Q \in [0 .. 31 -> Nat] : Recurs(Q, 1, next, 31)
  <2>1. next \in [Nat \X Nat -> Nat] /\ 31 \in Nat /\ 1 \in Nat
    OBVIOUS
  <2> HIDE DEF next
  <2> QED BY <2>1, BoundedRecursion
<1>2. Q = Def(Q)
  <2>1. ASSUME NEW i \in Positions PROVE Q[i] = IF i = 0 THEN 1 ELSE 2 * Q[i - 1]
    <3>1. CASE i = 0
      BY <1>1, <3>1 DEF Recurs
    <3>2. CASE i # 0
      <4>1. i \in 1 .. 31 /\ i - 1 \in 0 .. 31 /\ i \in Nat
        BY <3>2 DEF Positions
      <4>2. Q[i] = next[<<i, Q[i - 1]>>] /\ <<i, Q[i - 1]>> \in Nat \X Nat
        BY <4>1, <1>1 DEF Recurs
      <4> QED BY <3>2, <4>2
    <3> QED BY <3>1, <3>2
  <2> QED BY <2>1 DEF Positions
<1>3. F = Def(F)
  <2> HIDE DEF Def
  <2> QED BY <1>2
<1>4. Mask = F
  BY DEF Mask
<1> HIDE DEF F
<1>5. /\ F[0] = 1
      /\ \A i \in 1 .. 31 : F[i] = 2 * F[i - 1]
  BY <1>3 DEF Positions
<1> DEFINE T == {n \in 0 .. 31 : F[n] \in Nat \ {0}}
<1>6. 0 \in T
  BY <1>5
<1>7. ASSUME NEW n \in 0 .. 31 - 1, n \in T PROVE n + 1 \in T
  <2>1. n + 1 \in 1 .. 31 /\ (n + 1) - 1 = n
    OBVIOUS
  <2>2. F[n + 1] = 2 * F[n]
    BY <2>1, <1>5
  <2> QED BY <1>7, <2>1, <2>2
<1> HIDE DEF T
<1>8. \A n \in 0 .. 31 : n \in T
  BY <1>6, <1>7, BoundedInduction
<1>9. F \in [Positions -> Nat \ {0}]
  <2>1. \A n \in Positions : F[n] \in Nat \ {0}
    BY <1>8 DEF T, Positions
  <2> QED BY <1>3, <2>1
<1> QED BY <1>4, <1>5, <1>9

\* The mask of a clear bit sets that bit and no other (category.rs:100-105):
\* `|=` is the sum that the model takes, and nothing is carried.
LEMMA MaskSetsBit ==
  ASSUME NEW bits \in Nat, NEW k \in Positions, Bit(bits, k) = 0
  PROVE  \A i \in Positions : Bit(bits + Mask[k], i) = IF i = k THEN 1 ELSE Bit(bits, i)
<1> DEFINE s == Shifted(bits)
           more == bits + Mask[k]
           t == Shifted(more)
<1>1. /\ s \in [Positions -> Nat] /\ s[0] = bits
      /\ \A i \in 1 .. 31 : s[i] = s[i - 1] \div 2
  BY ShiftedHalves
<1>2. more \in Nat
  BY MaskDoubles
<1>3. /\ t \in [Positions -> Nat] /\ t[0] = more
      /\ \A i \in 1 .. 31 : t[i] = t[i - 1] \div 2
  BY <1>2, ShiftedHalves
<1> HIDE DEF s, t
<1>4. s[k] % 2 = 0
  BY DEF Bit, s
<1> DEFINE T == {n \in 0 .. 31 : n <= k => t[n] = s[n] + Mask[k - n]}
<1>5. 0 \in T
  BY <1>1, <1>3 DEF Positions
<1>6. ASSUME NEW n \in 0 .. 31 - 1, n \in T PROVE n + 1 \in T
  <2>1. n + 1 \in 1 .. 31 /\ (n + 1) - 1 = n /\ n \in Positions
    BY DEF Positions
  <2>2. t[n + 1] = t[n] \div 2 /\ s[n + 1] = s[n] \div 2
    BY <2>1, <1>1, <1>3
  <2>3. CASE n + 1 <= k
    <3>1. k - n \in 1 .. 31 /\ (k - n) - 1 = k - (n + 1) /\ k - (n + 1) \in Positions
      BY <2>3 DEF Positions
    <3>2. Mask[k - n] = 2 * Mask[k - (n + 1)] /\ Mask[k - (n + 1)] \in Nat
      BY <3>1, MaskDoubles
    <3>3. t[n] = s[n] + 2 * Mask[k - (n + 1)] /\ s[n] \in Nat
      BY <1>6, <2>1, <2>3, <3>2, <1>1 DEF Positions
    <3>4. t[n] \div 2 = (s[n] \div 2) + Mask[k - (n + 1)]
      BY <3>2, <3>3
    <3> QED BY <2>1, <2>2, <3>4
  <2>4. CASE ~(n + 1 <= k)
    BY <2>1, <2>4
  <2> QED BY <2>3, <2>4
<1> HIDE DEF T
<1>7. \A n \in 0 .. 31 : n \in T
  BY <1>5, <1>6, BoundedInduction
<1>8. ASSUME NEW n \in Positions, n <= k PROVE t[n] = s[n] + Mask[k - n]
  BY <1>7, <1>8 DEF T, Positions
<1>9. t[k] = s[k] + 1
  <2>1. k - k = 0 /\ k <= k
    BY DEF Positions
  <2> QED BY <1>8, <2>1, MaskDoubles
<1> DEFINE U == {n \in 0 .. 31 : n > k => t[n] = s[n]}
<1>10. 0 \in U
  BY DEF Positions
<1>11. ASSUME NEW n \in 0 .. 31 - 1, n \in U PROVE n + 1 \in U
  <2>1. n + 1 \in 1 .. 31 /\ (n + 1) - 1 = n /\ n \in Positions
    BY DEF Positions
  <2>2. t[n + 1] = t[n] \div 2 /\ s[n + 1] = s[n] \div 2
    BY <2>1, <1>1, <1>3
  <2>3. CASE n = k
    <3>1. t[n] \div 2 = s[n] \div 2
      BY <2>3, <1>1, <1>4, <1>9
    <3> QED BY <2>1, <2>2, <3>1
  <2>4. CASE n > k
    BY <1>11, <2>1, <2>2, <2>4
  <2>5. CASE n < k
    BY <2>1, <2>5 DEF Positions
  <2> QED BY <2>3, <2>4, <2>5 DEF Positions
<1> HIDE DEF U
<1>12. \A n \in 0 .. 31 : n \in U
  BY <1>10, <1>11, BoundedInduction
<1>13. ASSUME NEW i \in Positions PROVE t[i] % 2 = IF i = k THEN 1 ELSE s[i] % 2
  <2>1. CASE i = k
    BY <2>1, <1>1, <1>4, <1>9
  <2>2. CASE i > k
    <3>1. t[i] = s[i]
      BY <2>2, <1>12 DEF U, Positions
    <3> QED BY <2>2, <3>1 DEF Positions
  <2>3. CASE i < k
    <3>1. k - i \in 1 .. 31 /\ (k - i) - 1 \in Positions /\ i <= k
      BY <2>3 DEF Positions
    <3>2. Mask[k - i] = 2 * Mask[(k - i) - 1] /\ Mask[(k - i) - 1] \in Nat
      BY <3>1, MaskDoubles
    <3>3. t[i] = s[i] + 2 * Mask[(k - i) - 1] /\ s[i] \in Nat
      BY <3>1, <3>2, <1>1, <1>8
    <3>4. t[i] % 2 = s[i] % 2
      BY <3>2, <3>3
    <3> QED BY <2>3, <3>4 DEF Positions
  <2> QED BY <2>1, <2>2, <2>3 DEF Positions
<1> QED BY <1>13 DEF Bit, s, t, more

\* An empty word has no bit (category.rs:113-117).
LEMMA EmptyWord == \A i \in Positions : Bit(0, i) = 0
<1> DEFINE s == Shifted(0)
           T == {n \in 0 .. 31 : s[n] = 0}
<1>1. s[0] = 0 /\ \A i \in 1 .. 31 : s[i] = s[i - 1] \div 2
  BY ShiftedHalves
<1> HIDE DEF s
<1>2. 0 \in T
  BY <1>1
<1>3. ASSUME NEW n \in 0 .. 31 - 1, n \in T PROVE n + 1 \in T
  <2>1. n + 1 \in 1 .. 31 /\ (n + 1) - 1 = n
    OBVIOUS
  <2> QED BY <1>1, <1>3, <2>1
<1> HIDE DEF T
<1>4. \A n \in 0 .. 31 : n \in T
  BY <1>2, <1>3, BoundedInduction
<1> QED BY <1>4 DEF T, Bit, s, Positions

\* Category::index is one-to-one and stays below the width of the word.
LEMMA IndexOf ==
  /\ \A i \in DOMAIN CategoryOrder : index(CategoryOrder[i]) = i - 1
  /\ \A c \in ToSet(CategoryOrder) :
       /\ index(c) \in Positions /\ index(c) + 1 \in DOMAIN CategoryOrder
       /\ CategoryOrder[index(c) + 1] = c
<1>0. /\ CategoryOrder \in Seq(ToSet(CategoryOrder)) /\ Len(CategoryOrder) <= 32
      /\ DOMAIN CategoryOrder = 1 .. Len(CategoryOrder) /\ Len(CategoryOrder) \in Nat
      /\ \A a, b \in DOMAIN CategoryOrder : CategoryOrder[a] = CategoryOrder[b] => a = b
  BY HostValuesAssumption DEF IsInjective
<1>1. ASSUME NEW i \in DOMAIN CategoryOrder PROVE index(CategoryOrder[i]) = i - 1
  <2> DEFINE c == CategoryOrder[i]
             j == CHOOSE n \in DOMAIN CategoryOrder : CategoryOrder[n] = c
  <2>1. j \in DOMAIN CategoryOrder /\ CategoryOrder[j] = c
    OBVIOUS
  <2>2. j = i
    BY <1>0, <2>1
  <2> QED BY <2>2 DEF index
<1>2. ASSUME NEW c \in ToSet(CategoryOrder)
      PROVE  /\ index(c) \in Positions /\ index(c) + 1 \in DOMAIN CategoryOrder
             /\ CategoryOrder[index(c) + 1] = c
  <2>1. PICK i \in DOMAIN CategoryOrder : CategoryOrder[i] = c
    BY DEF ToSet
  <2>2. index(c) = i - 1 /\ i \in 1 .. Len(CategoryOrder)
    BY <1>0, <1>1, <2>1
  <2>3. i - 1 \in Positions /\ (i - 1) + 1 = i
    <3> DEFINE n == Len(CategoryOrder)
    <3>1. n \in Nat /\ n <= 32 /\ i \in 1 .. n
      BY <1>0, <2>2
    <3> HIDE DEF n
    <3> QED BY <3>1 DEF Positions
  <2> QED BY <2>1, <2>2, <2>3
<1> QED BY <1>1, <1>2

\* The iterator lists what the set holds, each once, in declaration order
\* (category.rs:125-181): Category::ALL is walked, and what is not held adds
\* nothing.
LEMMA IterLists ==
  ASSUME NEW bits, NEW H \in SUBSET ToSet(CategoryOrder),
         \A c \in ToSet(CategoryOrder) : contains(bits, c) <=> c \in H
  PROVE  /\ ToSet(iter(bits)) = H
         /\ \A i, j \in DOMAIN iter(bits) :
              i < j => index(iter(bits)[i]) < index(iter(bits)[j])
<1> DEFINE N == Len(CategoryOrder)
           All == ToSet(CategoryOrder)
           parts == [i \in DOMAIN CategoryOrder |->
                       IF contains(bits, CategoryOrder[i]) THEN <<CategoryOrder[i]>> ELSE <<>>]
           flat == FlattenSeq(parts)
<1>0. CategoryOrder \in Seq(All)
  BY HostValuesAssumption
<1>1. N \in Nat /\ DOMAIN CategoryOrder = 1 .. N /\ \A i \in 1 .. N : CategoryOrder[i] \in All
  BY <1>0
<1>2. parts \in Seq(Seq(All)) /\ Len(parts) = N
  <2>1. ASSUME NEW i \in 1 .. N PROVE parts[i] \in Seq(All)
    <3> HIDE DEF All
    <3> QED BY <1>1
  <2> HIDE DEF All, N
  <2>2. parts \in [1 .. N -> Seq(All)]
    BY <1>1, <2>1
  <2> HIDE DEF parts
  <2> QED BY <1>1, <2>2
<1>3. PICK o \in [0 .. N -> Nat] : Lies(o, flat, parts) /\ flat \in Seq(All)
  <2> HIDE DEF flat, parts, All
  <2> QED BY <1>2, FlattenPositions DEF flat
<1>4. /\ o[0] = 0 /\ Len(flat) = o[N] /\ DOMAIN flat = 1 .. o[N]
  <2> HIDE DEF flat, parts, All
  <2> QED BY <1>2, <1>3 DEF Lies
<1> HIDE DEF flat
<1>5. ASSUME NEW i \in 1 .. N
      PROVE  /\ o[i - 1] \in Nat /\ o[i] \in Nat
             /\ IF CategoryOrder[i] \in H
                THEN o[i] = o[i - 1] + 1 /\ flat[o[i]] = CategoryOrder[i]
                ELSE o[i] = o[i - 1]
  <2>1. i - 1 \in 0 .. N /\ i \in 0 .. N
    BY <1>1
  <2>2. o[i - 1] \in Nat /\ o[i] \in Nat
    BY <2>1
  <2>3. /\ o[i] = o[i - 1] + Len(parts[i])
        /\ \A j \in 1 .. Len(parts[i]) : flat[o[i - 1] + j] = parts[i][j]
    BY <1>2, <1>3 DEF Lies
  <2>4. CASE CategoryOrder[i] \in H
    <3>1. contains(bits, CategoryOrder[i])
      BY <2>4, <1>1
    <3>2. parts[i] = <<CategoryOrder[i]>>
      BY <3>1, <1>1
    <3> QED BY <2>2, <2>3, <2>4, <3>2
  <2>5. CASE CategoryOrder[i] \notin H
    <3>1. ~contains(bits, CategoryOrder[i])
      BY <2>5, <1>1
    <3>2. parts[i] = <<>>
      BY <3>1, <1>1
    <3> QED BY <2>2, <2>3, <2>5, <3>2
  <2> QED BY <2>4, <2>5
<1> HIDE DEF parts, N, All
<1>6. \A i \in 0 .. N, k \in 0 .. N : i <= k => o[i] <= o[k]
  <2>1. ASSUME NEW i \in 1 .. N PROVE o[i - 1] <= o[i]
    BY <1>5
  <2> QED BY <1>1, <2>1, OffsetsGrow
<1>7. ASSUME NEW p \in DOMAIN flat
      PROVE  \E i \in 1 .. N : CategoryOrder[i] \in H /\ o[i] = p /\ flat[p] = CategoryOrder[i]
  <2>1. PICK i \in 1 .. N : o[i - 1] < p /\ p <= o[i]
    BY <1>1, <1>4, CellOfPart
  <2>3. p \in Int /\ o[i - 1] \in Nat
    BY <1>1, <1>4, <1>5
  <2>0. o[i] # o[i - 1]
    BY <2>1, <2>3
  <2>2. CategoryOrder[i] \in H /\ o[i] = o[i - 1] + 1 /\ flat[o[i]] = CategoryOrder[i]
    BY <1>5, <2>0
  <2>4. o[i] = p
    BY <2>1, <2>2, <2>3
  <2> QED BY <2>2, <2>4
<1>8. ToSet(flat) = H
  <2>1. ASSUME NEW c \in H PROVE c \in ToSet(flat)
    <3>1. PICK i \in 1 .. N : CategoryOrder[i] = c
      BY <1>1 DEF ToSet
    <3>2. o[i] = o[i - 1] + 1 /\ flat[o[i]] = c /\ o[i - 1] \in Nat /\ o[i] \in Nat
      BY <1>5, <3>1
    <3>3. i \in 0 .. N /\ N \in 0 .. N /\ i <= N
      BY <1>1
    <3>4. o[i] <= o[N] /\ o[N] \in Nat
      BY <1>6, <3>3
    <3>5. o[i] \in DOMAIN flat
      BY <1>4, <3>2, <3>4
    <3> QED BY <3>2, <3>5 DEF ToSet
  <2>2. ASSUME NEW c \in ToSet(flat) PROVE c \in H
    <3>1. PICK p \in DOMAIN flat : flat[p] = c
      BY DEF ToSet
    <3> QED BY <1>7, <3>1
  <2> QED BY <2>1, <2>2
<1>9. ASSUME NEW p \in DOMAIN flat, NEW q \in DOMAIN flat, p < q
      PROVE  index(flat[p]) < index(flat[q])
  <2>1. PICK i \in 1 .. N : o[i] = p /\ flat[p] = CategoryOrder[i]
    BY <1>7
  <2>2. PICK k \in 1 .. N : o[k] = q /\ flat[q] = CategoryOrder[k]
    BY <1>7
  <2>3. i < k
    <3>1. SUFFICES ASSUME k <= i PROVE FALSE
      BY <1>1
    <3>2. i \in 0 .. N /\ k \in 0 .. N
      BY <1>1
    <3>3. q <= p
      BY <1>6, <2>1, <2>2, <3>1, <3>2
    <3> QED BY <1>4, <1>9, <3>3
  <2>4. index(flat[p]) = i - 1 /\ index(flat[q]) = k - 1
    BY <1>1, <2>1, <2>2, IndexOf
  <2> QED BY <1>1, <2>3, <2>4
<1>10. iter(bits) = flat
  BY DEF iter, flat, parts
<1> QED BY <1>8, <1>9, <1>10

-----------------------------------------------------------------------------
(* The set as the host and the latch change it.                            *)

\* The word has the bits of what was inserted, and each insert that added one
\* was counted.
WordInv ==
  /\ word \in Nat /\ held \in SUBSET ToSet(CategoryOrder)
  /\ \A c \in ToSet(CategoryOrder) : contains(word, c) <=> c \in held
  /\ changes = count_ones(word)
  /\ word = 0 <=> held = {}

\* A bit is 0 or 1.
LEMMA BitIsBit ==
  ASSUME NEW bits \in Nat, NEW i \in Positions
  PROVE  Bit(bits, i) \in {0, 1}
<1>1. Shifted(bits)[i] \in Nat
  BY ShiftedHalves
<1> QED BY <1>1 DEF Bit

\* The ones of a word can be counted (category.rs:119-123).
LEMMA OnesCounted ==
  ASSUME NEW bits
  PROVE  IsFiniteSet({i \in Positions : Bit(bits, i) = 1}) /\ count_ones(bits) \in Nat
<1> DEFINE ones == {i \in Positions : Bit(bits, i) = 1}
<1>1. IsFiniteSet(0 .. 31)
  <2>1. 0 \in Int /\ 31 \in Int
    OBVIOUS
  <2> QED BY <2>1, FS_Interval
<1>2. ones \subseteq 0 .. 31
  BY DEF Positions
<1> HIDE DEF ones
<1>3. IsFiniteSet(ones)
  BY <1>1, <1>2, FS_Subset
<1>4. Cardinality(ones) \in Nat
  BY <1>3, FS_CardinalityType
<1> QED BY <1>3, <1>4 DEF count_ones, ones

\* insert() keeps the word and the set together, and reports a change exactly
\* when it makes one (category.rs:99-105).
LEMMA InsertKeeps == WordInv /\ InsertCategory => WordInv'
<1>0. SUFFICES ASSUME WordInv, InsertCategory PROVE WordInv'
  OBVIOUS
<1>1. PICK c \in ToSet(CategoryOrder) :
        /\ word' = inserted(word, c)
        /\ held' = held \cup {c}
        /\ changes' = changes + (IF contains(word, c) THEN 0 ELSE 1)
  BY <1>0 DEF InsertCategory
<1>2. /\ word \in Nat /\ held \in SUBSET ToSet(CategoryOrder)
      /\ \A d \in ToSet(CategoryOrder) : contains(word, d) <=> d \in held
      /\ changes = count_ones(word)
      /\ word = 0 <=> held = {}
  BY <1>0 DEF WordInv
<1>3. CASE contains(word, c)
  <2>0. changes \in Nat
    BY <1>2, OnesCounted
  <2>1. word' = word /\ changes' = count_ones(word) /\ c \in held
    BY <1>1, <1>2, <1>3, <2>0 DEF inserted
  <2>2. held' = held
    BY <1>1, <2>1
  <2> QED BY <1>2, <2>1, <2>2 DEF WordInv
<1>4. CASE ~contains(word, c)
  <2> DEFINE k == index(c)
             ones == {i \in Positions : Bit(word, i) = 1}
             more == {i \in Positions : Bit(word', i) = 1}
  <2>1. k \in Positions /\ Bit(word, k) = 0
    <3>1. k \in Positions /\ Bit(word, k) # 1
      BY <1>4, IndexOf DEF contains
    <3> QED BY <1>2, <3>1, BitIsBit
  <2>2. word' = word + Mask[k]
    BY <1>1, <1>4 DEF inserted
  <2>3. \A i \in Positions : Bit(word', i) = IF i = k THEN 1 ELSE Bit(word, i)
    BY <1>2, <2>1, <2>2, MaskSetsBit
  <2>4. Mask[k] \in Nat \ {0}
    BY <2>1, MaskDoubles
  <2>5. word' \in Nat /\ word' # 0
    BY <1>2, <2>2, <2>4
  <2>6. held' \in SUBSET ToSet(CategoryOrder) /\ held' # {}
    BY <1>1, <1>2
  <2>7. ASSUME NEW d \in ToSet(CategoryOrder) PROVE contains(word', d) <=> d \in held'
    <3>1. index(d) \in Positions /\ (index(d) = k => d = c)
      BY IndexOf
    <3>2. Bit(word', index(d)) = IF d = c THEN 1 ELSE Bit(word, index(d))
      BY <2>3, <3>1
    <3> QED BY <1>1, <1>2, <3>2 DEF contains
  <2>8. more = ones \cup {k} /\ k \notin ones
    <3> HIDE DEF k
    <3> QED BY <2>1, <2>3
  <2>9. IsFiniteSet(ones)
    BY OnesCounted
  <2>10. Cardinality(more) = Cardinality(ones) + 1
    <3> HIDE DEF ones, more, k
    <3>1. Cardinality(ones \cup {k}) = Cardinality(ones) + 1
      BY <2>8, <2>9, FS_AddElement
    <3> QED BY <2>8, <3>1
  <2>11. changes' = count_ones(word')
    <3>1. changes' = changes + 1
      BY <1>1, <1>4
    <3> QED BY <1>2, <2>10, <3>1 DEF count_ones
  <2> QED BY <2>5, <2>6, <2>7, <2>11 DEF WordInv
<1> QED BY <1>3, <1>4

\* CategorySet::new().
LEMMA EmptyHolds == ValueInit => WordInv
<1>0. SUFFICES ASSUME ValueInit PROVE WordInv
  OBVIOUS
<1>1. word = 0 /\ held = {} /\ changes = 0
  BY <1>0 DEF ValueInit
<1>2. \A c \in ToSet(CategoryOrder) : ~contains(0, c)
  BY EmptyWord, IndexOf DEF contains
<1>3. {i \in Positions : Bit(0, i) = 1} = {}
  BY EmptyWord
<1>4. count_ones(0) = 0
  BY <1>3, FS_EmptySet DEF count_ones
<1> QED BY <1>1, <1>2, <1>4 DEF WordInv

\* A word with its bits is its set.
LEMMA WordOfSet == WordInv => WordIsItsSet
<1>0. SUFFICES ASSUME WordInv PROVE WordIsItsSet
  OBVIOUS
<1>1. /\ ToSet(iter(word)) = held
      /\ \A i, j \in DOMAIN iter(word) :
           i < j => index(iter(word)[i]) < index(iter(word)[j])
  <2>1. held \in SUBSET ToSet(CategoryOrder)
        /\ \A c \in ToSet(CategoryOrder) : contains(word, c) <=> c \in held
    BY <1>0 DEF WordInv
  <2> QED BY <2>1, IterLists
<1> QED BY <1>0, <1>1 DEF WordInv, WordIsItsSet

-----------------------------------------------------------------------------
(* Bounded text.                                                           *)

\* Character i of a text begins behind o[i - 1] bytes and ends at o[i].
Spans(o, widths) ==
  /\ o \in [0 .. Len(widths) -> Nat] /\ o[0] = 0
  /\ Len(Encoded(widths)) = o[Len(widths)]
  /\ \A i \in 1 .. Len(widths) :
       /\ o[i] = o[i - 1] + widths[i]
       /\ \A j \in 1 .. widths[i] :
            Encoded(widths)[o[i - 1] + j] = IF j = 1 THEN widths[i] ELSE 0

\* The bytes of a text are those of its characters (evidence.rs:29-51).
LEMMA EncodedSpans ==
  ASSUME NEW widths \in Seq(1 .. 4)
  PROVE  Encoded(widths) \in Seq(Nat) /\ \E o : Spans(o, widths)
<1> DEFINE N == Len(widths)
           parts == [i \in DOMAIN widths |-> CharBytes(widths[i])]
<1>1. N \in Nat /\ DOMAIN widths = 1 .. N /\ \A i \in 1 .. N : widths[i] \in 1 .. 4
  OBVIOUS
<1>2. ASSUME NEW i \in 1 .. N
      PROVE  /\ parts[i] = CharBytes(widths[i]) /\ parts[i] \in Seq(Nat)
             /\ Len(parts[i]) = widths[i]
             /\ \A j \in 1 .. widths[i] : parts[i][j] = IF j = 1 THEN widths[i] ELSE 0
  <2>1. widths[i] \in Nat /\ parts[i] = [j \in 1 .. widths[i] |-> IF j = 1 THEN widths[i] ELSE 0]
    BY <1>1 DEF CharBytes
  <2>2. parts[i] = CharBytes(widths[i])
    BY <1>1
  <2> HIDE DEF parts
  <2> QED BY <2>1, <2>2
<1>3. parts \in Seq(Seq(Nat)) /\ Len(parts) = N
  <2>1. parts \in [1 .. N -> Seq(Nat)]
    <3> HIDE DEF N
    <3> QED BY <1>1, <1>2
  <2> HIDE DEF parts, N
  <2> QED BY <1>1, <2>1
<1>4. Encoded(widths) = FlattenSeq(parts)
  BY DEF Encoded
<1> HIDE DEF parts, N
<1>5. PICK o \in [0 .. N -> Nat] : Lies(o, Encoded(widths), parts)
  BY <1>3, <1>4, FlattenPositions
<1>6. Encoded(widths) \in Seq(Nat)
  BY <1>3, <1>4, FlattenPositions
<1>7. /\ o[0] = 0 /\ Len(Encoded(widths)) = o[N]
      /\ \A i \in 1 .. N :
           /\ o[i] = o[i - 1] + Len(parts[i])
           /\ \A j \in 1 .. Len(parts[i]) : Encoded(widths)[o[i - 1] + j] = parts[i][j]
  BY <1>3, <1>5 DEF Lies
<1>8. \A i \in 1 .. N :
        /\ o[i] = o[i - 1] + widths[i]
        /\ \A j \in 1 .. widths[i] :
             Encoded(widths)[o[i - 1] + j] = IF j = 1 THEN widths[i] ELSE 0
  BY <1>2, <1>7
<1>9. Spans(o, widths)
  BY <1>7, <1>8 DEF Spans, N
<1> QED BY <1>6, <1>9

\* The first characters of a text are encoded by its first bytes.
LEMMA EncodedPrefix ==
  ASSUME NEW widths \in Seq(1 .. 4), NEW o, Spans(o, widths), NEW n \in 0 .. Len(widths)
  PROVE  /\ Encoded(SubSeq(widths, 1, n)) = SubSeq(Encoded(widths), 1, o[n])
         /\ Len(Encoded(SubSeq(widths, 1, n))) = o[n]
         /\ o[n] \in 0 .. Len(Encoded(widths))
<1> DEFINE N == Len(widths)
           first == SubSeq(widths, 1, n)
           text == Encoded(widths)
           begin == Encoded(first)
<1>1. /\ first \in Seq(1 .. 4) /\ Len(first) = n /\ n \in Nat /\ N \in Nat /\ n <= N
      /\ \A i \in 1 .. n : first[i] = widths[i]
      /\ \A i \in 1 .. N : widths[i] \in 1 .. 4
  OBVIOUS
<1>2. text \in Seq(Nat) /\ begin \in Seq(Nat)
  BY <1>1, EncodedSpans
<1>3. PICK p : Spans(p, first)
  BY <1>1, EncodedSpans
<1> HIDE DEF first, N, text, begin
<1>4. /\ o \in [0 .. N -> Nat] /\ o[0] = 0 /\ Len(text) = o[N]
      /\ \A i \in 1 .. N : /\ o[i] = o[i - 1] + widths[i]
                           /\ \A j \in 1 .. widths[i] :
                                text[o[i - 1] + j] = IF j = 1 THEN widths[i] ELSE 0
  BY DEF Spans, N, text
<1>5. /\ p \in [0 .. n -> Nat] /\ p[0] = 0 /\ Len(begin) = p[n]
      /\ \A i \in 1 .. n : /\ p[i] = p[i - 1] + first[i]
                           /\ \A j \in 1 .. first[i] :
                                begin[p[i - 1] + j] = IF j = 1 THEN first[i] ELSE 0
  BY <1>1, <1>3 DEF Spans, begin
<1> DEFINE T == {k \in 0 .. n : p[k] = o[k]}
<1>6. 0 \in T
  BY <1>1, <1>4, <1>5
<1>7. ASSUME NEW k \in 0 .. n - 1, k \in T PROVE k + 1 \in T
  <2>1. k + 1 \in 1 .. n /\ k + 1 \in 1 .. N /\ (k + 1) - 1 = k
    BY <1>1
  <2>2. p[k + 1] = p[(k + 1) - 1] + first[k + 1]
    BY <2>1, <1>5
  <2>3. o[k + 1] = o[(k + 1) - 1] + widths[k + 1] /\ first[k + 1] = widths[k + 1]
    BY <2>1, <1>1, <1>4
  <2> QED BY <1>7, <2>1, <2>2, <2>3
<1> HIDE DEF T
<1>8. \A k \in 0 .. n : p[k] = o[k]
  <2>1. \A k \in 0 .. n : k \in T
    BY <1>1, <1>6, <1>7, BoundedInduction
  <2> QED BY <2>1 DEF T
<1>9. Len(begin) = o[n] /\ o[n] \in Nat
  BY <1>1, <1>4, <1>5, <1>8
<1>10. o[n] <= Len(text)
  <2>1. ASSUME NEW i \in 1 .. N PROVE o[i - 1] <= o[i]
    <3>1. o[i] = o[i - 1] + widths[i]
      BY <1>4
    <3>2. widths[i] \in Nat /\ i - 1 \in 0 .. N
      BY <1>1
    <3>3. o[i - 1] \in Nat
      BY <1>4, <3>2
    <3> QED BY <3>1, <3>2, <3>3
  <2>2. \A i \in 0 .. N, k \in 0 .. N : i <= k => o[i] <= o[k]
    BY <1>1, <1>4, <2>1, OffsetsGrow
  <2> QED BY <1>1, <1>4, <2>2
<1>11. ASSUME NEW q \in 1 .. o[n] PROVE begin[q] = text[q]
  <2>1. PICK i \in 1 .. n : p[i - 1] < q /\ q <= p[i]
    <3>1. q \in 1 .. p[n]
      BY <1>1, <1>8
    <3> QED BY <1>1, <1>5, <3>1, CellOfPart
  <2>2. i \in 1 .. N /\ i - 1 \in 0 .. n /\ first[i] = widths[i] /\ widths[i] \in Nat
    BY <1>1
  <2>3. p[i - 1] = o[i - 1] /\ p[i - 1] \in Nat /\ p[i] = p[i - 1] + first[i]
    BY <2>2, <1>5, <1>8
  <2> DEFINE j == q - p[i - 1]
  <2>4. j \in 1 .. widths[i] /\ p[i - 1] + j = q
    BY <1>9, <2>1, <2>2, <2>3
  <2>5. begin[p[i - 1] + j] = IF j = 1 THEN first[i] ELSE 0
    <3> HIDE DEF j
    <3> QED BY <1>5, <2>2, <2>4
  <2>6. text[o[i - 1] + j] = IF j = 1 THEN widths[i] ELSE 0
    <3> HIDE DEF j
    <3> QED BY <1>4, <2>2, <2>4
  <2> HIDE DEF j
  <2> QED BY <2>2, <2>3, <2>4, <2>5, <2>6
<1>12. begin = SubSeq(text, 1, o[n])
  <2>1. /\ SubSeq(text, 1, o[n]) \in Seq(Nat) /\ Len(SubSeq(text, 1, o[n])) = o[n]
        /\ \A q \in 1 .. o[n] : SubSeq(text, 1, o[n])[q] = text[q]
    <3> DEFINE b == o[n]
    <3>1. /\ b \in Nat /\ 1 \in Nat \ {0} /\ 1 <= b + 1 /\ b <= Len(text)
          /\ text \in Seq(Nat) /\ b - 1 + 1 = b /\ \A q \in 1 .. b : 1 + q - 1 = q
      BY <1>2, <1>9, <1>10
    <3> HIDE DEF b
    <3>2. /\ SubSeq(text, 1, b) \in Seq(Nat) /\ Len(SubSeq(text, 1, b)) = b - 1 + 1
          /\ \A q \in 1 .. b - 1 + 1 : SubSeq(text, 1, b)[q] = text[1 + q - 1]
      BY <3>1, Sliced
    <3> QED BY <3>1, <3>2 DEF b
  <2> QED BY <1>2, <1>9, <1>11, <2>1
<1> QED BY <1>9, <1>10, <1>12, <1>2 DEF text, begin, first

\* A text is cut behind a character and as late as the limit allows
\* (evidence.rs:40-50): the largest boundary that fits is the end of the last
\* character that fits, however wide the characters are.
LEMMA TextCut ==
  ASSUME NEW widths \in Seq(1 .. 4)
  PROVE  LET kept(n) == Encoded(SubSeq(widths, 1, n))
             cut == bounded_text(Encoded(widths))
         IN  \E n \in 0 .. Len(widths) :
               /\ cut.text = kept(n)
               /\ Len(kept(n)) <= MAX_EVIDENCE_BYTES
               /\ n < Len(widths) => Len(kept(n + 1)) > MAX_EVIDENCE_BYTES
               /\ cut.truncated <=> n < Len(widths)
<1> DEFINE N == Len(widths)
           text == Encoded(widths)
           MAX == MAX_EVIDENCE_BYTES
           kept(n) == Encoded(SubSeq(widths, 1, n))
<1>1. /\ N \in Nat /\ MAX \in Nat /\ text \in Seq(Nat)
      /\ \A i \in 1 .. N : widths[i] \in 1 .. 4
  BY EncodedSpans, HostValuesAssumption
<1>2. PICK o : Spans(o, widths)
  BY EncodedSpans
<1>3. ASSUME NEW n \in 0 .. N
      PROVE  kept(n) = SubSeq(text, 1, o[n]) /\ Len(kept(n)) = o[n] /\ o[n] \in 0 .. Len(text)
  BY <1>2, EncodedPrefix
<1>4. /\ o \in [0 .. N -> Nat] /\ o[0] = 0 /\ Len(text) = o[N]
      /\ \A i \in 1 .. N : /\ o[i] = o[i - 1] + widths[i]
                           /\ \A j \in 1 .. widths[i] :
                                text[o[i - 1] + j] = IF j = 1 THEN widths[i] ELSE 0
  BY <1>2 DEF Spans
<1> HIDE DEF N, text, kept
<1>5. CASE Len(text) <= MAX
  <2>1. N \in 0 .. N /\ ~(N < N)
    BY <1>1
  <2>2. SubSeq(text, 1, Len(text)) = text
    BY <1>1
  <2>3. kept(N) = text /\ Len(kept(N)) <= MAX
    BY <1>3, <1>4, <1>5, <2>1, <2>2
  <2>4. bounded_text(text) = [text |-> text, truncated |-> FALSE]
    BY <1>5 DEF bounded_text
  <2> QED BY <2>1, <2>3, <2>4 DEF N, text, kept
<1>6. CASE ~(Len(text) <= MAX)
  <2> DEFINE ends == {e \in 0 .. MAX : is_char_boundary(text, e)}
             end == CHOOSE e \in ends : \A f \in ends : f <= e
  <2>0. Len(text) \in Nat /\ MAX < Len(text)
    BY <1>1, <1>6
  <2>1. ASSUME NEW n \in 0 .. N, o[n] <= MAX PROVE o[n] \in ends
    <3>1. CASE n = N
      BY <1>1, <1>4, <2>0, <2>1, <3>1
    <3>2. CASE n # N
      <4>1. n + 1 \in 1 .. N /\ (n + 1) - 1 = n
        BY <1>1, <3>2
      <4>2. 1 \in 1 .. widths[n + 1] /\ widths[n + 1] # 0
        BY <1>1, <4>1
      <4>3. text[o[(n + 1) - 1] + 1] = widths[n + 1]
        BY <1>4, <4>1, <4>2
      <4>4. text[o[n] + 1] # 0
        BY <4>1, <4>2, <4>3
      <4>5. o[n] \in 0 .. MAX
        BY <1>1, <1>4, <2>1
      <4> QED BY <4>4, <4>5 DEF is_char_boundary
    <3> QED BY <3>1, <3>2
  <2>2. ASSUME NEW e \in ends PROVE \E n \in 0 .. N : o[n] = e
    <3>1. CASE e = 0
      BY <1>1, <1>4, <3>1
    <3>2. CASE e # 0
      <4>1. e \in 0 .. MAX /\ e # Len(text) /\ text[e + 1] # 0
        BY <1>1, <2>0, <3>2 DEF is_char_boundary
      <4>2. e + 1 \in 1 .. o[N]
        BY <1>1, <1>4, <2>0, <4>1
      <4>3. PICK i \in 1 .. N : o[i - 1] < e + 1 /\ e + 1 <= o[i]
        BY <1>1, <1>4, <4>2, CellOfPart
      <4>4. i - 1 \in 0 .. N /\ o[i - 1] \in Nat /\ widths[i] \in Nat
            /\ o[i] = o[i - 1] + widths[i]
        <5>1. i - 1 \in 0 .. N /\ widths[i] \in Nat
          BY <1>1
        <5>2. o[i - 1] \in Nat
          BY <1>4, <5>1
        <5> QED BY <1>4, <5>1, <5>2
      <4> DEFINE j == (e + 1) - o[i - 1]
      <4>5. j \in 1 .. widths[i] /\ o[i - 1] + j = e + 1
        BY <1>1, <4>1, <4>3, <4>4
      <4>6. text[o[i - 1] + j] = IF j = 1 THEN widths[i] ELSE 0
        <5> HIDE DEF j
        <5> QED BY <1>4, <4>5
      <4>7. j = 1
        BY <4>1, <4>5, <4>6
      <4>8. e = o[i - 1]
        BY <1>1, <4>1, <4>4, <4>5, <4>7
      <4> QED BY <4>4, <4>8
    <3> QED BY <3>1, <3>2
  <2>3. end \in ends /\ \A f \in ends : f <= end
    <3>1. ends \in SUBSET (0 .. MAX)
      OBVIOUS
    <3>2. 0 \in 0 .. N /\ o[0] <= MAX
      BY <1>1, <1>4
    <3>3. ends # {}
      BY <2>1, <3>2
    <3> HIDE DEF ends
    <3>4. \E e \in ends : \A f \in ends : e >= f
      BY <1>1, <3>1, <3>3, GreatestOfSet
    <3>5. \E e \in ends : \A f \in ends : f <= e
      BY <1>1, <3>1, <3>4
    <3> QED BY <3>5
  <2>4. bounded_text(text) = [text |-> SubSeq(text, 1, end), truncated |-> TRUE]
    BY <1>6 DEF bounded_text
  <2> HIDE DEF end
  <2>5. PICK n \in 0 .. N : o[n] = end
    BY <2>2, <2>3
  <2>6. end <= MAX
    BY <1>1, <2>3
  <2>7. n < N
    BY <1>1, <1>4, <2>0, <2>5, <2>6
  <2>8. n + 1 \in 0 .. N /\ n + 1 \in 1 .. N /\ (n + 1) - 1 = n
    BY <1>1, <2>7
  <2>9. o[n + 1] > MAX
    <3>1. o[n + 1] = o[(n + 1) - 1] + widths[n + 1]
      BY <1>4, <2>8
    <3>2. o[n + 1] > o[n] /\ o[n + 1] \in Nat /\ o[n] \in Nat
      <4>1. o[n + 1] \in Nat /\ o[n] \in Nat
        BY <1>4, <2>8
      <4>2. widths[n + 1] \in 1 .. 4
        BY <1>1, <2>8
      <4> QED BY <2>8, <3>1, <4>1, <4>2
    <3>3. o[n + 1] \notin ends
      BY <2>3, <2>5, <3>2
    <3>4. ~(o[n + 1] <= MAX)
      BY <2>1, <2>8, <3>3
    <3> QED BY <1>1, <3>2, <3>4
  <2>10. /\ kept(n) = SubSeq(text, 1, end) /\ Len(kept(n)) <= MAX
         /\ Len(kept(n + 1)) > MAX
    BY <1>3, <2>5, <2>6, <2>8, <2>9
  <2> QED BY <2>4, <2>7, <2>10 DEF N, text, kept
<1> QED BY <1>5, <1>6

-----------------------------------------------------------------------------
(* Pins.                                                                   *)

\* A byte as Lowered() writes it.
LowerByte(byte) == IF byte \in 65 .. 70 THEN byte + 32 ELSE byte

\* hex_digit() reads the digits of either case and no other byte
\* (identity.rs:390-397), and what it reads is written back in lower case.
LEMMA DigitReadBack ==
  ASSUME NEW byte \in 0 .. 255
  PROVE  /\ hex_digit(byte) \in 0 .. 16
         /\ hex_digit(byte) # NotHex <=> LowerByte(byte) \in ToSet(LowerDigits)
         /\ hex_digit(byte) # NotHex => LowerDigits[hex_digit(byte) + 1] = LowerByte(byte)
<1>1. ToSet(LowerDigits) = 48 .. 57 \cup 97 .. 102
  BY DEF ToSet, LowerDigits
<1>2. \A d \in 0 .. 15 : LowerDigits[d + 1] = IF d <= 9 THEN d + 48 ELSE d + 87
  BY DEF LowerDigits
<1>3. CASE byte \in 48 .. 57
  BY <1>1, <1>2, <1>3 DEF hex_digit, LowerByte, NotHex
<1>4. CASE byte \in 97 .. 102
  BY <1>1, <1>2, <1>4 DEF hex_digit, LowerByte, NotHex
<1>5. CASE byte \in 65 .. 70
  BY <1>1, <1>2, <1>5 DEF hex_digit, LowerByte, NotHex
<1>6. CASE byte \notin 48 .. 57 \cup 97 .. 102 \cup 65 .. 70
  BY <1>1, <1>6 DEF hex_digit, LowerByte, NotHex
<1> QED BY <1>3, <1>4, <1>5, <1>6

\* The two digits of each byte.
Pairs(high, low, n) == [i \in 1 .. n |-> <<high[i], low[i]>>]

InPairs(flat, high, low, n) ==
  \A i \in 1 .. n : flat[2 * i - 1] = high[i] /\ flat[2 * i] = low[i]

\* A digest that is written out pair by pair has pair i at cells 2i - 1 and 2i.
LEMMA PairsLie ==
  ASSUME NEW n \in Nat, NEW S, NEW high \in [1 .. n -> S], NEW low \in [1 .. n -> S]
  PROVE  LET flat == FlattenSeq(Pairs(high, low, n))
         IN  flat \in Seq(S) /\ Len(flat) = 2 * n /\ InPairs(flat, high, low, n)
<1> DEFINE parts == Pairs(high, low, n)
           flat == FlattenSeq(parts)
<1>1. ASSUME NEW i \in 1 .. n
      PROVE  /\ parts[i] \in Seq(S) /\ Len(parts[i]) = 2
             /\ parts[i][1] = high[i] /\ parts[i][2] = low[i]
  BY DEF Pairs
<1>2. parts \in Seq(Seq(S)) /\ Len(parts) = n
  <2>1. parts \in [1 .. n -> Seq(S)]
    BY <1>1 DEF Pairs
  <2> HIDE DEF parts
  <2> QED BY <2>1
<1> HIDE DEF parts
<1>3. PICK o \in [0 .. n -> Nat] : Lies(o, flat, parts)
  BY <1>2, FlattenPositions
<1>4. flat \in Seq(S)
  BY <1>2, FlattenPositions
<1> HIDE DEF flat
<1>5. /\ o[0] = 0 /\ Len(flat) = o[n]
      /\ \A i \in 1 .. n : /\ o[i] = o[i - 1] + Len(parts[i])
                           /\ \A j \in 1 .. Len(parts[i]) : flat[o[i - 1] + j] = parts[i][j]
  BY <1>2, <1>3 DEF Lies
<1>6. \A i \in 1 .. n : /\ o[i] = o[i - 1] + 2
                        /\ flat[o[i - 1] + 1] = high[i] /\ flat[o[i - 1] + 2] = low[i]
  <2>1. TAKE i \in 1 .. n
  <2>2. /\ o[i] = o[i - 1] + Len(parts[i])
        /\ \A j \in 1 .. Len(parts[i]) : flat[o[i - 1] + j] = parts[i][j]
    BY <1>5
  <2>3. Len(parts[i]) = 2 /\ parts[i][1] = high[i] /\ parts[i][2] = low[i]
    BY <1>1
  <2>4. 1 \in 1 .. Len(parts[i]) /\ 2 \in 1 .. Len(parts[i])
    BY <2>3
  <2> QED BY <2>2, <2>3, <2>4
<1> DEFINE T == {k \in 0 .. n : o[k] = 2 * k}
<1>7. 0 \in T
  BY <1>5
<1>8. ASSUME NEW k \in 0 .. n - 1, k \in T PROVE k + 1 \in T
  <2>1. k + 1 \in 1 .. n /\ (k + 1) - 1 = k
    OBVIOUS
  <2>2. o[k + 1] = o[(k + 1) - 1] + 2
    BY <1>6, <2>1
  <2> QED BY <1>8, <2>1, <2>2
<1> HIDE DEF T
<1>9. \A k \in 0 .. n : k \in T
  BY <1>7, <1>8, BoundedInduction
<1>10. Len(flat) = 2 * n
  BY <1>5, <1>9 DEF T
<1>11. ASSUME NEW i \in 1 .. n PROVE flat[2 * i - 1] = high[i] /\ flat[2 * i] = low[i]
  <2>1. i - 1 \in 0 .. n
    OBVIOUS
  <2>2. o[i - 1] = 2 * (i - 1)
    BY <1>9, <2>1 DEF T
  <2>3. o[i - 1] + 1 = 2 * i - 1 /\ o[i - 1] + 2 = 2 * i
    BY <2>2
  <2>4. flat[o[i - 1] + 1] = high[i] /\ flat[o[i - 1] + 2] = low[i]
    BY <1>6
  <2> QED BY <2>3, <2>4
<1> QED BY <1>4, <1>10, <1>11 DEF flat, parts, InPairs

\* A digest is accepted exactly when it could have been written out, and then
\* it is written out as the host gave it (identity.rs:370-397).
LEMMA DigestReadBack ==
  ASSUME NEW text \in Seq(0 .. 255)
  PROVE  LET read == parse_sha256_hex(text)
             writable == /\ Len(text) = 2 * DIGEST_BYTES
                         /\ ToSet(Lowered(text)) \subseteq ToSet(LowerDigits)
             written == FlattenSeq([i \in DOMAIN read.value |->
                          <<LowerDigits[(read.value[i] \div 16) + 1],
                            LowerDigits[(read.value[i] % 16) + 1]>>])
         IN  /\ read.is = "Ok" <=> writable
             /\ writable => written = Lowered(text)
<1> DEFINE N == DIGEST_BYTES
           read == parse_sha256_hex(text)
           good == /\ Len(text) = 2 * N
                   /\ \A i \in DOMAIN text : hex_digit(text[i]) # NotHex
           writable == /\ Len(text) = 2 * N
                       /\ ToSet(Lowered(text)) \subseteq ToSet(LowerDigits)
           value == [i \in 1 .. N |->
                       hex_digit(text[2 * i - 1]) * 16 + hex_digit(text[2 * i])]
<1>1. /\ N \in Nat /\ Len(text) \in Nat /\ DOMAIN text = 1 .. Len(text)
      /\ \A i \in DOMAIN text : text[i] \in 0 .. 255
  <2>1. N \in Nat
    BY HostValuesAssumption
  <2>2. Len(text) \in Nat /\ DOMAIN text = 1 .. Len(text)
    OBVIOUS
  <2> DEFINE Byte == 0 .. 255
  <2>3. text \in Seq(Byte)
    OBVIOUS
  <2> HIDE DEF Byte
  <2>4. \A i \in 1 .. Len(text) : text[i] \in Byte
    BY <2>3
  <2> QED BY <2>1, <2>2, <2>4 DEF Byte
<1>2. /\ DOMAIN Lowered(text) = DOMAIN text
      /\ \A i \in DOMAIN text : Lowered(text)[i] = LowerByte(text[i])
  BY DEF Lowered, LowerByte
<1>3. \A i \in DOMAIN text :
        /\ hex_digit(text[i]) \in 0 .. 16
        /\ hex_digit(text[i]) # NotHex <=> Lowered(text)[i] \in ToSet(LowerDigits)
        /\ hex_digit(text[i]) # NotHex => LowerDigits[hex_digit(text[i]) + 1] = Lowered(text)[i]
  BY <1>1, <1>2, DigitReadBack
<1>4. good <=> writable
  <2>1. ToSet(Lowered(text)) = {Lowered(text)[i] : i \in DOMAIN text}
    BY <1>2 DEF ToSet
  <2> QED BY <1>3, <2>1
<1>5. read = IF good THEN Accepted(value)
             ELSE IF Len(text) # 2 * N THEN Refused("BadHexLength") ELSE Refused("NotHex")
  BY DEF parse_sha256_hex
<1> HIDE DEF read, value
<1>6. read.is = "Ok" <=> good
  BY <1>5 DEF Accepted, Refused
<1>7. ASSUME good
      PROVE  FlattenSeq([i \in DOMAIN read.value |->
               <<LowerDigits[(read.value[i] \div 16) + 1],
                 LowerDigits[(read.value[i] % 16) + 1]>>]) = Lowered(text)
  <2> DEFINE high == [i \in 1 .. N |-> Lowered(text)[2 * i - 1]]
             low == [i \in 1 .. N |-> Lowered(text)[2 * i]]
             S == {Lowered(text)[i] : i \in 1 .. 2 * N}
             flat == FlattenSeq(Pairs(high, low, N))
  <2>0. Len(text) = 2 * N /\ DOMAIN text = 1 .. 2 * N /\ DOMAIN Lowered(text) = 1 .. 2 * N
    BY <1>1, <1>2, <1>7
  <2>1. read.value = value
    BY <1>5, <1>7 DEF Accepted
  <2>2. ASSUME NEW i \in 1 .. N
        PROVE  /\ 2 * i - 1 \in DOMAIN text /\ 2 * i \in DOMAIN text
               /\ LowerDigits[(value[i] \div 16) + 1] = high[i]
               /\ LowerDigits[(value[i] % 16) + 1] = low[i]
    <3>1. 2 * i - 1 \in DOMAIN text /\ 2 * i \in DOMAIN text
      BY <1>1, <2>0
    <3> DEFINE h == hex_digit(text[2 * i - 1])
               l == hex_digit(text[2 * i])
    <3>2. h \in 0 .. 15 /\ l \in 0 .. 15
      BY <1>3, <1>7, <3>1 DEF NotHex
    <3>3. LowerDigits[h + 1] = high[i] /\ LowerDigits[l + 1] = low[i]
      BY <1>3, <1>7, <3>1
    <3>4. value[i] = h * 16 + l
      BY DEF value
    <3> HIDE DEF h, l
    <3>5. value[i] \div 16 = h /\ value[i] % 16 = l
      BY <3>2, <3>4
    <3> QED BY <3>1, <3>3, <3>5
  <2>3. high \in [1 .. N -> S] /\ low \in [1 .. N -> S]
    BY <2>0, <2>2
  <2> HIDE DEF S
  <2>4. DOMAIN value = 1 .. N
    BY DEF value
  <2>5. [i \in DOMAIN read.value |->
           <<LowerDigits[(read.value[i] \div 16) + 1],
             LowerDigits[(read.value[i] % 16) + 1]>>]
          = Pairs(high, low, N)
    <3>1. [i \in 1 .. N |-> <<LowerDigits[(value[i] \div 16) + 1],
                              LowerDigits[(value[i] % 16) + 1]>>]
            = [i \in 1 .. N |-> <<high[i], low[i]>>]
      <4> HIDE DEF high, low
      <4> QED BY <2>2
    <3> HIDE DEF high, low
    <3> QED BY <2>1, <2>4, <3>1 DEF Pairs
  <2>6. /\ flat \in Seq(S) /\ Len(flat) = 2 * N
        /\ \A i \in 1 .. N : flat[2 * i - 1] = high[i] /\ flat[2 * i] = low[i]
    <3>1. N \in Nat
      BY <1>1
    <3> HIDE DEF high, low, N
    <3>2. flat \in Seq(S) /\ Len(flat) = 2 * N /\ InPairs(flat, high, low, N)
      BY <3>1, <2>3, PairsLie
    <3> HIDE DEF flat
    <3> QED BY <3>2 DEF InPairs
  <2> HIDE DEF flat
  <2>7. ASSUME NEW p \in 1 .. 2 * N PROVE flat[p] = Lowered(text)[p]
    <3>1. p = 2 * ((p + 1) \div 2) - 1 \/ p = 2 * ((p + 1) \div 2)
      BY <1>1
    <3>2. (p + 1) \div 2 \in 1 .. N
      BY <1>1
    <3>3. /\ flat[2 * ((p + 1) \div 2) - 1] = Lowered(text)[2 * ((p + 1) \div 2) - 1]
          /\ flat[2 * ((p + 1) \div 2)] = Lowered(text)[2 * ((p + 1) \div 2)]
      BY <2>6, <3>2
    <3> QED BY <3>1, <3>3
  <2>8. flat = Lowered(text)
    <3>1. flat = [p \in 1 .. 2 * N |-> flat[p]]
      BY <1>1, <2>6
    <3>2. Lowered(text) = [p \in 1 .. 2 * N |-> Lowered(text)[p]]
      BY <2>0 DEF Lowered
    <3> QED BY <2>7, <3>1, <3>2
  <2> QED BY <2>5, <2>8 DEF flat
<1> QED BY <1>4, <1>6, <1>7 DEF read

-----------------------------------------------------------------------------
(* The invariant.                                                          *)

\* What was made is what its constructor makes of what was given, and the word
\* has the bits of its set.
ValueInv ==
  /\ given.kind = "evidence" =>
       given.text \in WidthTexts /\ made = bounded_text(Encoded(given.text))
  /\ given.kind = "digest" =>
       given.text \in HexTexts /\ made = parse_sha256_hex(given.text)
  /\ given.kind = "stated" =>
       given.text \in PlainTexts /\ made = stated_text(given.text)
  /\ WordInv

\* Every constructor and every insert keeps it.
LEMMA ValueStepKeeps == ValueInv /\ [ValueNext]_valueVars => ValueInv'
<1>0. SUFFICES ASSUME ValueInv, [ValueNext]_valueVars PROVE ValueInv'
  OBVIOUS
<1>1. WordInv /\ (UNCHANGED <<word, held, changes>> => WordInv')
  BY <1>0 DEF ValueInv, WordInv
<1>2. CASE MakeText
  BY <1>1, <1>2 DEF MakeText, ValueInv
<1>3. CASE MakeDigest
  BY <1>1, <1>3 DEF MakeDigest, ValueInv
<1>4. CASE MakeStated
  BY <1>1, <1>4 DEF MakeStated, ValueInv
<1>5. CASE InsertCategory
  <2>1. WordInv'
    BY <1>1, <1>5, InsertKeeps
  <2>2. given'.kind = "none"
    BY <1>5 DEF InsertCategory, NoText
  <2> QED BY <2>1, <2>2 DEF ValueInv
<1>6. CASE UNCHANGED valueVars
  BY <1>0, <1>1, <1>6 DEF ValueInv, valueVars
<1> QED BY <1>0, <1>2, <1>3, <1>4, <1>5, <1>6 DEF ValueNext

\* And it says what the values promise.
LEMMA ValueInvKeepsValues == ValueInv => ValuesAreKept
<1>0. SUFFICES ASSUME ValueInv PROVE ValuesAreKept
  OBVIOUS
<1>1. CutBetweenCharacters
  <2>1. SUFFICES ASSUME given.kind = "evidence" PROVE CutBetweenCharacters
    BY DEF CutBetweenCharacters
  <2>2. given.text \in Seq(1 .. 4) /\ made = bounded_text(Encoded(given.text))
    BY <1>0, <2>1, HostValuesAssumption DEF ValueInv
  <2> QED BY <2>2, TextCut DEF CutBetweenCharacters
<1>2. PinIsWhatWasWritten
  <2>1. ASSUME given.kind = "digest"
        PROVE  LET writable == /\ Len(given.text) = 2 * DIGEST_BYTES
                               /\ ToSet(Lowered(given.text)) \subseteq ToSet(LowerDigits)
                   written == FlattenSeq([i \in DOMAIN made.value |->
                                <<LowerDigits[(made.value[i] \div 16) + 1],
                                  LowerDigits[(made.value[i] % 16) + 1]>>])
               IN  /\ made.is = "Ok" <=> writable
                   /\ writable => written = Lowered(given.text)
    <3>1. given.text \in Seq(0 .. 255) /\ made = parse_sha256_hex(given.text)
      BY <1>0, <2>1, HostValuesAssumption DEF ValueInv
    <3> QED BY <3>1, DigestReadBack
  <2>2. ASSUME given.kind = "stated"
        PROVE  IF \E i \in DOMAIN given.text : given.text[i] # Space
               THEN made = Accepted(given.text) ELSE made = Refused("Empty")
    <3>1. made = stated_text(given.text)
      BY <1>0, <2>2 DEF ValueInv
    <3> QED BY <3>1 DEF stated_text, ToSet
  <2> QED BY <2>1, <2>2 DEF PinIsWhatWasWritten
<1>3. WordIsItsSet
  BY <1>0, WordOfSet DEF ValueInv
<1> QED BY <1>1, <1>2, <1>3 DEF ValuesAreKept

\* The values keep their meaning, for every limit, every text and every
\* declaration order of at most 32 categories: a text is cut behind the last
\* character that fits (evidence.rs:29-51), a pin is what the host wrote
\* (identity.rs:260-302, 370-397), and the word of a category set contains,
\* lists and counts what was inserted (category.rs:91-181).
THEOREM ValuesKept == ValueSpec => []ValuesAreKept
<1>1. ValueInit => ValueInv
  <2>1. ASSUME ValueInit PROVE given.kind = "none"
    BY <2>1 DEF ValueInit, NoText
  <2> QED BY <2>1, EmptyHolds DEF ValueInv
<1>2. ValueInv /\ [ValueNext]_valueVars => ValueInv'
  BY ValueStepKeeps
<1>3. ValueInv => ValuesAreKept
  BY ValueInvKeepsValues
<1> QED BY <1>1, <1>2, <1>3, PTL DEF ValueSpec

-----------------------------------------------------------------------------
(* The guarded secrets. First the two ciphers, which undo themselves under *)
(* one key whatever the hash is.                                           *)

\* The eight bits of a byte, and the byte of eight bits.
LEMMA BitsOfByte ==
  ASSUME NEW n \in 0 .. 255
  PROVE  n = BitOf(n, 1) + 2 * BitOf(n, 2) + 4 * BitOf(n, 4) + 8 * BitOf(n, 8)
             + 16 * BitOf(n, 16) + 32 * BitOf(n, 32) + 64 * BitOf(n, 64)
             + 128 * BitOf(n, 128)
BY DEF BitOf

\* And the other way round.
LEMMA ByteOfBits ==
  ASSUME NEW p0 \in 0 .. 1, NEW p1 \in 0 .. 1, NEW p2 \in 0 .. 1, NEW p3 \in 0 .. 1,
         NEW p4 \in 0 .. 1, NEW p5 \in 0 .. 1, NEW p6 \in 0 .. 1, NEW p7 \in 0 .. 1,
         NEW n,
         n = p0 + 2 * p1 + 4 * p2 + 8 * p3 + 16 * p4 + 32 * p5 + 64 * p6 + 128 * p7
  PROVE  /\ BitOf(n, 1) = p0 /\ BitOf(n, 2) = p1 /\ BitOf(n, 4) = p2
         /\ BitOf(n, 8) = p3 /\ BitOf(n, 16) = p4 /\ BitOf(n, 32) = p5
         /\ BitOf(n, 64) = p6 /\ BitOf(n, 128) = p7
BY DEF BitOf

\* Exclusive or with the same byte twice gives the first byte back.
LEMMA XorTwice ==
  ASSUME NEW a \in 0 .. 255, NEW b \in 0 .. 255
  PROVE  Xor(Xor(a, b), b) = a
<1> DEFINE W == {1, 2, 4, 8, 16, 32, 64, 128}
           r(w) == (BitOf(a, w) + BitOf(b, w)) % 2
           x == Xor(a, b)
<1>1. \A n \in Nat, w \in W : BitOf(n, w) \in 0 .. 1
  BY DEF BitOf
<1>2. \A p \in 0 .. 1, q \in 0 .. 1 : (p + q) % 2 \in 0 .. 1 /\ (((p + q) % 2) + q) % 2 = p
  OBVIOUS
<1>3. \A w \in W : r(w) \in 0 .. 1 /\ (r(w) + BitOf(b, w)) % 2 = BitOf(a, w)
  BY <1>1, <1>2
<1>4. x = r(1) + 2 * r(2) + 4 * r(4) + 8 * r(8) + 16 * r(16) + 32 * r(32) + 64 * r(64)
          + 128 * r(128)
  <2> HIDE DEF r
  <2>1. 1 * r(1) = r(1)
    BY <1>3
  <2> QED BY <2>1 DEF Xor, r
<1> HIDE DEF x, r
<1>5. \A w \in W : BitOf(x, w) = r(w)
  BY <1>3, <1>4, ByteOfBits
<1>6. Xor(x, b) = BitOf(a, 1) + 2 * BitOf(a, 2) + 4 * BitOf(a, 4) + 8 * BitOf(a, 8)
                  + 16 * BitOf(a, 16) + 32 * BitOf(a, 32) + 64 * BitOf(a, 64)
                  + 128 * BitOf(a, 128)
  <2>1. 1 * BitOf(a, 1) = BitOf(a, 1)
    BY <1>1
  <2> QED BY <1>3, <1>5, <2>1 DEF Xor
<1> QED BY <1>6, BitsOfByte DEF x

\* Two bytes of a key stream stand in one digest, because a digest is even.
LEMMA PairInDigest ==
  ASSUME NEW place \in Nat
  PROVE  (place * 2) % DIGEST \in Nat /\ ((place * 2) % DIGEST) + 2 <= DIGEST
<1>1. DIGEST \in Nat \ {0} /\ DIGEST % 2 = 0
  BY SizeAssumption
<1> DEFINE d == DIGEST
           p == (place * 2) % d
           q == (place * 2) \div d
           h == d \div 2
<1>2. p \in 0 .. d - 1 /\ place * 2 = d * q + p /\ q \in Nat
  <2>1. d \in Nat \ {0} /\ place * 2 \in Nat
    BY <1>1
  <2> QED BY <2>1, Divided
<1>3. d = 2 * h /\ h \in Nat
  BY <1>1
<1> HIDE DEF p, q, h
<1>4. d * q = 2 * (h * q) /\ h * q \in Nat
  BY <1>2, <1>3
<1> DEFINE m == h * q
<1>5. m \in Nat /\ place * 2 = 2 * m + p /\ d \in Nat /\ p \in 0 .. d - 1
  BY <1>1, <1>2, <1>4
<1> HIDE DEF m, d
<1>6. p + 2 <= d
  BY <1>3, <1>5
<1> QED BY <1>2, <1>6 DEF p, d

\* Every byte of the key stream is a byte.
LEMMA StreamIsByte ==
  ASSUME OutputsAreBytes, NEW key, NEW counter, NEW position \in 0 .. DIGEST - 1
  PROVE  Stream(key, counter, position) \in 0 .. 255
<1>1. position + 1 \in 1 .. DIGEST
  BY SizeAssumption
<1> QED BY <1>1 DEF Stream, sha256, OutputsAreBytes

\* The turn of a character is one of the alphabet.
LEMMA AmountInAlphabet ==
  ASSUME OutputsAreBytes, NEW key, NEW place \in Nat
  PROVE  ALPHABET \in Nat \ {0} /\ Amount(key, place) \in 0 .. ALPHABET - 1
<1> DEFINE position == (place * 2) % DIGEST
           counter == (place * 2) \div DIGEST
           low == Stream(key, counter, position)
           high == Stream(key, counter, position + 1)
<1>1. ALPHABET \in Nat \ {0}
  BY SizeAssumption DEF ALPHABET
<1>2. position \in 0 .. DIGEST - 1 /\ position + 1 \in 0 .. DIGEST - 1
  <2> HIDE DEF position
  <2> QED BY PairInDigest, SizeAssumption DEF position
<1> HIDE DEF position, counter
<1>3. low \in 0 .. 255 /\ high \in 0 .. 255
  BY <1>2, StreamIsByte
<1>4. Amount(key, place) = (low + 256 * high) % ALPHABET
  BY DEF Amount, position, counter
<1> HIDE DEF low, high
<1>5. low + 256 * high \in Nat
  BY <1>3
<1>6. (low + 256 * high) % ALPHABET \in 0 .. ALPHABET - 1
  BY <1>1, <1>5, Divided
<1> QED BY <1>1, <1>4, <1>6

\* A turned text keeps its length and stays printable, under every key.
LEMMA StepStays ==
  ASSUME OutputsAreBytes, NEW key, NEW value \in Seq(0 .. 255), in_alphabet(value),
         NEW direction \in {"Forward", "Backward"}
  PROVE  /\ step(key, value, direction) \in Seq(0 .. 255)
         /\ Len(step(key, value, direction)) = Len(value)
         /\ in_alphabet(step(key, value, direction))
<1> DEFINE t == step(key, value, direction)
           turned(i) == FIRST + ((IF direction = "Forward"
                                  THEN (value[i] - FIRST) + Amount(key, i - 1)
                                  ELSE (value[i] - FIRST) + ALPHABET - Amount(key, i - 1))
                                 % ALPHABET)
<1>1. t = [i \in DOMAIN value |-> turned(i)]
  BY DEF step
<1>2. ASSUME NEW i \in DOMAIN value PROVE turned(i) \in FIRST .. LAST
  <2>1. i - 1 \in Nat /\ value[i] \in FIRST .. LAST
    BY DEF in_alphabet
  <2>2. ALPHABET \in Nat \ {0} /\ Amount(key, i - 1) \in 0 .. ALPHABET - 1
    BY <2>1, AmountInAlphabet
  <2>3. FIRST \in Nat /\ LAST \in Nat /\ ALPHABET = (LAST - FIRST) + 1
    BY SizeAssumption DEF ALPHABET
  <2> DEFINE current == value[i] - FIRST
             amount == Amount(key, i - 1)
             sum == IF direction = "Forward" THEN current + amount
                    ELSE current + ALPHABET - amount
  <2>4. sum \in Nat
    <3>1. current \in Nat
      BY <2>1, <2>3
    <3> HIDE DEF current, amount
    <3> QED BY <2>2, <3>1 DEF amount
  <2>5. sum % ALPHABET \in 0 .. ALPHABET - 1
    <3> HIDE DEF sum
    <3> QED BY <2>2, <2>4
  <2>6. turned(i) = FIRST + (sum % ALPHABET)
    OBVIOUS
  <2> HIDE DEF sum, turned
  <2> QED BY <2>3, <2>5, <2>6
<1> HIDE DEF turned
<1>3. /\ DOMAIN t = 1 .. Len(value)
      /\ \A i \in 1 .. Len(value) : t[i] \in FIRST .. LAST
  BY <1>1, <1>2
<1>4. \A i \in 1 .. Len(value) : t[i] \in 0 .. 255
  <2>1. FIRST \in Nat /\ LAST \in Nat /\ LAST < 256
    BY SizeAssumption
  <2>2. \A x \in FIRST .. LAST : x \in 0 .. 255
    BY <2>1
  <2> HIDE DEF t
  <2> QED BY <1>3, <2>2
<1>5. t = [i \in 1 .. Len(value) |-> t[i]]
  BY <1>1
<1> HIDE DEF t
<1>6. t \in Seq(0 .. 255) /\ Len(t) = Len(value)
  BY <1>3, <1>4, <1>5
<1>7. in_alphabet(t)
  BY <1>3, <1>6 DEF in_alphabet
<1> QED BY <1>6, <1>7 DEF t

\* A turn and its opposite cancel: the remainder of a sum of two numbers of the
\* alphabet.
LEMMA TurnBack ==
  ASSUME NEW k \in Nat \ {0}, NEW x \in 0 .. k - 1, NEW y \in 0 .. k - 1
  PROVE  (((x + y) % k) + k - y) % k = x
<1>0. \A z \in 0 .. k - 1 : z % k = z /\ (z + k) % k = z
  OBVIOUS
<1>1. CASE x + y < k
  <2>1. (x + y) % k = x + y
    BY <1>0, <1>1
  <2>2. ((x + y) % k) + k - y = x + k
    BY <2>1
  <2> QED BY <1>0, <2>2
<1>2. CASE x + y >= k
  <2>1. (x + y) - k \in 0 .. k - 1 /\ ((x + y) - k) + k = x + y
    BY <1>2
  <2>2. (x + y) % k = (x + y) - k
    BY <1>0, <2>1
  <2>3. ((x + y) % k) + k - y = x
    BY <2>2
  <2> QED BY <1>0, <2>3
<1> QED BY <1>1, <1>2

\* What the build turned forward the read turns back (fidelity-cipher).
LEMMA StepUndone ==
  ASSUME OutputsAreBytes, NEW key, NEW value \in Seq(0 .. 255), in_alphabet(value)
  PROVE  step(key, step(key, value, "Forward"), "Backward") = value
<1> DEFINE t == step(key, value, "Forward")
           u == step(key, t, "Backward")
<1>1. /\ DOMAIN t = DOMAIN value
      /\ \A i \in DOMAIN value :
           t[i] = FIRST + (((value[i] - FIRST) + Amount(key, i - 1)) % ALPHABET)
  BY DEF step
<1> HIDE DEF t
<1>2. /\ u = [i \in DOMAIN value |-> u[i]]
      /\ \A i \in DOMAIN value :
           u[i] = FIRST + (((t[i] - FIRST) + ALPHABET - Amount(key, i - 1)) % ALPHABET)
  BY <1>1 DEF step
<1> HIDE DEF u
<1>3. ASSUME NEW i \in DOMAIN value PROVE u[i] = value[i]
  <2> DEFINE x == value[i] - FIRST
             y == Amount(key, i - 1)
  <2>1. i - 1 \in Nat /\ value[i] \in FIRST .. LAST
    BY DEF in_alphabet
  <2>2. FIRST \in Nat /\ LAST \in Nat /\ ALPHABET = (LAST - FIRST) + 1
    BY SizeAssumption DEF ALPHABET
  <2>3. ALPHABET \in Nat \ {0} /\ y \in 0 .. ALPHABET - 1
    BY <2>1, AmountInAlphabet
  <2>4. x \in 0 .. ALPHABET - 1 /\ value[i] = FIRST + x
    BY <2>1, <2>2
  <2>5. t[i] = FIRST + ((x + y) % ALPHABET)
    BY <1>1
  <2>6. u[i] = FIRST + (((t[i] - FIRST) + ALPHABET - y) % ALPHABET)
    BY <1>2
  <2> HIDE DEF x, y
  <2>7. (x + y) % ALPHABET \in Nat
    BY <2>3, <2>4
  <2>8. t[i] - FIRST = (x + y) % ALPHABET
    BY <2>2, <2>5, <2>7
  <2>9. (((x + y) % ALPHABET) + ALPHABET - y) % ALPHABET = x
    BY <2>3, <2>4, TurnBack
  <2> QED BY <2>4, <2>6, <2>8, <2>9
<1>4. value = [i \in DOMAIN value |-> value[i]]
  OBVIOUS
<1>5. u = value
  BY <1>2, <1>3, <1>4
<1> QED BY <1>5 DEF u, t

\* The byte cipher is its own inverse, and keeps the length under every key.
LEMMA StreamUndone ==
  ASSUME OutputsAreBytes, NEW key, NEW value \in Seq(0 .. 255)
  PROVE  byte_stream(key, byte_stream(key, value)) = value
<1> DEFINE t == byte_stream(key, value)
           u == byte_stream(key, t)
           s(i) == Stream(key, (i - 1) \div DIGEST, (i - 1) % DIGEST)
<1>1. DOMAIN t = DOMAIN value /\ \A i \in DOMAIN value : t[i] = Xor(value[i], s(i))
  BY DEF byte_stream
<1> HIDE DEF t
<1>2. u = [i \in DOMAIN value |-> u[i]] /\ \A i \in DOMAIN value : u[i] = Xor(t[i], s(i))
  BY <1>1 DEF byte_stream
<1> HIDE DEF u
<1>3. ASSUME NEW i \in DOMAIN value PROVE u[i] = value[i]
  <2>1. value[i] \in 0 .. 255 /\ i - 1 \in Nat
    OBVIOUS
  <2>2. (i - 1) % DIGEST \in 0 .. DIGEST - 1
    <3> DEFINE q == i - 1
    <3>1. DIGEST \in Nat \ {0} /\ q \in Nat
      BY <2>1, SizeAssumption
    <3> HIDE DEF q
    <3>2. q % DIGEST \in 0 .. DIGEST - 1
      BY <3>1
    <3> QED BY <3>2 DEF q
  <2>3. s(i) \in 0 .. 255
    BY <2>2, StreamIsByte
  <2> HIDE DEF s
  <2> QED BY <1>1, <1>2, <2>1, <2>3, XorTwice
<1>4. value = [i \in DOMAIN value |-> value[i]]
  OBVIOUS
<1>5. u = value
  BY <1>2, <1>3, <1>4
<1> QED BY <1>5 DEF u, t

\* A value has the length of its literal, whatever the key that reads it.
LEMMA LengthKept ==
  ASSUME NEW key, NEW other, NEW value \in Seq(0 .. 255)
  PROVE  Len(byte_stream(other, byte_stream(key, value))) = Len(value)
<1>1. \A v : DOMAIN byte_stream(other, v) = DOMAIN v
      /\ byte_stream(other, v) = [i \in DOMAIN v |-> byte_stream(other, v)[i]]
  BY DEF byte_stream
<1>2. DOMAIN byte_stream(key, value) = 1 .. Len(value)
  BY DEF byte_stream
<1> DEFINE w == byte_stream(other, byte_stream(key, value))
<1>3. DOMAIN w = 1 .. Len(value) /\ w = [i \in 1 .. Len(value) |-> w[i]]
  BY <1>1, <1>2
<1> HIDE DEF w
<1>4. \A n \in Nat : \A f : f = [i \in 1 .. n |-> f[i]] => Len(f) = n
  OBVIOUS
<1>5. Len(w) = Len(value)
  BY <1>3, <1>4
<1> QED BY <1>5 DEF w

\* An artifact reads back as its literal under the key of what it states.
LEMMA ReadsBack ==
  ASSUME OutputsAreBytes, NEW kind, NEW key, NEW plain \in Seq(0 .. 255),
         kind = "Text" => in_alphabet(plain)
  PROVE  Decrypted(kind, key, Encrypted(kind, key, plain)) = plain
BY StepUndone, StreamUndone DEF Decrypted, Encrypted

\* Under any other key it reads as a text of the same length that is printable.
LEMMA ReadsPrintable ==
  ASSUME OutputsAreBytes, NEW kind, NEW key, NEW other, NEW plain \in Seq(0 .. 255),
         kind = "Text" => in_alphabet(plain)
  PROVE  LET read == Decrypted(kind, other, Encrypted(kind, key, plain))
         IN  Len(read) = Len(plain) /\ (kind = "Text" => in_alphabet(read))
<1>1. CASE kind = "Text"
  <2> DEFINE t == step(key, plain, "Forward")
  <2>1. t \in Seq(0 .. 255) /\ Len(t) = Len(plain) /\ in_alphabet(t)
    BY <1>1, StepStays
  <2> HIDE DEF t
  <2>2. /\ Len(step(other, t, "Backward")) = Len(t)
        /\ in_alphabet(step(other, t, "Backward"))
    BY <2>1, StepStays
  <2> QED BY <1>1, <2>1, <2>2 DEF Decrypted, Encrypted, t
<1>2. CASE kind # "Text"
  BY <1>2, LengthKept DEF Decrypted, Encrypted
<1> QED BY <1>1, <1>2

\* The script and the macro read one variable: they agree on the binding, and only
\* the script can refuse it (build.rs:28-37, fidelity-macros).
LEMMA BindingAgrees ==
  ASSUME NEW stated, NEW target, NEW b \in binds_identity(stated, target),
         NEW binding \in binding_parse(stated)
  PROVE  /\ binding_parse(stated) = {binding} /\ binds_identity(stated, target) = {b}
         /\ b = (binding # <<>>)
         /\ binding # <<>> => of_target(target) = {binding[1]}
<1>1. /\ binding_parse(stated) = {binding} /\ stated.form # "unset"
      /\ stated.form = "none" \/ stated.form = "named"
      /\ stated.form = "none" => binding = <<>>
      /\ stated.form = "named" => binding = <<stated.name, stated.value.bytes>>
  <2>1. CASE stated.form = "none"
    BY <2>1 DEF binding_parse
  <2>2. CASE stated.form # "none"
    BY <2>2 DEF binding_parse
  <2> QED BY <2>1, <2>2
<1> DEFINE bound(x) == IF x = <<>> THEN {FALSE}
                       ELSE IF check_target(x[1], target) THEN {TRUE} ELSE {}
<1>2. binds_identity(stated, target) = UNION {bound(x) : x \in binding_parse(stated)}
  BY <1>1 DEF binds_identity
<1>3. binds_identity(stated, target) = bound(binding)
  <2> HIDE DEF bound
  <2> QED BY <1>1, <1>2
<1>4. CASE binding = <<>>
  BY <1>1, <1>3, <1>4
<1>5. CASE binding # <<>>
  <2>1. check_target(binding[1], target) /\ bound(binding) = {TRUE}
    BY <1>3, <1>5
  <2> HIDE DEF bound
  <2> QED BY <1>1, <1>3, <1>5, <2>1 DEF check_target
<1> QED BY <1>4, <1>5

\* A build leaves at most one artifact, and it is sound.
LEMMA BuildKeeps ==
  ASSUME SecretInv, NEW target \in Targets, NEW stated \in Stateds, NEW seed \in Seeds,
         NEW token \in Tokens, Build(target, stated, seed, token)
  PROVE  SecretInv'
<1>1. /\ build = {} /\ runtime = "none" /\ ~secret.open
      /\ build' = {Artifact(b, target, seed, a) : b \in binds_identity(stated, target),
                                                   a \in expand(token, seed, stated)}
      /\ UNCHANGED <<identity, runtime, material, secret>>
  BY DEF SecretInv, Build
<1> DEFINE literals == {p \in literal_parse(token) : Accepts(token.kind, p)}
           result(plain, binding) ==
             LET bound == binding # <<>>
                 kept == IF bound THEN binding[2] ELSE <<>>
                 salt == derive_salt(seed, plain)
             IN  [kind |-> token.kind, bound |-> bound, plain |-> plain, stated |-> kept,
                  names |-> IF bound THEN {binding[1]} ELSE {}, salt |-> salt,
                  value |-> Encrypted(token.kind, derive_key(salt, kept), plain)]
<1>2. expand(token, seed, stated)
        = {result(plain, binding) : plain \in literals, binding \in binding_parse(stated)}
  BY DEF expand
<1>3. ASSUME NEW p \in literals, NEW q \in literals PROVE p = q
  BY DEF literal_parse
<1>4. ASSUME NEW p \in literals
      PROVE  p \in Seq(0 .. 255) /\ (token.kind = "Text" => in_alphabet(p))
  BY LiteralAssumption DEF Accepts
<1> HIDE DEF literals, result
<1>5. ASSUME NEW x \in build'
      PROVE  \E b \in binds_identity(stated, target), p \in literals,
                c \in binding_parse(stated) : x = Artifact(b, target, seed, result(p, c))
  BY <1>1, <1>2
<1>6. ASSUME NEW x \in build', NEW y \in build' PROVE x = y
  <2>1. PICK b \in binds_identity(stated, target), p \in literals,
             c \in binding_parse(stated) : x = Artifact(b, target, seed, result(p, c))
    BY <1>5
  <2>2. PICK b2 \in binds_identity(stated, target), p2 \in literals,
             c2 \in binding_parse(stated) : y = Artifact(b2, target, seed, result(p2, c2))
    BY <1>5
  <2>3. p = p2 /\ b = b2 /\ c = c2
    <3>1. p = p2
      BY <1>3
    <3>2. binds_identity(stated, target) = {b} /\ binding_parse(stated) = {c}
      BY BindingAgrees
    <3> QED BY <3>1, <3>2
  <2> QED BY <2>1, <2>2, <2>3
<1>7. ASSUME NEW x \in build'
      PROVE  /\ x.binds = x.bound /\ x.names \subseteq of_target(x.target)
             /\ x.plain \in Seq(0 .. 255) /\ (x.kind = "Text" => in_alphabet(x.plain))
             /\ ~x.bound => x.stated = <<>>
             /\ x.value = Encrypted(x.kind, derive_key(x.salt, x.stated), x.plain)
  <2>1. PICK b \in binds_identity(stated, target), p \in literals,
             c \in binding_parse(stated) : x = Artifact(b, target, seed, result(p, c))
    BY <1>5
  <2>2. b = (c # <<>>) /\ (c # <<>> => of_target(target) = {c[1]})
    BY BindingAgrees
  <2>3. /\ x.binds = b /\ x.target = target /\ x.bound = (c # <<>>) /\ x.plain = p
        /\ x.kind = token.kind /\ x.stated = (IF c # <<>> THEN c[2] ELSE <<>>)
        /\ x.names = (IF c # <<>> THEN {c[1]} ELSE {})
    BY <2>1 DEF Artifact, result
  <2>4. x.value = Encrypted(x.kind, derive_key(x.salt, x.stated), x.plain)
    BY <2>1 DEF Artifact, result
  <2>5. x.names \subseteq of_target(x.target)
    BY <2>2, <2>3
  <2>6. x.plain \in Seq(0 .. 255) /\ (x.kind = "Text" => in_alphabet(x.plain))
    BY <1>4, <2>3
  <2>7. x.binds = x.bound /\ (~x.bound => x.stated = <<>>)
    BY <2>2, <2>3
  <2> QED BY <2>4, <2>5, <2>6, <2>7
<1> QED BY <1>1, <1>6, <1>7 DEF SecretInv, BuildAgreesWithTarget

\* The signature changes only while no runtime has resolved it, and a runtime is
\* gone before the next one starts.
LEMMA SecretStepKeeps == SecretInv /\ [SecretNext]_secretVars => SecretInv'
<1> SUFFICES ASSUME SecretInv, [SecretNext]_secretVars PROVE SecretInv'
  OBVIOUS
<1>1. CASE Ship
  <2>1. runtime = "none" /\ ~secret.open /\ build # {}
        /\ UNCHANGED <<build, runtime, material, secret>>
    BY <1>1 DEF Ship, SecretInv
  <2> QED BY <2>1 DEF SecretInv, BuildAgreesWithTarget
<1>2. ASSUME NEW artifact \in build, Start(artifact) PROVE SecretInv'
  <2>1. runtime = "none" /\ ~secret.open /\ build # {} /\ \A a \in build : a = artifact
    BY <1>2 DEF Start, SecretInv
  <2>2. UNCHANGED <<build, identity, secret>>
    BY <1>2 DEF Start
  <2>3. runtime' = "running"
          => material' \in resolve_material(artifact.binds, signer_material(identity))
    BY <1>2 DEF Start
  <2>4. \A a \in build : runtime' = "running"
          => material' \in resolve_material(a.binds, signer_material(identity))
    BY <2>1, <2>3
  <2> QED BY <2>1, <2>2, <2>4 DEF SecretInv, BuildAgreesWithTarget, signer_material
<1>3. ASSUME NEW artifact \in build, Read(artifact) PROVE SecretInv'
  <2>1. /\ runtime = "running" /\ \A a \in build : a = artifact
        /\ secret'.bytes
             = Decrypted(artifact.kind, ReadKey(artifact, material), artifact.value)
        /\ UNCHANGED <<build, identity, runtime, material>>
    BY <1>3 DEF Read, SecretInv
  <2>2. \A a \in build :
          secret'.bytes = Decrypted(a.kind, ReadKey(a, material), a.value)
    BY <2>1
  <2> QED BY <2>1, <2>2 DEF SecretInv, BuildAgreesWithTarget, ReadKey, signer_material
<1>4. CASE Drop
  <2>1. ~secret'.open /\ UNCHANGED <<build, identity, runtime, material>>
    BY <1>4 DEF Drop
  <2> QED BY <2>1 DEF SecretInv, BuildAgreesWithTarget, signer_material
<1>5. CASE End
  <2>1. ~secret'.open /\ runtime' = "none" /\ UNCHANGED <<build, identity>>
    BY <1>5 DEF End
  <2> QED BY <2>1 DEF SecretInv, BuildAgreesWithTarget
<1>6. CASE UNCHANGED secretVars
  BY <1>6 DEF secretVars, SecretInv, BuildAgreesWithTarget, signer_material, ReadKey
<1> QED BY <1>1, <1>2, <1>3, <1>4, <1>5, <1>6, BuildKeeps DEF SecretNext

\* For every hash, every literal and every signature: script, macro, start and read
\* agree on the key. The constant reads back as its literal where the image reports
\* the stated signer, and as printable text of its length everywhere else; a bound
\* one is never read without material (binds_identity, expand, resolve_material,
\* __guarded).
THEOREM SecretsAgree ==
  ASSUME OutputsAreBytes
  PROVE  SecretSpec => []BuildAndReadAgree
<1>1. SecretInit => SecretInv
  BY DEF SecretInit, SecretInv, BuildAgreesWithTarget
<1>2. SecretSpec => []SecretInv
  BY <1>1, SecretStepKeeps, PTL DEF SecretSpec
<1>3. SecretInv => BuildAndReadAgree
  <2> SUFFICES ASSUME SecretInv PROVE BuildAndReadAgree
    OBVIOUS
  <2>1. BuildAgreesWithTarget
    BY DEF SecretInv
  <2>2. ASSUME NEW a \in build, secret.open
        PROVE  /\ a.plain \in Seq(0 .. 255) /\ (a.kind = "Text" => in_alphabet(a.plain))
               /\ secret.bytes = Decrypted(a.kind, ReadKey(a, material),
                                   Encrypted(a.kind, derive_key(a.salt, a.stated), a.plain))
               /\ material \in resolve_material(a.bound, signer_material(identity))
               /\ ~a.bound => a.stated = <<>>
    BY <2>2 DEF SecretInv, BuildAgreesWithTarget
  <2>3. BoundReadHasMaterial
    <3> SUFFICES ASSUME NEW a \in build, secret.open, a.bound PROVE material # <<>>
      BY DEF BoundReadHasMaterial
    <3>1. material \in signer_material(identity)
      BY <2>2 DEF resolve_material
    <3> QED BY <3>1 DEF signer_material
  <2>4. GuardedReadsTrue
    <3> SUFFICES ASSUME NEW a \in build, secret.open,
                        a.bound => signer_material(identity) = {a.stated}
                 PROVE  secret.bytes = a.plain
      BY DEF GuardedReadsTrue
    <3>1. a.bound => material = a.stated
      BY <2>2 DEF resolve_material
    <3>2. ReadKey(a, material) = derive_key(a.salt, a.stated)
      BY <2>2, <3>1 DEF ReadKey
    <3>3. secret.bytes = Decrypted(a.kind, derive_key(a.salt, a.stated),
                           Encrypted(a.kind, derive_key(a.salt, a.stated), a.plain))
      BY <2>2, <3>2
    <3> QED BY <2>2, <3>3, ReadsBack
  <2>5. WrongKeyStaysPrintable
    <3> SUFFICES ASSUME NEW a \in build, secret.open
                 PROVE  /\ Len(secret.bytes) = Len(a.plain)
                        /\ a.kind = "Text" => in_alphabet(secret.bytes)
      BY DEF WrongKeyStaysPrintable
    <3> QED BY <2>2, ReadsPrintable
  <2> QED BY <2>1, <2>3, <2>4, <2>5 DEF BuildAndReadAgree
<1> QED BY <1>2, <1>3, PTL

-----------------------------------------------------------------------------
(* What is hashed. First the length in front of a part.                    *)

\* Each byte of a length is what is left below the next one (lib.rs:63-82).
LEMMA AboveDivides ==
  ASSUME NEW n \in Nat
  PROVE  /\ Above(n) \in [0 .. LENGTH -> Nat]
         /\ Above(n)[0] = n
         /\ \A i \in 1 .. LENGTH : Above(n)[i] = Above(n)[i - 1] \div 256
<1> DEFINE Def(f) == [i \in 0 .. LENGTH |-> IF i = 0 THEN n ELSE f[i - 1] \div 256]
           next == [x \in Nat \X Nat |-> x[2] \div 256]
           F == CHOOSE f : f = Def(f)
<1>0. LENGTH \in Nat
  BY SizeAssumption
<1>1. PICK Q \in [0 .. LENGTH -> Nat] : Recurs(Q, n, next, LENGTH)
  <2>1. next \in [Nat \X Nat -> Nat]
    OBVIOUS
  <2> HIDE DEF next
  <2> QED BY <1>0, <2>1, BoundedRecursion
<1>2. Q = Def(Q)
  <2>1. ASSUME NEW i \in 0 .. LENGTH PROVE Q[i] = IF i = 0 THEN n ELSE Q[i - 1] \div 256
    <3>1. CASE i = 0
      BY <1>1, <3>1 DEF Recurs
    <3>2. CASE i # 0
      <4>1. i \in 1 .. LENGTH /\ i - 1 \in 0 .. LENGTH /\ i \in Nat
        BY <1>0, <3>2
      <4>2. Q[i] = next[<<i, Q[i - 1]>>] /\ <<i, Q[i - 1]>> \in Nat \X Nat
        BY <4>1, <1>1 DEF Recurs
      <4> QED BY <3>2, <4>2
    <3> QED BY <3>1, <3>2
  <2> QED BY <2>1
<1>3. F = Def(F)
  <2> HIDE DEF Def
  <2> QED BY <1>2
<1>4. Above(n) = F
  BY DEF Above
<1> HIDE DEF F
<1>5. /\ F[0] = n
      /\ \A i \in 1 .. LENGTH : F[i] = F[i - 1] \div 256
  BY <1>0, <1>3
<1> DEFINE T == {k \in 0 .. LENGTH : F[k] \in Nat}
<1>6. 0 \in T
  BY <1>0, <1>5
<1>7. ASSUME NEW k \in 0 .. LENGTH - 1, k \in T PROVE k + 1 \in T
  <2>1. k + 1 \in 1 .. LENGTH /\ (k + 1) - 1 = k
    BY <1>0
  <2>2. F[k + 1] = F[k] \div 256
    BY <2>1, <1>5
  <2> QED BY <1>7, <2>1, <2>2
<1> HIDE DEF T
<1>8. \A k \in 0 .. LENGTH : k \in T
  BY <1>0, <1>6, <1>7, BoundedInduction
<1>9. F \in [0 .. LENGTH -> Nat]
  <2>1. \A k \in 0 .. LENGTH : F[k] \in Nat
    BY <1>8 DEF T
  <2> QED BY <1>3, <2>1
<1> QED BY <1>4, <1>5, <1>9

\* A length is a field of bytes.
LEMMA LengthIsField ==
  ASSUME NEW n \in Nat
  PROVE  Length(n) \in Seq(0 .. 255) /\ Len(Length(n)) = LENGTH
<1>1. LENGTH \in Nat
  BY SizeAssumption
<1>2. ASSUME NEW i \in 1 .. LENGTH PROVE Above(n)[i - 1] % 256 \in 0 .. 255
  <2>1. i - 1 \in 0 .. LENGTH
    BY <1>1
  <2>2. Above(n) \in [0 .. LENGTH -> Nat]
    BY AboveDivides
  <2>3. Above(n)[i - 1] \in Nat
    BY <2>1, <2>2
  <2> QED BY <2>3
<1>3. Length(n) \in [1 .. LENGTH -> 0 .. 255]
  BY <1>2 DEF Length
<1> QED BY <1>1, <1>3

\* Two lengths that fit the field and give the same bytes are the same.
LEMMA LengthTells ==
  ASSUME NEW n \in Nat, NEW k \in Nat, Length(n) = Length(k),
         Above(n)[LENGTH] = 0, Above(k)[LENGTH] = 0
  PROVE  n = k
<1> DEFINE f == Above(n)
           g == Above(k)
           T == {i \in 0 .. LENGTH : f[i] = g[i]}
<1>0. LENGTH \in Nat
  BY SizeAssumption
<1>1. /\ f \in [0 .. LENGTH -> Nat] /\ f[0] = n
      /\ \A i \in 1 .. LENGTH : f[i] = f[i - 1] \div 256
  BY AboveDivides
<1>2. /\ g \in [0 .. LENGTH -> Nat] /\ g[0] = k
      /\ \A i \in 1 .. LENGTH : g[i] = g[i - 1] \div 256
  BY AboveDivides
<1>3. \A i \in 1 .. LENGTH : f[i - 1] % 256 = g[i - 1] % 256
  <2>1. \A i \in 1 .. LENGTH : Length(n)[i] = f[i - 1] % 256 /\ Length(k)[i] = g[i - 1] % 256
    BY DEF Length
  <2> QED BY <2>1
<1>4. LENGTH \in T
  BY <1>0
<1> HIDE DEF f, g
<1>5. ASSUME NEW i \in 0 .. LENGTH - 1, i + 1 \in T PROVE i \in T
  <2>1. i + 1 \in 1 .. LENGTH /\ (i + 1) - 1 = i /\ i \in 0 .. LENGTH
    BY <1>0
  <2>2. f[i + 1] = f[i] \div 256 /\ g[i + 1] = g[i] \div 256 /\ f[i + 1] = g[i + 1]
    BY <1>1, <1>2, <1>5, <2>1
  <2>3. f[i] % 256 = g[i] % 256 /\ f[i] \in Nat /\ g[i] \in Nat
    BY <1>1, <1>2, <1>3, <2>1
  <2>4. f[i] = g[i]
    BY <2>2, <2>3
  <2> QED BY <2>1, <2>4
<1> HIDE DEF T
<1>6. \A i \in 0 .. LENGTH : i \in T
  BY <1>0, <1>4, <1>5, DownwardInduction
<1>7. 0 \in T
  BY <1>0, <1>6
<1> QED BY <1>1, <1>2, <1>7 DEF T

\* A part with its length in front.
LEMMA PartWithLength ==
  ASSUME NEW part \in Seq(0 .. 255)
  PROVE  /\ WithLength(part) \in Seq(0 .. 255)
         /\ Len(WithLength(part)) = LENGTH + Len(part)
         /\ \A i \in 1 .. LENGTH : WithLength(part)[i] = Length(Len(part))[i]
         /\ \A i \in 1 .. Len(part) : WithLength(part)[LENGTH + i] = part[i]
<1> DEFINE Byte == 0 .. 255
           field == Length(Len(part))
<1>1. part \in Seq(Byte) /\ Len(part) \in Nat
  OBVIOUS
<1>2. field \in Seq(Byte) /\ Len(field) = LENGTH /\ LENGTH \in Nat
  BY <1>1, LengthIsField, SizeAssumption
<1>3. WithLength(part) = field \o part
  BY DEF WithLength
<1> HIDE DEF Byte, field
<1>4. /\ WithLength(part) \in Seq(Byte) /\ Len(WithLength(part)) = LENGTH + Len(part)
      /\ \A i \in 1 .. LENGTH : WithLength(part)[i] = field[i]
      /\ \A i \in 1 .. Len(part) : WithLength(part)[LENGTH + i] = part[i]
  <2>1. field \o part \in Seq(Byte) /\ Joins(field \o part, field, part)
    BY <1>1, <1>2, Joined
  <2> QED BY <1>2, <1>3, <2>1 DEF Joins
<1> QED BY <1>4 DEF Byte, field

\* Where the two parts of a hash input lie, each behind its length.
Framed(input, one, two) ==
  /\ Len(input) = LENGTH + Len(one) + LENGTH + Len(two)
  /\ \A i \in 1 .. LENGTH : input[i] = Length(Len(one))[i]
  /\ \A i \in 1 .. Len(one) : input[LENGTH + i] = one[i]
  /\ \A i \in 1 .. Len(two) : input[LENGTH + Len(one) + LENGTH + i] = two[i]

\* Both hash inputs are framed so (lib.rs:63-123).
LEMMA PartsFramed ==
  ASSUME NEW one \in Seq(0 .. 255), NEW two \in Seq(0 .. 255)
  PROVE  /\ WithLength(one) \o WithLength(two) \in Seq(0 .. 255)
         /\ Framed(WithLength(one) \o WithLength(two), one, two)
<1> DEFINE Byte == 0 .. 255
           a == WithLength(one)
           b == WithLength(two)
           input == a \o b
           n == Len(one)
           m == Len(two)
<1>0. LENGTH \in Nat /\ n \in Nat /\ m \in Nat
  BY SizeAssumption
<1>1. /\ a \in Seq(Byte) /\ Len(a) = LENGTH + n
      /\ \A i \in 1 .. LENGTH : a[i] = Length(n)[i]
      /\ \A i \in 1 .. n : a[LENGTH + i] = one[i]
  BY PartWithLength
<1>2. /\ b \in Seq(Byte) /\ Len(b) = LENGTH + m
      /\ \A i \in 1 .. m : b[LENGTH + i] = two[i]
  BY PartWithLength
<1> HIDE DEF Byte, a, b
<1>3. input \in Seq(Byte) /\ Joins(input, a, b)
  BY <1>1, <1>2, Joined
<1> HIDE DEF input, n, m
<1>4. /\ Len(input) = Len(a) + Len(b)
      /\ \A i \in 1 .. Len(a) : input[i] = a[i]
      /\ \A i \in 1 .. Len(b) : input[Len(a) + i] = b[i]
  BY <1>3 DEF Joins
<1>5. Len(input) = LENGTH + n + LENGTH + m
  BY <1>0, <1>1, <1>2, <1>4
<1>6. ASSUME NEW i \in 1 .. LENGTH PROVE input[i] = Length(n)[i]
  <2>1. i \in 1 .. Len(a)
    BY <1>0, <1>1
  <2> QED BY <1>1, <1>4, <2>1
<1>7. ASSUME NEW i \in 1 .. n PROVE input[LENGTH + i] = one[i]
  <2>1. LENGTH + i \in 1 .. Len(a)
    BY <1>0, <1>1
  <2> QED BY <1>1, <1>4, <2>1
<1>8. ASSUME NEW i \in 1 .. m PROVE input[LENGTH + n + LENGTH + i] = two[i]
  <2>1. LENGTH + i \in 1 .. Len(b) /\ Len(a) + (LENGTH + i) = LENGTH + n + LENGTH + i
    BY <1>0, <1>1, <1>2
  <2>2. input[Len(a) + (LENGTH + i)] = b[LENGTH + i]
    BY <1>4, <2>1
  <2> QED BY <1>2, <2>1, <2>2
<1> QED BY <1>3, <1>5, <1>6, <1>7, <1>8 DEF Framed, Byte, a, b, input, n, m

\* No byte moves from the end of one part to the start of the other.
LEMMA FrameTells ==
  ASSUME NEW one \in Seq(0 .. 255), NEW two \in Seq(0 .. 255),
         NEW one2 \in Seq(0 .. 255), NEW two2 \in Seq(0 .. 255), NEW input,
         Framed(input, one, two), Framed(input, one2, two2),
         Above(Len(one))[LENGTH] = 0, Above(Len(one2))[LENGTH] = 0
  PROVE  one = one2 /\ two = two2
<1>0. /\ LENGTH \in Nat /\ Len(one) \in Nat /\ Len(two) \in Nat
      /\ Len(one2) \in Nat /\ Len(two2) \in Nat
  BY SizeAssumption
<1>1. Length(Len(one)) = Length(Len(one2))
  <2>1. \A i \in 1 .. LENGTH : Length(Len(one))[i] = Length(Len(one2))[i]
    BY DEF Framed
  <2>2. /\ Length(Len(one)) \in Seq(0 .. 255) /\ Len(Length(Len(one))) = LENGTH
        /\ Length(Len(one2)) \in Seq(0 .. 255) /\ Len(Length(Len(one2))) = LENGTH
    BY <1>0, LengthIsField
  <2> QED BY <2>1, <2>2, SameSequence
<1>2. Len(one) = Len(one2)
  BY <1>0, <1>1, LengthTells
<1>3. \A i \in 1 .. Len(one) : one[i] = one2[i]
  BY <1>2 DEF Framed
<1>4. one = one2
  BY <1>2, <1>3, SameSequence
<1>5. Len(two) = Len(two2)
  <2>1. /\ Len(input) = LENGTH + Len(one) + LENGTH + Len(two)
        /\ Len(input) = LENGTH + Len(one2) + LENGTH + Len(two2)
    BY DEF Framed
  <2> QED BY <1>0, <1>2, <2>1
<1>6. \A i \in 1 .. Len(two) : two[i] = two2[i]
  BY <1>2, <1>5 DEF Framed
<1>7. two = two2
  BY <1>5, <1>6, SameSequence
<1> QED BY <1>4, <1>7

\* A reduced part is bytes and fits its half of the array (lib.rs:84-123).
LEMMA ReducedFits ==
  ASSUME OutputsAreBytes, NEW part \in Seq(0 .. 255)
  PROVE  Reduced(part) \in Seq(0 .. 255) /\ Len(Reduced(part)) <= CAP
<1>1. CAP \in Nat /\ DIGEST \in Nat /\ DIGEST <= CAP /\ Len(part) \in Nat
  BY SizeAssumption
<1>2. sha256(part) \in [1 .. DIGEST -> 0 .. 255]
  BY DEF sha256, OutputsAreBytes
<1>3. sha256(part) \in Seq(0 .. 255) /\ Len(sha256(part)) = DIGEST
  BY <1>1, <1>2
<1> QED BY <1>1, <1>3 DEF Reduced

-----------------------------------------------------------------------------
(* The padding of a message.                                               *)

\* A part, the set bit and zeros.
Marks(s, part, n) ==
  /\ Len(s) = Len(part) + 1 + n
  /\ \A i \in 1 .. Len(part) : s[i] = part[i]
  /\ s[Len(part) + 1] = 128
  /\ \A i \in Len(part) + 2 .. Len(part) + 1 + n : s[i] = 0

\* That is what stands behind the whole chunks (sha256.rs:97-106).
LEMMA MarkedPart ==
  ASSUME NEW part \in Seq(0 .. 255), NEW n \in Nat
  PROVE  LET s == part \o <<128>> \o Zeros(n)
         IN  s \in Seq(0 .. 255) /\ Marks(s, part, n)
<1> DEFINE Byte == 0 .. 255
           a == part \o <<128>>
           b == Zeros(n)
           s == a \o b
           k == Len(part)
<1>0. k \in Nat
  OBVIOUS
<1>1. part \in Seq(Byte) /\ <<128>> \in Seq(Byte)
  OBVIOUS
<1>2. b \in Seq(Byte) /\ Len(b) = n /\ \A i \in 1 .. n : b[i] = 0
  <2>1. b \in [1 .. n -> Byte] /\ \A i \in 1 .. n : b[i] = 0
    BY DEF Zeros
  <2> HIDE DEF b, Byte
  <2> QED BY <2>1
<1>3. 0 \in Byte
  OBVIOUS
<1> HIDE DEF Byte, b
<1>4. a \in Seq(Byte) /\ Joins(a, part, <<128>>)
  BY <1>1, Joined
<1> HIDE DEF a
<1>5. s \in Seq(Byte) /\ Joins(s, a, b)
  BY <1>2, <1>4, Joined
<1> HIDE DEF s
<1>6. /\ Len(a) = k + 1
      /\ \A i \in 1 .. k : a[i] = part[i]
      /\ a[k + 1] = 128
  <2>1. Len(<<128>>) = 1 /\ <<128>>[1] = 128 /\ 1 \in 1 .. 1
    OBVIOUS
  <2> QED BY <1>4, <2>1 DEF Joins
<1> HIDE DEF k
<1>7. /\ Len(s) = k + 1 + n
      /\ \A i \in 1 .. k + 1 : s[i] = a[i]
      /\ \A i \in 1 .. n : s[(k + 1) + i] = 0
  BY <1>2, <1>5, <1>6 DEF Joins
<1>8. /\ \A i \in 1 .. k : s[i] = part[i]
      /\ s[k + 1] = 128
  BY <1>0, <1>6, <1>7
<1>9. ASSUME NEW i \in k + 2 .. k + 1 + n PROVE s[i] = 0
  <2>1. i - (k + 1) \in 1 .. n /\ (k + 1) + (i - (k + 1)) = i
    BY <1>0
  <2>2. s[(k + 1) + (i - (k + 1))] = 0
    BY <1>7, <2>1
  <2> QED BY <2>1, <2>2
<1> QED BY <1>5, <1>7, <1>8, <1>9 DEF Marks, s, a, b, k, Byte

\* A block whose last bytes are the length.
Closes(s, block, bits) ==
  /\ Len(s) = BLOCK
  /\ \A j \in 1 .. BLOCK - LENGTH : s[j] = block[j]
  /\ \A j \in 1 .. LENGTH : s[(BLOCK - LENGTH) + j] = bits[j]

\* The length overwrites the end of the last block (sha256.rs:108-117).
LEMMA ClosedBlock ==
  ASSUME NEW block \in Seq(0 .. 255), Len(block) = BLOCK,
         NEW bits \in Seq(0 .. 255), Len(bits) = LENGTH
  PROVE  LET s == SubSeq(block, 1, BLOCK - LENGTH) \o bits
         IN  s \in Seq(0 .. 255) /\ Closes(s, block, bits)
<1> DEFINE Byte == 0 .. 255
           a == SubSeq(block, 1, BLOCK - LENGTH)
           s == a \o bits
<1>0. BLOCK \in Nat /\ LENGTH \in Nat /\ LENGTH < BLOCK
  BY SizeAssumption
<1>1. block \in Seq(Byte) /\ bits \in Seq(Byte)
  OBVIOUS
<1> HIDE DEF Byte
<1>2. /\ a \in Seq(Byte) /\ Len(a) = BLOCK - LENGTH
      /\ \A j \in 1 .. BLOCK - LENGTH : a[j] = block[j]
  <2> DEFINE e == BLOCK - LENGTH
  <2>1. e \in 0 .. Len(block)
    BY <1>0
  <2> HIDE DEF e
  <2>2. /\ SubSeq(block, 1, e) \in Seq(Byte) /\ Len(SubSeq(block, 1, e)) = e
        /\ \A j \in 1 .. e : SubSeq(block, 1, e)[j] = block[j]
    BY <1>1, <2>1
  <2> QED BY <2>2 DEF e
<1> HIDE DEF a
<1>3. s \in Seq(Byte) /\ Joins(s, a, bits)
  BY <1>1, <1>2, Joined
<1> HIDE DEF s
<1>4. /\ Len(s) = (BLOCK - LENGTH) + LENGTH
      /\ \A j \in 1 .. BLOCK - LENGTH : s[j] = block[j]
      /\ \A j \in 1 .. LENGTH : s[(BLOCK - LENGTH) + j] = bits[j]
  BY <1>2, <1>3 DEF Joins
<1>5. Len(s) = BLOCK
  BY <1>0, <1>4
<1> QED BY <1>3, <1>4, <1>5 DEF Closes, Byte, s, a

\* The zeros that let the length end a block.
Fills(n, k) == k \in 0 .. BLOCK - 1 /\ (n + 1 + k + LENGTH) % BLOCK = 0

\* There are as many as the code writes: the rest of the tail's block, and one
\* block more when the set bit and the length do not fit (sha256.rs:97-117).
LEMMA ZerosFound ==
  ASSUME NEW n \in Nat, NEW w \in Nat, NEW t \in 0 .. BLOCK - 1, n = BLOCK * w + t
  PROVE  LET k == CHOOSE k \in 0 .. BLOCK - 1 : (n + 1 + k + LENGTH) % BLOCK = 0
         IN  k = (IF NeedsExtra(t) THEN 2 * BLOCK ELSE BLOCK) - (t + 1 + LENGTH)
<1> DEFINE B == BLOCK
           z == (IF NeedsExtra(t) THEN 2 * B ELSE B) - (t + 1 + LENGTH)
           q == IF NeedsExtra(t) THEN w + 2 ELSE w + 1
<1>0. B \in Nat \ {0} /\ LENGTH \in Nat \ {0} /\ LENGTH < B
  BY SizeAssumption
<1>1. z \in 0 .. B - 1
  BY <1>0 DEF NeedsExtra
<1>2. n + 1 + z + LENGTH = B * q /\ q \in Nat
  <2> DEFINE m == B * w
  <2>1. m \in Nat /\ n = m + t
    BY <1>0
  <2>2. B * (w + 1) = m + B /\ B * (w + 2) = m + 2 * B
    BY <1>0
  <2> HIDE DEF m
  <2> QED BY <1>0, <2>1, <2>2 DEF NeedsExtra
<1> HIDE DEF z, q, B
<1>3. Fills(n, z)
  <2> DEFINE s == n + 1 + z + LENGTH
  <2>1. 0 \in 0 .. B - 1 /\ s = B * q + 0 /\ q \in Nat /\ B \in Nat \ {0}
    BY <1>0, <1>2
  <2> HIDE DEF s
  <2>2. s % B = 0
    BY <2>1, DividedOnce
  <2> QED BY <1>1, <2>2 DEF Fills, B, s
<1>4. ASSUME NEW k, Fills(n, k) PROVE k = z
  <2> DEFINE s == n + 1 + k + LENGTH
             p == s \div B
  <2>1. k \in 0 .. B - 1 /\ s \in Nat /\ s % B = 0
    BY <1>0, <1>4 DEF Fills, B
  <2>2. p \in Nat /\ s = B * p + (s % B)
    BY <1>0, <2>1, Divided
  <2>3. B * p \in Nat /\ B * q \in Nat
    BY <1>0, <1>2, <2>2
  <2>4. n + 1 + k + LENGTH = B * p
    BY <2>1, <2>2, <2>3
  <2> HIDE DEF p, s
  <2>5. ~(p < q)
    <3>1. SUFFICES ASSUME p < q PROVE FALSE
      OBVIOUS
    <3>2. B * q >= B * (p + 1)
      BY <1>0, <1>2, <2>2, <3>1
    <3>3. B * (p + 1) = B * p + B
      BY <1>0, <2>2
    <3> QED BY <1>0, <1>1, <1>2, <2>1, <2>3, <2>4, <3>2, <3>3
  <2>6. ~(q < p)
    <3>1. SUFFICES ASSUME q < p PROVE FALSE
      OBVIOUS
    <3>2. B * p >= B * (q + 1)
      BY <1>0, <1>2, <2>2, <3>1
    <3>3. B * (q + 1) = B * q + B
      BY <1>0, <1>2
    <3> QED BY <1>0, <1>1, <1>2, <2>1, <2>3, <2>4, <3>2, <3>3
  <2>7. p = q
    BY <1>2, <2>2, <2>5, <2>6
  <2> QED BY <1>0, <1>1, <1>2, <2>1, <2>3, <2>4, <2>7
<1>5. (CHOOSE k \in 0 .. BLOCK - 1 : (n + 1 + k + LENGTH) % BLOCK = 0) = z
  BY <1>3, <1>4 DEF Fills
<1> QED BY <1>5 DEF z, B

\* The length of a message in bits, big-endian.
LEMMA BitsAreField ==
  ASSUME NEW n \in Nat
  PROVE  Reversed(Length(n)) \in Seq(0 .. 255) /\ Len(Reversed(Length(n))) = LENGTH
<1> DEFINE s == Length(n)
           Byte == 0 .. 255
<1>1. LENGTH \in Nat /\ s \in Seq(Byte) /\ Len(s) = LENGTH
  BY LengthIsField, SizeAssumption
<1> HIDE DEF s, Byte
<1>2. DOMAIN s = 1 .. LENGTH /\ \A i \in 1 .. LENGTH : s[i] \in Byte
  BY <1>1
<1>3. Reversed(s) = [i \in 1 .. LENGTH |-> s[(LENGTH + 1) - i]]
  BY <1>1, <1>2 DEF Reversed
<1>4. \A i \in 1 .. LENGTH : (LENGTH + 1) - i \in 1 .. LENGTH
  BY <1>1
<1>5. Reversed(s) \in [1 .. LENGTH -> Byte]
  BY <1>2, <1>3, <1>4
<1>6. Reversed(s) \in Seq(Byte) /\ Len(Reversed(s)) = LENGTH
  BY <1>1, <1>5
<1> QED BY <1>6 DEF s, Byte

\* The blocks of a message are the message, the set bit, the zeros and the
\* length, whatever the length of its tail (sha256.rs:87-119).
LEMMA BlocksPadded ==
  ASSUME NEW m \in Seq(0 .. 255)
  PROVE  LET zeros == CHOOSE k \in 0 .. (BLOCK - 1) : (Len(m) + 1 + k + LENGTH) % BLOCK = 0
         IN  FlattenSeq(blocks_of(m))
               = m \o <<128>> \o Zeros(zeros) \o Reversed(Length(Len(m) * 8))
<1> DEFINE Byte == 0 .. 255
           B == BLOCK
           L == Len(m)
           w == L \div B
           t == L % B
           W == w * B
           tail == SubSeq(m, w * B + 1, L)
           marked == tail \o <<128>> \o Zeros(B - Len(tail) - 1)
           bits == Reversed(Length(L * 8))
           close(b) == SubSeq(b, 1, B - LENGTH) \o bits
           last == IF NeedsExtra(Len(tail)) THEN <<marked, close(Zeros(B))>>
                                            ELSE <<close(marked)>>
           chunks == [i \in 1 .. w |-> SubSeq(m, (i - 1) * B + 1, i * B)]
           parts == chunks \o last
           z == (IF NeedsExtra(t) THEN 2 * B ELSE B) - (t + 1 + LENGTH)
           head == m \o <<128>> \o Zeros(z)
           std == head \o bits
<1>0. /\ B \in Nat \ {0} /\ LENGTH \in Nat \ {0} /\ LENGTH < B
      /\ L \in Nat /\ m \in Seq(Byte)
  BY SizeAssumption
<1>1. w \in Nat /\ t \in 0 .. B - 1 /\ L = B * w + t
  BY <1>0, Divided
<1>2. W \in Nat /\ L = W + t
  BY <1>0, <1>1
<1>3. z = CHOOSE k \in 0 .. (BLOCK - 1) : (L + 1 + k + LENGTH) % BLOCK = 0
  <2> HIDE DEF L, w, t
  <2> QED BY <1>0, <1>1, ZerosFound DEF B
<1>4. z \in Nat /\ (IF NeedsExtra(t) THEN t + 1 + LENGTH > B ELSE t + 1 + LENGTH <= B)
  <2> HIDE DEF t, B
  <2> QED BY <1>0, <1>1 DEF NeedsExtra, B
<1>5. bits \in Seq(Byte) /\ Len(bits) = LENGTH
  <2>1. L * 8 \in Nat
    BY <1>0
  <2> HIDE DEF L
  <2> QED BY <2>1, BitsAreField
<1>6. blocks_of(m) = parts
  BY DEF blocks_of
<1>7. /\ tail \in Seq(Byte) /\ Len(tail) = t
      /\ \A j \in 1 .. t : tail[j] = m[W + j]
  <2> HIDE DEF L, w, t, Byte, B
  <2>1. W + 1 \in 1 .. L + 1 /\ L - (W + 1) + 1 = t
    BY <1>0, <1>1, <1>2
  <2>2. tail = SubSeq(m, W + 1, L)
    OBVIOUS
  <2> HIDE DEF W, tail
  <2>3. L = Len(m)
    BY DEF L
  <2>4. tail \in Seq(Byte) /\ Len(tail) = L - (W + 1) + 1
        /\ \A j \in 1 .. L - (W + 1) + 1 : tail[j] = m[(W + 1) + j - 1]
    <3>1. /\ W + 1 \in Nat \ {0} /\ L \in Nat /\ W + 1 <= L + 1
          /\ m \in Seq(Byte) /\ L <= Len(m)
      BY <1>0, <1>2, <2>1, <2>3
    <3> QED BY <2>2, <3>1, Sliced
  <2>5. \A j \in 1 .. t : (W + 1) + j - 1 = W + j
    BY <1>0, <1>1, <1>2
  <2> QED BY <2>1, <2>4, <2>5
<1> HIDE DEF L, w, W, t, tail, bits, z
<1>8. marked \in Seq(Byte) /\ Marks(marked, tail, B - Len(tail) - 1) /\ Len(marked) = B
  <2>1. B - Len(tail) - 1 \in Nat
    BY <1>0, <1>1, <1>7
  <2>2. marked \in Seq(Byte) /\ Marks(marked, tail, B - Len(tail) - 1)
    BY <1>7, <2>1, MarkedPart
  <2> HIDE DEF marked
  <2>3. Len(marked) = Len(tail) + 1 + (B - Len(tail) - 1)
    BY <2>2 DEF Marks
  <2>4. Len(marked) = B
    BY <1>0, <1>1, <1>7, <2>3
  <2> QED BY <2>2, <2>4
<1>9. Zeros(B) \in Seq(Byte) /\ Len(Zeros(B)) = B /\ \A j \in 1 .. B : Zeros(B)[j] = 0
  <2>1. Zeros(B) \in [1 .. B -> Byte] /\ \A j \in 1 .. B : Zeros(B)[j] = 0
    BY DEF Zeros
  <2>2. \A f \in [1 .. B -> Byte] : f \in Seq(Byte) /\ Len(f) = B
    BY <1>0
  <2> QED BY <2>1, <2>2
<1> HIDE DEF marked
<1>10. close(marked) \in Seq(Byte) /\ Closes(close(marked), marked, bits)
  BY <1>5, <1>8, ClosedBlock
<1>11. close(Zeros(B)) \in Seq(Byte) /\ Closes(close(Zeros(B)), Zeros(B), bits)
  BY <1>5, <1>9, ClosedBlock
<1>12. head \in Seq(Byte) /\ Marks(head, m, z)
  BY <1>0, <1>4, MarkedPart
<1> HIDE DEF head, close
<1>13. std \in Seq(Byte) /\ Joins(std, head, bits)
  <2> HIDE DEF Byte
  <2> QED BY <1>5, <1>12, Joined
<1> HIDE DEF std
<1>14. ASSUME NEW i \in 1 .. w
       PROVE  /\ chunks[i] \in Seq(Byte) /\ Len(chunks[i]) = B
              /\ \A j \in 1 .. B : /\ chunks[i][j] = m[(i - 1) * B + j]
                                   /\ (i - 1) * B + j \in 1 .. L
  <2> DEFINE a == (i - 1) * B
  <2>1. a \in Nat /\ i * B = a + B
    BY <1>0, <1>1
  <2>2. i * B <= W
    <3>1. (w - i) * B \in Nat
      BY <1>0, <1>1
    <3>2. W = i * B + (w - i) * B
      BY <1>0, <1>1 DEF W
    <3>3. i * B \in Nat
      BY <1>0, <1>1
    <3> QED BY <3>1, <3>2, <3>3
  <2>3. chunks[i] = SubSeq(m, a + 1, a + B)
    BY <2>1
  <2> HIDE DEF a, chunks
  <2>4. a + 1 \in 1 .. L + 1 /\ a + B \in 0 .. L /\ a + B - (a + 1) + 1 = B
    BY <1>0, <1>1, <1>2, <2>1, <2>2
  <2>5. L = Len(m)
    BY DEF L
  <2>6. /\ chunks[i] \in Seq(Byte) /\ Len(chunks[i]) = a + B - (a + 1) + 1
        /\ \A j \in 1 .. a + B - (a + 1) + 1 : chunks[i][j] = m[(a + 1) + j - 1]
    <3> HIDE DEF Byte, B
    <3> QED BY <1>0, <2>1, <2>3, <2>4, <2>5
  <2>7. \A j \in 1 .. B : (a + 1) + j - 1 = a + j /\ a + j \in 1 .. L
    BY <1>0, <2>1, <2>4
  <2> QED BY <2>4, <2>6, <2>7 DEF a
<1>15. chunks \in Seq(Seq(Byte)) /\ Len(chunks) = w
  <2>1. chunks \in [1 .. w -> Seq(Byte)]
    <3> HIDE DEF Byte
    <3> QED BY <1>14
  <2> HIDE DEF chunks, Byte
  <2> QED BY <1>1, <2>1
<1> HIDE DEF chunks
<1>16. last \in Seq(Seq(Byte)) /\ Len(last) = IF NeedsExtra(t) THEN 2 ELSE 1
  <2> HIDE DEF Byte
  <2> QED BY <1>7, <1>8, <1>10, <1>11
<1>17. /\ NeedsExtra(t) => last[1] = marked /\ last[2] = close(Zeros(B))
       /\ ~NeedsExtra(t) => last[1] = close(marked)
  BY <1>7
<1> HIDE DEF last
<1>18. parts \in Seq(Seq(Byte)) /\ Joins(parts, chunks, last)
  <2> DEFINE S == Seq(Byte)
  <2>1. chunks \in Seq(S) /\ last \in Seq(S)
    BY <1>15, <1>16
  <2> HIDE DEF S
  <2>2. parts \in Seq(S) /\ Joins(parts, chunks, last)
    BY <2>1, Joined
  <2> QED BY <2>2 DEF S
<1> HIDE DEF parts
<1> DEFINE e == IF NeedsExtra(t) THEN 2 ELSE 1
<1>19. /\ e \in {1, 2} /\ Len(parts) = w + e
       /\ \A i \in 1 .. w : parts[i] = chunks[i]
       /\ \A i \in 1 .. e : parts[w + i] = last[i]
  BY <1>15, <1>16, <1>18 DEF Joins
<1>20. ASSUME NEW i \in 1 .. Len(parts) PROVE Len(parts[i]) = B
  <2>1. CASE i \in 1 .. w
    BY <2>1, <1>14, <1>19
  <2>2. CASE i = w + 1
    <3>1. parts[w + 1] = last[1]
      BY <1>19
    <3> QED BY <2>2, <3>1, <1>8, <1>10, <1>17 DEF Closes
  <2>3. CASE i = w + 2 /\ NeedsExtra(t)
    <3>1. parts[w + 2] = last[2]
      BY <1>19, <2>3
    <3> QED BY <2>3, <3>1, <1>11, <1>17 DEF Closes
  <2> QED BY <1>1, <1>19, <2>1, <2>2, <2>3
<1> DEFINE flat == FlattenSeq(parts)
<1>21. /\ flat \in Seq(Byte) /\ Len(flat) = Len(parts) * B
       /\ \A p \in 1 .. Len(flat) : \E i \in 1 .. Len(parts), j \in 1 .. B :
            p = (i - 1) * B + j /\ flat[p] = parts[i][j]
  <2>1. B \in Nat
    BY <1>0
  <2>2. parts \in Seq(Seq(Byte)) /\ \A i \in 1 .. Len(parts) : Len(parts[i]) = B
    BY <1>18, <1>20
  <2> HIDE DEF Byte, B, parts
  <2> QED BY <2>1, <2>2, FlattenEven, ZenonT(60)
<1> HIDE DEF flat, e
<1>22. /\ Len(std) = L + 1 + z + LENGTH
       /\ \A p \in 1 .. L : std[p] = m[p]
       /\ std[L + 1] = 128
       /\ \A p \in L + 2 .. L + 1 + z : std[p] = 0
       /\ \A j \in 1 .. LENGTH : std[(L + 1 + z) + j] = bits[j]
  <2>1. /\ Len(head) = L + 1 + z
        /\ \A p \in 1 .. L : head[p] = m[p]
        /\ head[L + 1] = 128
        /\ \A p \in L + 2 .. L + 1 + z : head[p] = 0
    BY <1>12 DEF Marks, L
  <2>2. /\ Len(std) = Len(head) + LENGTH
        /\ \A p \in 1 .. Len(head) : std[p] = head[p]
        /\ \A j \in 1 .. LENGTH : std[Len(head) + j] = bits[j]
    BY <1>5, <1>13 DEF Joins
  <2>3. \A p \in 1 .. L : p \in 1 .. Len(head)
    BY <1>0, <1>4, <2>1
  <2>4. L + 1 \in 1 .. Len(head)
    BY <1>0, <1>4, <2>1
  <2>5. \A p \in L + 2 .. L + 1 + z : p \in 1 .. Len(head)
    BY <1>0, <1>4, <2>1
  <2> QED BY <2>1, <2>2, <2>3, <2>4, <2>5
<1>23. L + 1 + z + LENGTH = W + e * B /\ e * B \in Nat
  BY <1>0, <1>1, <1>2, <1>4 DEF z, e
<1>24. Len(flat) = Len(std)
  <2>1. (w + e) * B = W + e * B
    BY <1>0, <1>1, <1>19 DEF W
  <2> QED BY <1>19, <1>21, <1>22, <1>23, <2>1
<1>25. /\ \A j \in 1 .. t : marked[j] = m[W + j]
       /\ marked[t + 1] = 128
       /\ \A j \in t + 2 .. B : marked[j] = 0
  <2>1. /\ \A j \in 1 .. t : marked[j] = tail[j]
        /\ marked[t + 1] = 128
        /\ \A j \in t + 2 .. t + 1 + (B - t - 1) : marked[j] = 0
    BY <1>7, <1>8 DEF Marks
  <2>2. t + 1 + (B - t - 1) = B
    BY <1>0, <1>1
  <2> QED BY <1>7, <2>1, <2>2
<1>26. ASSUME NEW p \in 1 .. Len(flat) PROVE flat[p] = std[p]
  <2>1. PICK i \in 1 .. Len(parts), j \in 1 .. B :
          p = (i - 1) * B + j /\ flat[p] = parts[i][j]
    BY <1>21
  <2>2. CASE i \in 1 .. w
    <3>1. flat[p] = m[p] /\ p \in 1 .. L
      BY <2>1, <2>2, <1>14, <1>19
    <3> QED BY <3>1, <1>22
  <2>3. CASE i = w + 1 /\ ~NeedsExtra(t)
    <3>1. p = W + j
      BY <1>0, <1>1, <2>1, <2>3 DEF W
    <3>2. parts[i] = close(marked) /\ e = 1
      BY <1>17, <1>19, <2>3 DEF e
    <3>3. L + 1 + z + LENGTH = W + B
      BY <1>0, <1>23, <3>2
    <3>4. CASE j <= B - LENGTH
      <4>1. flat[p] = marked[j]
        BY <1>0, <1>10, <2>1, <3>2, <3>4 DEF Closes
      <4>2. CASE j <= t
        <5>1. j \in 1 .. t /\ p \in 1 .. L
          BY <1>0, <1>1, <1>2, <3>1, <4>2
        <5> QED BY <1>22, <1>25, <3>1, <4>1, <5>1
      <4>3. CASE j = t + 1
        <5>1. p = L + 1
          BY <1>0, <1>1, <1>2, <3>1, <4>3
        <5> QED BY <1>22, <1>25, <4>1, <4>3, <5>1
      <4>4. CASE j > t + 1
        <5>1. j \in t + 2 .. B /\ p \in L + 2 .. L + 1 + z
          BY <1>0, <1>1, <1>2, <1>4, <3>1, <3>3, <3>4, <4>4
        <5> QED BY <1>22, <1>25, <4>1, <5>1
      <4> QED BY <1>0, <1>1, <4>2, <4>3, <4>4
    <3>5. CASE j > B - LENGTH
      <4> DEFINE k == j - (B - LENGTH)
      <4>1. k \in 1 .. LENGTH /\ (B - LENGTH) + k = j /\ (L + 1 + z) + k = p
        BY <1>0, <1>1, <1>2, <1>4, <3>1, <3>3, <3>5
      <4> HIDE DEF k
      <4>2. flat[p] = bits[k]
        BY <1>10, <2>1, <3>2, <4>1 DEF Closes
      <4> QED BY <1>22, <4>1, <4>2
    <3> QED BY <1>0, <3>4, <3>5
  <2>4. CASE i = w + 1 /\ NeedsExtra(t)
    <3>1. p = W + j
      BY <1>0, <1>1, <2>1, <2>4 DEF W
    <3>2. flat[p] = marked[j] /\ e = 2
      BY <1>17, <1>19, <2>1, <2>4 DEF e
    <3>3. L + 1 + z + LENGTH = W + 2 * B
      BY <1>0, <1>23, <3>2
    <3>4. CASE j <= t
      <4>1. j \in 1 .. t /\ p \in 1 .. L
        BY <1>0, <1>1, <1>2, <3>1, <3>4
      <4> QED BY <1>22, <1>25, <3>1, <3>2, <4>1
    <3>5. CASE j = t + 1
      <4>1. p = L + 1
        BY <1>0, <1>1, <1>2, <3>1, <3>5
      <4> QED BY <1>22, <1>25, <3>2, <3>5, <4>1
    <3>6. CASE j > t + 1
      <4>1. j \in t + 2 .. B /\ p \in L + 2 .. L + 1 + z
        BY <1>0, <1>1, <1>2, <1>4, <3>1, <3>3, <3>6
      <4> QED BY <1>22, <1>25, <3>2, <4>1
    <3> QED BY <1>0, <1>1, <3>4, <3>5, <3>6
  <2>5. CASE i = w + 2 /\ NeedsExtra(t)
    <3>1. p = W + B + j
      <4>1. (w + 1) * B = W + B /\ i - 1 = w + 1
        BY <1>0, <1>1, <2>5 DEF W
      <4> QED BY <2>1, <4>1
    <3>2. parts[i] = close(Zeros(B)) /\ e = 2
      BY <1>17, <1>19, <2>5 DEF e
    <3>3. L + 1 + z + LENGTH = W + 2 * B
      BY <1>0, <1>23, <3>2
    <3>4. CASE j <= B - LENGTH
      <4>1. flat[p] = 0
        BY <1>0, <1>9, <1>11, <2>1, <3>2, <3>4 DEF Closes
      <4>2. p \in L + 2 .. L + 1 + z
        BY <1>0, <1>1, <1>2, <1>4, <2>5, <3>1, <3>3, <3>4
      <4> QED BY <1>22, <4>1, <4>2
    <3>5. CASE j > B - LENGTH
      <4> DEFINE k == j - (B - LENGTH)
      <4>1. k \in 1 .. LENGTH /\ (B - LENGTH) + k = j /\ (L + 1 + z) + k = p
        BY <1>0, <1>1, <1>2, <1>4, <3>1, <3>3, <3>5
      <4> HIDE DEF k
      <4>2. flat[p] = bits[k]
        BY <1>11, <2>1, <3>2, <4>1 DEF Closes
      <4> QED BY <1>22, <4>1, <4>2
    <3> QED BY <1>0, <3>4, <3>5
  <2> QED BY <1>1, <1>19, <2>2, <2>3, <2>4, <2>5 DEF e
<1>27. flat = std
  <2> HIDE DEF Byte
  <2> QED BY <1>13, <1>21, <1>24, <1>26, SameSequence
<1> QED BY <1>3, <1>6, <1>27 DEF flat, std, head, bits, L

-----------------------------------------------------------------------------
(* What is hashed in a build and at a read.                                *)

\* Every part of a hash input is bytes: the seed and the literal of the build,
\* the salt that it derived, what it states and what the image reports.
FrameInv ==
  /\ \A a \in build :
       /\ a.seed \in Seeds /\ a.plain \in Seq(0 .. 255) /\ a.salt \in Seq(0 .. 255)
       /\ a.stated \in Seq(0 .. 255)
  /\ material \in Seq(0 .. 255) /\ identity.signer \subseteq Seq(0 .. 255)
  /\ \A h \in hashed : h.message \in Seq(0 .. 255)
  /\ KeyInputFits

\* The input of a key is bytes and fits its array (lib.rs:84-123).
LEMMA KeyInputFramed ==
  ASSUME OutputsAreBytes, NEW salt \in Seq(0 .. 255), NEW part \in Seq(0 .. 255)
  PROVE  /\ key_input(salt, part) \in Seq(0 .. 255)
         /\ Len(key_input(salt, part)) <= CAP * 2 + LENGTH * 2
<1> DEFINE one == Reduced(salt)
           two == Reduced(part)
           input == WithLength(one) \o WithLength(two)
<1>1. /\ one \in Seq(0 .. 255) /\ two \in Seq(0 .. 255)
      /\ Len(one) <= CAP /\ Len(two) <= CAP
  BY ReducedFits
<1>2. Len(one) \in Nat /\ Len(two) \in Nat /\ CAP \in Nat /\ LENGTH \in Nat
  BY <1>1, SizeAssumption
<1> HIDE DEF one, two
<1>3. input \in Seq(0 .. 255) /\ Framed(input, one, two)
  BY <1>1, PartsFramed
<1>4. Len(input) = LENGTH + Len(one) + LENGTH + Len(two)
  BY <1>3 DEF Framed
<1>5. Len(input) <= CAP * 2 + LENGTH * 2
  BY <1>1, <1>2, <1>4
<1>6. key_input(salt, part) = input
  BY DEF key_input, one, two
<1> QED BY <1>3, <1>5, <1>6

\* A salt is bytes (lib.rs:63-82).
LEMMA SaltIsBytes ==
  ASSUME OutputsAreBytes, NEW seed, NEW literal
  PROVE  derive_salt(seed, literal) \in Seq(0 .. 255)
<1> DEFINE d == sha256(salt_input(seed, literal))
           Byte == 0 .. 255
<1>1. DIGEST \in Nat /\ DIGEST \div 2 \in 0 .. DIGEST
  BY SizeAssumption
<1>2. d \in [1 .. DIGEST -> Byte]
  BY DEF sha256, OutputsAreBytes
<1> HIDE DEF d, Byte
<1>3. d \in Seq(Byte) /\ Len(d) = DIGEST
  BY <1>1, <1>2
<1>4. SubSeq(d, 1, DIGEST \div 2) \in Seq(Byte)
  BY <1>1, <1>3
<1> QED BY <1>4 DEF derive_salt, d, Byte

\* A build hashes its seed, its literal and what it states (expand).
LEMMA BuildFrames ==
  ASSUME OutputsAreBytes, FrameInv, NEW target \in Targets, NEW stated \in Stateds,
         NEW seed \in Seeds, NEW token \in Tokens, Build(target, stated, seed, token)
  PROVE  FrameInv'
<1>1. /\ build' = {Artifact(b, target, seed, a) : b \in binds_identity(stated, target),
                                                   a \in expand(token, seed, stated)}
      /\ hashed' = UNION {{[use |-> "salt", message |-> salt_input(seed, a.plain)],
                           [use |-> "key", message |-> key_input(a.salt, a.stated)]} :
                          a \in build'}
      /\ UNCHANGED <<identity, runtime, material, secret>>
  BY DEF Build
<1>2. ASSUME NEW c \in binding_parse(stated), c # <<>> PROVE c[2] \in Seq(0 .. 255)
  <2>1. stated.form = "named" /\ c = <<stated.name, stated.value.bytes>>
    BY <1>2 DEF binding_parse
  <2>2. stated.value.bytes \in Seq(0 .. 255)
    BY <2>1, InputAssumption
  <2> QED BY <2>1, <2>2
<1>3. ASSUME NEW a \in expand(token, seed, stated)
      PROVE  /\ a.plain \in Seq(0 .. 255) /\ a.salt \in Seq(0 .. 255)
             /\ a.stated \in Seq(0 .. 255)
  <2>1. PICK p \in literal_parse(token), c \in binding_parse(stated) :
          /\ a.plain = p /\ a.salt = derive_salt(seed, p)
          /\ a.stated = IF c # <<>> THEN c[2] ELSE <<>>
    BY DEF expand
  <2>2. p \in Seq(0 .. 255)
    BY LiteralAssumption
  <2>3. a.stated \in Seq(0 .. 255)
    BY <1>2, <2>1
  <2> QED BY <2>1, <2>2, <2>3, SaltIsBytes
<1>4. ASSUME NEW x \in build'
      PROVE  /\ x.seed \in Seeds /\ x.plain \in Seq(0 .. 255) /\ x.salt \in Seq(0 .. 255)
             /\ x.stated \in Seq(0 .. 255)
  <2>1. PICK b \in binds_identity(stated, target), a \in expand(token, seed, stated) :
          x = Artifact(b, target, seed, a)
    BY <1>1
  <2>2. x.seed = seed /\ x.plain = a.plain /\ x.salt = a.salt /\ x.stated = a.stated
    BY <2>1 DEF Artifact
  <2> QED BY <1>3, <2>2
<1>5. ASSUME NEW h \in hashed'
      PROVE  /\ h.message \in Seq(0 .. 255)
             /\ h.use = "key" => Len(h.message) <= CAP * 2 + LENGTH * 2
  <2>1. PICK x \in build' :
          \/ h = [use |-> "salt", message |-> salt_input(seed, x.plain)]
          \/ h = [use |-> "key", message |-> key_input(x.salt, x.stated)]
    BY <1>1
  <2>2. CASE h = [use |-> "salt", message |-> salt_input(seed, x.plain)]
    <3>1. seed \in Seq(0 .. 255) /\ x.plain \in Seq(0 .. 255)
      BY <1>4, InputAssumption
    <3>2. WithLength(seed) \o WithLength(x.plain) \in Seq(0 .. 255)
      BY <3>1, PartsFramed
    <3> QED BY <2>2, <3>2 DEF salt_input
  <2>3. CASE h = [use |-> "key", message |-> key_input(x.salt, x.stated)]
    BY <1>4, <2>3, KeyInputFramed
  <2> QED BY <2>1, <2>2, <2>3
<1> QED BY <1>1, <1>4, <1>5 DEF FrameInv, KeyInputFits

\* A read hashes the salt of the artifact and what the runtime resolved.
LEMMA FrameStepKeeps ==
  ASSUME OutputsAreBytes, FrameInv, [SecretNext]_secretVars
  PROVE  FrameInv'
<1>0. FrameInv
  OBVIOUS
<1>1. ASSUME NEW target \in Targets, NEW stated \in Stateds, NEW seed \in Seeds,
             NEW token \in Tokens, Build(target, stated, seed, token)
      PROVE  FrameInv'
  BY <1>1, BuildFrames
<1>2. CASE Ship
  BY <1>2, InputAssumption DEF Ship, FrameInv, KeyInputFits
<1>3. ASSUME NEW artifact \in build, Start(artifact) PROVE FrameInv'
  <2>1. material' \in Seq(0 .. 255)
    <3> DEFINE seen == signer_material(identity)
    <3>1. seen \subseteq Seq(0 .. 255)
      BY <1>0 DEF signer_material, FrameInv
    <3>2. resolve_material(artifact.binds, seen) \subseteq Seq(0 .. 255)
      <4> HIDE DEF seen
      <4> DEFINE Bytes == Seq(0 .. 255)
      <4>1. <<>> \in Bytes /\ seen \subseteq Bytes
        BY <3>1
      <4> HIDE DEF Bytes
      <4>2. resolve_material(artifact.binds, seen) \in {seen, {<<>>}, {}}
        BY DEF resolve_material
      <4>3. resolve_material(artifact.binds, seen) \subseteq Bytes
        BY <4>1, <4>2
      <4> QED BY <4>3 DEF Bytes
    <3>3. material' = material \/ material' \in resolve_material(artifact.binds, seen)
      BY <1>3 DEF Start
    <3>4. material \in Seq(0 .. 255)
      BY <1>0 DEF FrameInv
    <3> QED BY <3>2, <3>3, <3>4
  <2> QED BY <1>3, <2>1 DEF Start, FrameInv, KeyInputFits
<1>4. ASSUME NEW artifact \in build, Read(artifact) PROVE FrameInv'
  <2> DEFINE part == IF artifact.bound THEN material ELSE <<>>
  <2>1. artifact.salt \in Seq(0 .. 255) /\ part \in Seq(0 .. 255)
    BY <1>0 DEF FrameInv
  <2>2. hashed' = {[use |-> "key", message |-> key_input(artifact.salt, part)]}
        /\ UNCHANGED <<build, identity, runtime, material>>
    BY <1>4 DEF Read
  <2> HIDE DEF part
  <2>3. /\ key_input(artifact.salt, part) \in Seq(0 .. 255)
        /\ Len(key_input(artifact.salt, part)) <= CAP * 2 + LENGTH * 2
    BY <2>1, KeyInputFramed
  <2> QED BY <1>0, <2>2, <2>3 DEF FrameInv, KeyInputFits
<1>5. CASE Drop
  BY <1>5 DEF Drop, FrameInv, KeyInputFits
<1>6. CASE End
  BY <1>6 DEF End, FrameInv, KeyInputFits
<1>7. CASE UNCHANGED secretVars
  BY <1>7 DEF secretVars, FrameInv, KeyInputFits
<1> QED BY <1>1, <1>2, <1>3, <1>4, <1>5, <1>6, <1>7 DEF SecretNext

\* Whatever is hashed is framed, for every seed, literal, signature and hash, and
\* for every size of the blocks and the fields: no byte moves between the seed and
\* the literal (derive_salt), the input of a key fits its array (derive_key), and the
\* blocks are the message with the standard's padding (sha256).
THEOREM HashesFramed ==
  ASSUME OutputsAreBytes
  PROVE  SecretSpec => []HashInputsAreFramed
<1>1. SecretInit => FrameInv
  BY DEF SecretInit, FrameInv, KeyInputFits
<1>2. FrameInv /\ [SecretNext]_secretVars => FrameInv'
  BY FrameStepKeeps
<1>3. FrameInv => HashInputsAreFramed
  <2> SUFFICES ASSUME FrameInv PROVE HashInputsAreFramed
    OBVIOUS
  <2>1. SaltsTellBuildsApart
    <3> SUFFICES ASSUME NEW a \in build, NEW seed \in Seeds, NEW token \in Tokens,
                        NEW plain \in literal_parse(token),
                        salt_input(seed, plain) = salt_input(a.seed, a.plain)
                 PROVE  seed = a.seed /\ plain = a.plain
      BY DEF SaltsTellBuildsApart
    <3>1. /\ seed \in Seq(0 .. 255) /\ a.seed \in Seq(0 .. 255)
          /\ Above(Len(seed))[LENGTH] = 0 /\ Above(Len(a.seed))[LENGTH] = 0
      BY InputAssumption DEF FrameInv
    <3>2. plain \in Seq(0 .. 255) /\ a.plain \in Seq(0 .. 255)
      BY LiteralAssumption DEF FrameInv
    <3>3. /\ Framed(WithLength(seed) \o WithLength(plain), seed, plain)
          /\ Framed(WithLength(a.seed) \o WithLength(a.plain), a.seed, a.plain)
      BY <3>1, <3>2, PartsFramed
    <3>4. Framed(salt_input(seed, plain), seed, plain)
          /\ Framed(salt_input(seed, plain), a.seed, a.plain)
      BY <3>3 DEF salt_input
    <3> QED BY <3>1, <3>2, <3>4, FrameTells
  <2>2. KeyInputFits
    BY DEF FrameInv
  <2>3. PaddingIsStandard
    <3>1. ASSUME NEW h \in hashed PROVE h.message \in Seq(0 .. 255)
      BY DEF FrameInv
    <3> QED BY <3>1, BlocksPadded DEF PaddingIsStandard
  <2> QED BY <2>1, <2>2, <2>3 DEF HashInputsAreFramed
<1> QED BY <1>1, <1>2, <1>3, PTL DEF SecretSpec
=============================================================================
