-------------------------- MODULE BloomCommonProofs --------------------------
(***************************************************************************)
(* The masks and the sums of bloom_may_have_common(), for words, ints and  *)
(* filters of any width, and whatever the build makes of the shift by the  *)
(* full width of a word.                                                   *)
(***************************************************************************)
EXTENDS BloomCommon, Induction

-----------------------------------------------------------------------------
(* Numbers and bits. *)

\* What one bit adds to the number.
Bit(S, n) == IF n \in S THEN CONSTPOW_TWO[n] ELSE 0

\* The number of the lowest bits, bit by bit.
LEMMA Bitwise ==
  ASSUME NEW S
  PROVE  /\ Worth(S)[0] = 0
         /\ \A n \in Nat : Worth(S)[n] \in Nat /\ Worth(S)[n + 1] = Worth(S)[n] + Bit(S, n)
<1> DEFINE sum  == CHOOSE f : f = [n \in Nat |->
                                     IF n = 0 THEN 0
                                     ELSE f[n - 1] + (IF n - 1 \in S THEN CONSTPOW_TWO[n - 1] ELSE 0)]
           step == [x \in Nat \X Nat |-> x[2] + Bit(S, x[1])]
<1>1. Worth(S) = sum
  BY DEF Worth
<1>2. \A n \in Nat : Bit(S, n) \in Nat
  BY Doubling DEF Bit
<1>3. PICK g : Values(0, step, Nat, g)
  <2>1. step \in [Nat \X Nat -> Nat]
    BY <1>2
  <2> HIDE DEF step
  <2> QED BY <2>1, Iterate
<1>4. g \in [Nat -> Nat] /\ g[0] = 0 /\ \A i \in Nat : g[i + 1] = g[i] + Bit(S, i)
  BY <1>3 DEF Values
<1>5. g = [n \in Nat |-> IF n = 0 THEN 0
                         ELSE g[n - 1] + (IF n - 1 \in S THEN CONSTPOW_TWO[n - 1] ELSE 0)]
  <2>1. ASSUME NEW n \in Nat, n # 0
        PROVE  g[n] = g[n - 1] + (IF n - 1 \in S THEN CONSTPOW_TWO[n - 1] ELSE 0)
    <3>1. n - 1 \in Nat /\ (n - 1) + 1 = n
      BY <2>1
    <3> QED BY <3>1, <1>4 DEF Bit
  <2> QED BY <1>4, <2>1
<1>6. sum = [n \in Nat |-> IF n = 0 THEN 0
                           ELSE sum[n - 1] + (IF n - 1 \in S THEN CONSTPOW_TWO[n - 1] ELSE 0)]
  BY <1>5, Zenon
<1> HIDE DEF sum
<1>7. sum[0] = 0
  BY <1>6
<1>8. ASSUME NEW n \in Nat
      PROVE  sum[n + 1] = sum[n] + Bit(S, n)
  <2>1. n + 1 \in Nat /\ n + 1 # 0 /\ (n + 1) - 1 = n
    OBVIOUS
  <2> QED BY <1>6, <2>1 DEF Bit
<1> DEFINE A == {n \in Nat : sum[n] \in Nat}
<1>9. 0 \in A
  BY <1>7
<1>10. \A n \in Nat : n \in A => n + 1 \in A
  BY <1>2, <1>8
<1>11. Nat \subseteq A
  <2> HIDE DEF A
  <2> QED BY <1>9, <1>10, AllNat
<1> QED BY <1>1, <1>7, <1>8, <1>11

\* n bits make a number below 2^n.
LEMMA WorthBound ==
  ASSUME NEW S, NEW n \in Nat
  PROVE  Worth(S)[n] \in Nat /\ Worth(S)[n] < CONSTPOW_TWO[n]
<1> DEFINE A == {k \in Nat : Worth(S)[k] < CONSTPOW_TWO[k]}
<1>1. 0 \in A
  BY Bitwise, Doubling
<1>2. ASSUME NEW k \in Nat, k \in A
      PROVE  k + 1 \in A
  <2>1. /\ Worth(S)[k] \in Nat /\ Worth(S)[k + 1] = Worth(S)[k] + Bit(S, k)
        /\ CONSTPOW_TWO[k] \in Nat /\ CONSTPOW_TWO[k + 1] = 2 * CONSTPOW_TWO[k]
    BY Bitwise, Doubling
  <2>2. Bit(S, k) \in Nat /\ Bit(S, k) <= CONSTPOW_TWO[k]
    BY <2>1 DEF Bit
  <2> QED BY <1>2, <2>1, <2>2
<1>3. Nat \subseteq A
  <2> HIDE DEF A
  <2> QED BY <1>1, <1>2, AllNat
<1> QED BY <1>3, Bitwise

\* Words that agree in their lowest n bits.
LEMMA WorthSame ==
  ASSUME NEW R, NEW S, NEW n \in Nat, \A i \in 0 .. (n - 1) : i \in R <=> i \in S
  PROVE  Worth(R)[n] = Worth(S)[n]
<1> DEFINE A == {k \in Nat : k <= n => Worth(R)[k] = Worth(S)[k]}
<1>1. 0 \in A
  BY Bitwise
<1>2. ASSUME NEW k \in Nat, k \in A
      PROVE  k + 1 \in A
  <2> SUFFICES ASSUME k + 1 <= n PROVE Worth(R)[k + 1] = Worth(S)[k + 1]
    OBVIOUS
  <2>1. k \in 0 .. (n - 1) /\ Worth(R)[k] = Worth(S)[k]
    BY <1>2
  <2>2. Bit(R, k) = Bit(S, k)
    BY <2>1 DEF Bit
  <2> QED BY <2>1, <2>2, Bitwise
<1>3. Nat \subseteq A
  <2> HIDE DEF A
  <2> QED BY <1>1, <1>2, AllNat
<1> QED BY <1>3

\* Bits that are 0 add nothing.
LEMMA WorthGap ==
  ASSUME NEW S, NEW m \in Nat, NEW n \in Nat, m <= n, \A i \in m .. (n - 1) : i \notin S
  PROVE  Worth(S)[n] = Worth(S)[m]
<1> DEFINE A == {k \in Nat : m + k <= n => Worth(S)[m + k] = Worth(S)[m]}
<1>1. 0 \in A
  <2>1. m + 0 = m
    OBVIOUS
  <2> QED BY <2>1
<1>2. ASSUME NEW k \in Nat, k \in A
      PROVE  k + 1 \in A
  <2> SUFFICES ASSUME m + (k + 1) <= n PROVE Worth(S)[m + (k + 1)] = Worth(S)[m]
    OBVIOUS
  <2>1. /\ m + k \in m .. (n - 1) /\ m + k \in Nat /\ m + (k + 1) = (m + k) + 1
        /\ Worth(S)[m + k] = Worth(S)[m]
    BY <1>2
  <2>2. Bit(S, m + k) = 0
    BY <2>1 DEF Bit
  <2>3. Worth(S)[(m + k) + 1] = Worth(S)[m + k] + Bit(S, m + k) /\ Worth(S)[m + k] \in Nat
    BY <2>1, Bitwise
  <2> QED BY <2>1, <2>2, <2>3
<1>3. Nat \subseteq A
  <2> HIDE DEF A
  <2> QED BY <1>1, <1>2, AllNat
<1>4. n - m \in Nat /\ m + (n - m) = n
  OBVIOUS
<1> QED BY <1>3, <1>4

\* The bits from p on make the number that is left when the lowest p are gone.
LEMMA WorthShift ==
  ASSUME NEW S, NEW p \in Nat, NEW n \in Nat
  PROVE  Worth({i \in Nat : i + p \in S})[n] * CONSTPOW_TWO[p] + Worth(S)[p] = Worth(S)[p + n]
<1> DEFINE T == {i \in Nat : i + p \in S}
           w == CONSTPOW_TWO[p]
           A == {k \in Nat : Worth(T)[k] * w + Worth(S)[p] = Worth(S)[p + k]}
<1>1. w \in Nat
  BY Doubling
<1>2. 0 \in A
  <2>1. p + 0 = p
    OBVIOUS
  <2>2. Worth(T)[0] = 0 /\ Worth(S)[p] \in Nat
    BY Bitwise
  <2> HIDE DEF T, w
  <2> QED BY <1>1, <2>1, <2>2
<1>3. ASSUME NEW k \in Nat, k \in A
      PROVE  k + 1 \in A
  <2>1. p + k \in Nat /\ p + (k + 1) = (p + k) + 1
    OBVIOUS
  <2>2. Bit(T, k) * w = Bit(S, p + k)
    <3>1. k \in T <=> p + k \in S
      BY <2>1
    <3>2. CONSTPOW_TWO[k] \in Nat /\ CONSTPOW_TWO[p + k] = CONSTPOW_TWO[p] * CONSTPOW_TWO[k]
      BY Doubling, PowerOfSum
    <3>3. CONSTPOW_TWO[p + k] = CONSTPOW_TWO[k] * w
      BY <1>1, <3>2
    <3> HIDE DEF T, w
    <3> QED BY <1>1, <3>1, <3>3 DEF Bit
  <2>3. /\ Worth(T)[k + 1] = Worth(T)[k] + Bit(T, k)
        /\ Worth(S)[p + (k + 1)] = Worth(S)[p + k] + Bit(S, p + k)
    BY <2>1, Bitwise
  <2>4. /\ Worth(T)[k] \in Nat /\ Worth(S)[p] \in Nat /\ Worth(S)[p + k] \in Nat
        /\ Bit(T, k) \in Nat /\ Bit(S, p + k) \in Nat
    BY <2>1, Bitwise, Doubling DEF Bit
  <2>5. Worth(T)[k] * w + Worth(S)[p] = Worth(S)[p + k]
    BY <1>3
  <2> HIDE DEF T, w
  <2>6. Worth(T)[k + 1] * w = Worth(T)[k] * w + Bit(T, k) * w
    BY <1>1, <2>3, <2>4
  <2>7. Worth(T)[k] * w \in Nat
    BY <1>1, <2>4
  <2>8. Worth(T)[k + 1] * w + Worth(S)[p] = Worth(S)[p + (k + 1)]
    BY ONLY <2>2, <2>3, <2>4, <2>5, <2>6, <2>7
  <2> QED BY <2>8
<1>4. Nat \subseteq A
  <2> HIDE DEF A
  <2> QED BY <1>2, <1>3, AllNat
<1> QED BY <1>4

\* The remainder by 2^(k + 1) has one bit more than that by 2^k.
LEMMA NextBit ==
  ASSUME NEW n \in Nat, NEW w \in Nat \ {0}
  PROVE  n % (2 * w) = (n % w) + (IF (n \div w) % 2 = 1 THEN w ELSE 0)
<1> DEFINE q == n \div w
           r == n % w
           h == q \div 2
           b == q % 2
<1>1. q \in Nat /\ r \in 0 .. (w - 1) /\ n = w * q + r
  OBVIOUS
<1>2. h \in Nat /\ b \in {0, 1} /\ q = 2 * h + b
  <2> HIDE DEF q
  <2> QED BY <1>1
<1> HIDE DEF q, r, h, b
<1>3. n = (2 * w) * h + (w * b + r) /\ w * b + r \in 0 .. (2 * w - 1)
  <2>1. w * (2 * h + b) = (2 * w) * h + w * b
    BY <1>2
  <2>2. w * b = IF b = 1 THEN w ELSE 0
    BY <1>2
  <2> QED BY <1>1, <1>2, <2>1, <2>2
<1>4. n % (2 * w) = w * b + r
  <2>1. \A d \in Nat \ {0}, x \in Nat : \A y \in 0 .. (d - 1) : (d * x + y) % d = y
    OBVIOUS
  <2>2. 2 * w \in Nat \ {0}
    OBVIOUS
  <2> QED BY <1>2, <1>3, <2>1, <2>2
<1>5. w * b = IF b = 1 THEN w ELSE 0
  BY <1>2
<1>6. w * b + r = r + (IF b = 1 THEN w ELSE 0)
  BY <1>1, <1>5
<1> QED BY <1>4, <1>6 DEF q, r, b

\* The bits of a number make the number.
LEMMA WorthBits ==
  ASSUME NEW n \in Nat, NEW k \in 0 .. BLOOM_BITS
  PROVE  Worth(BitsOf(n))[k] = n % CONSTPOW_TWO[k]
<1> DEFINE S == BitsOf(n)
           A == {j \in Nat : j <= BLOOM_BITS => Worth(S)[j] = n % CONSTPOW_TWO[j]}
<1>1. 0 \in A
  <2>1. n % 1 = 0
    OBVIOUS
  <2> QED BY <2>1, Bitwise, Doubling
<1>2. ASSUME NEW j \in Nat, j \in A
      PROVE  j + 1 \in A
  <2> SUFFICES ASSUME j + 1 <= BLOOM_BITS PROVE Worth(S)[j + 1] = n % CONSTPOW_TWO[j + 1]
    OBVIOUS
  <2>1. /\ Worth(S)[j + 1] = Worth(S)[j] + Bit(S, j) /\ Worth(S)[j] = n % CONSTPOW_TWO[j]
        /\ CONSTPOW_TWO[j] \in Nat \ {0} /\ CONSTPOW_TWO[j + 1] = 2 * CONSTPOW_TWO[j]
    BY <1>2, Bitwise, Doubling, BloomAssumption
  <2>2. j \in S <=> (n \div CONSTPOW_TWO[j]) % 2 = 1
    BY BloomAssumption DEF BitsOf, Bits
  <2>3. Bit(S, j) = IF (n \div CONSTPOW_TWO[j]) % 2 = 1 THEN CONSTPOW_TWO[j] ELSE 0
    BY <2>2 DEF Bit
  <2> QED BY <2>1, <2>3, NextBit
<1>3. Nat \subseteq A
  <2> HIDE DEF A
  <2> QED BY <1>1, <1>2, AllNat
<1> QED BY <1>3, BloomAssumption

\* The int of n bits at position p, as a part of the number.
LEMMA IntWorth ==
  ASSUME NEW S \in SUBSET Bits, NEW p \in Nat, NEW n \in Nat
  PROVE  /\ IntAt(S, p, n) \in Nat /\ IntAt(S, p, n) < CONSTPOW_TWO[n]
         /\ IntAt(S, p, n) * CONSTPOW_TWO[p] + Worth(S)[p] = Worth(S)[p + n]
<1> DEFINE all == {i \in Nat : i + p \in S}
           T   == ShiftRight(S, p) \cap 0 .. (n - 1)
<1>1. IntAt(S, p, n) = Worth(T)[BLOOM_BITS]
  BY DEF IntAt, Number
<1>2. BLOOM_BITS \in Nat
  BY BloomAssumption
<1>3. \A i \in Nat : i \in T <=> i \in all /\ i < n
  BY <1>2 DEF ShiftRight, Bits
<1>4. \A i \in Nat : i \in all => i < BLOOM_BITS
  BY <1>2 DEF Bits
<1>5. Worth(T)[BLOOM_BITS] = Worth(all)[n]
  <2> HIDE DEF all, T
  <2>1. CASE n <= BLOOM_BITS
    <3>1. Worth(T)[BLOOM_BITS] = Worth(T)[n]
      BY <1>2, <1>3, <2>1, WorthGap
    <3>2. Worth(T)[n] = Worth(all)[n]
      BY <1>3, WorthSame
    <3> QED BY <3>1, <3>2
  <2>2. CASE BLOOM_BITS <= n
    <3>1. Worth(T)[BLOOM_BITS] = Worth(all)[BLOOM_BITS]
      BY <1>2, <1>3, <2>2, WorthSame
    <3>2. Worth(all)[n] = Worth(all)[BLOOM_BITS]
      BY <1>2, <1>4, <2>2, WorthGap
    <3> QED BY <3>1, <3>2
  <2> QED BY <1>2, <2>1, <2>2
<1>6. Worth(all)[n] * CONSTPOW_TWO[p] + Worth(S)[p] = Worth(S)[p + n]
  BY WorthShift
<1>7. Worth(all)[n] \in Nat /\ Worth(all)[n] < CONSTPOW_TWO[n]
  BY WorthBound
<1> HIDE DEF all, T
<1> QED BY <1>1, <1>5, <1>6, <1>7

-----------------------------------------------------------------------------
(* Masks. *)

\* The second of two ints of w bits, in a word that holds m such pairs.
Second(w, m) == {i \in Bits : \E q \in 0 .. (m - 1) : i - (2 * w) * q \in w .. (2 * w - 1)}

\* These are the bits that TLC looks for.
LEMMA SecondInts ==
  ASSUME NEW w \in Nat \ {0}, NEW m \in Nat, BLOOM_BITS = (2 * w) * m
  PROVE  Second(w, m) = {i \in Bits : (i \div w) % 2 = 1}
<1>1. Bits \subseteq Nat
  BY BloomAssumption DEF Bits
<1>2. ASSUME NEW i \in Bits, NEW q \in 0 .. (m - 1), i - (2 * w) * q \in w .. (2 * w - 1)
      PROVE  (i \div w) % 2 = 1
  <2>1. (2 * q + 1) * w = (2 * w) * q + w /\ (2 * w) * q \in Nat /\ 2 * q + 1 \in Nat
    OBVIOUS
  <2>2. (2 * q + 1) * w <= i /\ i < (2 * q + 1) * w + w
    BY <1>1, <1>2, <2>1
  <2>3. i \div w = 2 * q + 1
    BY <1>1, <2>1, <2>2, Quotient
  <2> QED BY <2>3
<1>3. ASSUME NEW i \in Bits, (i \div w) % 2 = 1
      PROVE  \E q \in 0 .. (m - 1) : i - (2 * w) * q \in w .. (2 * w - 1)
  <2> DEFINE n == i \div w
             q == n \div 2
  <2>1. n \in Nat /\ n * w <= i /\ i < n * w + w
    BY <1>1, Quotient
  <2> HIDE DEF n
  <2>2. q \in Nat /\ n = 2 * q + 1
    BY <1>3, <2>1 DEF n
  <2> HIDE DEF q
  <2>3. n * w = (2 * w) * q + w /\ (2 * w) * q \in Nat
    BY <2>2
  <2>4. i - (2 * w) * q \in w .. (2 * w - 1)
    BY <1>1, <2>1, <2>3
  <2>5. q < m
    <3> SUFFICES ASSUME m <= q PROVE FALSE
      BY <2>2
    <3>1. (2 * w) * m <= (2 * w) * q
      BY <2>2
    <3>2. i < (2 * w) * m
      BY BloomAssumption DEF Bits
    <3> QED BY <1>1, <2>3, <2>4, <3>1, <3>2
  <2>6. q \in 0 .. (m - 1)
    BY <2>2, <2>5
  <2> QED BY <2>4, <2>6
<1> QED BY <1>2, <1>3 DEF Second

\* erasure_mask() makes that mask: what the last shift moves is out of the word,
\* or there already.
LEMMA Masks ==
  ASSUME NEW w \in Nat \ {0}, NEW m \in Nat \ {0}, BLOOM_BITS = (2 * w) * m,
         NEW wide \in {"modulo", "zero"}
  PROVE  erasure_mask(w, wide) = Second(w, m)
<1> DEFINE d     == 2 * w
           first == w .. (2 * w - 1)
           ints  == CHOOSE f : f = [n \in 0 .. Repeats(w) |->
                                      IF n = 0 THEN w .. (2 * w - 1)
                                      ELSE f[n - 1] \cup ShiftLeft(f[n - 1], 2 * w, wide)]
           step  == [x \in (0 .. (m - 1)) \X SUBSET Bits |-> x[2] \cup ShiftLeft(x[2], d, wide)]
<1>1. d \in Nat \ {0} /\ BLOOM_BITS \in Nat /\ BLOOM_BITS = d * m /\ d <= BLOOM_BITS
  <2>1. d * m >= d
    OBVIOUS
  <2> QED BY <2>1
<1>2. Repeats(w) = m
  <2>1. m * d <= BLOOM_BITS /\ BLOOM_BITS < m * d + d
    BY <1>1
  <2>2. BLOOM_BITS \div d = m
    BY <1>1, <2>1, Quotient
  <2> QED BY <2>2 DEF Repeats
<1>3. erasure_mask(w, wide) = ints[m]
  BY <1>2 DEF erasure_mask
<1>4. first \in SUBSET Bits
  BY <1>1 DEF Bits
<1>5. \A S \in SUBSET Bits : ShiftLeft(S, d, wide) \in SUBSET Bits
  BY DEF ShiftLeft
<1>6. PICK g : Run(m, first, step, SUBSET Bits, g)
  <2>1. step \in [(0 .. (m - 1)) \X SUBSET Bits -> SUBSET Bits]
    BY <1>5
  <2> HIDE DEF step, first
  <2> QED BY <1>4, <2>1, IterateTo
<1>7. /\ g \in [0 .. m -> SUBSET Bits] /\ g[0] = first
      /\ \A n \in 0 .. (m - 1) : g[n + 1] = g[n] \cup ShiftLeft(g[n], d, wide)
  <2>1. \A n \in 0 .. (m - 1), S \in SUBSET Bits :
           step[<< n, S >>] = S \cup ShiftLeft(S, d, wide)
    OBVIOUS
  <2> HIDE DEF step, first
  <2>2. /\ g \in [0 .. m -> SUBSET Bits] /\ g[0] = first
        /\ \A n \in 0 .. (m - 1) : g[n + 1] = step[<< n, g[n] >>]
    BY <1>6 DEF Run
  <2>3. \A n \in 0 .. (m - 1) : g[n] \in SUBSET Bits
    BY <2>2
  <2> QED BY <2>1, <2>2, <2>3
<1>8. g = [n \in 0 .. Repeats(w) |-> IF n = 0 THEN w .. (2 * w - 1)
                                     ELSE g[n - 1] \cup ShiftLeft(g[n - 1], 2 * w, wide)]
  <2>1. ASSUME NEW n \in 0 .. m, n # 0
        PROVE  g[n] = g[n - 1] \cup ShiftLeft(g[n - 1], d, wide)
    <3>1. n - 1 \in 0 .. (m - 1) /\ (n - 1) + 1 = n
      BY <2>1
    <3> QED BY <3>1, <1>7
  <2> QED BY <1>2, <1>7, <2>1
<1>9. ints = [n \in 0 .. Repeats(w) |-> IF n = 0 THEN w .. (2 * w - 1)
                                        ELSE ints[n - 1] \cup ShiftLeft(ints[n - 1], 2 * w, wide)]
  BY <1>8, Zenon
<1> HIDE DEF ints
<1>10. /\ ints[0] = first
       /\ \A n \in 0 .. (m - 1) : ints[n + 1] = ints[n] \cup ShiftLeft(ints[n], d, wide)
  <2>1. ints[0] = first
    BY <1>2, <1>9
  <2>2. ASSUME NEW n \in 0 .. (m - 1)
        PROVE  ints[n + 1] = ints[n] \cup ShiftLeft(ints[n], d, wide)
    <3>1. n + 1 \in 0 .. m /\ n + 1 # 0 /\ (n + 1) - 1 = n
      OBVIOUS
    <3> QED BY <1>2, <1>9, <3>1
  <2> QED BY <2>1, <2>2
<1> DEFINE Ints(n) == /\ ints[n] \in SUBSET Bits
                      /\ \A i \in Bits : i \in ints[n] <=> \E q \in 0 .. n : i - d * q \in first
           A == {n \in Nat : n <= m => Ints(n)}
<1>11. 0 \in A
  <2>1. \A i \in Bits : i - d * 0 = i
    BY BloomAssumption DEF Bits
  <2> QED BY <1>4, <1>10, <2>1
<1>12. ASSUME NEW n \in Nat, n \in A
       PROVE  n + 1 \in A
  <2> HIDE DEF Ints
  <2> SUFFICES ASSUME n + 1 <= m PROVE Ints(n + 1)
    OBVIOUS
  <2> USE DEF Ints
  <2>1. /\ ints[n] \in SUBSET Bits
        /\ \A i \in Bits : i \in ints[n] <=> \E q \in 0 .. n : i - d * q \in first
    BY <1>12
  <2>2. ints[n + 1] = ints[n] \cup ShiftLeft(ints[n], d, wide)
    BY <1>10
  <2>3. ints[n + 1] \in SUBSET Bits
    BY <1>5, <2>1, <2>2
  <2>4. \A i \in Bits, q \in Nat : i \in Int /\ d * q \in Nat /\ d * (q + 1) = d * q + d
    BY <1>1 DEF Bits
  <2>5. ASSUME NEW i \in Bits, i \in ints[n + 1]
        PROVE  \E q \in 0 .. (n + 1) : i - d * q \in first
    <3>1. CASE i \in ints[n]
      BY <2>1, <3>1
    <3>2. CASE i \notin ints[n]
      <4>1. i - d \in ints[n]
        BY <1>1, <2>2, <2>5, <3>2 DEF ShiftLeft
      <4>2. PICK q \in 0 .. n : (i - d) - d * q \in first
        BY <2>1, <4>1
      <4>3. (i - d) - d * q = i - d * (q + 1)
        BY <1>1, <2>4
      <4>4. q + 1 \in 0 .. (n + 1)
        OBVIOUS
      <4> QED BY <4>2, <4>3, <4>4
    <3> QED BY <3>1, <3>2
  <2>6. ASSUME NEW i \in Bits, NEW q \in 0 .. (n + 1), i - d * q \in first
        PROVE  i \in ints[n + 1]
    <3>1. CASE q = 0
      BY <2>1, <2>2, <2>6, <3>1
    <3>2. CASE q # 0
      <4>1. q - 1 \in 0 .. n /\ (q - 1) + 1 = q
        BY <3>2
      <4>2. (i - d) - d * (q - 1) = i - d * q /\ d * (q - 1) \in Nat
        BY <1>1, <2>4, <4>1
      <4>3. i - d \in Bits
        BY <1>1, <2>4, <2>6, <4>2 DEF Bits
      <4>4. i - d \in ints[n]
        BY <2>1, <2>6, <4>1, <4>2, <4>3
      <4>5. d < BLOOM_BITS
        BY <1>1, <4>3 DEF Bits
      <4>6. i \in ShiftLeft(ints[n], d, wide)
        BY <4>4, <4>5 DEF ShiftLeft
      <4> QED BY <2>2, <4>6
    <3> QED BY <3>1, <3>2
  <2> QED BY <2>3, <2>5, <2>6
<1>13. Nat \subseteq A
  <2> HIDE DEF A
  <2> QED BY <1>11, <1>12, AllNat
<1>14. Ints(m)
  <2> HIDE DEF Ints
  <2> QED BY <1>13
<1>15. \A i \in Bits : i - d * m \notin first
  BY <1>1 DEF Bits
<1>16. \A i \in Bits : (\E q \in 0 .. m : i - d * q \in first)
                         <=> (\E q \in 0 .. (m - 1) : i - d * q \in first)
  <2>1. \A q \in 0 .. m : q = m \/ q \in 0 .. (m - 1)
    OBVIOUS
  <2>2. \A q \in 0 .. (m - 1) : q \in 0 .. m
    OBVIOUS
  <2> HIDE DEF first
  <2> QED BY <1>15, <2>1, <2>2
<1> QED BY <1>3, <1>14, <1>16 DEF Second

\* A power of two that is less than the width of a word leaves room for pairs of ints.
LEMMA Pairs ==
  ASSUME NEW n \in Nat, CONSTPOW_TWO[n] < BLOOM_BITS
  PROVE  /\ n + 1 \in 0 .. BLOOM_BITS
         /\ \E m \in Nat \ {0} : BLOOM_BITS = (2 * CONSTPOW_TWO[n]) * m
<1>1. PICK b \in 0 .. BLOOM_BITS : CONSTPOW_TWO[b] = BLOOM_BITS
  BY WordAssumption
<1>2. BLOOM_BITS \in Nat /\ b \in Nat
  BY BloomAssumption
<1>3. n < b
  <2>1. CONSTPOW_TWO[b] <= CONSTPOW_TWO[n] => FALSE
    BY <1>1, <1>2, Doubling
  <2> QED BY <1>2, <2>1, PowerGrows
<1>4. b - (n + 1) \in Nat /\ (n + 1) + (b - (n + 1)) = b
  BY <1>2, <1>3
<1>5. CONSTPOW_TWO[b] = CONSTPOW_TWO[n + 1] * CONSTPOW_TWO[b - (n + 1)]
  BY <1>4, PowerOfSum
<1>6. CONSTPOW_TWO[n + 1] = 2 * CONSTPOW_TWO[n] /\ CONSTPOW_TWO[b - (n + 1)] \in Nat \ {0}
  BY <1>4, Doubling
<1> QED BY <1>1, <1>2, <1>3, <1>5, <1>6

-----------------------------------------------------------------------------
(* The filters. *)

\* bloom_from_hash() yields bits of a filter, whatever an oversized shift yields.
LEMMA HashBits ==
  ASSUME NEW hash \in Nat
  PROVE  bloom_from_hash(hash) \subseteq Bits
<1> DEFINE variant == CHOOSE f : f = [i \in Nat |-> IF i = 0 THEN hash
                                                    ELSE f[i - 1] \div BLOOM_BITS]
<1>1. BLOOM_BITS \in Nat \ {0} /\ HASH_VARIANTS \in Nat
  BY BloomAssumption
<1>2. bloom_from_hash(hash)
        = UNION {ShiftOne(variant[i] % BLOOM_BITS) : i \in 0 .. (HASH_VARIANTS - 1)}
  BY DEF bloom_from_hash
<1>3. \A i \in Nat : variant[i] \in Nat
  BY <1>1, Divided
<1> HIDE DEF variant
<1>4. ASSUME NEW k \in Bits
      PROVE  ShiftOne(k) \subseteq Bits
  <2>1. k < INT_BITS - 1 \/ k = INT_BITS - 1 => ShiftOne(k) \subseteq Bits
    BY BloomAssumption DEF ShiftOne, Bits
  <2>2. k > INT_BITS - 1 => k \in INT_BITS .. (BLOOM_BITS - 1)
    BY BloomAssumption DEF Bits
  <2> QED BY BloomAssumption, <2>1, <2>2 DEF ShiftOne, Bits
<1>5. ASSUME NEW i \in 0 .. (HASH_VARIANTS - 1)
      PROVE  variant[i] % BLOOM_BITS \in Bits
  <2>1. variant[i] \in Nat
    BY <1>1, <1>3
  <2> QED BY <1>1, <2>1, Divide DEF Bits
<1> QED BY <1>2, <1>4, <1>5

-----------------------------------------------------------------------------
(* The sums. *)

\* The bits that stay are those of the second int of each pair.
LEMMA MaskAt ==
  ASSUME NEW w \in Nat \ {0}, NEW q \in Nat, NEW r \in 0 .. (2 * w - 1)
  PROVE  (((2 * w) * q + r) \div w) % 2 = 1 <=> r >= w
<1> DEFINE n == (2 * w) * q + r
<1>1. n \in Nat /\ 2 * q \in Nat /\ 2 * q + 1 \in Nat
  OBVIOUS
<1>2. (2 * q) * w = (2 * w) * q /\ (2 * q + 1) * w = (2 * w) * q + w
  OBVIOUS
<1>3. (2 * w) * q \in Nat
  OBVIOUS
<1>4. CASE r < w
  <2>1. (2 * q) * w <= n /\ n < (2 * q) * w + w
    BY <1>2, <1>3, <1>4
  <2>2. n \div w = 2 * q
    <3> HIDE DEF n
    <3> QED BY <1>1, <2>1, Quotient
  <2> HIDE DEF n
  <2>3. (n \div w) % 2 = 0
    BY <2>2
  <2> QED BY <1>4, <2>3 DEF n
<1>5. CASE r >= w
  <2>1. (2 * q + 1) * w <= n /\ n < (2 * q + 1) * w + w
    BY <1>2, <1>3, <1>5
  <2>2. n \div w = 2 * q + 1
    <3> HIDE DEF n
    <3> QED BY <1>1, <2>1, Quotient
  <2> HIDE DEF n
  <2>3. (n \div w) % 2 = 1
    BY <2>2
  <2> QED BY <1>5, <2>3 DEF n
<1> QED BY <1>4, <1>5

\* Words that are cleared like that.
Cleared(S, w) == S \subseteq {i \in Bits : (i \div w) % 2 = 1}

\* Below a pair of such words there is room for the carry.
LEMMA Room ==
  ASSUME NEW w \in Nat \ {0}, NEW q \in Nat, NEW R, NEW S, Cleared(R, w), Cleared(S, w)
  PROVE  Worth(R)[(2 * w) * q + w] + Worth(S)[(2 * w) * q + w] < CONSTPOW_TWO[(2 * w) * q + w]
<1> DEFINE z == (2 * w) * q
<1>1. z \in Nat /\ z + w \in Nat /\ z + 1 <= z + w /\ z + 1 \in Nat
  OBVIOUS
<1>2. ASSUME NEW T, Cleared(T, w)
      PROVE  Worth(T)[z + w] \in Nat /\ Worth(T)[z + w] < CONSTPOW_TWO[z]
  <2>1. ASSUME NEW i \in z .. ((z + w) - 1), i \in T
        PROVE  FALSE
    <3>1. i - z \in 0 .. (2 * w - 1) /\ i - z < w /\ i = z + (i - z)
      BY <1>1
    <3>2. (i \div w) % 2 = 1
      BY <1>2, <2>1 DEF Cleared
    <3> HIDE DEF z
    <3>3. ((z + (i - z)) \div w) % 2 = 1 => i - z >= w
      BY <3>1, MaskAt DEF z
    <3> QED BY <3>1, <3>2, <3>3
  <2> HIDE DEF z
  <2>2. Worth(T)[z + w] = Worth(T)[z]
    BY <1>1, <2>1, WorthGap
  <2> QED BY <1>1, <2>2, WorthBound
<1>3. CONSTPOW_TWO[z] + CONSTPOW_TWO[z] <= CONSTPOW_TWO[z + w]
  <2> HIDE DEF z
  <2>1. CONSTPOW_TWO[z + 1] = 2 * CONSTPOW_TWO[z] /\ CONSTPOW_TWO[z] \in Nat
    BY <1>1, Doubling
  <2>2. CONSTPOW_TWO[z + 1] <= CONSTPOW_TWO[z + w]
    BY <1>1, PowerGrows
  <2>3. CONSTPOW_TWO[z + w] \in Nat
    BY <1>1, Doubling
  <2> QED BY <2>1, <2>2, <2>3
<1>4. CONSTPOW_TWO[z] \in Nat /\ CONSTPOW_TWO[z + w] \in Nat
  <2> HIDE DEF z
  <2> QED BY <1>1, Doubling
<1>5. /\ Worth(R)[z + w] \in Nat /\ Worth(R)[z + w] < CONSTPOW_TWO[z]
      /\ Worth(S)[z + w] \in Nat /\ Worth(S)[z + w] < CONSTPOW_TWO[z]
  <2> HIDE DEF z
  <2> QED BY <1>2
<1>6. Worth(R)[z + w] + Worth(S)[z + w] < CONSTPOW_TWO[z + w]
  <2> HIDE DEF z
  <2> QED BY <1>3, <1>4, <1>5
<1> QED BY <1>6

\* Where there is room, the lowest bits of the sum are the sum of the lowest bits.
LEMMA SumBelow ==
  ASSUME NEW R \in SUBSET Bits, NEW S \in SUBSET Bits, NEW p \in 0 .. BLOOM_BITS,
         Worth(R)[p] + Worth(S)[p] < CONSTPOW_TWO[p]
  PROVE  Worth(BitsOf(Number(R) + Number(S)))[p] = Worth(R)[p] + Worth(S)[p]
<1> DEFINE P == CONSTPOW_TWO[p]
           n == BLOOM_BITS - p
           x == Worth({i \in Nat : i + p \in R})[n]
           y == Worth({i \in Nat : i + p \in S})[n]
           a == Worth(R)[p]
           b == Worth(S)[p]
<1>1. BLOOM_BITS \in Nat /\ p \in Nat /\ n \in Nat /\ p + n = BLOOM_BITS
  BY BloomAssumption
<1> HIDE DEF n
<1>2. x * P + a = Number(R) /\ y * P + b = Number(S)
  <2>1. x * P + a = Worth(R)[p + n]
    BY <1>1, WorthShift
  <2>2. y * P + b = Worth(S)[p + n]
    BY <1>1, WorthShift
  <2> QED BY <1>1, <2>1, <2>2 DEF Number
<1>3. x \in Nat /\ y \in Nat /\ a \in Nat /\ b \in Nat /\ P \in Nat \ {0}
  BY <1>1, Bitwise, Doubling
<1>4. a + b < P
  OBVIOUS
<1>5. Worth(BitsOf(Number(R) + Number(S)))[p] = (Number(R) + Number(S)) % P
  <2>1. Number(R) + Number(S) \in Nat
    BY <1>1, Bitwise DEF Number
  <2> QED BY <2>1, WorthBits
<1> HIDE DEF x, y, a, b, P
<1>6. Number(R) + Number(S) = P * (x + y) + (a + b)
  <2>1. P * (x + y) = x * P + y * P /\ x * P \in Nat /\ y * P \in Nat
    BY <1>3
  <2> QED BY <1>2, <1>3, <2>1
<1>7. (P * (x + y) + (a + b)) % P = a + b
  <2>1. \A d \in Nat \ {0}, u \in Nat : \A v \in 0 .. (d - 1) : (d * u + v) % d = v
    OBVIOUS
  <2>2. x + y \in Nat /\ a + b \in 0 .. (P - 1)
    BY <1>3, <1>4
  <2> QED BY <1>3, <2>1, <2>2
<1>8. (Number(R) + Number(S)) % P = a + b
  BY <1>6, <1>7
<1> QED BY <1>5, <1>8 DEF a, b, P

\* The second int of pair q of the sum is the sum of those of the words.
Summed(R, S, w, q) ==
  LET p == (2 * w) * q + w
  IN  IntAt(BitsOf(Number(R) + Number(S)), p, 2 * w) = IntAt(R, p, 2 * w) + IntAt(S, p, 2 * w)

\* It is if what is added to the last int is nothing.
LEMMA SumAt ==
  ASSUME NEW w \in Nat \ {0}, NEW m \in Nat \ {0}, BLOOM_BITS = (2 * w) * m,
         NEW R \in SUBSET Bits, NEW S \in SUBSET Bits, Cleared(R, w), Cleared(S, w),
         \A i \in R : i + w \in Bits,
         NEW q \in 0 .. (m - 1)
  PROVE  Summed(R, S, w, q)
<1> DEFINE p == (2 * w) * q + w
           d == 2 * w
           T == BitsOf(Number(R) + Number(S))
           P == CONSTPOW_TWO[p]
<1>1. /\ BLOOM_BITS \in Nat /\ d \in Nat \ {0} /\ q \in Nat
      /\ p \in Nat /\ p + w <= BLOOM_BITS
  <2>1. (2 * w) * q \in Nat /\ (2 * w) * (q + 1) = (2 * w) * q + 2 * w
    OBVIOUS
  <2>2. q + 1 <= m
    OBVIOUS
  <2>3. (2 * w) * (q + 1) <= (2 * w) * m
    BY <2>2
  <2> QED BY <2>1, <2>3
<1>2. T \in SUBSET Bits
  BY DEF BitsOf
<1>3. Worth(T)[p] = Worth(R)[p] + Worth(S)[p]
  <2>1. Worth(R)[p] + Worth(S)[p] < CONSTPOW_TWO[p]
    BY <1>1, Room
  <2>2. p \in 0 .. BLOOM_BITS
    BY <1>1
  <2> QED BY <2>1, <2>2, SumBelow
<1>4. Worth(T)[p + d] = Worth(R)[p + d] + Worth(S)[p + d]
  <2>1. CASE q + 1 < m
    <3>1. p + d = (2 * w) * (q + 1) + w /\ q + 1 \in Nat
      BY <1>1
    <3>2. Worth(R)[p + d] + Worth(S)[p + d] < CONSTPOW_TWO[p + d]
      BY <3>1, Room
    <3>3. p + d \in 0 .. BLOOM_BITS
      <4>1. q + 2 <= m
        BY <2>1
      <4>2. (2 * w) * (q + 2) <= (2 * w) * m /\ (2 * w) * (q + 2) = (2 * w) * q + 4 * w
        BY <4>1
      <4>3. (2 * w) * q \in Nat
        BY <1>1
      <4> QED BY <1>1, <4>2, <4>3
    <3> HIDE DEF d
    <3> QED BY <3>2, <3>3, SumBelow
  <2>2. CASE q + 1 = m
    <3>1. /\ p + w = BLOOM_BITS /\ BLOOM_BITS <= p + d /\ p + d \in Nat
          /\ p <= BLOOM_BITS /\ w \in Nat
      <4>1. m = q + 1
        BY <2>2
      <4>2. (2 * w) * m = (2 * w) * q + 2 * w
        BY <4>1
      <4> QED BY <1>1, <4>2
    <3>2. ASSUME NEW X \in SUBSET Bits
          PROVE  Worth(X)[p + d] = Worth(X)[BLOOM_BITS]
      <4>1. \A i \in BLOOM_BITS .. ((p + d) - 1) : i \notin X
        BY <1>1 DEF Bits
      <4> QED BY <1>1, <3>1, <4>1, WorthGap
    <3>3. Worth(R)[BLOOM_BITS] = Worth(R)[p]
      <4>1. \A i \in p .. (BLOOM_BITS - 1) : i \notin R
        BY <1>1, <3>1 DEF Bits
      <4>2. p \in Nat /\ BLOOM_BITS \in Nat /\ p <= BLOOM_BITS
        BY <1>1, <3>1
      <4> QED BY <4>1, <4>2, WorthGap
    <3>4. /\ IntAt(S, p, w) \in Nat /\ IntAt(S, p, w) < CONSTPOW_TWO[w]
          /\ IntAt(S, p, w) * P + Worth(S)[p] = Worth(S)[BLOOM_BITS]
      <4>1. p \in Nat /\ w \in Nat
        BY <1>1, <3>1
      <4>2. /\ IntAt(S, p, w) \in Nat /\ IntAt(S, p, w) < CONSTPOW_TWO[w]
            /\ IntAt(S, p, w) * CONSTPOW_TWO[p] + Worth(S)[p] = Worth(S)[p + w]
        BY <4>1, IntWorth
      <4> QED BY <3>1, <4>2
    <3>5. CONSTPOW_TWO[BLOOM_BITS] = P * CONSTPOW_TWO[w]
      BY <1>1, <3>1, PowerOfSum
    <3>6. /\ P \in Nat /\ CONSTPOW_TWO[w] \in Nat
          /\ Worth(R)[p] \in Nat /\ Worth(S)[p] \in Nat
      BY <1>1, Bitwise, Doubling
    <3>7. Worth(R)[p] + Worth(S)[p] < P
      BY <1>1, Room
    <3> HIDE DEF P
    <3>8. (IntAt(S, p, w) + 1) * P <= P * CONSTPOW_TWO[w]
      BY <3>4, <3>6
    <3>9. (IntAt(S, p, w) + 1) * P = IntAt(S, p, w) * P + P /\ IntAt(S, p, w) * P \in Nat
      BY <3>4, <3>6
    <3>10. Worth(R)[BLOOM_BITS] + Worth(S)[BLOOM_BITS] < CONSTPOW_TWO[BLOOM_BITS]
      BY <3>3, <3>4, <3>5, <3>6, <3>7, <3>8, <3>9
    <3>11. Worth(T)[BLOOM_BITS] = Worth(R)[BLOOM_BITS] + Worth(S)[BLOOM_BITS]
      BY <1>1, <3>10, SumBelow
    <3> HIDE DEF T, d
    <3> QED BY <1>2, <3>2, <3>11
  <2> QED BY <1>1, <2>1, <2>2
<1>5. ASSUME NEW X \in SUBSET Bits
      PROVE  IntAt(X, p, d) \in Nat /\ IntAt(X, p, d) * P + Worth(X)[p] = Worth(X)[p + d]
  <2> HIDE DEF d
  <2>1. p \in Nat /\ d \in Nat
    BY <1>1
  <2> HIDE DEF p, P
  <2>2. /\ IntAt(X, p, d) \in Nat
        /\ IntAt(X, p, d) * CONSTPOW_TWO[p] + Worth(X)[p] = Worth(X)[p + d]
    BY ONLY <2>1, X \in SUBSET Bits, IntWorth
  <2> QED BY <2>2 DEF P
<1>6. P \in Nat \ {0}
  BY <1>1, Doubling
<1>7. Worth(R)[p] \in Nat /\ Worth(S)[p] \in Nat
  BY <1>1, Bitwise
<1> DEFINE t == IntAt(T, p, d)
           r == IntAt(R, p, d)
           s == IntAt(S, p, d)
<1>8. /\ t \in Nat /\ t * P + Worth(T)[p] = Worth(T)[p + d]
      /\ r \in Nat /\ r * P + Worth(R)[p] = Worth(R)[p + d]
      /\ s \in Nat /\ s * P + Worth(S)[p] = Worth(S)[p + d]
  BY <1>2, <1>5
<1> HIDE DEF t, r, s, T, P, d
<1>9. t * P = (r + s) * P
  <2>1. (r + s) * P = r * P + s * P /\ t * P \in Nat /\ r * P \in Nat /\ s * P \in Nat
    BY <1>6, <1>8
  <2> QED BY <1>3, <1>4, <1>7, <1>8, <2>1
<1>10. t = r + s
  <2>1. \A a, b \in Nat : a * P = b * P => a = b
    BY <1>6
  <2> QED BY <1>8, <1>9, <2>1
<1> QED BY <1>10 DEF Summed, t, r, s, T, d

\* X is what the mask leaves of S, shifted by n.
Masked(X, S, n, w) ==
  /\ X \in SUBSET Bits /\ S \in SUBSET Bits /\ n \in Nat /\ w \in Nat \ {0}
  /\ \A i \in Bits : i \in X <=> i + n \in S /\ (i \div w) % 2 = 1

\* The second int of its pair q is an int of S.
Half(X, S, n, w, q) == IntAt(X, (2 * w) * q + w, 2 * w) = IntAt(S, ((2 * w) * q + w) + n, w)

LEMMA Halves ==
  ASSUME NEW X, NEW S, NEW n, NEW w, Masked(X, S, n, w), NEW q, q \in Nat
  PROVE  Half(X, S, n, w, q)
<1> DEFINE p == (2 * w) * q + w
<1>0. X \in SUBSET Bits /\ S \in SUBSET Bits /\ n \in Nat /\ w \in Nat \ {0} /\ q \in Nat
  BY DEF Masked
<1>1. BLOOM_BITS \in Nat /\ p \in Nat /\ (2 * w) * q \in Nat
  BY <1>0, BloomAssumption
<1>2. ASSUME NEW i \in Bits, i < 2 * w, i + p \in Bits
      PROVE  ((i + p) \div w) % 2 = 1 <=> i < w
  <2>1. i \in Nat
    BY <1>0, <1>1 DEF Bits
  <2>2. CASE i < w
    <3>1. i + p = (2 * w) * q + (w + i) /\ w + i \in 0 .. (2 * w - 1) /\ w + i >= w
      BY <1>0, <1>1, <2>1, <2>2
    <3> QED BY <1>0, <2>2, <3>1, MaskAt
  <2>3. CASE ~(i < w)
    <3>1. i + p = (2 * w) * (q + 1) + (i - w) /\ i - w \in 0 .. (2 * w - 1) /\ ~(i - w >= w)
      BY <1>0, <1>1, <1>2, <2>1, <2>3
    <3>2. q + 1 \in Nat
      BY <1>0
    <3> QED BY <1>0, <2>3, <3>1, <3>2, MaskAt
  <2> QED BY <1>0, <2>2, <2>3
<1>3. ASSUME NEW i \in Bits
      PROVE  i + p \in X /\ i \in 0 .. (2 * w - 1) <=> i + (p + n) \in S /\ i \in 0 .. (w - 1)
  <2>1. i \in Nat /\ (i + p) + n = i + (p + n)
    BY <1>0, <1>1 DEF Bits
  <2>2. i + (p + n) \in S => i + p \in Bits
    BY <1>0, <1>1, <2>1 DEF Bits
  <2>3. i \in 0 .. (w - 1) <=> i \in 0 .. (2 * w - 1) /\ i < w
    BY <1>0, <2>1
  <2>4. i \in 0 .. (2 * w - 1) <=> i < 2 * w
    BY <1>0, <2>1
  <2>5. i + p \in X => i + p \in Bits
    BY <1>0
  <2> QED BY <1>0, <1>2, <2>1, <2>2, <2>3, <2>4, <2>5 DEF Masked
<1>4. ShiftRight(X, p) \cap 0 .. (2 * w - 1) = ShiftRight(S, p + n) \cap 0 .. (w - 1)
  BY <1>3 DEF ShiftRight
<1> QED BY <1>4 DEF IntAt, Half

-----------------------------------------------------------------------------
(* The iterations of the loop. *)

\* The mask of one iteration, for ints of any width.
LEMMA MaskMade ==
  ASSUME TypeOK, NEW wide \in {"modulo", "zero"}, AddPairs(wide)
  PROVE  /\ width \in Nat \ {0}
         /\ \E n \in 0 .. BLOOM_BITS : CONSTPOW_TWO[n] = 2 * width
         /\ mask' = {i \in Bits : (i \div width) % 2 = 1}
<1>1. PICK n \in 0 .. BLOOM_BITS : CONSTPOW_TWO[n] = width
  BY DEF TypeOK
<1>2. n \in Nat /\ width \in Nat \ {0} /\ CONSTPOW_TWO[n + 1] = 2 * width
  <2>1. n \in Nat
    BY BloomAssumption
  <2> QED BY <1>1, <2>1, Doubling
<1>3. width < BLOOM_BITS /\ mask' = erasure_mask(width, wide)
  BY DEF AddPairs
<1>4. n + 1 \in 0 .. BLOOM_BITS /\ \E m \in Nat \ {0} : BLOOM_BITS = (2 * width) * m
  BY <1>1, <1>2, <1>3, Pairs
<1>5. mask' = {i \in Bits : (i \div width) % 2 = 1}
  <2>1. PICK m \in Nat \ {0} : BLOOM_BITS = (2 * width) * m
    BY <1>4
  <2>2. erasure_mask(width, wide) = Second(width, m)
    BY <1>2, <2>1, Masks
  <2>3. Second(width, m) = {i \in Bits : (i \div width) % 2 = 1}
    BY <1>2, <2>1, SecondInts
  <2> QED BY <1>3, <2>2, <2>3
<1> QED BY <1>2, <1>4, <1>5

\* The invariant.
Inv == TypeOK /\ MaskIsEveryOther

LEMMA InitInv == Init => Inv
<1> SUFFICES ASSUME Init PROVE Inv
  OBVIOUS
<1> USE DEF Init
<1>1. Filter(ha) \subseteq Bits
  BY WordAssumption, HashBits DEF Filter
<1>2. \E n \in 0 .. BLOOM_BITS : CONSTPOW_TWO[n] = width
  <2>1. 0 \in 0 .. BLOOM_BITS
    BY BloomAssumption
  <2> QED BY <2>1, Doubling
<1>3. TypeOK
  BY <1>1, <1>2 DEF TypeOK
<1>4. MaskIsEveryOther
  BY DEF MaskIsEveryOther
<1> QED BY <1>3, <1>4 DEF Inv

LEMMA NextInv == Inv /\ [Next]_vars => Inv'
<1> SUFFICES ASSUME Inv, [Next]_vars PROVE Inv'
  OBVIOUS
<1> USE DEF Inv
<1>1. CASE Return
  BY <1>1 DEF Return, TypeOK, MaskIsEveryOther
<1>2. ASSUME NEW wide \in {"modulo", "zero"}, AddPairs(wide)
      PROVE  Inv'
  <2>1. /\ width \in Nat \ {0} /\ \E n \in 0 .. BLOOM_BITS : CONSTPOW_TWO[n] = 2 * width
        /\ mask' = {i \in Bits : (i \div width) % 2 = 1}
    BY <1>2, MaskMade
  <2>2. width' = 2 * width /\ section' \subseteq Bits /\ UNCHANGED << ha, hb, ret >>
    BY <1>2 DEF AddPairs, BitsOf
  <2>3. TypeOK'
    BY <2>1, <2>2 DEF TypeOK
  <2>4. width' \div 2 = width
    BY <2>1, <2>2
  <2>5. MaskIsEveryOther'
    BY <2>1, <2>4 DEF MaskIsEveryOther
  <2> QED BY <2>3, <2>5
<1>3. CASE UNCHANGED vars
  BY <1>3 DEF vars, TypeOK, MaskIsEveryOther
<1> QED BY <1>1, <1>2, <1>3 DEF Next

\* bloom_may_have_common() computes with words and with powers of two that fit into
\* them, for words and filters of any width.
THEOREM TypeCorrect == Spec => []TypeOK
<1>1. Inv => TypeOK
  BY DEF Inv
<1> QED BY <1>1, InitInv, NextInv, PTL DEF Spec

\* erasure_mask() covers every other int, exactly, in every iteration of the loop,
\* and for both outcomes of the shift that C leaves undefined.
THEOREM MasksExact == Spec => []MaskIsEveryOther
<1>1. Inv => MaskIsEveryOther
  BY DEF Inv
<1> QED BY <1>1, InitInv, NextInv, PTL DEF Spec

\* An iteration adds what it masks.
LEMMA Added ==
  ASSUME TypeOK, NEW wide \in {"modulo", "zero"}, AddPairs(wide),
         NEW pos \in Bits, pos % (2 * width) = width
  PROVE  IntAt(section', pos, 2 * width)
           = IntAt(section, pos, width) + IntAt(section, pos + width, width)
<1> DEFINE w == width
           R == ShiftRight(section, w) \cap mask'
           S == section \cap mask'
           q == pos \div (2 * w)
<1>1. /\ w \in Nat \ {0} /\ mask' = {i \in Bits : (i \div w) % 2 = 1}
      /\ section \in SUBSET Bits /\ BLOOM_BITS \in Nat
  BY MaskMade, BloomAssumption DEF TypeOK
<1>2. PICK m \in Nat \ {0} : BLOOM_BITS = (2 * w) * m
  <2>1. PICK n \in 0 .. BLOOM_BITS : CONSTPOW_TWO[n] = w
    BY DEF TypeOK
  <2>2. n \in Nat /\ w < BLOOM_BITS
    BY <1>1 DEF AddPairs
  <2> QED BY <2>1, <2>2, Pairs
<1>3. section' = BitsOf(Number(R) + Number(S))
  BY DEF AddPairs
<1>4. q \in 0 .. (m - 1) /\ pos = (2 * w) * q + w
  <2>1. pos \in Nat /\ 2 * w \in Nat \ {0} /\ pos < (2 * w) * m
    BY <1>1, <1>2 DEF Bits
  <2>2. q \in Nat /\ pos = (2 * w) * q + w
    <3>1. \A d \in Nat \ {0}, n \in Nat : n \div d \in Nat /\ n = d * (n \div d) + (n % d)
      OBVIOUS
    <3> QED BY <2>1, <3>1
  <2> HIDE DEF q
  <2>3. q < m
    <3> SUFFICES ASSUME m <= q PROVE FALSE
      BY <2>2
    <3>1. (2 * w) * m <= (2 * w) * q
      BY <1>1, <2>2
    <3> QED BY <1>1, <2>1, <2>2, <3>1
  <2> QED BY <2>2, <2>3
<1>5. R \in SUBSET Bits /\ S \in SUBSET Bits /\ Cleared(R, w) /\ Cleared(S, w)
  BY <1>1 DEF Cleared
<1>6. \A i \in R : i + w \in Bits
  BY <1>1 DEF ShiftRight
<1>7. Masked(R, section, w, w)
  BY <1>1 DEF ShiftRight, Masked
<1>8. Masked(S, section, 0, w)
  <2>1. \A i \in Bits : i + 0 = i
    BY <1>1 DEF Bits
  <2> QED BY <1>1, <2>1 DEF Masked
<1> HIDE DEF R, S, q
<1>10. q \in Nat /\ w \in Nat \ {0} /\ w \in Nat /\ section \in SUBSET Bits
  BY <1>1, <1>4
<1> HIDE DEF w
<1>9. IntAt(section', pos, 2 * w) = IntAt(R, pos, 2 * w) + IntAt(S, pos, 2 * w)
  <2>1. Summed(R, S, w, q)
    BY <1>2, <1>4, <1>5, <1>6, <1>10, SumAt
  <2> QED BY <1>3, <1>4, <2>1 DEF Summed
<1>11. /\ IntAt(R, pos, 2 * w) = IntAt(section, pos + w, w)
       /\ IntAt(S, pos, 2 * w) = IntAt(section, pos + 0, w)
  <2>1. Half(R, section, w, w, q) /\ Half(S, section, 0, w, q)
    BY <1>7, <1>8, <1>10, Halves
  <2> QED BY <1>4, <2>1 DEF Half
<1>12. pos + 0 = pos
  BY <1>1 DEF Bits
<1>13. /\ IntAt(section, pos + w, w) \in Nat /\ IntAt(section, pos, w) \in Nat
  <2>1. pos \in Nat /\ pos + w \in Nat
    BY <1>1 DEF Bits
  <2> QED BY <1>1, <2>1, IntWorth
<1>14. IntAt(section', pos, 2 * w) = IntAt(section, pos, w) + IntAt(section, pos + w, w)
  BY <1>9, <1>11, <1>12, <1>13
<1> QED BY <1>14 DEF w

\* "Clearing half of them to prevent overflows" does prevent them: no sum of two
\* neighbouring ints carries into the next int, and none is lost at the end of the word.
THEOREM NothingCarries == Spec => SumsDoNotOverflow
<1>1. Inv /\ [Next]_vars =>
        [ width' > width =>
            \A pos \in {i \in Bits : i % (2 * width) = width} :
              IntAt(section', pos, 2 * width)
                = IntAt(section, pos, width) + IntAt(section, pos + width, width) ]_vars
  <2> SUFFICES ASSUME Inv, [Next]_vars, width' > width,
                      NEW pos \in Bits, pos % (2 * width) = width
               PROVE  IntAt(section', pos, 2 * width)
                        = IntAt(section, pos, width) + IntAt(section, pos + width, width)
    OBVIOUS
  <2>1. width \in Nat
    <3>1. \A n \in 0 .. BLOOM_BITS : n \in Nat
      BY BloomAssumption
    <3>2. \A n \in 0 .. BLOOM_BITS : CONSTPOW_TWO[n] \in Nat
      BY <3>1, Doubling
    <3> QED BY <3>2 DEF Inv, TypeOK
  <2>2. width' # width
    BY <2>1
  <2>3. \E wide \in {"modulo", "zero"} : AddPairs(wide)
    BY <2>2 DEF Next, Return, vars
  <2> QED BY <2>3, Added DEF Inv
<1> QED BY <1>1, InitInv, NextInv, PTL DEF Spec, SumsDoNotOverflow
=============================================================================
