------------------------------ MODULE Induction ------------------------------
(***************************************************************************)
(* Induction on the naturals for sets, and for the loops of the models:    *)
(* functions whose value at i + 1 is computed from that at i.  And what    *)
(* follows for powers of two.                                              *)
(***************************************************************************)
EXTENDS PowersOfTwo, WellFoundedInduction, TLAPS

\* A set of naturals has a least member.
LEMMA Least ==
  ASSUME NEW S \in SUBSET Nat, S # {}
  PROVE  \E n \in S : \A m \in S : n <= m
<1>1. IsWellFoundedOn(OpToRel(<, Nat), Nat)
  BY NatLessThanWellFounded
<1>2. PICK n \in S : \A m \in S : << m, n >> \notin OpToRel(<, Nat)
  BY <1>1, WFMin
<1>3. \A m \in Nat : m < n => << m, n >> \in OpToRel(<, Nat)
  BY <1>2 DEF OpToRel
<1>4. \A m \in S : ~(m < n)
  BY <1>2, <1>3
<1> QED BY <1>4

\* Induction over a set.
LEMMA AllNat ==
  ASSUME NEW S, 0 \in S, \A n \in Nat : n \in S => n + 1 \in S
  PROVE  Nat \subseteq S
<1> SUFFICES ASSUME Nat \ S # {} PROVE FALSE
  OBVIOUS
<1>1. PICK n \in Nat \ S : \A m \in Nat \ S : n <= m
  BY Least
<1> QED BY <1>1

\* The first n + 1 values of the function that starts at z and goes on with step.
Run(n, z, step, S, g) ==
  /\ g \in [0 .. n -> S]
  /\ g[0] = z
  /\ \A i \in 0 .. (n - 1) : g[i + 1] = step[<< i, g[i] >>]

\* All of its values.
Values(z, step, S, g) ==
  /\ g \in [Nat -> S]
  /\ g[0] = z
  /\ \A i \in Nat : g[i + 1] = step[<< i, g[i] >>]

\* That function exists.
LEMMA Iterate ==
  ASSUME NEW S, NEW z, z \in S, NEW step, step \in [Nat \X S -> S]
  PROVE  \E g : Values(z, step, S, g)
<1> DEFINE A == {n \in Nat : \E g : Run(n, z, step, S, g)}
           c == [n \in Nat |-> CHOOSE g : Run(n, z, step, S, g)]
           G == [n \in Nat |-> c[n][n]]
<1>1. 0 \in A
  <2>1. Run(0, z, step, S, [i \in 0 .. 0 |-> z])
    BY DEF Run
  <2> QED BY <2>1
<1>2. ASSUME NEW n \in Nat, n \in A
      PROVE  n + 1 \in A
  <2>1. PICK g : Run(n, z, step, S, g)
    BY <1>2
  <2> DEFINE h == [i \in 0 .. (n + 1) |-> IF i <= n THEN g[i] ELSE step[<< n, g[n] >>]]
  <2>2. g[n] \in S
    BY <2>1 DEF Run
  <2>3. step[<< n, g[n] >>] \in S
    BY <2>2
  <2>4. h \in [0 .. (n + 1) -> S] /\ h[0] = z
    BY <2>1, <2>3 DEF Run
  <2>5. ASSUME NEW i \in 0 .. n
        PROVE  h[i + 1] = step[<< i, h[i] >>]
    <3>1. CASE i = n
      <4>1. h[i] = g[n] /\ h[i + 1] = step[<< n, g[n] >>]
        BY <3>1
      <4> QED BY <3>1, <4>1
    <3>2. CASE i < n
      <4>1. i \in 0 .. (n - 1) /\ h[i] = g[i] /\ h[i + 1] = g[i + 1]
        BY <3>2
      <4> QED BY <4>1, <2>1 DEF Run
    <3> QED BY <3>1, <3>2
  <2> HIDE DEF h
  <2>6. (n + 1) - 1 = n
    OBVIOUS
  <2>7. Run(n + 1, z, step, S, h)
    BY <2>4, <2>5, <2>6 DEF Run
  <2> QED BY <2>7
<1>3. Nat \subseteq A
  BY <1>1, <1>2, AllNat
<1>4. ASSUME NEW m \in Nat, NEW n \in Nat, NEW g, NEW h,
             Run(m, z, step, S, g), Run(n, z, step, S, h)
      PROVE  \A i \in Nat : i <= m /\ i <= n => g[i] = h[i]
  <2> DEFINE E == {i \in Nat : i <= m /\ i <= n => g[i] = h[i]}
  <2>1. 0 \in E
    BY <1>4 DEF Run
  <2>2. ASSUME NEW i \in Nat, i \in E
        PROVE  i + 1 \in E
    <3> SUFFICES ASSUME i + 1 <= m, i + 1 <= n PROVE g[i + 1] = h[i + 1]
      OBVIOUS
    <3>1. i \in 0 .. (m - 1) /\ i \in 0 .. (n - 1) /\ g[i] = h[i]
      BY <2>2
    <3> QED BY <3>1, <1>4 DEF Run
  <2>3. Nat \subseteq E
    BY <2>1, <2>2, AllNat
  <2> QED BY <2>3
<1>5. \A n \in Nat : Run(n, z, step, S, c[n])
  BY <1>3
<1> HIDE DEF c
<1>6. \A n \in Nat : G[n] \in S
  BY <1>5 DEF Run
<1>7. G[0] = z
  BY <1>5 DEF Run
<1>8. ASSUME NEW i \in Nat
      PROVE  G[i + 1] = step[<< i, G[i] >>]
  <2>1. Run(i, z, step, S, c[i]) /\ Run(i + 1, z, step, S, c[i + 1])
    BY <1>5
  <2>2. c[i][i] = c[i + 1][i]
    BY <2>1, <1>4
  <2>3. i \in 0 .. ((i + 1) - 1)
    OBVIOUS
  <2>4. c[i + 1][i + 1] = step[<< i, c[i + 1][i] >>]
    BY <2>1, <2>3 DEF Run
  <2> QED BY <2>2, <2>4
<1>9. Values(z, step, S, G)
  BY <1>6, <1>7, <1>8 DEF Values
<1> QED BY <1>9

\* The function that goes on for n steps only exists, too.
LEMMA IterateTo ==
  ASSUME NEW n \in Nat, NEW S, NEW z, z \in S,
         NEW step, step \in [(0 .. (n - 1)) \X S -> S]
  PROVE  \E g : Run(n, z, step, S, g)
<1> DEFINE on == [x \in Nat \X S |-> IF x[1] < n THEN step[x] ELSE x[2]]
<1>1. \A i \in Nat, v \in S : on[<< i, v >>] \in S
  <2> TAKE i \in Nat, v \in S
  <2>1. CASE i < n
    <3>1. << i, v >> \in (0 .. (n - 1)) \X S
      BY <2>1
    <3>2. step[<< i, v >>] \in S
      BY <3>1
    <3> QED BY <2>1, <3>2
  <2>2. CASE ~(i < n)
    BY <2>2
  <2> QED BY <2>1, <2>2
<1>2. on \in [Nat \X S -> S]
  <2>1. \A x \in Nat \X S : on[x] \in S
    <3> TAKE x \in Nat \X S
    <3>1. x = << x[1], x[2] >> /\ x[1] \in Nat /\ x[2] \in S
      OBVIOUS
    <3> HIDE DEF on
    <3> QED BY <3>1, <1>1
  <2> QED BY <2>1
<1>3. \A i \in 0 .. (n - 1), v \in S : on[<< i, v >>] = step[<< i, v >>]
  OBVIOUS
<1> HIDE DEF on
<1>4. PICK g : Values(z, on, S, g)
  BY <1>2, Iterate
<1> DEFINE h == [i \in 0 .. n |-> g[i]]
<1>5. h \in [0 .. n -> S] /\ h[0] = z
  BY <1>4 DEF Values
<1>6. ASSUME NEW i \in 0 .. (n - 1)
      PROVE  h[i + 1] = step[<< i, h[i] >>]
  <2>1. h[i + 1] = g[i + 1] /\ h[i] = g[i] /\ g[i] \in S
    BY <1>4 DEF Values
  <2>2. g[i + 1] = on[<< i, g[i] >>]
    BY <1>4 DEF Values
  <2> QED BY <2>1, <2>2, <1>3
<1> HIDE DEF h
<1>7. Run(n, z, step, S, h)
  BY <1>5, <1>6 DEF Run
<1> QED BY <1>7

-----------------------------------------------------------------------------
(* Powers of two, and quotients. *)

\* CONSTPOW_TWO doubles with each step.
LEMMA Doubling ==
  /\ CONSTPOW_TWO[0] = 1
  /\ \A n \in Nat : /\ CONSTPOW_TWO[n] \in Nat \ {0}
                    /\ CONSTPOW_TWO[n + 1] = 2 * CONSTPOW_TWO[n]
<1> DEFINE pow  == CHOOSE f : f = [n \in Nat |-> IF n = 0 THEN 1 ELSE 2 * f[n - 1]]
           N    == Nat \ {0}
           step == [x \in Nat \X N |-> 2 * x[2]]
<1>1. CONSTPOW_TWO = pow
  BY DEF CONSTPOW_TWO
<1>2. PICK g : Values(1, step, N, g)
  <2>1. 1 \in N /\ step \in [Nat \X N -> N]
    OBVIOUS
  <2> HIDE DEF step, N
  <2> QED BY <2>1, Iterate
<1>3. g \in [Nat -> N] /\ g[0] = 1 /\ \A i \in Nat : g[i + 1] = 2 * g[i]
  BY <1>2 DEF Values
<1>4. g = [n \in Nat |-> IF n = 0 THEN 1 ELSE 2 * g[n - 1]]
  <2>1. ASSUME NEW n \in Nat, n # 0
        PROVE  g[n] = 2 * g[n - 1]
    <3>1. n - 1 \in Nat /\ (n - 1) + 1 = n
      BY <2>1
    <3> QED BY <3>1, <1>3
  <2> QED BY <1>3, <2>1
<1>5. pow = [n \in Nat |-> IF n = 0 THEN 1 ELSE 2 * pow[n - 1]]
  BY <1>4, Zenon
<1> HIDE DEF pow
<1>6. pow[0] = 1
  BY <1>5
<1>7. ASSUME NEW n \in Nat
      PROVE  pow[n + 1] = 2 * pow[n]
  <2>1. n + 1 \in Nat /\ n + 1 # 0 /\ (n + 1) - 1 = n
    OBVIOUS
  <2> QED BY <1>5, <2>1
<1> DEFINE A == {n \in Nat : pow[n] \in N}
<1>8. 0 \in A
  BY <1>6
<1>9. \A n \in Nat : n \in A => n + 1 \in A
  BY <1>7
<1>10. Nat \subseteq A
  <2> HIDE DEF A
  <2> QED BY <1>8, <1>9, AllNat
<1> QED BY <1>1, <1>6, <1>7, <1>10

\* Exponents add up.
LEMMA PowerOfSum ==
  ASSUME NEW a \in Nat, NEW b \in Nat
  PROVE  CONSTPOW_TWO[a + b] = CONSTPOW_TWO[a] * CONSTPOW_TWO[b]
<1> DEFINE A == {n \in Nat : CONSTPOW_TWO[a + n] = CONSTPOW_TWO[a] * CONSTPOW_TWO[n]}
<1>1. 0 \in A
  <2>1. a + 0 = a
    OBVIOUS
  <2> QED BY <2>1, Doubling
<1>2. ASSUME NEW n \in Nat, n \in A
      PROVE  n + 1 \in A
  <2>1. a + (n + 1) = (a + n) + 1 /\ a + n \in Nat
    OBVIOUS
  <2>2. CONSTPOW_TWO[a + (n + 1)] = 2 * (CONSTPOW_TWO[a] * CONSTPOW_TWO[n])
    BY <2>1, <1>2, Doubling
  <2>3. CONSTPOW_TWO[n + 1] = 2 * CONSTPOW_TWO[n]
    BY Doubling
  <2>4. CONSTPOW_TWO[a] \in Nat /\ CONSTPOW_TWO[n] \in Nat
    BY Doubling
  <2>5. \A x, y \in Nat : 2 * (x * y) = x * (2 * y)
    OBVIOUS
  <2> QED BY <2>2, <2>3, <2>4, <2>5
<1> QED BY <1>1, <1>2, AllNat

\* A larger exponent makes no smaller power.
LEMMA PowerGrows ==
  ASSUME NEW a \in Nat, NEW b \in Nat, a <= b
  PROVE  CONSTPOW_TWO[a] <= CONSTPOW_TWO[b]
<1>1. b - a \in Nat /\ a + (b - a) = b
  OBVIOUS
<1>2. CONSTPOW_TWO[b] = CONSTPOW_TWO[a] * CONSTPOW_TWO[b - a]
  BY <1>1, PowerOfSum
<1>3. CONSTPOW_TWO[a] \in Nat /\ CONSTPOW_TWO[b - a] \in Nat \ {0}
  BY <1>1, Doubling
<1>4. \A x \in Nat, y \in Nat \ {0} : x <= x * y
  OBVIOUS
<1> QED BY <1>2, <1>3, <1>4

\* The quotient of naturals, as the number of times one goes into the other.
LEMMA Quotient ==
  ASSUME NEW n \in Nat, NEW w \in Nat \ {0}
  PROVE  /\ n \div w \in Nat
         /\ \A q \in Nat : n \div w = q <=> q * w <= n /\ n < q * w + w
<1>1. n \div w \in Nat
  OBVIOUS
<1>2. (n \div w) * w <= n /\ n < (n \div w) * w + w
  <2>1. w * (n \div w) <= n /\ n < w * (n \div w) + w
    OBVIOUS
  <2> QED BY <1>1, <2>1
<1>3. ASSUME NEW q \in Nat, q * w <= n, n < q * w + w
      PROVE  n \div w = q
  BY <1>3
<1> QED BY <1>1, <1>2, <1>3

\* Quotient and remainder, as a loop that divides takes them.
LEMMA Divide ==
  ASSUME NEW n \in Nat, NEW b \in Nat \ {0}
  PROVE  n \div b \in Nat /\ n % b \in 0 .. (b - 1)
OBVIOUS

\* A number that is divided over and over stays a natural number.
LEMMA Divided ==
  ASSUME NEW n \in Nat, NEW b \in Nat \ {0},
         NEW f, f = CHOOSE g : g = [i \in Nat |-> IF i = 0 THEN n ELSE g[i - 1] \div b]
  PROVE  f[0] = n /\ \A i \in Nat : f[i] \in Nat /\ f[i + 1] = f[i] \div b
<1> DEFINE step == [x \in Nat \X Nat |-> x[2] \div b]
<1>1. PICK g : Values(n, step, Nat, g)
  <2>1. step \in [Nat \X Nat -> Nat]
    BY Divide
  <2> HIDE DEF step
  <2> QED BY <2>1, Iterate
<1>2. g \in [Nat -> Nat] /\ g[0] = n /\ \A i \in Nat : g[i + 1] = g[i] \div b
  BY <1>1 DEF Values
<1>3. g = [i \in Nat |-> IF i = 0 THEN n ELSE g[i - 1] \div b]
  <2>1. ASSUME NEW i \in Nat, i # 0
        PROVE  g[i] = g[i - 1] \div b
    <3>1. i - 1 \in Nat /\ (i - 1) + 1 = i
      BY <2>1
    <3> QED BY <3>1, <1>2
  <2> QED BY <1>2, <2>1
<1>4. f = [i \in Nat |-> IF i = 0 THEN n ELSE f[i - 1] \div b]
  BY <1>3, Zenon
<1>5. f[0] = n
  BY <1>4
<1>6. ASSUME NEW i \in Nat
      PROVE  f[i + 1] = f[i] \div b
  <2>1. i + 1 \in Nat /\ i + 1 # 0 /\ (i + 1) - 1 = i
    OBVIOUS
  <2> QED BY <1>4, <2>1
<1> DEFINE A == {i \in Nat : f[i] \in Nat}
<1>7. 0 \in A
  BY <1>5
<1>8. ASSUME NEW i \in Nat, i \in A
      PROVE  i + 1 \in A
  <2>1. f[i] \in Nat
    BY <1>8
  <2>2. f[i] \div b \in Nat
    BY <2>1, Divide
  <2>3. f[i + 1] \in Nat
    BY <1>6, <2>2, Zenon
  <2>4. i + 1 \in Nat
    OBVIOUS
  <2> QED BY <2>3, <2>4, Zenon
<1>9. Nat \subseteq A
  <2> HIDE DEF A
  <2> QED BY <1>7, <1>8, AllNat
<1> QED BY <1>5, <1>6, <1>9

\* A larger number has no smaller quotient.
LEMMA QuotientGrows ==
  ASSUME NEW m \in Nat, NEW n \in Nat, m <= n, NEW w \in Nat \ {0}
  PROVE  m \div w <= n \div w
<1> DEFINE p == m \div w
           q == n \div w
<1>1. p \in Nat /\ q \in Nat /\ p * w <= m /\ n < q * w + w
  BY Quotient
<1> HIDE DEF p, q
<1> SUFFICES ASSUME q < p PROVE FALSE
  BY <1>1 DEF p, q
<1>2. (q + 1) * w <= p * w
  BY <1>1
<1> QED BY <1>1, <1>2

\* Divided twice is divided by the product.
LEMMA QuotientOfQuotient ==
  ASSUME NEW n \in Nat, NEW v \in Nat \ {0}, NEW w \in Nat \ {0}
  PROVE  (n \div v) \div w = n \div (v * w)
<1> DEFINE p == n \div v
           q == p \div w
<1>1. p \in Nat /\ p * v <= n /\ n < p * v + v
  BY Quotient
<1>2. q \in Nat /\ q * w <= p /\ p < q * w + w
  BY <1>1, Quotient
<1>3. v * w \in Nat \ {0}
  OBVIOUS
<1> HIDE DEF p, q
<1>4. (q * w) * v <= p * v
  BY <1>1, <1>2
<1>5. (p + 1) * v <= (q * w + w) * v
  BY <1>1, <1>2
<1>6. q * (v * w) <= n
  BY <1>1, <1>2, <1>4
<1>7. n < q * (v * w) + v * w
  BY <1>1, <1>2, <1>5
<1>8. n \div (v * w) = q
  BY <1>2, <1>3, <1>6, <1>7, Quotient
<1> QED BY <1>8 DEF p, q
=============================================================================
