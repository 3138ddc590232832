---------------------------- MODULE AvlHeapSteps ----------------------------
(***************************************************************************)
(* What the proofs about AvlHeap rest on: the operators that compute the   *)
(* fields of a node, the shape of a tree in memory and what the ways      *)
(* in which avl/ relinks nodes do to it, the inductive invariant, and that *)
(* it is kept by the steps that do not relink nodes: those that leave the  *)
(* slots of the tree as they are, and those of avl_destroy().              *)
(*                                                                         *)
(* No recursion is needed to say that the nodes T make up a tree: sub[t],  *)
(* the set of the nodes below slot t, satisfies one equation for each slot *)
(* and is T for the root.  That the hashes are in order keeps a node from  *)
(* being below itself.                                                     *)
(*                                                                         *)
(* The inductive invariant says that the nodes not being moved make up a   *)
(* search tree (Shape), which frames may be on the stack and what part of  *)
(* the tree each of them works on (Stacked), and what the running function *)
(* may rely on: where a node fits, what was cut out, what was freed.       *)
(***************************************************************************)
EXTENDS AvlHeap, Induction, FiniteSetTheorems, WellFoundedInduction, TLAPS

-----------------------------------------------------------------------------
(* Lists: an operation leaves a list of the kind it was given. *)

\* A list without its element at p.
Without(s, p) == SubSeq(s, 1, p - 1) \o SubSeq(s, p + 1, Len(s))

\* Without, element by element.
LEMMA WithoutIs ==
  ASSUME NEW K, NEW s \in Seq(K), NEW p \in 1 .. Len(s)
  PROVE  /\ Without(s, p) \in Seq(K) /\ Len(Without(s, p)) = Len(s) - 1
         /\ \A i \in 1 .. (Len(s) - 1) : Without(s, p)[i] = IF i < p THEN s[i] ELSE s[i + 1]
<1>1. Len(s) \in Nat
  OBVIOUS
<1>2. /\ SubSeq(s, 1, p - 1) \in Seq(K) /\ Len(SubSeq(s, 1, p - 1)) = p - 1
      /\ \A i \in 1 .. (p - 1) : SubSeq(s, 1, p - 1)[i] = s[i]
  BY <1>1
<1>3. /\ SubSeq(s, p + 1, Len(s)) \in Seq(K) /\ Len(SubSeq(s, p + 1, Len(s))) = Len(s) - p
      /\ \A i \in 1 .. (Len(s) - p) : SubSeq(s, p + 1, Len(s))[i] = s[i + p]
  BY <1>1
<1> DEFINE a == SubSeq(s, 1, p - 1)
           b == SubSeq(s, p + 1, Len(s))
<1> HIDE DEF a, b
<1>4. a \o b \in Seq(K) /\ Len(a \o b) = Len(s) - 1
  <2>1. a \in Seq(K) /\ b \in Seq(K) /\ Len(a) = p - 1 /\ Len(b) = Len(s) - p
    BY <1>2, <1>3 DEF a, b
  <2>2. a \o b \in Seq(K) /\ Len(a \o b) = Len(a) + Len(b)
    BY <2>1
  <2> QED BY <1>1, <2>1, <2>2
<1>5. ASSUME NEW i \in 1 .. (Len(s) - 1)
      PROVE  (a \o b)[i] = IF i < p THEN s[i] ELSE s[i + 1]
  <2>0. a \in Seq(K) /\ b \in Seq(K) /\ Len(a) = p - 1 /\ Len(b) = Len(s) - p
    BY <1>2, <1>3 DEF a, b
  <2>1. CASE i < p
    <3>1. i \in 1 .. (p - 1)
      BY <2>1
    <3>2. (a \o b)[i] = a[i]
      BY <2>0, <3>1
    <3> QED BY <1>2, <2>1, <3>1, <3>2 DEF a
  <2>2. CASE ~(i < p)
    <3>1. i - (p - 1) \in 1 .. (Len(s) - p) /\ (i - (p - 1)) + p = i + 1
      BY <1>1, <2>2
    <3>2. (a \o b)[i] = b[i - (p - 1)]
      BY <1>1, <2>0, <2>2
    <3> QED BY <1>3, <2>2, <3>1, <3>2 DEF b
  <2> QED BY <2>1, <2>2
<1> QED BY <1>4, <1>5 DEF Without, a, b

\* Taking the first occurrence of an element out of a list, if there is one.
LEMMA RemoveFirstIs ==
  ASSUME NEW K, NEW s \in Seq(K), NEW d
  PROVE  \/ \E p \in 1 .. Len(s) : s[p] = d /\ RemoveFirst(s, d) = Without(s, p)
         \/ (\A i \in 1 .. Len(s) : s[i] # d) /\ RemoveFirst(s, d) = s
<1> DEFINE I == {i \in 1 .. Len(s) : s[i] = d}
<1>1. RemoveFirst(s, d) = IF \E i \in 1 .. Len(s) : s[i] = d
                          THEN RemoveAt(s, IF I # {} THEN Min(I) ELSE 0) ELSE s
  BY Zenon DEF RemoveFirst, SelectInSeq
<1>2. CASE I # {}
  <2>1. I \in SUBSET Nat /\ I # {}
    BY <1>2
  <2> HIDE DEF I
  <2>2. PICK n \in I : \A m \in I : n <= m
    BY <2>1, Least
  <2>3. Min(I) \in I
    BY <2>2 DEF Min
  <2>4. Min(I) \in 1 .. Len(s) /\ s[Min(I)] = d
    BY <2>3 DEF I
  <2>5. RemoveFirst(s, d) = Without(s, Min(I))
    BY <1>1, <1>2 DEF RemoveAt, I, Without
  <2> QED BY <2>4, <2>5
<1>3. CASE I = {}
  BY <1>1, <1>3
<1> QED BY <1>2, <1>3

\* What is left is a list of the same kind.
LEMMA RemoveFirstKeeps ==
  ASSUME NEW K, NEW s \in Seq(K), NEW d
  PROVE  RemoveFirst(s, d) \in Seq(K)
BY RemoveFirstIs, WithoutIs

\* A list without duplicates loses the element, and keeps the others.
LEMMA RemoveFirstTakes ==
  ASSUME NEW K, NEW s \in Seq(K), IsInjective(s), NEW d, NEW r, r = RemoveFirst(s, d)
  PROVE  IsInjective(r) /\ ToSet(r) = ToSet(s) \ {d}
<1>1. ASSUME \A i \in 1 .. Len(s) : s[i] # d, r = s
      PROVE  IsInjective(r) /\ ToSet(r) = ToSet(s) \ {d}
  <2>1. DOMAIN s = 1 .. Len(s)
    OBVIOUS
  <2> QED BY <1>1, <2>1 DEF ToSet
<1>2. ASSUME NEW p \in 1 .. Len(s), s[p] = d, r = Without(s, p)
      PROVE  IsInjective(r) /\ ToSet(r) = ToSet(s) \ {d}
  <2>1. /\ Len(s) \in Nat /\ DOMAIN s = 1 .. Len(s) /\ DOMAIN r = 1 .. (Len(s) - 1)
        /\ \A i \in 1 .. (Len(s) - 1) : r[i] = IF i < p THEN s[i] ELSE s[i + 1]
    <3>1. DOMAIN r = 1 .. Len(r) /\ DOMAIN s = 1 .. Len(s) /\ Len(s) \in Nat
      BY <1>2, WithoutIs
    <3> QED BY <1>2, <3>1, WithoutIs
  <2>2. \A i, j \in 1 .. Len(s) : s[i] = s[j] => i = j
    BY <2>1 DEF IsInjective
  <2>3. IsInjective(r)
    <3> SUFFICES ASSUME NEW i \in 1 .. (Len(s) - 1), NEW j \in 1 .. (Len(s) - 1), r[i] = r[j]
                 PROVE  i = j
      BY <2>1 DEF IsInjective
    <3>1. /\ i \in 1 .. Len(s) /\ i + 1 \in 1 .. Len(s)
          /\ j \in 1 .. Len(s) /\ j + 1 \in 1 .. Len(s)
      BY <2>1
    <3>2. CASE i < p /\ j < p
      BY <2>1, <2>2, <3>1, <3>2
    <3>3. CASE i < p /\ ~(j < p)
      <4>1. s[i] = s[j + 1]
        BY <2>1, <3>3
      <4> QED BY <2>2, <3>1, <3>3, <4>1
    <3>4. CASE ~(i < p) /\ j < p
      <4>1. s[i + 1] = s[j]
        BY <2>1, <3>4
      <4> QED BY <2>2, <3>1, <3>4, <4>1
    <3>5. CASE ~(i < p) /\ ~(j < p)
      <4>1. s[i + 1] = s[j + 1]
        BY <2>1, <3>5
      <4>2. i + 1 = j + 1
        BY <2>2, <3>1, <4>1
      <4> QED BY <4>2
    <3> QED BY <3>2, <3>3, <3>4, <3>5
  <2>4. ASSUME NEW i \in 1 .. (Len(s) - 1)
        PROVE  r[i] \in ToSet(s) \ {d}
    <3>1. CASE i < p
      <4>1. i \in 1 .. Len(s) /\ r[i] = s[i] /\ i # p
        BY <2>1, <3>1
      <4> QED BY <1>2, <2>1, <2>2, <4>1 DEF ToSet
    <3>2. CASE ~(i < p)
      <4>1. i + 1 \in 1 .. Len(s) /\ r[i] = s[i + 1] /\ i + 1 # p
        BY <2>1, <3>2
      <4> QED BY <1>2, <2>1, <2>2, <4>1 DEF ToSet
    <3> QED BY <3>1, <3>2
  <2>5. ASSUME NEW i \in 1 .. Len(s), s[i] # d
        PROVE  \E j \in 1 .. (Len(s) - 1) : r[j] = s[i]
    <3>1. CASE i < p
      <4>1. i \in 1 .. (Len(s) - 1) /\ r[i] = s[i]
        BY <2>1, <3>1
      <4> QED BY <4>1
    <3>2. CASE ~(i < p)
      <4>1. i # p
        BY <1>2, <2>5
      <4>2. i - 1 \in 1 .. (Len(s) - 1) /\ ~(i - 1 < p) /\ (i - 1) + 1 = i
        BY <2>1, <3>2, <4>1
      <4>3. r[i - 1] = s[i]
        BY <2>1, <4>2
      <4> QED BY <4>2, <4>3
    <3> QED BY <3>1, <3>2
  <2>6. ToSet(r) = {r[i] : i \in 1 .. (Len(s) - 1)} /\ ToSet(s) = {s[i] : i \in 1 .. Len(s)}
    BY <2>1 DEF ToSet
  <2>7. ToSet(r) \subseteq ToSet(s) \ {d}
    BY <2>4, <2>6
  <2>8. ToSet(s) \ {d} \subseteq ToSet(r)
    BY <2>5, <2>6
  <2> QED BY <2>3, <2>7, <2>8
<1> QED BY <1>1, <1>2, RemoveFirstIs

\* The loop of ll_ndel(): kept[i] is what it leaves of the first i elements.
Keeps(ll, P, kept) ==
  /\ kept[0] = << >>
  /\ \A i \in Nat : kept[i + 1] = IF ll[i + 1] \in P THEN kept[i]
                                                    ELSE Append(kept[i], ll[i + 1])

\* ll_ndel() is that loop.
LEMMA NdelLoop ==
  ASSUME NEW K, NEW ll \in Seq(K), NEW P
  PROVE  \E kept : /\ Keeps(ll, P, kept)
                   /\ ll_ndel(ll, P) = [ret |-> Len(ll) - Len(kept[Len(ll)]),
                                        ll  |-> kept[Len(ll)]]
<1> DEFINE next(i, q) == IF ll[i + 1] \in P THEN q ELSE Append(q, ll[i + 1])
           L    == K \cup {ll[i] : i \in Nat}
           step == [x \in Nat \X Seq(L) |-> next(x[1], x[2])]
           kept == CHOOSE f : f = [i \in Nat |->
                                     IF i = 0           THEN << >>
                                     ELSE IF ll[i] \in P THEN f[i - 1]
                                                        ELSE Append(f[i - 1], ll[i])]
<1>1. ll_ndel(ll, P) = [ret |-> Len(ll) - Len(kept[Len(ll)]), ll |-> kept[Len(ll)]]
  BY DEF ll_ndel
<1>2. PICK g : Values(<< >>, step, Seq(L), g)
  <2>1. << >> \in Seq(L)
    OBVIOUS
  <2>2. \A i \in Nat, q \in Seq(L) : next(i, q) \in Seq(L)
    <3>1. \A i \in Nat : ll[i + 1] \in L
      OBVIOUS
    <3> HIDE DEF L
    <3> QED BY <3>1
  <2> HIDE DEF L, next
  <2>3. step \in [Nat \X Seq(L) -> Seq(L)]
    BY <2>2
  <2> DEFINE SL == Seq(L)
  <2>4. << >> \in SL /\ step \in [Nat \X SL -> SL]
    BY <2>1, <2>3
  <2> HIDE DEF step, SL
  <2>5. \E g : Values(<< >>, step, SL, g)
    BY <2>4, Iterate
  <2> QED BY <2>5 DEF SL
<1>3. g \in [Nat -> Seq(L)] /\ g[0] = << >> /\ \A i \in Nat : g[i + 1] = next(i, g[i])
  <2> HIDE DEF L, next
  <2> QED BY <1>2 DEF Values
<1>4. g = [i \in Nat |-> IF i = 0           THEN << >>
                              ELSE IF ll[i] \in P THEN g[i - 1]
                                                 ELSE Append(g[i - 1], ll[i])]
  <2>1. ASSUME NEW i \in Nat, i # 0
        PROVE  g[i] = IF ll[i] \in P THEN g[i - 1] ELSE Append(g[i - 1], ll[i])
    <3>1. i - 1 \in Nat /\ (i - 1) + 1 = i
      BY <2>1
    <3>2. g[i] = next(i - 1, g[i - 1])
      BY <3>1, <1>3
    <3> QED BY <2>1, <3>1, <3>2
  <2> HIDE DEF L, next
  <2> QED BY <1>3, <2>1
<1>5. kept = [i \in Nat |-> IF i = 0           THEN << >>
                              ELSE IF ll[i] \in P THEN kept[i - 1]
                                                 ELSE Append(kept[i - 1], ll[i])]
  BY <1>4, Zenon
<1> HIDE DEF kept
<1>6. kept[0] = << >>
  BY <1>5
<1>7. ASSUME NEW i \in Nat
      PROVE  kept[i + 1] = IF ll[i + 1] \in P THEN kept[i] ELSE Append(kept[i], ll[i + 1])
  <2>1. i + 1 \in Nat /\ i + 1 # 0 /\ (i + 1) - 1 = i
    OBVIOUS
  <2> QED BY <1>5, <2>1
<1>8. Keeps(ll, P, kept)
  BY <1>6, <1>7 DEF Keeps
<1> QED BY <1>1, <1>8

\* It leaves a list of the same kind.
LEMMA NdelKeeps ==
  ASSUME NEW K, NEW ll \in Seq(K), NEW P
  PROVE  ll_ndel(ll, P).ll \in Seq(K)
<1>1. PICK kept : Keeps(ll, P, kept) /\ ll_ndel(ll, P).ll = kept[Len(ll)]
  BY NdelLoop
<1> DEFINE S == {i \in Nat : i <= Len(ll) => kept[i] \in Seq(K)}
<1>2. 0 \in S
  <2>1. kept[0] = << >> /\ << >> \in Seq(K)
    BY <1>1 DEF Keeps
  <2> QED BY <2>1
<1>3. ASSUME NEW i \in Nat, i \in S
      PROVE  i + 1 \in S
  <2> SUFFICES ASSUME i + 1 <= Len(ll) PROVE kept[i + 1] \in Seq(K)
    OBVIOUS
  <2>1. kept[i] \in Seq(K) /\ ll[i + 1] \in K
    BY <1>3
  <2>2. kept[i + 1] \in {kept[i], Append(kept[i], ll[i + 1])}
    BY <1>1 DEF Keeps
  <2>3. Append(kept[i], ll[i + 1]) \in Seq(K)
    BY <2>1
  <2> QED BY <2>1, <2>2, <2>3
<1> HIDE DEF S
<1>4. Len(ll) \in S
  BY <1>2, <1>3, AllNat
<1> QED BY <1>1, <1>4 DEF S

\* What is left of a list without duplicates by a walk that takes those of P away, when it
\* has got to i: q is the rest of the first i elements.
Rest(ll, P, K, i, q) ==
  LET past == {ll[j] : j \in 1 .. i}
  IN  /\ q \in Seq(K) /\ IsInjective(q) /\ ToSet(q) = past \ P
      /\ IsFiniteSet(past \cap P) /\ Cardinality(past \cap P) = i - Len(q)

\* ll_ndel() takes those elements the predicate holds of from a list without
\* duplicates, and returns how many they were.
LEMMA NdelTakes ==
  ASSUME NEW K, NEW ll \in Seq(K), IsInjective(ll), NEW P, NEW r, r = ll_ndel(ll, P)
  PROVE  /\ IsInjective(r.ll) /\ ToSet(r.ll) = ToSet(ll) \ P
         /\ IsFiniteSet(ToSet(ll) \cap P) /\ r.ret = Cardinality(ToSet(ll) \cap P)
<1>1. PICK kept : /\ Keeps(ll, P, kept)
                  /\ r = [ret |-> Len(ll) - Len(kept[Len(ll)]), ll |-> kept[Len(ll)]]
  BY NdelLoop
<1>2. Len(ll) \in Nat /\ DOMAIN ll = 1 .. Len(ll) /\ \A i \in 1 .. Len(ll) : ll[i] \in K
  OBVIOUS
<1> DEFINE S == {i \in Nat : i <= Len(ll) => Rest(ll, P, K, i, kept[i])}
<1>3. 0 \in S
  <2>1. {ll[j] : j \in 1 .. 0} = {}
    OBVIOUS
  <2>2. kept[0] = << >>
    BY <1>1 DEF Keeps
  <2>3. IsFiniteSet({}) /\ Cardinality({}) = 0
    BY FS_EmptySet
  <2>4. << >> \in Seq(K) /\ DOMAIN << >> = {} /\ Len(<< >>) = 0
    OBVIOUS
  <2>5. IsInjective(<< >>) /\ ToSet(<< >>) = {}
    BY <2>4 DEF IsInjective, ToSet
  <2>6. {} \ P = {} /\ {} \cap P = {}
    OBVIOUS
  <2>7. Rest(ll, P, K, 0, << >>)
    <3>1. \A z : z = 0 => 0 - z = 0
      OBVIOUS
    <3>2. 0 - Len(<< >>) = 0
      BY <2>4, <3>1, Zenon
    <3> QED BY <2>1, <2>3, <2>4, <2>5, <2>6, <3>2 DEF Rest
  <2> QED BY <2>2, <2>7
<1>4. ASSUME NEW i \in Nat, i \in S
      PROVE  i + 1 \in S
  <2> SUFFICES ASSUME i + 1 <= Len(ll) PROVE Rest(ll, P, K, i + 1, kept[i + 1])
    OBVIOUS
  <2> DEFINE past == {ll[j] : j \in 1 .. i}
             more == {ll[j] : j \in 1 .. (i + 1)}
  <2>a. PICK q, d : q = kept[i] /\ d = ll[i + 1]
    OBVIOUS
  <2>1. /\ q \in Seq(K) /\ IsInjective(q) /\ ToSet(q) = past \ P
        /\ IsFiniteSet(past \cap P) /\ Cardinality(past \cap P) = i - Len(q)
    BY <1>2, <1>4, <2>a DEF Rest
  <2>2. d \in K /\ d \notin past
    <3>1. i + 1 \in 1 .. Len(ll)
      BY <1>2
    <3>2. \A j \in 1 .. i : j \in 1 .. Len(ll) /\ j # i + 1
      BY <1>2
    <3> QED BY <1>2, <2>a, <3>1, <3>2 DEF IsInjective
  <2>3. more = past \cup {d}
    <3>1. 1 .. (i + 1) = (1 .. i) \cup {i + 1}
      OBVIOUS
    <3> QED BY <2>a, <3>1
  <2> HIDE DEF past, more
  <2>4. CASE d \in P
    <3>1. kept[i + 1] = q
      BY <1>1, <2>a, <2>4 DEF Keeps
    <3>2. more \ P = past \ P /\ more \cap P = (past \cap P) \cup {d} /\ d \notin past \cap P
      BY <2>2, <2>3, <2>4
    <3>3. IsFiniteSet(more \cap P) /\ Cardinality(more \cap P) = Cardinality(past \cap P) + 1
      BY <2>1, <3>2, FS_AddElement
    <3>4. Cardinality(more \cap P) = (i + 1) - Len(q)
      <4>1. Len(q) \in Nat
        BY <2>1
      <4> QED BY <2>1, <3>3, <4>1
    <3> QED BY <2>1, <3>1, <3>2, <3>3, <3>4 DEF Rest, more
  <2>5. CASE d \notin P
    <3>1. kept[i + 1] = Append(q, d)
      BY <1>1, <2>a, <2>5 DEF Keeps
    <3>2. more \ P = (past \ P) \cup {d} /\ more \cap P = past \cap P
      BY <2>2, <2>3, <2>5
    <3>3. /\ Len(q) \in Nat /\ Append(q, d) \in Seq(K) /\ Len(Append(q, d)) = Len(q) + 1
          /\ DOMAIN q = 1 .. Len(q) /\ DOMAIN Append(q, d) = 1 .. (Len(q) + 1)
          /\ \A j \in 1 .. Len(q) : Append(q, d)[j] = q[j]
          /\ Append(q, d)[Len(q) + 1] = d
      BY <2>1, <2>2
    <3>4. \A j \in 1 .. Len(q) : q[j] \in past /\ q[j] # d
      BY <2>1, <2>2, <3>3 DEF ToSet
    <3>5. 1 .. (Len(q) + 1) = (1 .. Len(q)) \cup {Len(q) + 1}
      BY <3>3
    <3>6. IsInjective(Append(q, d))
      BY <2>1, <3>3, <3>4, <3>5 DEF IsInjective
    <3>7. ToSet(Append(q, d)) = ToSet(q) \cup {d}
      BY <3>3, <3>5 DEF ToSet
    <3>8. Cardinality(more \cap P) = (i + 1) - Len(Append(q, d))
      <4>1. \A n \in Nat : i - n = (i + 1) - (n + 1)
        OBVIOUS
      <4> QED BY <2>1, <3>2, <3>3, <4>1
    <3> QED BY <2>1, <3>1, <3>2, <3>3, <3>6, <3>7, <3>8 DEF Rest, more
  <2> QED BY <2>4, <2>5
<1> HIDE DEF S
<1>5. Len(ll) \in S
  BY <1>2, <1>3, <1>4, AllNat
<1>6. Rest(ll, P, K, Len(ll), kept[Len(ll)])
  BY <1>2, <1>5 DEF S
<1>7. ToSet(ll) = {ll[j] : j \in 1 .. Len(ll)}
  BY <1>2 DEF ToSet
<1> QED BY <1>1, <1>6, <1>7 DEF Rest

\* ll_insert(), ll_delete() and ll_ndel() leave a list whose elements belong to the same
\* set as before.
LEMMA ListsKeep ==
  ASSUME NEW K, NEW ll \in Seq(K)
  PROVE  /\ \A d \in K, nomem \in BOOLEAN : ll_insert(ll, d, nomem).ll \in Seq(K)
         /\ \A d : ll_delete(ll, d).ll \in Seq(K)
         /\ \A P : ll_ndel(ll, P).ll \in Seq(K)
<1>1. \A d \in K, nomem \in BOOLEAN : ll_insert(ll, d, nomem).ll \in Seq(K)
  BY DEF ll_insert
<1>2. ASSUME NEW d
      PROVE  ll_delete(ll, d).ll \in Seq(K)
  BY RemoveFirstKeeps DEF ll_delete
<1> QED BY <1>1, <1>2, NdelKeeps

\* What ll_insert() and ll_delete() do to a list without duplicates, and return.
LEMMA InsertTakes ==
  ASSUME NEW K, NEW ll \in Seq(K), IsInjective(ll), NEW d \in K, NEW nomem \in BOOLEAN,
         NEW r, r = ll_insert(ll, d, nomem)
  PROVE  /\ IsInjective(r.ll)
         /\ \/ d \in ToSet(ll) /\ r.ret = EEXIST /\ r.ll = ll
            \/ d \notin ToSet(ll) /\ r.ret = ENOMEM /\ r.ll = ll
            \/ d \notin ToSet(ll) /\ r.ret = OK /\ ToSet(r.ll) = ToSet(ll) \cup {d}
<1>1. Len(ll) \in Nat /\ DOMAIN ll = 1 .. Len(ll)
  OBVIOUS
<1>2. Contains(ll, d) <=> d \in ToSet(ll)
  BY <1>1 DEF Contains, ToSet
<1>3. CASE Contains(ll, d) \/ nomem
  BY <1>2, <1>3 DEF ll_insert
<1>4. CASE ~Contains(ll, d) /\ ~nomem
  <2>1. r.ret = OK /\ r.ll = Append(ll, d)
    BY <1>4 DEF ll_insert
  <2>2. /\ DOMAIN Append(ll, d) = 1 .. (Len(ll) + 1)
        /\ \A j \in 1 .. Len(ll) : Append(ll, d)[j] = ll[j]
        /\ Append(ll, d)[Len(ll) + 1] = d
    BY <1>1
  <2>3. 1 .. (Len(ll) + 1) = (1 .. Len(ll)) \cup {Len(ll) + 1}
    BY <1>1
  <2>4. \A j \in 1 .. Len(ll) : ll[j] # d
    BY <1>4 DEF Contains
  <2>5. IsInjective(Append(ll, d))
    BY <1>1, <2>2, <2>3, <2>4 DEF IsInjective
  <2>6. ToSet(Append(ll, d)) = ToSet(ll) \cup {d}
    BY <1>1, <2>2, <2>3 DEF ToSet
  <2> QED BY <1>2, <1>4, <2>1, <2>5, <2>6
<1> QED BY <1>3, <1>4

\* The same of ll_delete().
LEMMA DeleteTakes ==
  ASSUME NEW K, NEW ll \in Seq(K), IsInjective(ll), NEW d, NEW r, r = ll_delete(ll, d)
  PROVE  /\ IsInjective(r.ll) /\ ToSet(r.ll) = ToSet(ll) \ {d}
         /\ r.ret = IF d \in ToSet(ll) THEN OK ELSE EEXIST
<1>1. Contains(ll, d) <=> d \in ToSet(ll)
  BY DEF Contains, ToSet
<1> QED BY <1>1, RemoveFirstTakes DEF ll_delete

-----------------------------------------------------------------------------
(* Filters and metadata. *)

\* bloom_from_hash() yields bits of a filter, whatever an oversized shift yields.
LEMMA HashBits ==
  ASSUME NEW hash \in Nat
  PROVE  bloom_from_hash(hash) \subseteq Bits
<1> DEFINE variant == CHOOSE f : f = [i \in Nat |-> IF i = 0 THEN hash
                                                    ELSE f[i - 1] \div BLOOM_BITS]
<1>1. BLOOM_BITS \in Nat \ {0} /\ HASH_VARIANTS \in Nat
  BY BloomAssumption
<1>2. bloom_from_hash(hash)
        = UNION {ShiftOne(variant[i] % BLOOM_BITS) : i \in 0 .. (HASH_VARIANTS - 1)}
  BY DEF bloom_from_hash
<1>3. \A i \in Nat : variant[i] \in Nat
  BY <1>1, Divided
<1> HIDE DEF variant
<1>4. ASSUME NEW k \in Bits
      PROVE  ShiftOne(k) \subseteq Bits
  <2>1. k < INT_BITS - 1 \/ k = INT_BITS - 1 => ShiftOne(k) \subseteq Bits
    BY BloomAssumption DEF ShiftOne, Bits
  <2>2. k > INT_BITS - 1 => k \in INT_BITS .. (BLOOM_BITS - 1)
    BY BloomAssumption DEF Bits
  <2> QED BY BloomAssumption, <2>1, <2>2 DEF ShiftOne, Bits
<1>5. ASSUME NEW i \in 0 .. (HASH_VARIANTS - 1)
      PROVE  variant[i] % BLOOM_BITS \in Bits
  <2>1. variant[i] \in Nat
    BY <1>1, <1>3
  <2> QED BY <1>1, <2>1, Divide DEF Bits
<1> QED BY <1>2, <1>4, <1>5

\* The filter of the subtree whose root is k.
Filter(e, k) == IF k = NULL THEN {} ELSE e[k].filter

\* The buffered count and filter of node a agree with those of its children.
Exact(c, e, a) ==
  /\ e[a].node_cnt = 1 + avl_node_cnt(e, c[<< a, "l" >>]) + avl_node_cnt(e, c[<< a, "r" >>])
  /\ e[a].filter = HashFilter[e[a].hash] \cup Filter(e, c[<< a, "l" >>])
                                         \cup Filter(e, c[<< a, "r" >>])

\* A node in a tree.
Linked(e, a) == /\ e[a] \in Node /\ e[a].height > 0 /\ e[a].node_cnt > 0
                /\ e[a].hash \in Range(hashf)

\* The tabulated filters are filters.
LEMMA HashFilters ==
  ASSUME NEW h \in Range(hashf)
  PROVE  h \in Nat /\ HashFilter[h] \subseteq Bits
<1>1. h \in Nat
  BY HeapAssumption DEF Range
<1>2. HashFilter[h] = bloom_from_hash(h)
  BY DEF HashFilter
<1> QED BY <1>1, <1>2, HashBits

\* One more than the greater height of the children.
LEMMA MaxHeight ==
  ASSUME NEW e, NEW k, NEW m,
         k # NULL => e[k].height \in Nat,
         m # NULL => e[m].height \in Nat
  PROVE  Max({0} \cup {e[j].height : j \in {k, m} \ {NULL}}) \in Nat
<1> DEFINE hk == IF k = NULL THEN 0 ELSE e[k].height
           hm == IF m = NULL THEN 0 ELSE e[m].height
           S  == {0} \cup {e[j].height : j \in {k, m} \ {NULL}}
<1>1. hk \in Nat /\ hm \in Nat /\ S = {0, hk, hm}
  OBVIOUS
<1> HIDE DEF hk, hm, S
<1>2. \E x \in S : \A y \in S : x >= y
  BY <1>1
<1>3. Max(S) \in S
  BY <1>2 DEF Max
<1>4. Max(S) \in Nat
  BY <1>1, <1>3
<1> QED BY <1>4 DEF S

\* regen_metadata() changes node a only, keeps its list and its hash and makes its
\* count and its filter agree with those of its children.
LEMMA Regen ==
  ASSUME NEW c, NEW e, NEW a \in Addr, DOMAIN e = Addr,
         e[a] \in Node, e[a].hash \in Range(hashf),
         \A s \in {"l", "r"} : c[<< a, s >>] # NULL => Linked(e, c[<< a, s >>])
  PROVE  LET f == regen_metadata(e, c, a)
         IN  /\ DOMAIN f = Addr
             /\ \A b \in Addr \ {a} : f[b] = e[b]
             /\ Linked(f, a) /\ f[a].ll = e[a].ll /\ f[a].hash = e[a].hash
             /\ f[a].node_cnt = 1 + avl_node_cnt(e, c[<< a, "l" >>])
                                  + avl_node_cnt(e, c[<< a, "r" >>])
             /\ f[a].filter = HashFilter[e[a].hash] \cup Filter(e, c[<< a, "l" >>])
                                                    \cup Filter(e, c[<< a, "r" >>])
<1> DEFINE k == c[<< a, "l" >>]
           m == c[<< a, "r" >>]
           H == 1 + Max({0} \cup {e[j].height : j \in {k, m} \ {NULL}})
           N == 1 + avl_node_cnt(e, k) + avl_node_cnt(e, m)
           F == HashFilter[e[a].hash] \cup UNION {e[j].filter : j \in {k, m} \ {NULL}}
           f == regen_metadata(e, c, a)
<1>1. f = [[[e EXCEPT ![a].height = H] EXCEPT ![a].node_cnt = N] EXCEPT ![a].filter = F]
  BY DEF regen_metadata
<1>2. /\ k # NULL => e[k] \in Node /\ e[k].node_cnt > 0
      /\ m # NULL => e[m] \in Node /\ e[m].node_cnt > 0
  BY DEF Linked
<1>3. H \in Nat /\ H > 0
  <2>1. /\ k # NULL => e[k].height \in Nat
        /\ m # NULL => e[m].height \in Nat
    BY <1>2 DEF Node
  <2>2. Max({0} \cup {e[j].height : j \in {k, m} \ {NULL}}) \in Nat
    BY <2>1, MaxHeight
  <2> QED BY <2>2
<1>4. N \in Nat /\ N > 0
  <2> HIDE DEF k, m
  <2>1. avl_node_cnt(e, k) \in Nat /\ avl_node_cnt(e, m) \in Nat
    BY <1>2 DEF avl_node_cnt, Node
  <2> QED BY <2>1
<1>5. F \subseteq Bits /\ F = HashFilter[e[a].hash] \cup Filter(e, k) \cup Filter(e, m)
  <2>1. HashFilter[e[a].hash] \subseteq Bits
    BY HashFilters
  <2>2. /\ k # NULL => e[k].filter \subseteq Bits
        /\ m # NULL => e[m].filter \subseteq Bits
    BY <1>2 DEF Node
  <2> QED BY <2>1, <2>2 DEF Filter
<1> HIDE DEF H, N, F, k, m, f
<1>6. /\ DOMAIN f = Addr
      /\ \A b \in Addr \ {a} : f[b] = e[b]
      /\ f[a] = [ll |-> e[a].ll, hash |-> e[a].hash, filter |-> F,
                 height |-> H, node_cnt |-> N]
  BY <1>1 DEF Node
<1>7. Linked(f, a)
  BY <1>3, <1>4, <1>5, <1>6 DEF Linked, Node
<1> QED BY <1>5, <1>6, <1>7 DEF f, k, m, N

-----------------------------------------------------------------------------
(* The shape of a tree. *)

\* The child fields of a node, and the slots of a tree with the nodes T.
Sides    == {"l", "r"}
Slots(T) == {ROOT} \cup (T \X Sides)

\* Node x may be on side s of a node of hash h.
Sided(e, x, s, h) == IF s = "l" THEN e[x].hash < h ELSE e[x].hash > h

\* The nodes T make up a search tree, and sub[t] holds those below slot t.  Each node hangs
\* in one slot, and the nodes on one side of a node have hashes on that side of its hash.
Shape(c, e, T, sub) ==
  /\ T \subseteq Addr /\ IsFiniteSet(T)
  /\ \A a \in T : e[a].hash \in Nat
  /\ \A t \in Slots(T) : c[t] \in T \cup {NULL} /\ sub[t] \subseteq T
  /\ \A t, u \in Slots(T) : c[t] = c[u] /\ c[t] # NULL => t = u
  /\ sub[ROOT] = T
  /\ \A t \in Slots(T) : c[t] = NULL => sub[t] = {}
  /\ \A t \in Slots(T) : c[t] # NULL =>
       sub[t] = {c[t]} \cup sub[<< c[t], "l" >>] \cup sub[<< c[t], "r" >>]
  /\ \A a \in T, s \in Sides : \A x \in sub[<< a, s >>] : Sided(e, x, s, e[a].hash)

\* Slot s is t or a child field of a node below t.
Under(sub, s, t) == s = t \/ s[1] \in sub[t]

\* A slot is ROOT or a child field of a node.
LEMMA SlotFacts ==
  ASSUME NEW T, T \subseteq Addr
  PROVE  /\ ROOT \in Slots(T) /\ ROOT[1] = NULL /\ NULL \notin T
         /\ \A a \in T, s \in Sides : /\ << a, s >> \in Slots(T)
                                      /\ << a, s >> # ROOT /\ << a, s >>[1] = a
         /\ \A t \in Slots(T) : t = ROOT \/ (t[1] \in T /\ t[2] \in Sides /\ t = << t[1], t[2] >>)
         /\ \A t \in Slots(T) : t[1] \in T \cup {NULL}
BY HeapAssumption DEF Slots, Sides, ROOT

-----------------------------------------------------------------------------
(* Facts about a tree. *)

\* A node is not below its own children.
LEMMA NotBelowItself ==
  ASSUME NEW c, NEW e, NEW T, NEW sub, Shape(c, e, T, sub)
  PROVE  /\ \A a \in T, s \in Sides : a \notin sub[<< a, s >>]
         /\ \A a \in T : sub[<< a, "l" >>] \cap sub[<< a, "r" >>] = {}
<1>1. \A a \in T, s \in Sides : a \notin sub[<< a, s >>]
  BY DEF Shape, Sided
<1>2. ASSUME NEW a \in T, NEW x \in sub[<< a, "l" >>], x \in sub[<< a, "r" >>]
      PROVE  FALSE
  <2>1. e[x].hash < e[a].hash /\ e[x].hash > e[a].hash
    BY <1>2 DEF Shape, Sided, Sides
  <2>2. << a, "l" >> \in Slots(T)
    BY DEF Slots, Sides
  <2>3. x \in T /\ e[x].hash \in Nat /\ e[a].hash \in Nat
    BY <2>2 DEF Shape
  <2> QED BY <2>1, <2>3
<1> QED BY <1>1, <1>2

\* What Shape says of a slot, of the node k in it, and of a child field of k.
LEMMA SlotAt ==
  ASSUME NEW c, NEW e, NEW T, NEW sub, Shape(c, e, T, sub), NEW t \in Slots(T)
  PROVE  /\ c[t] \in T \cup {NULL} /\ sub[t] \subseteq T
         /\ c[t] = NULL => sub[t] = {}
         /\ c[t] # NULL => c[t] \in T /\ c[t] \in sub[t]
BY DEF Shape

\* A node and its two subtrees.
LEMMA NodeAt ==
  ASSUME NEW c, NEW e, NEW T, NEW sub, Shape(c, e, T, sub),
         NEW t \in Slots(T), NEW k, k = c[t], k # NULL
  PROVE  /\ k \in T /\ k \in sub[t]
         /\ sub[t] = {k} \cup sub[<< k, "l" >>] \cup sub[<< k, "r" >>]
         /\ sub[<< k, "l" >>] \cap sub[<< k, "r" >>] = {}
<1>1. k \in T
  BY DEF Shape
<1>2. sub[t] = {k} \cup sub[<< k, "l" >>] \cup sub[<< k, "r" >>]
  BY DEF Shape
<1> QED BY <1>1, <1>2, NotBelowItself

\* The child fields of the node k in slot t lead to less than slot t does.
LEMMA KidAt ==
  ASSUME NEW c, NEW e, NEW T, NEW sub, Shape(c, e, T, sub),
         NEW t \in Slots(T), NEW k, k = c[t], k # NULL, NEW s \in Sides
  PROVE  /\ << k, s >> \in Slots(T)
         /\ sub[<< k, s >>] \subseteq sub[t]
         /\ k \notin sub[<< k, s >>]
<1>1. k \in T /\ sub[t] = {k} \cup sub[<< k, "l" >>] \cup sub[<< k, "r" >>]
  BY NodeAt
<1> QED BY <1>1, NotBelowItself DEF Slots, Sides

\* Induction from the empty slots up.
LEMMA Upwards ==
  ASSUME NEW c, NEW e, NEW T, NEW sub, Shape(c, e, T, sub),
         NEW Q,
         \A t \in Slots(T) : (c[t] # NULL => \A s \in Sides : << c[t], s >> \in Q) => t \in Q
  PROVE  Slots(T) \subseteq Q
<1> DEFINE Bad   == Slots(T) \ Q
           Sizes == {Cardinality(sub[t]) : t \in Bad}
<1> SUFFICES ASSUME Bad # {} PROVE FALSE
  OBVIOUS
<1>1. \A t \in Slots(T) : IsFiniteSet(sub[t]) /\ Cardinality(sub[t]) \in Nat
  BY FS_Subset, FS_CardinalityType DEF Shape
<1>2. Sizes \in SUBSET Nat /\ Sizes # {}
  BY <1>1
<1> HIDE DEF Sizes
<1>3. PICK n \in Sizes : \A m \in Sizes : n <= m
  BY <1>2, Least
<1>4. PICK t \in Bad : \A u \in Bad : Cardinality(sub[t]) <= Cardinality(sub[u])
  BY <1>3 DEF Sizes
<1>5. PICK s \in Sides : << c[t], s >> \notin Q /\ c[t] # NULL
  OBVIOUS
<1>6. c[t] \in T /\ << c[t], s >> \in Bad
  BY <1>5 DEF Shape, Slots
<1>7. sub[<< c[t], s >>] \subseteq sub[t] /\ c[t] \in sub[t] /\ c[t] \notin sub[<< c[t], s >>]
  <2>1. sub[t] = {c[t]} \cup sub[<< c[t], "l" >>] \cup sub[<< c[t], "r" >>]
    BY <1>5 DEF Shape
  <2>2. c[t] \notin sub[<< c[t], s >>]
    BY <1>6, NotBelowItself
  <2> QED BY <2>1, <2>2 DEF Sides
<1>8. Cardinality(sub[<< c[t], s >>]) < Cardinality(sub[t])
  <2>1. IsFiniteSet(sub[t]) /\ sub[<< c[t], s >>] \in SUBSET sub[t]
    BY <1>1, <1>7
  <2>2. /\ Cardinality(sub[<< c[t], s >>]) <= Cardinality(sub[t])
        /\ Cardinality(sub[t]) = Cardinality(sub[<< c[t], s >>]) => sub[t] = sub[<< c[t], s >>]
    BY <2>1, FS_Subset
  <2> QED BY <1>1, <1>6, <1>7, <2>2
<1> QED BY <1>1, <1>4, <1>6, <1>8

\* The subtree of a node below t is part of that of t.
LEMMA Below ==
  ASSUME NEW c, NEW e, NEW T, NEW sub, Shape(c, e, T, sub),
         NEW t \in Slots(T), NEW x \in sub[t], NEW s \in Sides
  PROVE  sub[<< x, s >>] \subseteq sub[t]
<1> DEFINE Q == {u \in Slots(T) : \A y \in sub[u], r \in Sides : sub[<< y, r >>] \subseteq sub[u]}
<1>1. ASSUME NEW u \in Slots(T), c[u] # NULL => \A r \in Sides : << c[u], r >> \in Q
      PROVE  u \in Q
  <2>1. CASE c[u] = NULL
    BY <2>1 DEF Shape
  <2>2. CASE c[u] # NULL
    <3>1. sub[u] = {c[u]} \cup sub[<< c[u], "l" >>] \cup sub[<< c[u], "r" >>]
      BY <2>2 DEF Shape
    <3>2. \A r \in Sides : \A y \in sub[<< c[u], r >>], q \in Sides :
            sub[<< y, q >>] \subseteq sub[<< c[u], r >>]
      BY <1>1, <2>2
    <3> QED BY <3>1, <3>2 DEF Sides
  <2> QED BY <2>1, <2>2
<1> HIDE DEF Q
<1>2. Slots(T) \subseteq Q
  BY <1>1, Upwards
<1> QED BY <1>2 DEF Q

\* A slot that holds a node below t is t or a field of a node below t.
LEMMA Above ==
  ASSUME NEW c, NEW e, NEW T, NEW sub, Shape(c, e, T, sub),
         NEW t \in Slots(T), NEW s \in Slots(T), c[s] \in sub[t]
  PROVE  Under(sub, s, t)
<1> DEFINE Q == {u \in Slots(T) : \A r \in Slots(T) : c[r] \in sub[u] => Under(sub, r, u)}
<1>1. ASSUME NEW u \in Slots(T), c[u] # NULL => \A r \in Sides : << c[u], r >> \in Q
      PROVE  u \in Q
  <2> SUFFICES ASSUME NEW r \in Slots(T), c[r] \in sub[u]
               PROVE  Under(sub, r, u)
    OBVIOUS
  <2>1. c[u] # NULL
    BY DEF Shape
  <2>2. sub[u] = {c[u]} \cup sub[<< c[u], "l" >>] \cup sub[<< c[u], "r" >>]
    BY <2>1 DEF Shape
  <2>3. CASE c[r] = c[u]
    BY <2>1, <2>3 DEF Shape, Under
  <2>4. ASSUME NEW q \in Sides, c[r] \in sub[<< c[u], q >>]
        PROVE  Under(sub, r, u)
    <3>1. Under(sub, r, << c[u], q >>)
      BY <1>1, <2>1, <2>4
    <3> QED BY <2>2, <3>1 DEF Under, Sides
  <2> QED BY <2>2, <2>3, <2>4 DEF Sides
<1> HIDE DEF Q
<1>2. Slots(T) \subseteq Q
  BY <1>1, Upwards
<1> QED BY <1>2 DEF Q

\* Every node of the tree hangs in some slot.
LEMMA Hangs ==
  ASSUME NEW c, NEW e, NEW T, NEW sub, Shape(c, e, T, sub), NEW a \in T
  PROVE  \E s \in Slots(T) : c[s] = a
<1> DEFINE Q == {u \in Slots(T) : \A x \in sub[u] : \E s \in Slots(T) : c[s] = x}
<1>1. ASSUME NEW u \in Slots(T), c[u] # NULL => \A r \in Sides : << c[u], r >> \in Q
      PROVE  u \in Q
  <2>1. CASE c[u] = NULL
    BY <2>1 DEF Shape
  <2>2. CASE c[u] # NULL
    <3>1. sub[u] = {c[u]} \cup sub[<< c[u], "l" >>] \cup sub[<< c[u], "r" >>]
      BY <2>2 DEF Shape
    <3>2. \A r \in Sides : \A x \in sub[<< c[u], r >>] : \E s \in Slots(T) : c[s] = x
      BY <1>1, <2>2
    <3> QED BY <3>1, <3>2 DEF Sides
  <2> QED BY <2>1, <2>2
<1> HIDE DEF Q
<1>2. Slots(T) \subseteq Q
  BY <1>1, Upwards
<1>3. ROOT \in Slots(T) /\ a \in sub[ROOT]
  BY DEF Shape, Slots
<1> QED BY <1>2, <1>3 DEF Q

-----------------------------------------------------------------------------
(* Relinking. *)

\* A node with one empty child slot is cut out: what is in its slot u takes its
\* place in slot s.
LEMMA Cut ==
  ASSUME NEW c, NEW e, NEW T, NEW sub, Shape(c, e, T, sub), Slots(T) \subseteq DOMAIN c,
         NEW s \in Slots(T), NEW n, n = c[s], n # NULL,
         NEW x \in Sides, c[<< n, Opp(x) >>] = NULL
  PROVE  Shape([c EXCEPT ![s] = c[<< n, x >>]], e, T \ {n}, [t \in Slots(T) |-> sub[t] \ {n}])
<1> DEFINE u  == << n, x >>
           k  == c[u]
           U  == T \ {n}
           d  == [c EXCEPT ![s] = k]
           ub == [t \in Slots(T) |-> sub[t] \ {n}]
<1>1. n \in T /\ u \in Slots(T) /\ k \in U \cup {NULL} /\ s # u
  <2>1. n \in T /\ u \in Slots(T) /\ k \in T \cup {NULL}
    BY DEF Shape, Slots
  <2>2. k # NULL => k \in sub[u]
    BY <2>1, SlotAt
  <2>3. n \notin sub[u]
    BY <2>1, NotBelowItself
  <2>4. s # u
    <3>1. n \in sub[s]
      BY DEF Shape
    <3> QED BY <2>3, <3>1
  <2> QED BY <2>1, <2>2, <2>3, <2>4
<1>2. Slots(U) \subseteq Slots(T) /\ ROOT \in Slots(U) /\ \A y \in Sides : << n, y >> \notin Slots(U)
  <2>1. U \subseteq T /\ NULL \notin T /\ n \notin U
    BY HeapAssumption DEF Shape
  <2> QED BY <2>1, <1>1 DEF Slots, ROOT
<1>3. \A t \in Slots(U) : d[t] = IF t = s THEN k ELSE c[t]
  BY <1>2
<1>4. \A t \in Slots(U) : t # s => c[t] # n
  BY <1>1, <1>2 DEF Shape
<1>5. \A t \in Slots(U) : d[t] \in U \cup {NULL} /\ ub[t] \subseteq U
  BY <1>1, <1>2, <1>3, <1>4 DEF Shape
<1>6. ASSUME NEW t \in Slots(U), NEW v \in Slots(U), d[t] = d[v], d[t] # NULL
      PROVE  t = v
  <2>1. t # u /\ v # u
    BY <1>2
  <2>2. ASSUME NEW w \in Slots(U), c[w] = k, k # NULL
        PROVE  FALSE
    <3>1. w \in Slots(T) /\ w # u
      BY <1>2
    <3> QED BY <1>1, <2>2, <3>1 DEF Shape
  <2>3. CASE t = s \/ v = s
    BY <1>3, <1>6, <2>2, <2>3
  <2>4. CASE t # s /\ v # s
    BY <1>2, <1>3, <1>6, <2>4 DEF Shape
  <2> QED BY <2>3, <2>4
<1>7. ub[ROOT] = U
  BY <1>2 DEF Shape
<1>8. sub[s] = {n} \cup sub[u] /\ n \notin sub[u]
  <2>1. sub[s] = {n} \cup sub[<< n, "l" >>] \cup sub[<< n, "r" >>]
    BY DEF Shape
  <2>2. << n, Opp(x) >> \in Slots(T) /\ sub[<< n, Opp(x) >>] = {}
    <3>1. << n, Opp(x) >> \in Slots(T)
      BY <1>1 DEF Slots, Sides, Opp
    <3> QED BY <3>1 DEF Shape
  <2>3. n \notin sub[u]
    BY <1>1, NotBelowItself
  <2> QED BY <2>1, <2>2, <2>3 DEF Sides, Opp
<1>9. ASSUME NEW t \in Slots(U)
      PROVE  /\ d[t] = NULL => ub[t] = {}
             /\ d[t] # NULL => ub[t] = {d[t]} \cup ub[<< d[t], "l" >>] \cup ub[<< d[t], "r" >>]
  <2>1. ub[t] = sub[t] \ {n} /\ t \in Slots(T)
    BY <1>2
  <2>2. ASSUME d[t] # NULL
        PROVE  \A y \in Sides : << d[t], y >> \in Slots(T) /\ ub[<< d[t], y >>] = sub[<< d[t], y >>] \ {n}
    BY <1>5, <2>2 DEF Slots
  <2>3. CASE t = s
    <3>1. ub[t] = sub[u] /\ d[t] = k
      BY <1>3, <1>8, <2>1, <2>3
    <3>2. k # NULL => sub[u] = {k} \cup sub[<< k, "l" >>] \cup sub[<< k, "r" >>]
      BY <1>1 DEF Shape
    <3>3. k = NULL => sub[u] = {}
      BY <1>1 DEF Shape
    <3> HIDE DEF d, ub, k, u
    <3> QED BY <1>8, <2>2, <3>1, <3>2, <3>3 DEF Sides
  <2>4. CASE t # s
    <3>1. d[t] = c[t] /\ c[t] # n
      BY <1>3, <1>4, <2>4
    <3>2. c[t] # NULL => sub[t] = {c[t]} \cup sub[<< c[t], "l" >>] \cup sub[<< c[t], "r" >>]
      BY <2>1 DEF Shape
    <3>3. c[t] = NULL => sub[t] = {}
      BY <2>1 DEF Shape
    <3> QED BY <2>1, <2>2, <3>1, <3>2, <3>3 DEF Sides
  <2> QED BY <2>3, <2>4
<1>10. \A a \in U, y \in Sides : \A z \in ub[<< a, y >>] : Sided(e, z, y, e[a].hash)
  BY <1>2 DEF Shape, Slots
<1>11. U \subseteq Addr /\ IsFiniteSet(U) /\ \A a \in U : e[a].hash \in Nat
  BY FS_Subset DEF Shape
<1> HIDE DEF d, ub, U
<1>12. Shape(d, e, U, ub)
  BY <1>5, <1>6, <1>7, <1>9, <1>10, <1>11 DEF Shape
<1> QED BY <1>12 DEF d, ub, U

\* The shape depends on nothing but the slots and the hashes of the tree.
LEMMA Rehash ==
  ASSUME NEW c, NEW e, NEW T, NEW sub, Shape(c, e, T, sub),
         NEW d, NEW f, \A t \in Slots(T) : d[t] = c[t], \A a \in T : f[a].hash = e[a].hash
  PROVE  Shape(d, f, T, sub)
<1>1. \A a \in T, s \in Sides : << a, s >> \in Slots(T)
  BY DEF Slots
<1>2. ASSUME NEW a \in T, NEW s \in Sides, NEW x \in sub[<< a, s >>]
      PROVE  Sided(f, x, s, f[a].hash)
  <2>1. x \in T /\ Sided(e, x, s, e[a].hash)
    BY <1>1 DEF Shape
  <2> QED BY <2>1 DEF Sided
<1> QED BY <1>2 DEF Shape

\* A node of hash h may be put into slot s.
Fits(e, T, sub, s, h) ==
  \A b \in T : /\ Under(sub, s, << b, "l" >>) => h < e[b].hash
               /\ Under(sub, s, << b, "r" >>) => h > e[b].hash

\* A new node a is put into the empty slot s: the child fields and the subtrees.
HangMem(c, s, a) == [c EXCEPT ![s] = a, ![<< a, "l" >>] = NULL, ![<< a, "r" >>] = NULL]
HangSub(T, sub, s, a) ==
  [t \in Slots(T \cup {a}) |-> IF t[1] = a THEN {}
                             ELSE IF Under(sub, s, t) THEN sub[t] \cup {a} ELSE sub[t]]

\* A new node is put into an empty slot, where its hash fits.
LEMMA Hang ==
  ASSUME NEW c, NEW e, NEW T, NEW sub, Shape(c, e, T, sub),
         NEW s \in Slots(T), c[s] = NULL,
         NEW a \in Addr \ T, Slots(T \cup {a}) \subseteq DOMAIN c,
         e[a].hash \in Nat, Fits(e, T, sub, s, e[a].hash)
  PROVE  Shape(HangMem(c, s, a), e, T \cup {a}, HangSub(T, sub, s, a))
<1> DEFINE U  == T \cup {a}
           d  == [c EXCEPT ![s] = a, ![<< a, "l" >>] = NULL, ![<< a, "r" >>] = NULL]
           ub == [t \in Slots(U) |->
                    IF t[1] = a THEN {}
                  ELSE IF Under(sub, s, t) THEN sub[t] \cup {a} ELSE sub[t]]
<1>1. /\ T \subseteq Addr /\ U \subseteq Addr /\ NULL \notin U /\ a \notin T /\ a # NULL
      /\ IsFiniteSet(U) /\ \A b \in U : e[b].hash \in Nat
  BY FS_AddElement, HeapAssumption DEF Shape
<1>2. /\ Slots(U) = Slots(T) \cup {<< a, y >> : y \in Sides}
      /\ \A t \in Slots(T) : t[1] # a /\ t # << a, "l" >> /\ t # << a, "r" >>
  BY <1>1 DEF Slots, ROOT
<1>3. /\ \A t \in Slots(T) : d[t] = IF t = s THEN a ELSE c[t]
      /\ \A y \in Sides : << a, y >> \in Slots(U) /\ d[<< a, y >>] = NULL
  BY <1>2 DEF Sides
<1>4. /\ \A t \in Slots(T) : ub[t] = IF Under(sub, s, t) THEN sub[t] \cup {a} ELSE sub[t]
      /\ \A y \in Sides : ub[<< a, y >>] = {}
  <2>1. \A t \in Slots(T) : t \in Slots(U) /\ t[1] # a
    BY <1>2
  <2>2. \A y \in Sides : << a, y >> \in Slots(U) /\ << a, y >>[1] = a
    BY <1>2
  <2> QED BY <2>1, <2>2
<1> HIDE DEF d, ub, U
<1>5. \A t \in Slots(T) : c[t] \in T \cup {NULL} /\ sub[t] \subseteq T
  BY DEF Shape
<1>6. ASSUME NEW t \in Slots(U)
      PROVE  d[t] \in U \cup {NULL} /\ ub[t] \subseteq U
  <2>1. CASE t \in Slots(T)
    BY <1>3, <1>4, <1>5, <2>1 DEF U
  <2>2. CASE t \notin Slots(T)
    BY <1>2, <1>3, <1>4, <2>2
  <2> QED BY <2>1, <2>2
<1>7. ASSUME NEW t \in Slots(U), NEW v \in Slots(U), d[t] = d[v], d[t] # NULL
      PROVE  t = v
  <2>1. t \in Slots(T) /\ v \in Slots(T)
    BY <1>2, <1>3, <1>7
  <2>2. c[t] # a /\ c[v] # a
    BY <1>1, <1>5, <2>1
  <2>3. CASE t = s \/ v = s
    BY <1>3, <1>7, <2>1, <2>2, <2>3
  <2>4. CASE t # s /\ v # s
    BY <1>3, <1>7, <2>1, <2>4 DEF Shape
  <2> QED BY <2>3, <2>4
<1>8. ub[ROOT] = U
  <2>1. ROOT \in Slots(T) /\ Under(sub, s, ROOT)
    BY SlotFacts, <1>1 DEF Under, Shape, Slots
  <2>2. sub[ROOT] = T
    BY DEF Shape
  <2> QED BY <1>4, <2>1, <2>2 DEF U
<1>9. ASSUME NEW t \in Slots(U)
      PROVE  /\ d[t] = NULL => ub[t] = {}
             /\ d[t] # NULL => ub[t] = {d[t]} \cup ub[<< d[t], "l" >>] \cup ub[<< d[t], "r" >>]
  <2>1. CASE t = s
    <3>1. d[t] = a /\ sub[t] = {} /\ Under(sub, s, t)
      BY <1>3, <2>1 DEF Shape, Under
    <3> QED BY <1>1, <1>4, <2>1, <3>1 DEF Sides
  <2>2. CASE t \in Slots(T) /\ t # s /\ c[t] = NULL
    <3>1. d[t] = NULL /\ sub[t] = {}
      BY <1>3, <2>2 DEF Shape
    <3>2. ~Under(sub, s, t)
      BY <2>2, <3>1 DEF Under
    <3> QED BY <1>4, <2>2, <3>1, <3>2
  <2>3. CASE t \in Slots(T) /\ t # s /\ c[t] # NULL
    <3> DEFINE k == c[t]
    <3>1. d[t] = k /\ k \in T /\ \A y \in Sides : << k, y >> \in Slots(T)
      BY <1>3, <1>5, <2>3 DEF Slots
    <3>2. sub[t] = {k} \cup sub[<< k, "l" >>] \cup sub[<< k, "r" >>]
      BY <2>3 DEF Shape
    <3>3. Under(sub, s, t) <=> Under(sub, s, << k, "l" >>) \/ Under(sub, s, << k, "r" >>)
      <4>1. s[1] = k <=> s \in {<< k, "l" >>, << k, "r" >>}
        BY <3>1, <1>1, SlotFacts DEF Sides
      <4>2. s # t
        BY <2>3
      <4> HIDE DEF k
      <4> QED BY <3>2, <4>1, <4>2 DEF Under
    <3> HIDE DEF k
    <3>4. \A v \in {t, << k, "l" >>, << k, "r" >>} :
            ub[v] = IF Under(sub, s, v) THEN sub[v] \cup {a} ELSE sub[v]
      BY <1>4, <2>3, <3>1 DEF Sides
    <3>5. d[t] # NULL
      BY <1>3, <2>3
    <3>6. ub[t] = {k} \cup ub[<< k, "l" >>] \cup ub[<< k, "r" >>]
      <4>1. CASE ~Under(sub, s, t)
        BY <3>2, <3>3, <3>4, <4>1
      <4>2. CASE Under(sub, s, << k, "l" >>)
        BY <3>2, <3>3, <3>4, <4>2
      <4>3. CASE Under(sub, s, << k, "r" >>)
        BY <3>2, <3>3, <3>4, <4>3
      <4> QED BY <3>3, <4>1, <4>2, <4>3
    <3> QED BY <3>1, <3>5, <3>6
  <2>4. CASE t \notin Slots(T)
    BY <1>2, <1>3, <1>4, <2>4
  <2> QED BY <2>1, <2>2, <2>3, <2>4
<1>10. ASSUME NEW b \in U, NEW y \in Sides, NEW z \in ub[<< b, y >>]
       PROVE  Sided(e, z, y, e[b].hash)
  <2>1. b \in T /\ << b, y >> \in Slots(T)
    BY <1>4 DEF Slots, U
  <2>2. CASE z \in sub[<< b, y >>]
    BY <2>1, <2>2 DEF Shape
  <2>3. CASE z = a /\ Under(sub, s, << b, y >>)
    BY <2>1, <2>3 DEF Fits, Sided, Sides
  <2> QED BY <1>4, <2>1, <2>2, <2>3
<1>11. Shape(d, e, U, ub)
  BY <1>1, <1>6, <1>7, <1>8, <1>9, <1>10 DEF Shape
<1> QED BY <1>11 DEF d, ub, U, HangMem, HangSub

\* Node b takes the place of the node n in slot s: the child fields and the subtrees.
SupplantMem(c, s, n, b) ==
  [c EXCEPT ![<< b, "l" >>] = c[<< n, "l" >>], ![<< b, "r" >>] = c[<< n, "r" >>], ![s] = b]
SupplantSub(T, sub, n, b) ==
  [t \in Slots((T \ {n}) \cup {b}) |->
     IF t[1] = b THEN sub[<< n, t[2] >>]
     ELSE IF n \in sub[t] THEN (sub[t] \ {n}) \cup {b} ELSE sub[t]]

\* A node that is not in the tree takes the place of the node n in slot s.
LEMMA Supplant ==
  ASSUME NEW c, NEW e, NEW T, NEW sub, Shape(c, e, T, sub),
         NEW s \in Slots(T), NEW n, n = c[s], n # NULL,
         NEW b \in Addr \ T, Slots(T \cup {b}) \subseteq DOMAIN c,
         e[b].hash \in Nat, Fits(e, T, sub, << n, "r" >>, e[b].hash),
         \A x \in sub[<< n, "r" >>] : e[x].hash > e[b].hash
  PROVE  Shape(SupplantMem(c, s, n, b), e, (T \ {n}) \cup {b}, SupplantSub(T, sub, n, b))
<1> DEFINE U  == (T \ {n}) \cup {b}
           d  == [c EXCEPT ![<< b, "l" >>] = c[<< n, "l" >>],
                           ![<< b, "r" >>] = c[<< n, "r" >>], ![s] = b]
           ub == [t \in Slots(U) |->
                    IF t[1] = b THEN sub[<< n, t[2] >>]
                    ELSE IF n \in sub[t] THEN (sub[t] \ {n}) \cup {b} ELSE sub[t]]
           V  == Slots(T \ {n})
<1>1. /\ n \in T /\ b \notin T /\ b # n /\ b # NULL /\ NULL \notin T
      /\ U \subseteq Addr /\ \A a \in U : e[a].hash \in Nat
  BY HeapAssumption DEF Shape
<1>2. IsFiniteSet(U)
  <2>1. IsFiniteSet(T) /\ T \ {n} \in SUBSET T
    BY DEF Shape
  <2> QED BY <2>1, FS_Subset, FS_AddElement
<1>3. /\ Slots(U) = V \cup {<< b, y >> : y \in Sides} /\ V \subseteq Slots(T)
      /\ \A t \in V : t[1] # b /\ t[1] # n /\ \A y \in Sides : t # << b, y >> /\ t # << n, y >>
      /\ \A y \in Sides : << b, y >> \in Slots(U) /\ << n, y >> \in Slots(T)
  BY <1>1 DEF Slots, ROOT
<1>4. s \in V
  <2>1. s[1] # n
    <3>1. n \in sub[s]
      BY <1>1, SlotAt
    <3>2. \A y \in Sides : s # << n, y >>
      BY <1>1, <3>1, NotBelowItself
    <3> QED BY <1>1, <3>2, SlotFacts DEF Shape
  <2> QED BY <2>1 DEF Slots, ROOT
<1>5. /\ \A t \in V : d[t] = IF t = s THEN b ELSE c[t]
      /\ \A y \in Sides : d[<< b, y >>] = c[<< n, y >>]
  <2>1. << b, "l" >> \in DOMAIN c /\ << b, "r" >> \in DOMAIN c /\ V \subseteq DOMAIN c
    BY <1>3 DEF Slots, Sides
  <2>2. s # << b, "l" >> /\ s # << b, "r" >>
    BY <1>3, <1>4 DEF Sides
  <2> QED BY <1>3, <1>4, <2>1, <2>2 DEF Sides
<1>6. /\ \A t \in V : ub[t] = IF n \in sub[t] THEN (sub[t] \ {n}) \cup {b} ELSE sub[t]
      /\ \A y \in Sides : ub[<< b, y >>] = sub[<< n, y >>]
  BY <1>3
<1> HIDE DEF d, ub, U, V
<1>7. \A t \in Slots(T) : c[t] \in T \cup {NULL} /\ sub[t] \subseteq T
  BY DEF Shape
<1>8. ASSUME NEW y \in Sides
      PROVE  c[<< n, y >>] # n /\ n \notin sub[<< n, y >>]
  <2>1. n \notin sub[<< n, y >>]
    BY <1>1, NotBelowItself
  <2>2. c[<< n, y >>] = NULL \/ c[<< n, y >>] \in sub[<< n, y >>]
    BY <1>3, SlotAt
  <2> QED BY <1>1, <2>1, <2>2
<1>9. \A t \in V : t # s => c[t] # n
  BY <1>3, <1>4, <1>1 DEF Shape
<1>10. ASSUME NEW t \in Slots(U)
       PROVE  d[t] \in U \cup {NULL} /\ ub[t] \subseteq U
  <2>1. CASE t \in V
    <3>1. c[t] \in T \cup {NULL} /\ sub[t] \subseteq T
      BY <1>3, <1>7, <2>1
    <3>2. d[t] \in U \cup {NULL}
      BY <1>5, <1>9, <2>1, <3>1 DEF U
    <3> QED BY <1>6, <2>1, <3>1, <3>2 DEF U
  <2>2. ASSUME NEW y \in Sides, t = << b, y >>
        PROVE  d[t] \in U \cup {NULL} /\ ub[t] \subseteq U
    <3>1. c[<< n, y >>] \in T \cup {NULL} /\ sub[<< n, y >>] \subseteq T
      BY <1>3, <1>7
    <3> QED BY <1>5, <1>6, <1>8, <2>2, <3>1 DEF U
  <2> QED BY <1>3, <2>1, <2>2
<1>11. ASSUME NEW t \in Slots(U), NEW v \in Slots(U), d[t] = d[v], d[t] # NULL
       PROVE  t = v
  <2> DEFINE old(w) == IF w \in V THEN w ELSE << n, w[2] >>
  <2>1. \A w \in Slots(U) : /\ old(w) \in Slots(T)
                            /\ w \notin V => \E y \in Sides : w = << b, y >> /\ old(w) = << n, y >>
    BY <1>3
  <2>2. \A w \in Slots(U) : w # s => d[w] = c[old(w)] /\ d[w] # b
    BY <1>1, <1>3, <1>5, <1>7, <2>1
  <2>3. CASE t = s \/ v = s
    BY <1>4, <1>5, <1>11, <2>2, <2>3
  <2>4. CASE t # s /\ v # s
    <3>1. old(t) = old(v)
      <4> HIDE DEF old
      <4> QED BY <1>11, <2>1, <2>2, <2>4 DEF Shape
    <3> QED BY <1>3, <2>1, <3>1
  <2> QED BY <2>3, <2>4
<1>12. ub[ROOT] = U
  <2>1. ROOT \in V /\ sub[ROOT] = T
    BY DEF V, Slots, Shape
  <2> QED BY <1>1, <1>6, <2>1 DEF U
<1>13. ASSUME NEW t \in Slots(U)
       PROVE  /\ d[t] = NULL => ub[t] = {}
              /\ d[t] # NULL => ub[t] = {d[t]} \cup ub[<< d[t], "l" >>] \cup ub[<< d[t], "r" >>]
  <2>1. ASSUME NEW k \in T \ {n}, NEW y \in Sides
        PROVE  << k, y >> \in V
    BY DEF V, Slots
  <2>2. CASE t = s
    <3>1. sub[s] = {n} \cup sub[<< n, "l" >>] \cup sub[<< n, "r" >>]
      BY NodeAt
    <3>2. ub[s] = (sub[s] \ {n}) \cup {b}
      BY <1>4, <1>6, <3>1
    <3>3. d[s] = b /\ b # NULL
      BY <1>1, <1>4, <1>5
    <3>4. ub[<< b, "l" >>] = sub[<< n, "l" >>] /\ ub[<< b, "r" >>] = sub[<< n, "r" >>]
      BY <1>6 DEF Sides
    <3>5. n \notin sub[<< n, "l" >>] /\ n \notin sub[<< n, "r" >>]
      BY <1>8 DEF Sides
    <3> QED BY <2>2, <3>1, <3>2, <3>3, <3>4, <3>5
  <2>3. ASSUME NEW k, k = d[t], t \in V, t # s
        PROVE  /\ k = NULL => ub[t] = {}
               /\ k # NULL => ub[t] = {k} \cup ub[<< k, "l" >>] \cup ub[<< k, "r" >>]
    <3>1. k = c[t] /\ k # n /\ t \in Slots(T)
      BY <1>3, <1>5, <1>9, <2>3
    <3>2. k = NULL => sub[t] = {}
      BY <3>1, SlotAt
    <3>3. ASSUME k # NULL
          PROVE  ub[t] = {k} \cup ub[<< k, "l" >>] \cup ub[<< k, "r" >>]
      <4>1. sub[t] = {k} \cup sub[<< k, "l" >>] \cup sub[<< k, "r" >>]
        BY <3>1, <3>3, NodeAt
      <4>2. \A v \in {t, << k, "l" >>, << k, "r" >>} :
              ub[v] = IF n \in sub[v] THEN (sub[v] \ {n}) \cup {b} ELSE sub[v]
        BY <1>6, <1>7, <2>1, <2>3, <3>1, <3>3 DEF Sides
      <4>3. CASE n \notin sub[t]
        BY <4>1, <4>2, <4>3
      <4>4. CASE n \in sub[<< k, "l" >>] /\ n \in sub[<< k, "r" >>]
        BY <3>1, <4>1, <4>2, <4>4
      <4>5. CASE n \in sub[<< k, "l" >>] /\ n \notin sub[<< k, "r" >>]
        BY <3>1, <4>1, <4>2, <4>5
      <4>6. CASE n \notin sub[<< k, "l" >>] /\ n \in sub[<< k, "r" >>]
        BY <3>1, <4>1, <4>2, <4>6
      <4> QED BY <3>1, <4>1, <4>3, <4>4, <4>5, <4>6
    <3> QED BY <1>6, <2>3, <3>2, <3>3
  <2>4. ASSUME NEW y \in Sides, t = << b, y >>, NEW k, k = d[t]
        PROVE  /\ k = NULL => ub[t] = {}
               /\ k # NULL => ub[t] = {k} \cup ub[<< k, "l" >>] \cup ub[<< k, "r" >>]
    <3>1. k = c[<< n, y >>] /\ ub[t] = sub[<< n, y >>] /\ << n, y >> \in Slots(T)
      BY <1>3, <1>5, <1>6, <2>4
    <3>2. k = NULL => sub[<< n, y >>] = {}
      BY <3>1, SlotAt
    <3>3. ASSUME k # NULL
          PROVE  ub[t] = {k} \cup ub[<< k, "l" >>] \cup ub[<< k, "r" >>]
      <4>1. sub[<< n, y >>] = {k} \cup sub[<< k, "l" >>] \cup sub[<< k, "r" >>]
        BY <3>1, <3>3, NodeAt
      <4>2. n \notin sub[<< n, y >>] /\ k \in T \ {n}
        BY <1>7, <1>8, <3>1, <3>3
      <4>3. ub[<< k, "l" >>] = sub[<< k, "l" >>] /\ ub[<< k, "r" >>] = sub[<< k, "r" >>]
        BY <1>6, <2>1, <4>1, <4>2 DEF Sides
      <4> QED BY <3>1, <4>1, <4>3
    <3> QED BY <3>1, <3>2, <3>3
  <2> QED BY <1>3, <2>2, <2>3, <2>4
<1>14. ASSUME NEW a \in U, NEW y \in Sides, NEW z \in ub[<< a, y >>]
       PROVE  Sided(e, z, y, e[a].hash)
  <2>1. CASE a = b
    <3>1. z \in sub[<< n, y >>] /\ z \in T
      BY <1>3, <1>6, <1>7, <2>1
    <3>2. CASE y = "r"
      BY <2>1, <3>1, <3>2 DEF Sided
    <3>3. CASE y = "l"
      <4>1. e[z].hash < e[n].hash
        BY <1>1, <3>1, <3>3 DEF Shape, Sided
      <4>2. e[n].hash < e[b].hash
        BY <1>1 DEF Fits, Under
      <4>3. e[z].hash \in Nat /\ e[n].hash \in Nat
        BY <1>1, <3>1 DEF Shape
      <4> QED BY <2>1, <3>3, <4>1, <4>2, <4>3 DEF Sided
    <3> QED BY <3>2, <3>3 DEF Sides
  <2>2. CASE a # b
    <3>1. a \in T /\ << a, y >> \in V
      BY <2>2 DEF U, V, Slots
    <3>2. CASE z \in sub[<< a, y >>]
      BY <3>1, <3>2 DEF Shape
    <3>3. CASE z = b /\ n \in sub[<< a, y >>]
      <4>1. Under(sub, << n, "r" >>, << a, y >>)
        BY <3>3 DEF Under
      <4> QED BY <3>1, <3>3, <4>1 DEF Fits, Sided, Sides
    <3> QED BY <1>6, <3>1, <3>2, <3>3
  <2> QED BY <2>1, <2>2
<1>15. Shape(d, e, U, ub)
  BY <1>1, <1>2, <1>10, <1>11, <1>12, <1>13, <1>14 DEF Shape
<1> QED BY <1>15 DEF d, ub, U, SupplantMem, SupplantSub

\* The child m of the node n in slot s on side x comes up: the child fields and the
\* subtrees.
TurnMem(c, s, n, m, x) ==
  [c EXCEPT ![<< n, x >>] = c[<< m, Opp(x) >>], ![<< m, Opp(x) >>] = n, ![s] = m]
TurnSub(T, sub, n, m, x) ==
  [t \in Slots(T) |->
     IF t = << n, x >> THEN sub[<< m, Opp(x) >>]
     ELSE IF t = << m, Opp(x) >>
     THEN {n} \cup sub[<< n, Opp(x) >>] \cup sub[<< m, Opp(x) >>]
     ELSE sub[t]]

\* A rotation: the child m of n on side x comes up into slot s, and n goes down
\* to the other side of m.  Nothing changes below any other slot.
LEMMA Turn ==
  ASSUME NEW c, NEW e, NEW T, NEW sub, Shape(c, e, T, sub), Slots(T) \subseteq DOMAIN c,
         NEW s \in Slots(T), NEW n, n = c[s], n # NULL,
         NEW x \in Sides, NEW m, m = c[<< n, x >>], m # NULL
  PROVE  /\ Shape(TurnMem(c, s, n, m, x), e, T, TurnSub(T, sub, n, m, x))
         /\ s \notin {<< n, x >>, << m, Opp(x) >>} /\ << n, x >> # << m, Opp(x) >>
<1> DEFINE y  == Opp(x)
           p  == << n, x >>
           q  == << m, y >>
           d  == [c EXCEPT ![p] = c[q], ![q] = n, ![s] = m]
           ub == [t \in Slots(T) |-> IF t = p THEN sub[q]
                                     ELSE IF t = q THEN {n} \cup sub[<< n, y >>] \cup sub[q]
                                     ELSE sub[t]]
<1>1. /\ x \in Sides /\ y \in Sides /\ x # y /\ Sides = {x, y}
      /\ \A t \in Slots(T) : c[t] # NULL =>
           sub[t] = {c[t]} \cup sub[<< c[t], x >>] \cup sub[<< c[t], y >>]
  <2>1. x \in Sides /\ y \in Sides /\ x # y /\ Sides = {x, y}
    BY DEF Sides, Opp
  <2>2. {x, y} = {"l", "r"}
    BY DEF Sides, Opp
  <2>3. ASSUME NEW t \in Slots(T), c[t] # NULL
        PROVE  sub[t] = {c[t]} \cup sub[<< c[t], "l" >>] \cup sub[<< c[t], "r" >>]
    BY <2>3, NodeAt
  <2> HIDE DEF y
  <2> QED BY <2>1, <2>2, <2>3
<1> HIDE DEF y
<1>2. /\ n \in T /\ n \in sub[s]
      /\ \A z \in Sides : << n, z >> \in Slots(T) /\ sub[<< n, z >>] \subseteq sub[s] \ {n}
      /\ sub[<< n, x >>] \cap sub[<< n, y >>] = {}
  <2>1. \A z \in Sides : /\ << n, z >> \in Slots(T) /\ sub[<< n, z >>] \subseteq sub[s]
                        /\ n \notin sub[<< n, z >>]
    BY KidAt
  <2>2. n \in T /\ n \in sub[s] /\ sub[<< n, "l" >>] \cap sub[<< n, "r" >>] = {}
    BY NodeAt
  <2> QED BY <1>1, <2>1, <2>2 DEF Sides
<1>3. /\ m \in T /\ m \in sub[p] /\ m # n
      /\ \A z \in Sides : << m, z >> \in Slots(T) /\ sub[<< m, z >>] \subseteq sub[p] \ {m}
  <2>1. p \in Slots(T)
    BY <1>2
  <2>2. m \in T /\ m \in sub[p]
    BY <2>1, NodeAt
  <2>3. \A z \in Sides : /\ << m, z >> \in Slots(T) /\ sub[<< m, z >>] \subseteq sub[p]
                        /\ m \notin sub[<< m, z >>]
    BY <2>1, KidAt
  <2>4. m # n
    BY <1>2, <2>2
  <2> QED BY <2>2, <2>3, <2>4
<1>4. /\ p \in Slots(T) /\ q \in Slots(T) /\ << n, y >> \in Slots(T) /\ << m, x >> \in Slots(T)
      /\ p # q /\ << m, x >> \notin {p, q} /\ << n, y >> \notin {p, q}
  BY <1>1, <1>2, <1>3
<1>5. s # p /\ s # q
  <2>1. n \notin sub[p] /\ n \notin sub[q]
    BY <1>1, <1>2, <1>3
  <2> QED BY <1>2, <2>1
<1>6. \A t \in Slots(T) : d[t] = IF t = s THEN m ELSE IF t = q THEN n
                                 ELSE IF t = p THEN c[q] ELSE c[t]
  BY <1>4, <1>5
<1>7. \A t \in Slots(T) : ub[t] = IF t = p THEN sub[q]
                                  ELSE IF t = q THEN {n} \cup sub[<< n, y >>] \cup sub[q]
                                  ELSE sub[t]
  OBVIOUS
<1>8. \A t \in Slots(T) : c[t] \in T \cup {NULL} /\ sub[t] \subseteq T
  BY DEF Shape
<1>9. \A t \in Slots(T) : (t # s => c[t] # n) /\ (t # p => c[t] # m)
  BY <1>4 DEF Shape
<1>10. \A t \in Slots(T) : d[t] \in T \cup {NULL} /\ ub[t] \subseteq T
  BY <1>2, <1>3, <1>4, <1>6, <1>7, <1>8
<1> HIDE DEF d, ub
<1>11. ASSUME NEW t \in Slots(T), NEW v \in Slots(T), d[t] = d[v], d[t] # NULL
       PROVE  t = v
  <2> DEFINE old(w) == IF w = s THEN p ELSE IF w = q THEN s ELSE IF w = p THEN q ELSE w
  <2>1. \A w \in Slots(T) : old(w) \in Slots(T) /\ d[w] = c[old(w)]
    BY <1>4, <1>5, <1>6
  <2>2. old(t) = old(v)
    <3> HIDE DEF old
    <3> QED BY <1>11, <2>1 DEF Shape
  <2> QED BY <1>4, <1>5, <2>2
<1>12. ub[ROOT] = T
  <2>1. ROOT \in Slots(T) /\ ROOT # p /\ ROOT # q /\ sub[ROOT] = T
    <3>1. T \subseteq Addr /\ sub[ROOT] = T
      BY DEF Shape
    <3> QED BY <1>1, <1>2, <1>3, <3>1, SlotFacts
  <2> QED BY <1>7, <2>1
<1>13. ASSUME NEW t \in Slots(T)
       PROVE  /\ d[t] = NULL => ub[t] = {}
              /\ d[t] # NULL => ub[t] = {d[t]} \cup ub[<< d[t], "l" >>] \cup ub[<< d[t], "r" >>]
  <2>1. SUFFICES ASSUME NEW k, k = d[t]
                 PROVE  /\ k = NULL => ub[t] = {}
                        /\ k # NULL => ub[t] = {k} \cup ub[<< k, x >>] \cup ub[<< k, y >>]
    <3>1. /\ d[t] = NULL => ub[t] = {}
          /\ d[t] # NULL => ub[t] = {d[t]} \cup ub[<< d[t], x >>] \cup ub[<< d[t], y >>]
      BY <2>1
    <3> QED BY <1>1, <3>1 DEF Sides
  <2>2. ub[<< n, y >>] = sub[<< n, y >>] /\ ub[<< m, x >>] = sub[<< m, x >>]
    BY <1>4, <1>7
  <2>3. ub[p] = sub[q] /\ ub[q] = {n} \cup sub[<< n, y >>] \cup sub[q]
    BY <1>4, <1>7
  <2>4. sub[s] = {n} \cup sub[p] \cup sub[<< n, y >>]
    BY <1>1
  <2>5. sub[p] = {m} \cup sub[<< m, x >>] \cup sub[q]
    BY <1>1, <1>4
  <2>6. CASE t = s
    <3>1. k = m /\ ub[s] = sub[s] /\ m # NULL
      BY <1>5, <1>6, <1>7, <2>1, <2>6
    <3> QED BY <2>2, <2>3, <2>4, <2>5, <2>6, <3>1
  <2>7. CASE t = q
    <3>1. k = n /\ n # NULL
      BY <1>4, <1>5, <1>6, <2>1, <2>7
    <3> QED BY <2>2, <2>3, <2>7, <3>1
  <2>8. CASE t \notin {s, q}
    <3> DEFINE w == IF t = p THEN q ELSE t
    <3>1. k = c[w] /\ ub[t] = sub[w] /\ w \in Slots(T) /\ w # s /\ w # p
      BY <1>4, <1>5, <1>6, <1>7, <2>1, <2>8
    <3> HIDE DEF w
    <3>2. k # n /\ k # m
      BY <1>9, <3>1
    <3>3. k = NULL => sub[w] = {}
      BY <3>1, SlotAt
    <3>4. ASSUME k # NULL
          PROVE  sub[w] = {k} \cup ub[<< k, x >>] \cup ub[<< k, y >>]
      <4>1. k \in T /\ sub[w] = {k} \cup sub[<< k, x >>] \cup sub[<< k, y >>]
        BY <1>1, <1>8, <3>1, <3>4
      <4>2. \A z \in Sides : << k, z >> \in Slots(T) /\ << k, z >> # p /\ << k, z >> # q
        BY <3>2, <4>1 DEF Slots
      <4>3. ub[<< k, x >>] = sub[<< k, x >>] /\ ub[<< k, y >>] = sub[<< k, y >>]
        BY <1>1, <1>7, <4>2
      <4> QED BY <4>1, <4>3
    <3> QED BY <3>1, <3>3, <3>4
  <2> QED BY <2>6, <2>7, <2>8
<1>14. ASSUME NEW a \in T, NEW r \in Sides, NEW z \in ub[<< a, r >>]
       PROVE  Sided(e, z, r, e[a].hash)
  <2>1. \A b \in T, i \in Sides : \A j \in sub[<< b, i >>] : Sided(e, j, i, e[b].hash)
    BY DEF Shape
  <2>2. << a, r >> \in Slots(T)
    BY DEF Slots
  <2>3. CASE << a, r >> = p
    <3>1. a = n /\ r = x /\ z \in sub[p]
      BY <1>1, <1>3, <1>4, <1>7, <2>3
    <3> QED BY <1>2, <2>1, <3>1
  <2>4. CASE << a, r >> = q
    <3>1. a = m /\ r = y /\ z \in {n} \cup sub[<< n, y >>] \cup sub[q]
      BY <1>4, <1>7, <2>4
    <3>2. Sided(e, m, x, e[n].hash)
      BY <1>2, <1>3, <2>1
    <3>3. Sided(e, n, y, e[m].hash)
      BY <3>2 DEF Sided, Opp, Sides, y
    <3>4. ASSUME z \in sub[<< n, y >>]
          PROVE  Sided(e, z, y, e[m].hash)
      <4>1. Sided(e, z, y, e[n].hash)
        BY <1>1, <1>2, <2>1, <3>4
      <4>2. e[z].hash \in Nat /\ e[n].hash \in Nat /\ e[m].hash \in Nat
        BY <1>2, <1>3, <1>4, <1>8, <3>4 DEF Shape
      <4> QED BY <1>1, <3>3, <4>1, <4>2 DEF Sided, Sides
    <3>5. ASSUME z \in sub[q]
          PROVE  Sided(e, z, y, e[m].hash)
      BY <1>1, <1>3, <2>1, <3>5
    <3> QED BY <3>1, <3>3, <3>4, <3>5
  <2>5. CASE << a, r >> # p /\ << a, r >> # q
    BY <1>7, <2>1, <2>2, <2>5
  <2> QED BY <2>3, <2>4, <2>5
<1>15. Shape(d, e, T, ub)
  BY <1>10, <1>11, <1>12, <1>13, <1>14 DEF Shape
<1>16. Shape(TurnMem(c, s, n, m, x), e, T, TurnSub(T, sub, n, m, x))
  BY <1>15 DEF d, ub, p, q, y, TurnMem, TurnSub
<1> QED BY <1>4, <1>5, <1>16 DEF p, q, y

-----------------------------------------------------------------------------
(* The inductive invariant. *)

\* The list elements that belong in a node of hash h.
OfHash(h) == {d \in Key : hashf[d] = h}

\* The fields of the nodes.
Filled ==
  /\ child \in [Slot -> Addr \cup {NULL}]
  /\ DOMAIN el = Addr /\ alloc \subseteq Addr /\ low \in alloc \cup {NULL}
  /\ \A a \in alloc : Linked(el, a) /\ el[a].ll \in Seq(OfHash(el[a].hash))
  /\ up \in BOOLEAN

\* The frames on a stack.
On(st) == {st[i] : i \in 1 .. Len(st)}

\* The functions that work on a subtree, which the interface function has called.
Walkers == {"insert", "remove", "ndel", "destroy", "leftmost", "rebalance"}

\* The labels a function may stand at.
LabelOK(fn, at) ==
  \/ fn = "avl" /\ at \in {"rebalance", "clear", "return"}
  \/ fn = "find" /\ at = "enter"
  \/ fn \in Walkers /\ at \in {"enter", "l"}
  \/ fn \in Walkers \ {"leftmost"} /\ at = "r"
  \/ fn \in {"remove", "ndel"} /\ at \in {"cut", "replace"}
  \/ fn = "rebalance" /\ at \in {"left_heavy", "right_heavy"}

\* A frame by itself: past its entry a function stands at a node.
FrameOK(f, c, T) ==
  /\ LabelOK(f.fn, f.at)
  /\ f.slot \in Slots(T)
  /\ f.fn = "avl" => f.slot = ROOT
  /\ f.fn # "avl" /\ (f.at # "enter" \/ f.fn = "leftmost") => c[f.slot] # NULL

\* The child field that a caller has passed on.
Field(f, c) == << c[f.slot], IF f.at = "replace" THEN "r" ELSE f.at >>

\* The frame f is that of a function called from frame g.
Called(f, g, c) ==
  \/ g.fn = "avl" /\ f.slot = ROOT /\ f.fn # "leftmost"
  \/ g.fn = f.fn /\ g.at \in Sides /\ f.slot = Field(g, c)
  \/ g.at = "replace" /\ f.fn = "leftmost" /\ f.slot = Field(g, c)

\* What the interface function is waiting for.
Callees(f) == IF f.at = "rebalance" THEN {"insert", "remove", "ndel", "leftmost"}
              ELSE IF f.at = "clear"  THEN {"destroy"}
              ELSE IF f.at = "return" THEN {"rebalance"} ELSE {}

\* The frames of a stack: each function works below the field its caller, and every
\* caller further down, has passed on.
Stacked(st, c, T, sub) ==
  /\ st \in Seq([fn : Fns, slot : Slot, at : Labels])
  /\ \A i \in 1 .. Len(st) : FrameOK(st[i], c, T)
  /\ \A i \in 1 .. (Len(st) - 1) : /\ Called(st[i], st[i + 1], c)
                                   /\ st[i].fn \in Callees(st[Len(st)])
  /\ Len(st) > 0 => st[Len(st)].fn \in {"avl", "find"}
  /\ \A i, j \in 1 .. Len(st) :
       i < j /\ st[j].fn # "avl" => /\ Under(sub, st[i].slot, Field(st[j], c))
                                    /\ st[j].at = "replace" => st[i].fn = "leftmost"

\* avl_destroy() is freeing the nodes.
Dying == stack # << >> /\ stack[Len(stack)].at = "clear"

\* The nodes a frame of avl_destroy() will yet free, but for those its callee will.
ToFree(f, sub) ==
  IF f.fn # "destroy" THEN {}
  ELSE IF f.at = "enter" THEN sub[f.slot]
  ELSE IF f.at = "l" THEN {child[f.slot]} \cup sub[<< child[f.slot], "r" >>]
  ELSE {child[f.slot]}

\* The nodes allocated are those of the tree and the one being moved.
Owned(T, sub) ==
  IF Dying
  THEN /\ low = NULL /\ call.op = "destroy"
       /\ alloc = {x \in T : \E f \in On(stack) : x \in ToFree(f, sub)}
  ELSE low \notin T /\ alloc = T \cup ({low} \ {NULL})

\* The node being moved: it was cut out of the right subtree of the node it will
\* take the place of, where its hash was the least.
Moving(T, sub) ==
  /\ low # NULL <=> /\ stack # << >>
                    /\ (Top.fn = "leftmost" /\ Top.at = "l") \/ Top.at = "replace"
  /\ \A f \in On(stack) : f.at = "replace" =>
       LET t == << child[f.slot], "r" >>
       IN  IF low = NULL
           THEN \A x \in sub[t], y \in sub[Top.slot] :
                  x \notin sub[Top.slot] => el[y].hash < el[x].hash
           ELSE /\ Fits(el, T, sub, t, el[low].hash)
                /\ \A x \in sub[t] : el[x].hash > el[low].hash

\* What avl_find() returns in the end.
FoundExactly ==
  ret = IF \E a \in alloc : Contains(el[a].ll, call.arg) THEN call.arg ELSE NULL

\* A search: the hash belongs below the slot that was reached.
Searching(T, sub) ==
  /\ stack # << >> /\ Top.fn \in {"insert", "find"} => call.arg \in Key
  /\ stack # << >> /\ Top.fn = "insert" /\ Top.at = "enter" =>
       Fits(el, T, sub, Top.slot, Hash)
  /\ stack # << >> /\ Top.fn = "find" =>
       call.op = "find" /\ \A x \in T : el[x].hash = Hash => x \in sub[Top.slot]
  /\ stack # << >> /\ call.op = "find" =>
       Len(stack) = 1 /\ (Top.fn = "find" \/ (Top.at = "return" /\ FoundExactly))

\* Every node that no running call is to come back to has exact metadata.
Metadata(T) == \A a \in T \ Pending : Exact(child, el, a)

\* The invariant for the tree with the nodes T and the subtrees sub.  After a crash only
\* the memory matters.
HeapInvAt(T, sub) ==
  /\ Shape(child, el, T, sub) /\ Owned(T, sub)
  /\ up => /\ Stacked(stack, child, T, sub)
           /\ Moving(T, sub) /\ Searching(T, sub) /\ Metadata(T)

\* The inductive invariant.
HeapInv == /\ Filled /\ stack \in Seq([fn : Fns, slot : Slot, at : Labels])
           /\ \E T, sub : HeapInvAt(T, sub)

-----------------------------------------------------------------------------
(* Stacks. *)

\* The frames of the stack.
Frames == [fn : Fns, slot : Slot, at : Labels]

\* A sequence without its first element.
LEMMA TailSeq ==
  ASSUME NEW S, NEW st \in Seq(S), st # << >>
  PROVE  /\ Len(st) \in Nat \ {0} /\ st[1] \in S /\ Head(st) = st[1]
         /\ Tail(st) \in Seq(S) /\ Len(Tail(st)) = Len(st) - 1
         /\ \A i \in 1 .. (Len(st) - 1) : Tail(st)[i] = st[i + 1]
OBVIOUS

\* A sequence with another first element.
LEMMA PutSeq ==
  ASSUME NEW S, NEW st \in Seq(S), st # << >>, NEW f \in S
  PROVE  /\ << f >> \o Tail(st) \in Seq(S) /\ Len(<< f >> \o Tail(st)) = Len(st)
         /\ (<< f >> \o Tail(st))[1] = f
         /\ \A i \in 2 .. Len(st) : (<< f >> \o Tail(st))[i] = st[i]
<1>1. /\ Len(st) \in Nat \ {0} /\ Tail(st) \in Seq(S) /\ Len(Tail(st)) = Len(st) - 1
      /\ \A i \in 1 .. (Len(st) - 1) : Tail(st)[i] = st[i + 1]
  BY TailSeq
<1> DEFINE t == Tail(st)
<1> HIDE DEF t
<1>2. << f >> \o t \in Seq(S) /\ Len(<< f >> \o t) = Len(st) /\ (<< f >> \o t)[1] = f
  BY <1>1 DEF t
<1>3. \A i \in 2 .. Len(st) : (<< f >> \o t)[i] = t[i - 1]
  BY <1>1 DEF t
<1>4. \A i \in 2 .. Len(st) : t[i - 1] = st[i]
  <2> TAKE i \in 2 .. Len(st)
  <2>1. i - 1 \in 1 .. (Len(st) - 1) /\ (i - 1) + 1 = i
    BY <1>1
  <2> QED BY <1>1, <2>1 DEF t
<1> QED BY <1>2, <1>3, <1>4 DEF t

\* A sequence with another first element and one more before it.
LEMMA PushSeq ==
  ASSUME NEW S, NEW st \in Seq(S), st # << >>, NEW f \in S, NEW g \in S
  PROVE  /\ << f, g >> \o Tail(st) \in Seq(S) /\ Len(<< f, g >> \o Tail(st)) = Len(st) + 1
         /\ (<< f, g >> \o Tail(st))[1] = f /\ (<< f, g >> \o Tail(st))[2] = g
         /\ \A i \in 2 .. Len(st) : (<< f, g >> \o Tail(st))[i + 1] = st[i]
<1>1. /\ Len(st) \in Nat \ {0} /\ Tail(st) \in Seq(S) /\ Len(Tail(st)) = Len(st) - 1
      /\ \A i \in 1 .. (Len(st) - 1) : Tail(st)[i] = st[i + 1]
  BY TailSeq
<1> DEFINE t == Tail(st)
<1> HIDE DEF t
<1>2. /\ << f, g >> \o t \in Seq(S) /\ Len(<< f, g >> \o t) = Len(st) + 1
      /\ (<< f, g >> \o t)[1] = f /\ (<< f, g >> \o t)[2] = g
  BY <1>1 DEF t
<1>3. \A i \in 2 .. Len(st) : (<< f, g >> \o t)[i + 1] = t[i - 1]
  BY <1>1 DEF t
<1>4. \A i \in 2 .. Len(st) : t[i - 1] = st[i]
  <2> TAKE i \in 2 .. Len(st)
  <2>1. i - 1 \in 1 .. (Len(st) - 1) /\ (i - 1) + 1 = i
    BY <1>1
  <2> QED BY <1>1, <2>1 DEF t
<1> QED BY <1>2, <1>3, <1>4 DEF t

-----------------------------------------------------------------------------
(* Frames and the subtrees they work on. *)

\* A slot under another leads to a part of what the other leads to.
LEMMA UnderSub ==
  ASSUME NEW c, NEW e, NEW T, NEW sub, Shape(c, e, T, sub),
         NEW s \in Slots(T), NEW t \in Slots(T), Under(sub, s, t)
  PROVE  sub[s] \subseteq sub[t]
<1>1. CASE s = t
  BY <1>1
<1>2. CASE s[1] \in sub[t]
  <2>1. T \subseteq Addr /\ sub[t] \subseteq T
    BY DEF Shape
  <2>2. s[2] \in Sides /\ s = << s[1], s[2] >>
    BY <1>2, <2>1, SlotFacts
  <2> QED BY <1>2, <2>2, Below
<1> QED BY <1>1, <1>2 DEF Under

\* The node a slot belongs to is not below the slot.
LEMMA OwnerNotBelow ==
  ASSUME NEW c, NEW e, NEW T, NEW sub, Shape(c, e, T, sub), NEW t \in Slots(T)
  PROVE  t[1] \notin sub[t]
<1>1. T \subseteq Addr /\ sub[t] \subseteq T
  BY DEF Shape
<1>2. CASE t = ROOT
  BY <1>1, <1>2, SlotFacts
<1>3. CASE t[1] \in T /\ t[2] \in Sides /\ t = << t[1], t[2] >>
  BY <1>3, NotBelowItself
<1> QED BY <1>1, <1>2, <1>3, SlotFacts

\* The caller's slot, and the field that it has passed on, are above the callee's.
LEMMA LowerFrame ==
  ASSUME NEW c, NEW e, NEW T, NEW sub, Shape(c, e, T, sub),
         NEW st, Stacked(st, c, T, sub),
         NEW i \in 1 .. Len(st), NEW j \in 1 .. Len(st), i < j, st[j].fn # "avl",
         NEW s, s = st[i].slot, NEW g, g = st[j]
  PROVE  /\ g.fn \in Walkers /\ g.at \in Sides \cup {"replace"}
         /\ g.slot \in Slots(T) /\ c[g.slot] \in T /\ c[g.slot] # NULL
         /\ s \in Slots(T) /\ Under(sub, s, Field(g, c)) /\ Field(g, c) \in Slots(T)
         /\ sub[s] \subseteq sub[Field(g, c)] /\ sub[Field(g, c)] \subseteq sub[g.slot]
         /\ g.slot # s /\ g.slot[1] \notin sub[s] /\ c[g.slot] \notin sub[s]
<1>1. Len(st) \in Nat /\ j - 1 \in 1 .. (Len(st) - 1) /\ (j - 1) + 1 = j
  BY DEF Stacked
<1>2. Called(st[j - 1], g, c) /\ FrameOK(g, c, T) /\ s \in Slots(T)
  BY <1>1 DEF Stacked, FrameOK
<1>3. g.at \in Sides \cup {"replace"} /\ g.fn \in Walkers
  BY <1>2 DEF Called, FrameOK, LabelOK, Sides, Walkers
<1>4. g.slot \in Slots(T) /\ c[g.slot] # NULL
  BY <1>2, <1>3 DEF FrameOK, Sides
<1>5. c[g.slot] \in T /\ Field(g, c) \in Slots(T)
  <2>1. c[g.slot] \in T
    BY <1>4, SlotAt
  <2> QED BY <1>3, <2>1 DEF Field, Slots, Sides
<1>6. Under(sub, s, Field(g, c))
  BY DEF Stacked
<1>7. sub[s] \subseteq sub[Field(g, c)]
  BY <1>2, <1>5, <1>6, UnderSub
<1>8. sub[Field(g, c)] \subseteq sub[g.slot] /\ c[g.slot] \notin sub[Field(g, c)]
  <2>1. \A y \in Sides : /\ sub[<< c[g.slot], y >>] \subseteq sub[g.slot]
                         /\ c[g.slot] \notin sub[<< c[g.slot], y >>]
    BY <1>4, KidAt
  <2> QED BY <1>3, <2>1 DEF Field, Sides
<1>9. g.slot[1] \notin sub[g.slot]
  BY <1>4, OwnerNotBelow
<1>10. g.slot # s
  <2>1. c[g.slot] \in sub[g.slot]
    BY <1>4, SlotAt
  <2> QED BY <1>7, <1>8, <2>1
<1> QED BY <1>2, <1>3, <1>4, <1>5, <1>6, <1>7, <1>8, <1>9, <1>10

\* What is below the callee's slot is below the field that the caller has passed on.
LEMMA LowerSub ==
  ASSUME NEW c, NEW e, NEW T, NEW sub, Shape(c, e, T, sub),
         NEW st, Stacked(st, c, T, sub),
         NEW i \in 1 .. Len(st), NEW j \in 1 .. Len(st), i < j, st[j].fn # "avl"
  PROVE  sub[st[i].slot] \subseteq sub[Field(st[j], c)]
<1> DEFINE s == st[i].slot
           g == st[j]
<1>1. sub[s] \subseteq sub[Field(g, c)]
  <2>1. s = st[i].slot /\ g = st[j]
    OBVIOUS
  <2> HIDE DEF s, g
  <2> QED BY <2>1, LowerFrame
<1> QED BY <1>1

\* After a change of the memory, each frame further down still stands where it stood.
Undisturbed(st, c, T, sub, c2, T2, sub2) ==
  \A j \in 2 .. Len(st) : st[j].fn # "avl" =>
    /\ st[j].slot \in Slots(T2) /\ c2[st[j].slot] = c[st[j].slot]
    /\ \A t \in Slots(T) \cap Slots(T2) : t = Field(st[j], c) => sub[t] \cap T2 \subseteq sub2[t]

\* If the frames further down are undisturbed, each of them still is in order.
LEMMA StillOK ==
  ASSUME NEW c, NEW e, NEW T, NEW sub, Shape(c, e, T, sub),
         NEW c2, NEW e2, NEW T2, NEW sub2, Shape(c2, e2, T2, sub2),
         NEW st, Stacked(st, c, T, sub), Undisturbed(st, c, T, sub, c2, T2, sub2)
  PROVE  /\ \A j \in 2 .. Len(st) : FrameOK(st[j], c2, T2)
         /\ \A i \in 2 .. (Len(st) - 1) : Called(st[i], st[i + 1], c2)
         /\ Len(st) > 1 => \A f : Called(f, st[2], c) => Called(f, st[2], c2)
         /\ \A i, j \in 1 .. Len(st) :
              i < j /\ st[j].fn # "avl" /\ st[i].slot \in Slots(T2)
                => Under(sub2, st[i].slot, Field(st[j], c2))
<1>1. Len(st) \in Nat /\ T \subseteq Addr /\ T2 \subseteq Addr
  BY DEF Stacked, Shape
<1>2. ASSUME NEW j \in 2 .. Len(st)
      PROVE  FrameOK(st[j], c2, T2)
  <2>1. CASE st[j].fn = "avl"
    <3>1. FrameOK(st[j], c, T)
      BY <1>1 DEF Stacked
    <3> QED BY <1>1, <2>1, <3>1 DEF FrameOK, Slots
  <2>2. CASE st[j].fn # "avl"
    <3>1. FrameOK(st[j], c, T) /\ 1 \in 1 .. Len(st) /\ j \in 1 .. Len(st) /\ 1 < j
      BY <1>1 DEF Stacked
    <3>2. c[st[j].slot] # NULL
      BY <2>2, <3>1, LowerFrame
    <3> QED BY <2>2, <3>1, <3>2 DEF FrameOK, Undisturbed
  <2> QED BY <2>1, <2>2
<1>3. ASSUME NEW j \in 2 .. Len(st), NEW f, Called(f, st[j], c)
      PROVE  Called(f, st[j], c2)
  <2>1. CASE st[j].fn = "avl"
    <3>1. LabelOK(st[j].fn, st[j].at)
      BY <1>1 DEF Stacked, FrameOK
    <3> QED BY <1>3, <2>1, <3>1 DEF Called, LabelOK, Sides, Walkers
  <2>2. CASE st[j].fn # "avl"
    <3>1. Field(st[j], c2) = Field(st[j], c)
      BY <2>2 DEF Undisturbed, Field
    <3> QED BY <1>3, <3>1 DEF Called
  <2> QED BY <2>1, <2>2
<1>4. ASSUME NEW i \in 2 .. (Len(st) - 1)
      PROVE  Called(st[i], st[i + 1], c2)
  <2>1. i \in 1 .. (Len(st) - 1) /\ i + 1 \in 2 .. Len(st)
    BY <1>1
  <2>2. Called(st[i], st[i + 1], c)
    BY <2>1 DEF Stacked
  <2> QED BY <1>3, <2>1, <2>2
<1>5. ASSUME NEW i \in 1 .. Len(st), NEW j \in 1 .. Len(st), i < j, st[j].fn # "avl",
             NEW s, s = st[i].slot, s \in Slots(T2)
      PROVE  Under(sub2, s, Field(st[j], c2))
  <2> DEFINE F == Field(st[j], c)
  <2>1. /\ s \in Slots(T) /\ Under(sub, s, F) /\ F \in Slots(T)
        /\ c[st[j].slot] # NULL /\ st[j].at \in Sides \cup {"replace"}
    BY <1>5, LowerFrame
  <2>2. Field(st[j], c2) = F /\ c2[st[j].slot] # NULL /\ st[j].slot \in Slots(T2)
    BY <1>1, <1>5, <2>1 DEF Undisturbed, Field
  <2>3. F \in Slots(T2)
    <3>1. c2[st[j].slot] \in T2
      BY <2>2, SlotAt
    <3> QED BY <2>1, <2>2, <3>1 DEF Field, Slots, Sides
  <2>4. s[1] \in sub[F] => s[1] \in sub2[F]
    <3>1. sub[F] \subseteq T
      BY <2>1, SlotAt
    <3>2. s[1] \in T2 \cup {NULL} /\ NULL \notin T
      BY <1>1, <1>5, SlotFacts
    <3>3. j \in 2 .. Len(st)
      BY <1>1, <1>5
    <3>4. F \in Slots(T) \cap Slots(T2) => sub[F] \cap T2 \subseteq sub2[F]
      BY <1>5, <3>3 DEF Undisturbed
    <3> QED BY <2>1, <2>3, <3>1, <3>2, <3>4
  <2> QED BY <2>1, <2>2, <2>4 DEF Under
<1>6. Len(st) > 1 => \A f : Called(f, st[2], c) => Called(f, st[2], c2)
  BY <1>1, <1>3
<1> QED BY <1>2, <1>4, <1>5, <1>6

\* A function that calls others has a caller.
LEMMA HasCaller ==
  ASSUME NEW c, NEW T, NEW sub, NEW st, Stacked(st, c, T, sub),
         st # << >>, st[1].fn \notin {"avl", "find"}
  PROVE  Len(st) \in Nat /\ Len(st) > 1 /\ st[1].fn \in Walkers
         /\ st[1].fn \in Callees(st[Len(st)])
<1>1. Len(st) \in Nat /\ Len(st) > 0
  BY DEF Stacked
<1>2. Len(st) # 1
  BY <1>1 DEF Stacked
<1>3. FrameOK(st[1], c, T) /\ st[1].fn \in Callees(st[Len(st)])
  BY <1>1, <1>2 DEF Stacked
<1>4. LabelOK(st[1].fn, st[1].at)
  BY <1>3 DEF FrameOK
<1>5. st[1].fn \in Walkers
  BY <1>4 DEF LabelOK, Walkers
<1>6. Len(st) > 1
  <2>1. \A n \in Nat : n > 0 /\ n # 1 => n > 1
    OBVIOUS
  <2> QED BY <1>1, <1>2, <2>1, Zenon
<1> QED BY <1>1, <1>3, <1>5, <1>6

\* The running function returns.
LEMMA Popped ==
  ASSUME NEW c, NEW e, NEW T, NEW sub, Shape(c, e, T, sub),
         NEW c2, NEW e2, NEW T2, NEW sub2, Shape(c2, e2, T2, sub2),
         NEW st, Stacked(st, c, T, sub), Undisturbed(st, c, T, sub, c2, T2, sub2),
         st # << >>, st[1].fn \notin {"avl", "find"}
  PROVE  Stacked(Tail(st), c2, T2, sub2)
<1> DEFINE q == Tail(st)
<1>1. Len(st) \in Nat /\ Len(st) > 1
  BY HasCaller
<1>2. /\ q \in Seq(Frames) /\ Len(q) = Len(st) - 1
      /\ \A i \in 1 .. (Len(st) - 1) : q[i] = st[i + 1]
  BY TailSeq DEF Stacked, Frames
<1> HIDE DEF q
<1>3. \A i \in 1 .. Len(q) : i + 1 \in 2 .. Len(st) /\ i + 1 \in 1 .. Len(st) /\ q[i] = st[i + 1]
  BY <1>1, <1>2
<1>4. \A i \in 1 .. Len(q) : FrameOK(q[i], c2, T2)
  BY <1>3, StillOK
<1>5. q[Len(q)] = st[Len(st)] /\ Len(q) > 0
  BY <1>1, <1>2
<1>6. ASSUME NEW i \in 1 .. (Len(q) - 1)
      PROVE  Called(q[i], q[i + 1], c2) /\ q[i].fn \in Callees(q[Len(q)])
  <2>1. /\ q[i] = st[i + 1] /\ q[i + 1] = st[(i + 1) + 1]
        /\ i + 1 \in 2 .. (Len(st) - 1) /\ i + 1 \in 1 .. (Len(st) - 1)
    BY <1>1, <1>2
  <2>2. Called(st[i + 1], st[(i + 1) + 1], c2)
    BY <2>1, StillOK
  <2> QED BY <1>5, <2>1, <2>2 DEF Stacked
<1>7. ASSUME NEW i \in 1 .. Len(q), NEW j \in 1 .. Len(q), i < j, q[j].fn # "avl"
      PROVE  /\ Under(sub2, q[i].slot, Field(q[j], c2))
             /\ q[j].at = "replace" => q[i].fn = "leftmost"
  <2>1. i + 1 \in 1 .. Len(st) /\ j + 1 \in 1 .. Len(st) /\ i + 1 < j + 1
    BY <1>3, <1>7
  <2>2. q[i] = st[i + 1] /\ q[j] = st[j + 1] /\ q[i].slot \in Slots(T2)
    BY <1>3, <1>4 DEF FrameOK
  <2>3. Under(sub2, st[i + 1].slot, Field(st[j + 1], c2))
    BY <1>7, <2>1, <2>2, StillOK
  <2> QED BY <1>7, <2>1, <2>2, <2>3 DEF Stacked
<1>8. q[Len(q)].fn \in {"avl", "find"}
  BY <1>1, <1>5 DEF Stacked
<1>9. Stacked(q, c2, T2, sub2)
  BY <1>2, <1>4, <1>6, <1>7, <1>8 DEF Stacked, Frames
<1> QED BY <1>9 DEF q

\* The running function goes on.
LEMMA Going ==
  ASSUME NEW c, NEW e, NEW T, NEW sub, Shape(c, e, T, sub),
         NEW c2, NEW e2, NEW T2, NEW sub2, Shape(c2, e2, T2, sub2),
         NEW st, Stacked(st, c, T, sub), Undisturbed(st, c, T, sub, c2, T2, sub2),
         st # << >>, st[1].fn \notin {"avl", "find"},
         NEW f \in Frames, FrameOK(f, c2, T2), f.fn = st[1].fn, f.slot = st[1].slot
  PROVE  Stacked(<< f >> \o Tail(st), c2, T2, sub2)
<1> DEFINE q == << f >> \o Tail(st)
<1>1. Len(st) \in Nat /\ Len(st) > 1
  BY HasCaller
<1>2. /\ q \in Seq(Frames) /\ Len(q) = Len(st) /\ q[1] = f
      /\ \A i \in 2 .. Len(st) : q[i] = st[i]
  BY PutSeq DEF Stacked, Frames
<1> HIDE DEF q
<1>3. ASSUME NEW i \in 1 .. Len(q)
      PROVE  /\ FrameOK(q[i], c2, T2)
             /\ q[i].fn = st[i].fn /\ q[i].slot = st[i].slot /\ (i # 1 => q[i] = st[i])
  BY <1>1, <1>2, StillOK
<1>4. ASSUME NEW i \in 1 .. (Len(q) - 1)
      PROVE  Called(q[i], q[i + 1], c2) /\ q[i].fn \in Callees(q[Len(q)])
  <2>1. i + 1 \in 2 .. Len(st) /\ i \in 1 .. Len(q)
    BY <1>1, <1>2
  <2>2. q[i].fn = st[i].fn /\ q[i].slot = st[i].slot /\ q[i + 1] = st[i + 1]
    BY <1>2, <1>3, <2>1
  <2>3. Called(st[i], st[i + 1], c2)
    <3>1. Called(st[i], st[i + 1], c)
      BY <1>2 DEF Stacked
    <3>2. CASE i = 1
      <4>1. Called(st[1], st[2], c)
        BY <3>1, <3>2
      <4>2. Called(st[1], st[2], c2)
        BY <1>1, <4>1, StillOK
      <4> QED BY <3>2, <4>2
    <3>3. CASE i # 1
      <4>1. i \in 2 .. (Len(st) - 1)
        BY <1>2, <3>3
      <4> QED BY <4>1, StillOK
    <3> QED BY <3>2, <3>3
  <2>4. q[Len(q)] = st[Len(st)] /\ st[i].fn \in Callees(st[Len(st)])
    BY <1>1, <1>2 DEF Stacked
  <2> QED BY <2>2, <2>3, <2>4 DEF Called
<1>5. ASSUME NEW i \in 1 .. Len(q), NEW j \in 1 .. Len(q), i < j, q[j].fn # "avl"
      PROVE  /\ Under(sub2, q[i].slot, Field(q[j], c2))
             /\ q[j].at = "replace" => q[i].fn = "leftmost"
  <2>1. /\ q[i].fn = st[i].fn /\ q[i].slot = st[i].slot /\ q[j] = st[j]
        /\ q[i].slot \in Slots(T2)
    BY <1>2, <1>3, <1>5 DEF FrameOK
  <2>2. i \in 1 .. Len(st) /\ j \in 1 .. Len(st)
    BY <1>2
  <2>3. Under(sub2, st[i].slot, Field(st[j], c2))
    BY <1>5, <2>1, <2>2, StillOK
  <2> QED BY <1>5, <2>1, <2>2, <2>3 DEF Stacked
<1>6. q[Len(q)].fn \in {"avl", "find"}
  BY <1>1, <1>2 DEF Stacked
<1>7. Stacked(q, c2, T2, sub2)
  BY <1>2, <1>3, <1>4, <1>5, <1>6 DEF Stacked, Frames
<1> QED BY <1>7 DEF q

\* The running function, standing at q[1], calls g.
LEMMA Pushed ==
  ASSUME NEW c, NEW e, NEW T, NEW sub, Shape(c, e, T, sub),
         NEW q, Stacked(q, c, T, sub), q # << >>, q[1].fn \notin {"avl", "find"},
         q[1].at \in Sides \cup {"replace"},
         NEW g \in Frames, g.at = "enter", g.slot = Field(q[1], c),
         g.fn = IF q[1].at = "replace" THEN "leftmost" ELSE q[1].fn,
         g.fn = "leftmost" => c[g.slot] # NULL,
         NEW r \in Seq(Frames), Len(r) = Len(q) + 1, r[1] = g,
         \A i \in 1 .. Len(q) : r[i + 1] = q[i]
  PROVE  Stacked(r, c, T, sub)
<1>1. Len(q) \in Nat /\ Len(q) > 1 /\ q[1].fn \in Walkers /\ q[1].fn \in Callees(q[Len(q)])
  BY HasCaller
<1>2. FrameOK(q[1], c, T) /\ LabelOK(q[1].fn, q[1].at)
  BY <1>1 DEF Stacked, FrameOK
<1>3. q[1].slot \in Slots(T) /\ c[q[1].slot] # NULL /\ c[q[1].slot] \in T
  <2>1. q[1].slot \in Slots(T) /\ c[q[1].slot] # NULL
    BY <1>1, <1>2 DEF FrameOK, Sides, Walkers
  <2> QED BY <2>1, SlotAt
<1>4. q[1].at = "replace" => q[1].fn \in {"remove", "ndel"}
  BY <1>2 DEF LabelOK
<1>5. g.fn \in Walkers
  BY <1>1 DEF Walkers
<1>6. FrameOK(g, c, T)
  <2>1. LabelOK(g.fn, g.at)
    BY <1>5 DEF LabelOK
  <2>2. g.slot \in Slots(T)
    BY <1>3 DEF Field, Slots, Sides
  <2> QED BY <1>5, <2>1, <2>2 DEF FrameOK, Walkers
<1>7. Called(g, q[1], c)
  BY <1>4 DEF Called
<1>8. g.fn \in Callees(q[Len(q)])
  BY <1>1, <1>4 DEF Callees
<1>9. \A i \in 1 .. Len(r) : i = 1 \/ (i - 1 \in 1 .. Len(q) /\ r[i] = q[i - 1])
  <2> TAKE i \in 1 .. Len(r)
  <2> SUFFICES ASSUME i # 1 PROVE i - 1 \in 1 .. Len(q) /\ r[i] = q[i - 1]
    OBVIOUS
  <2>1. i - 1 \in 1 .. Len(q) /\ (i - 1) + 1 = i
    BY <1>1
  <2> QED BY <2>1
<1>10. r[Len(r)] = q[Len(q)] /\ Len(r) > 0
  BY <1>1
<1>11. \A i \in 1 .. Len(r) : FrameOK(r[i], c, T)
  BY <1>6, <1>9 DEF Stacked
<1>12. ASSUME NEW i \in 1 .. (Len(r) - 1)
       PROVE  Called(r[i], r[i + 1], c) /\ r[i].fn \in Callees(r[Len(r)])
  <2>1. r[i + 1] = q[i]
    BY <1>1
  <2>2. CASE i = 1
    BY <1>7, <1>8, <1>10, <2>1, <2>2
  <2>3. CASE i # 1
    <3>1. i - 1 \in 1 .. (Len(q) - 1) /\ (i - 1) + 1 = i
      BY <1>1, <2>3
    <3>2. r[i] = q[i - 1]
      BY <1>9, <2>3
    <3>3. Called(q[i - 1], q[i], c) /\ q[i - 1].fn \in Callees(q[Len(q)])
      BY <3>1 DEF Stacked
    <3> QED BY <1>10, <2>1, <3>2, <3>3
  <2> QED BY <2>2, <2>3
<1>13. ASSUME NEW i \in 1 .. Len(r), NEW j \in 1 .. Len(r), i < j, r[j].fn # "avl"
       PROVE  /\ Under(sub, r[i].slot, Field(r[j], c))
              /\ r[j].at = "replace" => r[i].fn = "leftmost"
  <2>1. j - 1 \in 1 .. Len(q) /\ r[j] = q[j - 1]
    BY <1>9, <1>13
  <2>2. CASE i # 1
    <3>1. i - 1 \in 1 .. Len(q) /\ r[i] = q[i - 1] /\ i - 1 < j - 1
      BY <1>1, <1>9, <1>13, <2>2
    <3>2. r[j].fn # "avl" /\ j - 1 \in 1 .. Len(q)
      BY <1>13, <2>1
    <3>3. \A k, l \in 1 .. Len(q) :
            k < l /\ q[l].fn # "avl" => /\ Under(sub, q[k].slot, Field(q[l], c))
                                        /\ q[l].at = "replace" => q[k].fn = "leftmost"
      BY DEF Stacked
    <3> QED BY ONLY <2>1, <3>1, <3>2, <3>3
  <2>3. CASE i = 1 /\ j = 2
    BY <2>1, <2>3 DEF Under
  <2>4. CASE i = 1 /\ j # 2
    <3>1. 1 \in 1 .. Len(q) /\ 1 < j - 1
      BY <1>1, <1>13, <2>4
    <3>2. sub[q[1].slot] \subseteq sub[Field(q[j - 1], c)]
      <4>1. q[j - 1].fn # "avl"
        BY <1>13, <2>1
      <4>2. j - 1 \in 1 .. Len(q)
        BY <2>1
      <4> QED BY <3>1, <4>1, <4>2, LowerSub
    <3>3. c[q[1].slot] \in sub[q[1].slot]
      BY <1>3, SlotAt
    <3>4. Under(sub, g.slot, Field(r[j], c))
      <4>1. g.slot[1] = c[q[1].slot]
        BY DEF Field
      <4> QED BY <2>1, <3>2, <3>3, <4>1 DEF Under
    <3>5. q[j - 1].at = "replace" => q[1].fn = "leftmost"
      BY <1>13, <2>1, <3>1 DEF Stacked
    <3> QED BY <1>4, <2>1, <2>4, <3>4, <3>5
  <2> QED BY <2>2, <2>3, <2>4
<1>14. r[Len(r)].fn \in {"avl", "find"}
  BY <1>1, <1>10 DEF Stacked
<1>15. \A i, j \in 1 .. Len(r) : i < j /\ r[j].fn # "avl" =>
         /\ Under(sub, r[i].slot, Field(r[j], c))
         /\ r[j].at = "replace" => r[i].fn = "leftmost"
  BY <1>13
<1> QED BY <1>10, <1>11, <1>12, <1>14, <1>15 DEF Stacked, Frames

\* The interface function runs, or avl_find().
LEMMA Alone ==
  ASSUME NEW c, NEW T, NEW sub, NEW f \in Frames, FrameOK(f, c, T), f.fn \in {"avl", "find"}
  PROVE  Stacked(<< f >>, c, T, sub) /\ On(<< f >>) = {f} /\ << f >> \in Seq(Frames)
<1>1. << f >> \in Seq(Frames) /\ Len(<< f >>) = 1 /\ << f >>[1] = f
  OBVIOUS
<1>2. On(<< f >>) = {f}
  BY <1>1 DEF On
<1>3. Stacked(<< f >>, c, T, sub)
  BY <1>1 DEF Stacked, Frames
<1> QED BY <1>1, <1>2, <1>3

\* The interface function g calls f.
LEMMA Started ==
  ASSUME NEW c, NEW T, NEW sub, NEW f \in Frames, NEW g \in Frames,
         FrameOK(f, c, T), FrameOK(g, c, T),
         g.fn = "avl", f.fn \in Callees(g), f.fn # "leftmost", f.slot = ROOT
  PROVE  Stacked(<< f, g >>, c, T, sub) /\ On(<< f, g >>) = {f, g} /\ << f, g >> \in Seq(Frames)
<1> DEFINE r == << f, g >>
<1>1. r \in Seq(Frames) /\ Len(r) = 2 /\ r[1] = f /\ r[2] = g
  OBVIOUS
<1> HIDE DEF r
<1>2. On(r) = {f, g}
  BY <1>1 DEF On
<1>3. Called(f, g, c)
  BY DEF Called
<1>4. \A i \in 1 .. Len(r) : i = 1 \/ i = 2
  BY <1>1
<1>5. Stacked(r, c, T, sub)
  <2>1. \A i \in 1 .. Len(r) : FrameOK(r[i], c, T)
    BY <1>1, <1>4
  <2>2. \A i \in 1 .. (Len(r) - 1) : i = 1 /\ i + 1 = 2
    BY <1>1
  <2>3. \A i, j \in 1 .. Len(r) : i < j => j = 2
    BY <1>1
  <2> QED BY <1>1, <1>3, <2>1, <2>2, <2>3 DEF Stacked, Frames
<1> QED BY <1>1, <1>2, <1>5 DEF r

-----------------------------------------------------------------------------
(* The frames on a stack. *)

\* The frames on a stack are the top one and those below it.
LEMMA TailOn ==
  ASSUME NEW st \in Seq(Frames), st # << >>
  PROVE  /\ On(st) = {st[1]} \cup On(Tail(st))
         /\ \A f \in On(Tail(st)) : \E j \in 2 .. Len(st) : f = st[j]
         /\ \A j \in 2 .. Len(st) : st[j] \in On(Tail(st))
         /\ Len(st) > 1 => Tail(st) # << >> /\ Tail(st)[Len(Tail(st))] = st[Len(st)]
<1>1. /\ Len(st) \in Nat \ {0} /\ Tail(st) \in Seq(Frames) /\ Len(Tail(st)) = Len(st) - 1
      /\ \A i \in 1 .. (Len(st) - 1) : Tail(st)[i] = st[i + 1]
  BY TailSeq
<1> DEFINE t == Tail(st)
<1> HIDE DEF t
<1>2. \A f \in On(t) : \E j \in 2 .. Len(st) : f = st[j]
  <2> TAKE f \in On(t)
  <2>1. PICK i \in 1 .. (Len(st) - 1) : f = st[i + 1]
    BY <1>1 DEF On, t
  <2>2. i + 1 \in 2 .. Len(st)
    BY <1>1
  <2> QED BY <2>1, <2>2
<1>3. ASSUME NEW j \in 2 .. Len(st)
      PROVE  st[j] \in On(t)
  <2>1. j - 1 \in 1 .. (Len(st) - 1) /\ (j - 1) + 1 = j
    BY <1>1
  <2>2. t[j - 1] = st[j] /\ j - 1 \in 1 .. Len(t)
    BY <1>1, <2>1 DEF t
  <2> QED BY <2>2 DEF On
<1>4. On(st) = {st[1]} \cup On(t)
  <2>1. \A j \in 1 .. Len(st) : j = 1 \/ j \in 2 .. Len(st)
    BY <1>1
  <2>2. \A j \in 2 .. Len(st) : j \in 1 .. Len(st)
    BY <1>1
  <2>3. 1 \in 1 .. Len(st)
    BY <1>1
  <2> QED BY <1>2, <1>3, <2>1, <2>2, <2>3 DEF On
<1>5. Len(st) > 1 => t # << >> /\ t[Len(t)] = st[Len(st)]
  <2> SUFFICES ASSUME Len(st) > 1 PROVE t # << >> /\ t[Len(t)] = st[Len(st)]
    OBVIOUS
  <2>1. Len(t) > 0 /\ Len(t) \in 1 .. (Len(st) - 1) /\ Len(t) + 1 = Len(st)
    BY <1>1 DEF t
  <2>2. t[Len(t)] = st[Len(t) + 1]
    BY <1>1, <2>1 DEF t
  <2> QED BY <2>1, <2>2
<1> QED BY <1>2, <1>3, <1>4, <1>5 DEF t

\* The frames of a stack with one more frame on top.
LEMMA PutOn ==
  ASSUME NEW t \in Seq(Frames), NEW f \in Frames
  PROVE  LET r == << f >> \o t
         IN  /\ r \in Seq(Frames) /\ r # << >> /\ r[1] = f /\ On(r) = {f} \cup On(t)
             /\ Len(r) = Len(t) + 1 /\ \A i \in 1 .. Len(t) : r[i + 1] = t[i]
             /\ t # << >> => r[Len(r)] = t[Len(t)]
<1> DEFINE r == << f >> \o t
<1>1. /\ r \in Seq(Frames) /\ r # << >> /\ r[1] = f
      /\ Len(r) = Len(t) + 1 /\ \A i \in 1 .. Len(t) : r[i + 1] = t[i]
  OBVIOUS
<1> HIDE DEF r
<1>2. On(r) = {f} \cup On(t)
  <2>1. Len(t) \in Nat
    OBVIOUS
  <2>2. ASSUME NEW i \in 1 .. Len(r)
        PROVE  r[i] \in {f} \cup On(t)
    <3>1. CASE i = 1
      BY <1>1, <3>1
    <3>2. CASE i # 1
      <4>1. i - 1 \in 1 .. Len(t) /\ (i - 1) + 1 = i
        BY <1>1, <2>1, <3>2
      <4>2. r[i] = t[i - 1]
        BY <1>1, <4>1
      <4> QED BY <4>1, <4>2 DEF On
    <3> QED BY <3>1, <3>2
  <2>3. \A i \in 1 .. Len(t) : i + 1 \in 1 .. Len(r) /\ r[i + 1] = t[i]
    BY <1>1, <2>1
  <2>4. 1 \in 1 .. Len(r)
    BY <1>1, <2>1
  <2> QED BY <1>1, <2>2, <2>3, <2>4 DEF On
<1>3. t # << >> => r[Len(r)] = t[Len(t)]
  <2> SUFFICES ASSUME t # << >> PROVE r[Len(r)] = t[Len(t)]
    OBVIOUS
  <2>1. Len(t) \in 1 .. Len(t)
    OBVIOUS
  <2> QED BY <1>1, <2>1
<1> QED BY <1>1, <1>2, <1>3 DEF r

\* Two frames on top, one after the other.
LEMMA TwoOn ==
  ASSUME NEW t \in Seq(Frames), NEW f \in Frames, NEW g \in Frames
  PROVE  << g, f >> \o t = << g >> \o (<< f >> \o t)
OBVIOUS

-----------------------------------------------------------------------------
(* The running function and its callers. *)

\* The callers of the running function.
Lower == On(Tail(stack))

\* A caller that will regenerate the metadata of its node.
Waits(f) == f.fn \in {"insert", "remove", "ndel", "leftmost"} /\ f.at # "enter"

\* The nodes whose metadata the frames F will regenerate.
Waiting(F, c) == {c[f.slot] : f \in {g \in F : Waits(g)}}

\* Pending, by the frames and not by their positions.
LEMMA PendingOn == stack \in Seq(Frames) => Pending = Waiting(On(stack), child)
<1> SUFFICES ASSUME stack \in Seq(Frames) PROVE Pending = Waiting(On(stack), child)
  OBVIOUS
<1>1. DOMAIN stack = 1 .. Len(stack)
  OBVIOUS
<1> QED BY <1>1 DEF Pending, Waiting, Waits, On

\* Where the running function stands.
LEMMA Running ==
  ASSUME NEW T, NEW sub, Stacked(stack, child, T, sub), stack # << >>
  PROVE  /\ stack \in Seq(Frames) /\ Top \in Frames /\ Top = stack[1]
         /\ FrameOK(Top, child, T) /\ LabelOK(Top.fn, Top.at) /\ Top.slot \in Slots(T)
         /\ Tail(stack) \in Seq(Frames) /\ Lower \subseteq Frames
         /\ On(stack) = {Top} \cup Lower
<1>1. stack \in Seq(Frames) /\ Len(stack) \in Nat /\ Len(stack) > 0
  BY DEF Stacked, Frames
<1>2. FrameOK(stack[1], child, T)
  BY <1>1 DEF Stacked
<1>3. Top = stack[1] /\ Top \in Frames /\ Tail(stack) \in Seq(Frames)
  BY <1>1, TailSeq DEF Top
<1>4. On(stack) = {Top} \cup Lower
  BY <1>1, <1>3, TailOn DEF Lower
<1>5. Lower \subseteq Frames
  BY <1>3 DEF Lower, On
<1> QED BY <1>1, <1>2, <1>3, <1>4, <1>5 DEF FrameOK

\* The interface function and avl_find() are at the bottom of the stack.
LEMMA Bottom ==
  ASSUME NEW T, NEW sub, Stacked(stack, child, T, sub), stack # << >>,
         Top.fn \in {"avl", "find"}
  PROVE  Len(stack) = 1 /\ stack = << Top >> /\ On(stack) = {Top} /\ stack[Len(stack)] = Top
<1>1. stack \in Seq(Frames) /\ Top = stack[1] /\ Top \in Frames
  BY Running
<1>2. Len(stack) \in Nat /\ Len(stack) > 0
  BY <1>1
<1>3. Len(stack) = 1
  <2> DEFINE n == Len(stack)
  <2>1. n # 1 => 1 \in 1 .. (n - 1)
    <3> HIDE DEF n
    <3>1. \A i \in Nat : i > 0 /\ i # 1 => 1 \in 1 .. (i - 1)
      OBVIOUS
    <3> QED BY <1>2, <3>1, Zenon DEF n
  <2>2. 1 \in 1 .. (n - 1) => Top.fn \in Callees(stack[n])
    BY <1>1 DEF Stacked
  <2>3. Top.fn \notin Callees(stack[n])
    BY DEF Callees
  <2> QED BY <2>1, <2>2, <2>3
<1>4. stack = << Top >>
  BY <1>1, <1>3
<1>5. On(stack) = {Top}
  BY <1>1, <1>3 DEF On
<1> QED BY <1>1, <1>3, <1>4, <1>5

\* A function that is not the interface function or avl_find().
LEMMA Walking ==
  ASSUME NEW T, NEW sub, Shape(child, el, T, sub), Stacked(stack, child, T, sub),
         stack # << >>, Top.fn \in Walkers
  PROVE  /\ Len(stack) \in Nat /\ Len(stack) > 1
         /\ Top.fn \in Callees(stack[Len(stack)])
         /\ Dying <=> Top.fn = "destroy"
         /\ stack[2] \in Lower /\ stack[2].at # "enter" /\ Called(Top, stack[2], child)
         /\ \/ stack[2].fn = Top.fn /\ stack[2].at \in Sides
            \/ stack[2].fn = "avl" /\ Top.fn # "leftmost"
            \/ stack[2].at = "replace" /\ Top.fn = "leftmost" /\ stack[2].fn \in {"remove", "ndel"}
         /\ \A g \in Lower : /\ g.fn \in Callees(stack[Len(stack)]) \cup {"avl"}
                             /\ g.at # "enter"
                             /\ g.fn = "avl" => g.at \in {"rebalance", "clear", "return"}
<1>1. /\ stack \in Seq(Frames) /\ Top = stack[1] /\ Top \in Frames /\ LabelOK(Top.fn, Top.at)
  BY Running
<1>2. Len(stack) \in Nat /\ Len(stack) > 1 /\ Top.fn \in Callees(stack[Len(stack)])
  BY <1>1, HasCaller DEF Walkers
<1>3. Dying <=> Top.fn = "destroy"
  BY <1>2 DEF Dying, Callees
<1>4. ASSUME NEW j \in 2 .. Len(stack)
      PROVE  /\ stack[j].fn \in Callees(stack[Len(stack)]) \cup {"avl"}
             /\ stack[j].at # "enter" /\ LabelOK(stack[j].fn, stack[j].at)
             /\ stack[j].fn = "avl" => stack[j].at \in {"rebalance", "clear", "return"}
  <2>1. j \in 1 .. Len(stack) /\ j - 1 \in 1 .. (Len(stack) - 1) /\ (j - 1) + 1 = j
    BY <1>2
  <2>2. LabelOK(stack[j].fn, stack[j].at)
    BY <2>1 DEF Stacked, FrameOK
  <2>3. Called(stack[j - 1], stack[j], child)
    BY <2>1 DEF Stacked
  <2>4. CASE stack[j].fn = "avl"
    <3>1. stack[j].at \in {"rebalance", "clear", "return"}
      BY <2>2, <2>4 DEF LabelOK, Walkers
    <3> QED BY <2>2, <2>4, <3>1
  <2>5. CASE stack[j].fn # "avl"
    <3>1. stack[j].at \in Sides \cup {"replace"}
      BY <2>3, <2>5 DEF Called
    <3>2. stack[j].fn # "find"
      BY <2>2, <3>1 DEF LabelOK, Sides, Walkers
    <3>3. j # Len(stack)
      BY <1>2, <2>5, <3>2 DEF Stacked
    <3>4. j \in 1 .. (Len(stack) - 1)
      BY <1>2, <3>3
    <3>5. stack[j].fn \in Callees(stack[Len(stack)])
      BY <3>4 DEF Stacked
    <3> QED BY <2>2, <2>5, <3>1, <3>5 DEF Sides
  <2> QED BY <2>4, <2>5
<1>5. \A g \in Lower : \E j \in 2 .. Len(stack) : g = stack[j]
  BY <1>1, TailOn DEF Lower
<1>6. stack[2] \in Lower /\ 2 \in 2 .. Len(stack)
  BY <1>1, <1>2, TailOn DEF Lower
<1>7. Called(Top, stack[2], child)
  <2> DEFINE n == Len(stack)
  <2>1. 1 \in 1 .. (Len(stack) - 1) /\ 1 + 1 = 2
    <3>1. n \in Nat /\ n > 1
      BY <1>2
    <3> HIDE DEF n
    <3>2. 1 \in 1 .. (n - 1) /\ 1 + 1 = 2
      BY <3>1
    <3> QED BY <3>2 DEF n
  <2>2. Called(stack[1], stack[1 + 1], child)
    BY <2>1 DEF Stacked
  <2> QED BY <1>1, <2>1, <2>2
<1>8. \/ stack[2].fn = Top.fn /\ stack[2].at \in Sides
      \/ stack[2].fn = "avl" /\ Top.fn # "leftmost"
      \/ stack[2].at = "replace" /\ Top.fn = "leftmost" /\ stack[2].fn \in {"remove", "ndel"}
  <2>1. LabelOK(stack[2].fn, stack[2].at)
    BY <1>4, <1>6
  <2>2. stack[2].at = "replace" => stack[2].fn \in {"remove", "ndel"}
    BY <2>1 DEF LabelOK
  <2> QED BY <1>7, <2>2 DEF Called
<1> QED BY <1>2, <1>3, <1>4, <1>5, <1>6, <1>7, <1>8

\* What the callers stand for in the tree.
LEMMA Callers ==
  ASSUME NEW T, NEW sub, Shape(child, el, T, sub), Stacked(stack, child, T, sub),
         stack # << >>, NEW g \in Lower, g.fn # "avl",
         NEW s, s = Top.slot, NEW k, k = child[g.slot]
  PROVE  /\ g.fn \in Walkers /\ g.at \in Sides \cup {"replace"}
         /\ g.slot \in Slots(T) /\ k \in T /\ k # NULL
         /\ Under(sub, s, Field(g, child)) /\ Field(g, child) \in Slots(T)
         /\ sub[s] \subseteq sub[Field(g, child)] /\ sub[Field(g, child)] \subseteq sub[g.slot]
         /\ g.slot # s /\ g.slot[1] \notin sub[s] /\ k \notin sub[s]
         /\ g.at = "replace" => Top.fn = "leftmost"
<1>1. stack \in Seq(Frames) /\ Top = stack[1]
  BY Running
<1>2. PICK j \in 2 .. Len(stack) : g = stack[j]
  BY <1>1, TailOn DEF Lower
<1>3. 1 \in 1 .. Len(stack) /\ j \in 1 .. Len(stack) /\ 1 < j /\ s = stack[1].slot
  BY <1>1
<1>4. /\ g.fn \in Walkers /\ g.at \in Sides \cup {"replace"}
      /\ g.slot \in Slots(T) /\ child[g.slot] \in T /\ child[g.slot] # NULL
      /\ Under(sub, s, Field(g, child)) /\ Field(g, child) \in Slots(T)
      /\ sub[s] \subseteq sub[Field(g, child)] /\ sub[Field(g, child)] \subseteq sub[g.slot]
      /\ g.slot # s /\ g.slot[1] \notin sub[s] /\ child[g.slot] \notin sub[s]
  <2>1. stack[j].fn # "avl"
    BY <1>2
  <2>2. /\ g.fn \in Walkers /\ g.at \in Sides \cup {"replace"}
        /\ g.slot \in Slots(T) /\ child[g.slot] \in T /\ child[g.slot] # NULL
    BY <1>2, <1>3, <2>1, LowerFrame
  <2>3. Under(sub, s, Field(g, child)) /\ Field(g, child) \in Slots(T)
    BY <1>2, <1>3, <2>1, LowerFrame
  <2>4. sub[s] \subseteq sub[Field(g, child)] /\ sub[Field(g, child)] \subseteq sub[g.slot]
    BY <1>2, <1>3, <2>1, LowerFrame
  <2>5. g.slot # s /\ g.slot[1] \notin sub[s] /\ child[g.slot] \notin sub[s]
    BY <1>2, <1>3, <2>1, LowerFrame
  <2> QED BY <2>2, <2>3, <2>4, <2>5
<1>5. g.at = "replace" => Top.fn = "leftmost"
  BY <1>1, <1>2, <1>3 DEF Stacked
<1> QED BY <1>4, <1>5

\* While another function runs, no node is being moved.
LEMMA NotMoving ==
  ASSUME NEW T, NEW sub, Shape(child, el, T, sub), Stacked(stack, child, T, sub),
         stack # << >>, Top.fn \in Walkers \ {"leftmost"}, Moving(T, sub), Top.at # "replace"
  PROVE  low = NULL /\ \A g \in Lower : g.at # "replace"
<1>1. low = NULL
  BY DEF Moving
<1>2. ASSUME NEW g \in Lower
      PROVE  g.at # "replace"
  <2>1. CASE g.fn = "avl"
    BY <2>1, Walking
  <2>2. CASE g.fn # "avl"
    BY <2>2, Callers
  <2> QED BY <2>1, <2>2
<1> QED BY <1>1, <1>2

-----------------------------------------------------------------------------
(* What the steps do to the stack. *)

\* A step leaves the callers where they stand.
Steady(T, sub, T2, sub2) ==
  \A g \in Lower : g.fn # "avl" =>
    /\ g.slot \in Slots(T2) /\ child'[g.slot] = child[g.slot]
    /\ \A t \in Slots(T) \cap Slots(T2) :
         t = Field(g, child) => sub[t] \cap T2 \subseteq sub2[t]

\* Steady, by the positions on the stack.
LEMMA SteadyStack ==
  ASSUME NEW T, NEW sub, NEW T2, NEW sub2, stack \in Seq(Frames), stack # << >>,
         Steady(T, sub, T2, sub2)
  PROVE  Undisturbed(stack, child, T, sub, child', T2, sub2)
<1>1. \A j \in 2 .. Len(stack) : stack[j] \in Lower
  BY TailOn DEF Lower
<1> QED BY <1>1 DEF Steady, Undisturbed

\* A step that writes no slot of the tree is steady.
LEMMA SameSteady ==
  ASSUME NEW T, NEW sub, Shape(child, el, T, sub), Stacked(stack, child, T, sub),
         stack # << >>, Top.fn \in Walkers,
         \A t \in Slots(T) : child'[t] = child[t]
  PROVE  Steady(T, sub, T, sub)
<1>1. \A g \in Lower : g.fn # "avl" => g.slot \in Slots(T)
  BY Callers
<1> QED BY <1>1 DEF Steady

\* The running function returns to its caller.
LEMMA LeaveStack ==
  ASSUME NEW T, NEW sub, NEW T2, NEW sub2,
         Shape(child, el, T, sub), Stacked(stack, child, T, sub), stack # << >>,
         Top.fn \in Walkers, Shape(child', el', T2, sub2), Steady(T, sub, T2, sub2), Leave
  PROVE  /\ Stacked(stack', child', T2, sub2) /\ stack' # << >> /\ stack' \in Seq(Frames)
         /\ On(stack') = Lower /\ (Dying' <=> Dying) /\ Top' = stack[2]
<1>1. stack \in Seq(Frames) /\ Top = stack[1] /\ Tail(stack) \in Seq(Frames)
  BY Running
<1>2. Len(stack) \in Nat /\ Len(stack) > 1
  BY Walking
<1>3. Undisturbed(stack, child, T, sub, child', T2, sub2)
  BY <1>1, SteadyStack
<1>4. Stacked(Tail(stack), child', T2, sub2)
  BY <1>1, <1>3, Popped DEF Walkers
<1>5. Tail(stack) # << >> /\ Tail(stack)[Len(Tail(stack))] = stack[Len(stack)]
  BY <1>1, <1>2, TailOn
<1>6. Dying' <=> Dying
  BY <1>5 DEF Dying, Leave
<1>7. Head(Tail(stack)) = stack[2]
  BY <1>1, <1>2
<1> QED BY <1>1, <1>4, <1>5, <1>6, <1>7 DEF Leave, Lower, Top

\* The running function goes on to another label.
LEMMA GotoStack ==
  ASSUME NEW T, NEW sub, NEW T2, NEW sub2,
         Shape(child, el, T, sub), Stacked(stack, child, T, sub), stack # << >>,
         Top.fn \in Walkers, Shape(child', el', T2, sub2), Steady(T, sub, T2, sub2),
         NEW f \in Frames, FrameOK(f, child', T2), f.fn = Top.fn, f.slot = Top.slot,
         stack' = << f >> \o Tail(stack)
  PROVE  /\ Stacked(stack', child', T2, sub2) /\ stack' # << >> /\ stack' \in Seq(Frames)
         /\ On(stack') = {f} \cup Lower /\ (Dying' <=> Dying) /\ Top' = f
<1>1. stack \in Seq(Frames) /\ Top = stack[1] /\ Tail(stack) \in Seq(Frames)
  BY Running
<1>2. Len(stack) \in Nat /\ Len(stack) > 1
  BY Walking
<1>3. Undisturbed(stack, child, T, sub, child', T2, sub2)
  BY <1>1, SteadyStack
<1>4. Stacked(<< f >> \o Tail(stack), child', T2, sub2)
  BY <1>1, <1>3, Going DEF Walkers
<1>5. Tail(stack) # << >> /\ Tail(stack)[Len(Tail(stack))] = stack[Len(stack)]
  BY <1>1, <1>2, TailOn
<1> DEFINE t == Tail(stack)
<1> HIDE DEF t
<1>6. LET r == << f >> \o t
      IN  /\ r \in Seq(Frames) /\ r # << >> /\ r[1] = f /\ On(r) = {f} \cup On(t)
          /\ r[Len(r)] = t[Len(t)]
  BY <1>1, <1>5, PutOn DEF t
<1>7. Dying' <=> Dying
  BY <1>5, <1>6 DEF Dying, t
<1>8. Head(stack') = f
  BY <1>6 DEF t
<1> QED BY <1>4, <1>6, <1>7, <1>8 DEF Lower, Top, t

\* The running function calls another.
LEMMA EnterStack ==
  ASSUME NEW T, NEW sub,
         Shape(child, el, T, sub), Stacked(stack, child, T, sub), stack # << >>,
         Top.fn \in Walkers, UNCHANGED << child, el >>,
         NEW f \in Frames, FrameOK(f, child, T), f.fn = Top.fn, f.slot = Top.slot,
         f.at \in Sides \cup {"replace"},
         NEW g \in Frames, g.at = "enter", g.slot = Field(f, child),
         g.fn = IF f.at = "replace" THEN "leftmost" ELSE f.fn,
         g.fn = "leftmost" => child[g.slot] # NULL,
         stack' = << g, f >> \o Tail(stack)
  PROVE  /\ Stacked(stack', child', T, sub) /\ stack' # << >> /\ stack' \in Seq(Frames)
         /\ On(stack') = {g, f} \cup Lower /\ (Dying' <=> Dying) /\ Top' = g
<1>1. stack \in Seq(Frames) /\ Top = stack[1] /\ Tail(stack) \in Seq(Frames)
  BY Running
<1>2. Len(stack) \in Nat /\ Len(stack) > 1
  BY Walking
<1>3. Undisturbed(stack, child, T, sub, child, T, sub)
  <2>1. Steady(T, sub, T, sub)
    BY SameSteady
  <2>2. Undisturbed(stack, child, T, sub, child', T, sub)
    BY <1>1, <2>1, SteadyStack
  <2> QED BY <2>2
<1> DEFINE t == Tail(stack)
           q == << f >> \o t
           r == << g >> \o q
<1>4. Stacked(q, child, T, sub)
  BY <1>1, <1>3, Going DEF Walkers
<1>5. t # << >> /\ t[Len(t)] = stack[Len(stack)] /\ t \in Seq(Frames)
  BY <1>1, <1>2, TailOn
<1> HIDE DEF t
<1>6. /\ q \in Seq(Frames) /\ q # << >> /\ q[1] = f /\ On(q) = {f} \cup On(t)
      /\ q[Len(q)] = t[Len(t)]
  BY <1>5, PutOn
<1>7. stack' = r
  BY <1>5, TwoOn DEF t
<1> HIDE DEF q
<1>8. /\ r \in Seq(Frames) /\ r # << >> /\ r[1] = g /\ On(r) = {g} \cup On(q)
      /\ r[Len(r)] = q[Len(q)] /\ Len(r) = Len(q) + 1 /\ \A i \in 1 .. Len(q) : r[i + 1] = q[i]
  BY <1>6, PutOn
<1> HIDE DEF r
<1>9. Stacked(r, child, T, sub)
  <2>1. /\ q[1].fn \notin {"avl", "find"} /\ q[1].at \in Sides \cup {"replace"}
        /\ g.slot = Field(q[1], child)
        /\ g.fn = IF q[1].at = "replace" THEN "leftmost" ELSE q[1].fn
    BY <1>6 DEF Walkers
  <2>2. r \in Seq(Frames) /\ Len(r) = Len(q) + 1 /\ r[1] = g /\ q # << >>
    BY <1>6, <1>8
  <2> QED BY <1>4, <1>8, <2>1, <2>2, Pushed
<1>10. Dying' <=> Dying
  BY <1>5, <1>6, <1>7, <1>8 DEF Dying
<1>11. Head(stack') = g
  BY <1>7, <1>8
<1>12. On(stack') = {g, f} \cup Lower
  BY <1>6, <1>7, <1>8 DEF Lower, t
<1> QED BY <1>7, <1>8, <1>9, <1>10, <1>11, <1>12 DEF Top

-----------------------------------------------------------------------------
(* The parts of the invariant that a step hardly touches. *)

\* A search below keeps its value.
LEMMA SearchOn ==
  ASSUME NEW T, NEW sub, NEW T2, NEW sub2,
         Shape(child, el, T, sub), Stacked(stack, child, T, sub), Searching(T, sub),
         stack # << >>, Top.fn \in Walkers, call' = call, stack' # << >>,
         Top'.fn # "find", Top'.fn = "insert" => Top.fn = "insert",
         Top'.fn = "insert" /\ Top'.at = "enter" => Fits(el', T2, sub2, Top'.slot, Hash)
  PROVE  Searching(T2, sub2)'
<1>1. call.op # "find"
  <2>1. Len(stack) \in Nat /\ Len(stack) > 1
    BY Walking
  <2>2. Len(stack) # 1
    BY <2>1
  <2> QED BY <2>2 DEF Searching
<1>2. Top'.fn = "insert" => call'.arg \in Key
  BY DEF Searching
<1>3. Hash' = Hash
  BY DEF Hash
<1> QED BY <1>1, <1>2, <1>3 DEF Searching

\* No node is being moved, and none will be.
LEMMA StillNotMoving ==
  ASSUME NEW T, NEW sub, NEW T2, NEW sub2,
         Shape(child, el, T, sub), Stacked(stack, child, T, sub), Moving(T, sub),
         stack # << >>, Top.fn \in Walkers \ {"leftmost"}, Top.at # "replace",
         low' = low, stack' # << >>, Top' \in On(stack'), Top'.fn # "leftmost",
         \A f \in On(stack') \ Lower : f.at # "replace"
  PROVE  Moving(T2, sub2)'
<1>1. low' = NULL /\ \A f \in On(stack') : f.at # "replace"
  BY NotMoving
<1>2. Top'.at # "replace"
  BY <1>1
<1> QED BY <1>1, <1>2 DEF Moving

\* The callers' nodes stay pending.
LEMMA StillPending ==
  ASSUME NEW T, NEW sub, Shape(child, el, T, sub), Stacked(stack, child, T, sub),
         stack # << >>, Top.fn \in Walkers, stack' \in Seq(Frames),
         Lower \subseteq On(stack'),
         \A g \in Lower : g.fn # "avl" => child'[g.slot] = child[g.slot]
  PROVE  /\ Pending \subseteq Pending' \cup (IF Waits(Top) THEN {Cur} ELSE {})
         /\ Waits(Top) /\ (\E f \in On(stack') : Waits(f) /\ child'[f.slot] = Cur)
              => Cur \in Pending'
         /\ \A g \in Lower : Waits(g) => child[g.slot] \in Pending'
<1>1. stack \in Seq(Frames) /\ On(stack) = {Top} \cup Lower
  BY Running
<1>2. Pending = Waiting(On(stack), child)
  BY <1>1, PendingOn
<1>3. Pending' = Waiting(On(stack'), child')
  <2>1. DOMAIN stack' = 1 .. Len(stack')
    OBVIOUS
  <2> QED BY <2>1 DEF Pending, Waiting, Waits, On
<1>4. \A g \in Lower : Waits(g) => child'[g.slot] = child[g.slot]
  BY DEF Waits
<1> QED BY <1>1, <1>2, <1>3, <1>4 DEF Waiting, Cur

-----------------------------------------------------------------------------
(* Steps that leave the tree as it is. *)

\* A step that only changes the stack, and leaves every waiting node with a frame that
\* waits for it.
LEMMA Quiet ==
  ASSUME Filled, NEW T, NEW sub, HeapInvAt(T, sub), up, stack # << >>,
         Top.fn \in Walkers \ {"leftmost", "destroy"}, Top.at # "replace",
         UNCHANGED << memory, low, call, up >>,
         Stacked(stack', child', T, sub), stack' # << >>, stack' \in Seq(Frames),
         Dying' <=> Dying, Lower \subseteq On(stack'), Top' \in On(stack'),
         \A f \in On(stack') \ Lower : f.at # "replace",
         Top'.fn \in {"avl", Top.fn},
         Waits(Top) => \E f \in On(stack') : Waits(f) /\ child'[f.slot] = Cur,
         Top'.fn = "insert" /\ Top'.at = "enter" => Fits(el', T, sub, Top'.slot, Hash)
  PROVE  HeapInv'
<1>1. /\ Shape(child, el, T, sub) /\ Owned(T, sub) /\ Stacked(stack, child, T, sub)
      /\ Moving(T, sub) /\ Searching(T, sub) /\ Metadata(T)
  BY DEF HeapInvAt
<1>2. /\ Shape(child', el', T, sub)
      /\ UNCHANGED child /\ UNCHANGED el /\ UNCHANGED alloc /\ UNCHANGED low
      /\ UNCHANGED call /\ UNCHANGED up
  BY <1>1 DEF memory
<1>3. Owned(T, sub)'
  <2>1. ~Dying /\ ~Dying'
    BY <1>1, Walking
  <2> QED BY <1>1, <1>2, <2>1 DEF Owned
<1>4. Moving(T, sub)'
  BY <1>1, <1>2, StillNotMoving DEF Walkers
<1>5. Searching(T, sub)'
  BY <1>1, <1>2, SearchOn DEF Walkers
<1>6. Metadata(T)'
  <2>1. Pending \subseteq Pending'
    BY <1>1, <1>2, StillPending
  <2> QED BY <1>1, <1>2, <2>1 DEF Metadata
<1>7. Filled'
  BY <1>2 DEF Filled
<1>8. HeapInvAt(T, sub)'
  BY <1>2, <1>3, <1>4, <1>5, <1>6 DEF HeapInvAt
<1> QED BY <1>7, <1>8 DEF HeapInv, Frames

\* Such a step that returns to the caller.
LEMMA QuietLeave ==
  ASSUME Filled, NEW T, NEW sub, HeapInvAt(T, sub), up, stack # << >>,
         Top.fn \in Walkers \ {"leftmost", "destroy"}, ~Waits(Top),
         UNCHANGED << memory, low, call, up >>, Leave
  PROVE  HeapInv'
<1>1. Shape(child, el, T, sub) /\ Stacked(stack, child, T, sub)
  BY DEF HeapInvAt
<1>2. /\ UNCHANGED child /\ UNCHANGED el /\ Shape(child', el', T, sub)
  BY <1>1 DEF memory
<1>3. /\ Stacked(stack', child', T, sub) /\ stack' # << >> /\ stack' \in Seq(Frames)
      /\ On(stack') = Lower /\ (Dying' <=> Dying) /\ Top' = stack[2]
  BY <1>1, <1>2, SameSteady, LeaveStack
<1>4. stack[2] \in Lower /\ stack[2].at # "enter" /\ stack[2].fn \in {"avl", Top.fn}
  BY <1>1, Walking
<1>5. Top.at # "replace"
  <2>1. LabelOK(Top.fn, Top.at)
    BY <1>1, Running
  <2> QED BY <2>1 DEF LabelOK, Waits
<1> QED BY <1>3, <1>4, <1>5, Quiet

\* Such a step that goes on to another label.
LEMMA QuietGoto ==
  ASSUME Filled, NEW T, NEW sub, HeapInvAt(T, sub), up, stack # << >>,
         Top.fn \in Walkers \ {"leftmost", "destroy"}, Top.at # "replace",
         UNCHANGED << memory, low, call, up >>,
         NEW label, label \in Labels \ {"enter", "replace"}, LabelOK(Top.fn, label),
         Cur # NULL, Goto(label)
  PROVE  HeapInv'
<1> DEFINE f == [Top EXCEPT !.at = label]
<1>1. Shape(child, el, T, sub) /\ Stacked(stack, child, T, sub)
  BY DEF HeapInvAt
<1>2. /\ UNCHANGED child /\ UNCHANGED el /\ Shape(child', el', T, sub)
  BY <1>1 DEF memory
<1>3. Top \in Frames /\ FrameOK(Top, child, T)
  BY <1>1, Running
<1>4. f \in Frames /\ f.fn = Top.fn /\ f.slot = Top.slot /\ f.at = label
  BY <1>3 DEF Frames
<1> HIDE DEF f
<1>5. FrameOK(f, child', T)
  BY <1>2, <1>3, <1>4 DEF FrameOK, Cur
<1>6. stack' = << f >> \o Tail(stack)
  BY DEF Goto, f
<1>7. /\ Stacked(stack', child', T, sub) /\ stack' # << >> /\ stack' \in Seq(Frames)
      /\ On(stack') = {f} \cup Lower /\ (Dying' <=> Dying) /\ Top' = f
  BY <1>1, <1>2, <1>4, <1>5, <1>6, SameSteady, GotoStack
<1>8. Waits(Top) => Waits(f) /\ child'[f.slot] = Cur
  BY <1>2, <1>4 DEF Waits, Cur
<1> QED BY <1>4, <1>7, <1>8, Quiet

\* Such a step that calls the function for a child.
LEMMA QuietEnter ==
  ASSUME Filled, NEW T, NEW sub, HeapInvAt(T, sub), up, stack # << >>,
         Top.fn \in Walkers \ {"leftmost", "destroy"}, Top.at # "replace",
         UNCHANGED << memory, low, call, up >>,
         NEW side \in Sides, Cur # NULL, Enter(side),
         Top.fn = "insert" => Fits(el, T, sub, << Cur, side >>, Hash)
  PROVE  HeapInv'
<1> DEFINE f == [Top EXCEPT !.at = side]
           g == Frame(Top.fn, << Cur, side >>, "enter")
<1>1. Shape(child, el, T, sub) /\ Stacked(stack, child, T, sub)
  BY DEF HeapInvAt
<1>2. /\ UNCHANGED child /\ UNCHANGED el
  BY DEF memory
<1>3. Top \in Frames /\ FrameOK(Top, child, T) /\ Top.slot \in Slots(T)
  BY <1>1, Running
<1>4. f \in Frames /\ f.fn = Top.fn /\ f.slot = Top.slot /\ f.at = side
  BY <1>3 DEF Frames, Labels, Sides
<1>5. g \in Frames /\ g.fn = Top.fn /\ g.slot = << Cur, side >> /\ g.at = "enter"
  <2>1. Cur \in T /\ T \subseteq Addr
    BY <1>1, <1>3, SlotAt DEF Cur, Shape
  <2> QED BY <1>3, <2>1 DEF Frames, Frame, Labels, Slot, Sides
<1>6. stack' = << g, f >> \o Tail(stack)
  BY DEF Enter
<1> HIDE DEF f, g
<1>7. FrameOK(f, child, T)
  BY <1>3, <1>4 DEF FrameOK, LabelOK, Cur, Walkers, Sides
<1>8. g.slot = Field(f, child)
  BY <1>4, <1>5 DEF Field, Cur, Sides
<1>9. /\ Stacked(stack', child', T, sub) /\ stack' # << >> /\ stack' \in Seq(Frames)
      /\ On(stack') = {g, f} \cup Lower /\ (Dying' <=> Dying) /\ Top' = g
  BY <1>1, <1>2, <1>4, <1>5, <1>6, <1>7, <1>8, EnterStack DEF Sides
<1>10. Waits(Top) => Waits(f) /\ child'[f.slot] = Cur
  BY <1>2, <1>4 DEF Waits, Cur, Sides
<1>11. g.at # "replace" /\ f.at # "replace"
  BY <1>4, <1>5 DEF Sides
<1> QED BY <1>2, <1>4, <1>5, <1>9, <1>10, <1>11, Quiet

\* A hash that fits below a node fits below its child on the side of the hash.
LEMMA FitsBelow ==
  ASSUME NEW c, NEW e, NEW T, NEW sub, Shape(c, e, T, sub),
         NEW s \in Slots(T), NEW n, n = c[s], n # NULL,
         NEW h, Fits(e, T, sub, s, h), NEW x \in Sides,
         x = "l" => h < e[n].hash, x = "r" => h > e[n].hash
  PROVE  Fits(e, T, sub, << n, x >>, h)
<1>1. ASSUME NEW b \in T, NEW y \in Sides, Under(sub, << n, x >>, << b, y >>)
      PROVE  Under(sub, s, << b, y >>) \/ (b = n /\ y = x)
  <2>1. CASE n \in sub[<< b, y >>]
    <3>1. << b, y >> \in Slots(T)
      BY DEF Slots
    <3> QED BY <2>1, <3>1, Above
  <2> QED BY <1>1, <2>1 DEF Under
<1> QED BY <1>1 DEF Fits, Sides

\* A recursive search goes on to the side of the hash.
LEMMA DescendKeeps == HeapInv /\ Descend => HeapInv'
<1> SUFFICES ASSUME HeapInv, Descend PROVE HeapInv'
  OBVIOUS
<1>1. PICK T, sub : HeapInvAt(T, sub)
  BY DEF HeapInv
<1>2. /\ Filled /\ up /\ stack # << >> /\ Top.fn \in {"insert", "remove"} /\ Top.at = "enter"
      /\ Cur # NULL /\ UNCHANGED << memory, low, call, up >>
  BY DEF HeapInv, Descend, At, rest
<1>3. PICK side \in Sides : /\ Enter(side)
                            /\ side = IF Hash < el[Cur].hash THEN "l" ELSE "r"
  BY DEF Descend, Sides
<1>4. Shape(child, el, T, sub) /\ Stacked(stack, child, T, sub) /\ Searching(T, sub)
  BY <1>1, <1>2 DEF HeapInvAt
<1>5. ASSUME Top.fn = "insert"
      PROVE  Fits(el, T, sub, << Cur, side >>, Hash)
  <2>1. Top.slot \in Slots(T) /\ Cur \in T
    BY <1>2, <1>4, Running, SlotAt DEF Cur
  <2>2. Fits(el, T, sub, Top.slot, Hash)
    BY <1>2, <1>4, <1>5 DEF Searching
  <2>3. Hash \in Nat /\ el[Cur].hash \in Nat /\ el[Cur].hash # Hash
    <3>1. call.arg \in Key
      BY <1>2, <1>4, <1>5 DEF Searching
    <3>2. el[Cur].hash \in Nat
      BY <1>4, <2>1 DEF Shape
    <3> QED BY <3>1, <3>2, HeapAssumption DEF Hash, Descend
  <2>4. /\ side = "l" => Hash < el[Cur].hash
        /\ side = "r" => Hash > el[Cur].hash
    BY <1>3, <2>3
  <2> QED BY <1>2, <1>4, <2>1, <2>2, <2>4, FitsBelow DEF Cur
<1> QED BY <1>1, <1>2, <1>3, <1>5, QuietEnter DEF Walkers

\* The steps that return having found nothing to do.
LEMMA QuietReturns ==
  /\ HeapInv /\ InsertNoNode => HeapInv'
  /\ HeapInv /\ RemoveMiss => HeapInv'
  /\ HeapInv /\ RebalanceSkip => HeapInv'
  /\ HeapInv /\ RebalanceEnd => HeapInv'
  /\ HeapInv /\ VisitNull /\ Top.fn = "ndel" => HeapInv'
<1>1. ASSUME HeapInv, up, stack # << >>, Top.fn \in Walkers \ {"leftmost", "destroy"},
             Top.at = "enter" \/ Top.fn = "rebalance",
             UNCHANGED << memory, low, rest >>, Leave
      PROVE  HeapInv'
  <2>1. PICK T, sub : HeapInvAt(T, sub)
    BY <1>1 DEF HeapInv
  <2>2. Filled /\ ~Waits(Top) /\ UNCHANGED << memory, low, call, up >>
    BY <1>1 DEF HeapInv, Waits, rest
  <2> QED BY <1>1, <2>1, <2>2, QuietLeave
<1>2. HeapInv /\ InsertNoNode => HeapInv'
  BY <1>1 DEF InsertNoNode, At, Walkers
<1>3. HeapInv /\ RemoveMiss => HeapInv'
  BY <1>1 DEF RemoveMiss, At, Walkers
<1>4. HeapInv /\ RebalanceSkip => HeapInv'
  BY <1>1 DEF RebalanceSkip, At, Walkers
<1>5. HeapInv /\ RebalanceEnd => HeapInv'
  BY <1>1 DEF RebalanceEnd, At, Walkers
<1>6. HeapInv /\ VisitNull /\ Top.fn = "ndel" => HeapInv'
  BY <1>1 DEF VisitNull, At, Walkers
<1> QED BY <1>2, <1>3, <1>4, <1>5, <1>6

\* Past its entry a function stands at a node.
LEMMA AtNode ==
  ASSUME HeapInv, up, stack # << >>, Top.fn \in Walkers, Top.at # "enter"
  PROVE  Cur # NULL
<1>1. PICK T, sub : HeapInvAt(T, sub)
  BY DEF HeapInv
<1>2. FrameOK(Top, child, T)
  BY <1>1, Running DEF HeapInvAt
<1> QED BY <1>2 DEF FrameOK, Walkers, Cur

\* A function goes on to a child of its node.
LEMMA QuietCalls ==
  /\ HeapInv /\ VisitLeft /\ Top.fn = "ndel" => HeapInv'
  /\ HeapInv /\ VisitRight /\ Top.fn # "destroy" => HeapInv'
  /\ HeapInv /\ LeftDone => HeapInv'
<1>1. ASSUME HeapInv, up, stack # << >>, Top.fn \in {"ndel", "rebalance"}, Cur # NULL,
             Top.at # "replace", UNCHANGED << memory, ret, low, rest >>,
             NEW side \in Sides, Enter(side)
      PROVE  HeapInv'
  <2>1. PICK T, sub : HeapInvAt(T, sub)
    BY <1>1 DEF HeapInv
  <2>2. Filled /\ UNCHANGED << memory, low, call, up >>
    BY <1>1 DEF HeapInv, rest
  <2> QED BY <1>1, <2>1, <2>2, QuietEnter DEF Walkers
<1>2. HeapInv /\ VisitLeft /\ Top.fn = "ndel" => HeapInv'
  BY <1>1 DEF VisitLeft, At, Sides
<1>3. ASSUME HeapInv, VisitRight, Top.fn # "destroy"
      PROVE  HeapInv'
  <2>1. Top.fn \in {"ndel", "rebalance"} /\ up /\ stack # << >> /\ Top.at = "l"
    BY <1>3 DEF VisitRight, At
  <2>2. Cur # NULL
    BY <1>3, <2>1, AtNode DEF Walkers
  <2> QED BY <1>1, <1>3, <2>1, <2>2 DEF VisitRight, Sides
<1>4. ASSUME HeapInv, LeftDone
      PROVE  HeapInv'
  <2>1. Top.fn = "rebalance" /\ up /\ stack # << >> /\ Top.at = "left_heavy"
    BY <1>4 DEF LeftDone, Looping, At
  <2>2. Cur # NULL
    BY <1>4, <2>1, AtNode DEF Walkers
  <2> QED BY <1>1, <1>4, <2>1, <2>2 DEF LeftDone, Sides
<1> QED BY <1>2, <1>3, <1>4

\* Rebalancing starts, or goes on to the other side.
LEMMA QuietLabels ==
  /\ HeapInv /\ RebalanceStart => HeapInv'
  /\ HeapInv /\ RightDone => HeapInv'
<1>1. ASSUME HeapInv, up, stack # << >>, Top.fn = "rebalance", Cur # NULL,
             Top.at # "replace", UNCHANGED << memory, ret, low, rest >>,
             NEW label \in {"right_heavy", "left_heavy"}, Goto(label)
      PROVE  HeapInv'
  <2>1. PICK T, sub : HeapInvAt(T, sub)
    BY <1>1 DEF HeapInv
  <2>2. Filled /\ UNCHANGED << memory, low, call, up >>
    BY <1>1 DEF HeapInv, rest
  <2>3. label \in Labels \ {"enter", "replace"} /\ LabelOK(Top.fn, label)
    BY <1>1 DEF Labels, LabelOK
  <2> QED BY <1>1, <2>1, <2>2, <2>3, QuietGoto DEF Walkers
<1>2. HeapInv /\ RebalanceStart => HeapInv'
  BY <1>1 DEF RebalanceStart, At
<1>3. ASSUME HeapInv, RightDone
      PROVE  HeapInv'
  <2>1. Top.fn = "rebalance" /\ up /\ stack # << >> /\ Top.at = "right_heavy"
    BY <1>3 DEF RightDone, Looping, At
  <2>2. Cur # NULL
    BY <1>3, <2>1, AtNode DEF Walkers
  <2> QED BY <1>1, <1>3, <2>1, <2>2 DEF RightDone
<1> QED BY <1>2, <1>3

-----------------------------------------------------------------------------
(* Calls of the interface and their ends. *)

\* Between two calls the nodes of the tree are those allocated, all of them exact.
LEMMA IdleFacts ==
  ASSUME NEW T, NEW sub, HeapInvAt(T, sub), up, stack = << >>
  PROVE  low = NULL /\ ~Dying /\ alloc = T /\ \A a \in T : Exact(child, el, a)
<1>1. low = NULL /\ ~Dying
  BY DEF HeapInvAt, Moving, Dying
<1>2. DOMAIN stack = {}
  OBVIOUS
<1>3. Pending = {}
  BY <1>2 DEF Pending
<1> QED BY <1>1, <1>3 DEF HeapInvAt, Owned, Metadata

\* Any hash fits at the root.
LEMMA FitsRoot ==
  ASSUME NEW c, NEW e, NEW T, NEW sub, Shape(c, e, T, sub), NEW h
  PROVE  Fits(e, T, sub, ROOT, h)
<1>1. T \subseteq Addr /\ \A t \in Slots(T) : sub[t] \subseteq T
  BY DEF Shape
<1>2. ASSUME NEW b \in T, NEW y \in Sides
      PROVE  ~Under(sub, ROOT, << b, y >>)
  BY <1>1, SlotFacts DEF Under
<1> QED BY <1>2 DEF Fits, Sides

\* An update begins at the root, and the interface function waits for it.
LEMMA BeginUpdate ==
  ASSUME Filled, NEW T, NEW sub, HeapInvAt(T, sub), up, stack = << >>,
         UNCHANGED << memory, low, up >>,
         NEW fn \in {"insert", "remove", "ndel"}, stack' = Update(fn),
         call'.op # "find", fn = "insert" => call'.arg \in Key
  PROVE  HeapInv'
<1> DEFINE f == Frame(fn, ROOT, "enter")
           g == Frame("avl", ROOT, "rebalance")
<1>1. low = NULL /\ alloc = T /\ \A a \in T : Exact(child, el, a)
  BY IdleFacts
<1>2. /\ Shape(child, el, T, sub) /\ Shape(child', el', T, sub)
      /\ UNCHANGED child /\ UNCHANGED el /\ UNCHANGED alloc /\ UNCHANGED low /\ UNCHANGED up
  BY DEF HeapInvAt, memory
<1>3. /\ f \in Frames /\ f.fn = fn /\ f.slot = ROOT /\ f.at = "enter"
      /\ g \in Frames /\ g.fn = "avl" /\ g.slot = ROOT /\ g.at = "rebalance"
  BY DEF Frames, Frame, Fns, Labels, Slot
<1> HIDE DEF f, g
<1>4. FrameOK(f, child', T) /\ FrameOK(g, child', T) /\ f.fn \in Callees(g) /\ f.fn # "leftmost"
  BY <1>3 DEF FrameOK, LabelOK, Callees, Walkers, Slots
<1>5. /\ Stacked(stack', child', T, sub) /\ stack' \in Seq(Frames)
      /\ On(stack') = {f, g} /\ stack' = << f, g >>
  BY <1>3, <1>4, Started DEF Update, f, g
<1>6. Top' = f /\ stack' # << >> /\ ~Dying'
  BY <1>3, <1>5 DEF Top, Dying
<1>7. Owned(T, sub)'
  <2>1. NULL \notin T
    BY <1>2, HeapAssumption DEF Shape
  <2> QED BY <1>1, <1>2, <1>6, <2>1 DEF Owned
<1>8. Moving(T, sub)'
  BY <1>1, <1>2, <1>3, <1>5, <1>6 DEF Moving
<1>9. Searching(T, sub)'
  BY <1>2, <1>3, <1>6, FitsRoot DEF Searching
<1>10. Metadata(T)' /\ Filled'
  BY <1>1, <1>2 DEF Metadata, Filled
<1> QED BY <1>2, <1>5, <1>7, <1>8, <1>9, <1>10 DEF HeapInv, HeapInvAt, Frames

\* avl_insert(), avl_del() and avl_ndel() begin.
LEMMA CallUpdate ==
  ASSUME HeapInv
  PROVE  /\ \A d \in Key : CallInsert(d) => HeapInv'
         /\ \A d \in Key : CallDelete(d) => HeapInv'
         /\ \A P \in Preds : CallDeleteIf(P) => HeapInv'
<1>1. PICK T, sub : HeapInvAt(T, sub)
  BY DEF HeapInv
<1>2. Filled
  BY DEF HeapInv
<1>3. ASSUME NEW op, NEW arg, NEW r, NEW fn \in {"insert", "remove", "ndel"},
             Begin(op, arg, r, Update(fn)), op # "find", fn = "insert" => arg \in Key
      PROVE  HeapInv'
  <2>1. /\ up /\ stack = << >> /\ stack' = Update(fn) /\ UNCHANGED << memory, low, up >>
        /\ call'.op = op /\ call'.arg = arg
    BY <1>3 DEF Begin
  <2> QED BY <1>1, <1>2, <1>3, <2>1, BeginUpdate
<1> QED BY <1>3 DEF CallInsert, CallDelete, CallDeleteIf

\* avl_find() begins.
LEMMA CallFindKeeps ==
  ASSUME HeapInv, NEW d \in Key, CallFind(d)
  PROVE  HeapInv'
<1> DEFINE f == Frame("find", ROOT, "enter")
<1>0. PICK T, sub : HeapInvAt(T, sub)
  BY DEF HeapInv
<1>1. /\ up /\ stack = << >> /\ stack' = << f >> /\ call'.op = "find" /\ call'.arg = d
      /\ UNCHANGED << memory, low, up >> /\ Filled
  BY DEF HeapInv, CallFind, Begin
<1>2. low = NULL /\ alloc = T /\ \A a \in T : Exact(child, el, a)
  BY <1>0, <1>1, IdleFacts
<1>3. /\ Shape(child, el, T, sub) /\ Shape(child', el', T, sub)
      /\ UNCHANGED child /\ UNCHANGED el /\ UNCHANGED alloc /\ UNCHANGED low /\ UNCHANGED up
  BY <1>0, <1>1 DEF HeapInvAt, memory
<1>4. f \in Frames /\ f.fn = "find" /\ f.slot = ROOT /\ f.at = "enter"
  BY DEF Frames, Frame, Fns, Labels, Slot
<1> HIDE DEF f
<1>5. FrameOK(f, child', T)
  BY <1>4 DEF FrameOK, LabelOK, Slots
<1>6. Stacked(stack', child', T, sub) /\ stack' \in Seq(Frames) /\ On(stack') = {f}
  BY <1>1, <1>4, <1>5, Alone
<1>7. Top' = f /\ stack' # << >> /\ ~Dying' /\ Len(stack') = 1
  BY <1>1, <1>4 DEF Top, Dying
<1>8. Owned(T, sub)'
  <2>1. NULL \notin T
    BY <1>3, HeapAssumption DEF Shape
  <2> QED BY <1>2, <1>3, <1>7, <2>1 DEF Owned
<1>9. Moving(T, sub)'
  BY <1>2, <1>3, <1>4, <1>6, <1>7 DEF Moving
<1>10. Searching(T, sub)'
  <2>1. sub[ROOT] = T
    BY <1>3 DEF Shape
  <2> QED BY <1>1, <1>4, <1>7, <2>1 DEF Searching
<1>11. Metadata(T)' /\ Filled'
  BY <1>1, <1>2, <1>3 DEF Metadata, Filled
<1> QED BY <1>3, <1>6, <1>8, <1>9, <1>10, <1>11 DEF HeapInv, HeapInvAt, Frames

\* avl_destroy() begins: all nodes are yet to be freed.
LEMMA CallDestroyKeeps ==
  ASSUME HeapInv, CallDestroy
  PROVE  HeapInv'
<1> DEFINE f == Frame("destroy", ROOT, "enter")
           g == Frame("avl", ROOT, "clear")
<1>0. PICK T, sub : HeapInvAt(T, sub)
  BY DEF HeapInv
<1>1. /\ up /\ stack = << >> /\ stack' = << f, g >> /\ call'.op = "destroy"
      /\ UNCHANGED << memory, low, up >> /\ Filled
  BY DEF HeapInv, CallDestroy, Begin
<1>2. low = NULL /\ alloc = T /\ \A a \in T : Exact(child, el, a)
  BY <1>0, <1>1, IdleFacts
<1>3. /\ Shape(child, el, T, sub) /\ Shape(child', el', T, sub)
      /\ UNCHANGED child /\ UNCHANGED el /\ UNCHANGED alloc /\ UNCHANGED low /\ UNCHANGED up
  BY <1>0, <1>1 DEF HeapInvAt, memory
<1>4. /\ f \in Frames /\ f.fn = "destroy" /\ f.slot = ROOT /\ f.at = "enter"
      /\ g \in Frames /\ g.fn = "avl" /\ g.slot = ROOT /\ g.at = "clear"
  BY DEF Frames, Frame, Fns, Labels, Slot
<1> HIDE DEF f, g
<1>5. FrameOK(f, child', T) /\ FrameOK(g, child', T) /\ f.fn \in Callees(g) /\ f.fn # "leftmost"
  BY <1>4 DEF FrameOK, LabelOK, Callees, Walkers, Slots
<1>6. /\ Stacked(stack', child', T, sub) /\ stack' \in Seq(Frames) /\ On(stack') = {f, g}
  BY <1>1, <1>4, <1>5, Started
<1>7. Top' = f /\ stack' # << >>
  BY <1>1 DEF Top
<1>8. Owned(T, sub)'
  <2>1. ToFree(f, sub)' = T
    BY <1>3, <1>4 DEF ToFree, Shape
  <2> QED BY <1>1, <1>2, <1>3, <1>6, <2>1, <1>4 DEF Owned, Dying
<1>9. Moving(T, sub)'
  BY <1>2, <1>3, <1>4, <1>6, <1>7 DEF Moving
<1>10. Searching(T, sub)'
  BY <1>1, <1>4, <1>7 DEF Searching
<1>11. Metadata(T)' /\ Filled'
  BY <1>1, <1>2, <1>3 DEF Metadata, Filled
<1> QED BY <1>3, <1>6, <1>8, <1>9, <1>10, <1>11 DEF HeapInv, HeapInvAt, Frames

\* The interface function or avl_find() runs.
LEMMA BottomFacts ==
  ASSUME NEW T, NEW sub, HeapInvAt(T, sub), up, stack # << >>, Top.fn \in {"avl", "find"}
  PROVE  /\ low = NULL /\ NULL \notin T /\ stack \in Seq(Frames) /\ Len(stack) = 1
         /\ stack = << Top >> /\ On(stack) = {Top} /\ (Dying <=> Top.at = "clear")
         /\ ~Dying => alloc = T
         /\ \A a \in T : Exact(child, el, a)
<1>1. Stacked(stack, child, T, sub) /\ Shape(child, el, T, sub)
  BY DEF HeapInvAt
<1>2. /\ Top \in Frames /\ stack \in Seq(Frames) /\ LabelOK(Top.fn, Top.at)
  BY <1>1, Running
<1>3. Len(stack) = 1 /\ stack = << Top >> /\ On(stack) = {Top} /\ stack[Len(stack)] = Top
  BY <1>1, Bottom
<1>4. low = NULL
  <2>1. Top.at # "replace" /\ Top.fn # "leftmost"
    BY <1>2 DEF LabelOK
  <2> QED BY <2>1 DEF HeapInvAt, Moving
<1>5. Pending = {}
  <2>1. ~Waits(Top)
    BY DEF Waits
  <2> QED BY <1>2, <1>3, <2>1, PendingOn DEF Waiting
<1>6. NULL \notin T
  BY <1>1, HeapAssumption DEF Shape
<1>7. \A a \in T : Exact(child, el, a)
  BY <1>5 DEF HeapInvAt, Metadata
<1>8. Dying <=> Top.at = "clear"
  BY <1>3 DEF Dying
<1>9. ~Dying => alloc = T
  BY <1>4 DEF HeapInvAt, Owned
<1> QED BY <1>2, <1>3, <1>4, <1>6, <1>7, <1>8, <1>9

\* The update is over and the tree is rebalanced from the root.
LEMMA RebalanceKeeps == HeapInv /\ Rebalance => HeapInv'
<1> SUFFICES ASSUME HeapInv, Rebalance PROVE HeapInv'
  OBVIOUS
<1> DEFINE f == Frame("rebalance", ROOT, "enter")
           g == Frame("avl", ROOT, "return")
<1>0. PICK T, sub : HeapInvAt(T, sub)
  BY DEF HeapInv
<1>1. /\ up /\ stack # << >> /\ Top.fn = "avl" /\ Top.at = "rebalance"
      /\ stack' = << f, g >> /\ Filled
      /\ UNCHANGED child /\ UNCHANGED el /\ UNCHANGED alloc /\ UNCHANGED low /\ UNCHANGED up
      /\ UNCHANGED call
  BY DEF HeapInv, Rebalance, At, memory, rest
<1>2. /\ low = NULL /\ NULL \notin T /\ ~Dying /\ alloc = T /\ Len(stack) = 1
      /\ \A a \in T : Exact(child, el, a)
  BY <1>0, <1>1, BottomFacts
<1>3. Shape(child', el', T, sub)
  BY <1>0, <1>1 DEF HeapInvAt
<1>4. /\ f \in Frames /\ f.fn = "rebalance" /\ f.slot = ROOT /\ f.at = "enter"
      /\ g \in Frames /\ g.fn = "avl" /\ g.slot = ROOT /\ g.at = "return"
  BY DEF Frames, Frame, Fns, Labels, Slot
<1> HIDE DEF f, g
<1>5. FrameOK(f, child', T) /\ FrameOK(g, child', T) /\ f.fn \in Callees(g) /\ f.fn # "leftmost"
  BY <1>4 DEF FrameOK, LabelOK, Callees, Walkers, Slots
<1>6. /\ Stacked(stack', child', T, sub) /\ stack' \in Seq(Frames) /\ On(stack') = {f, g}
  BY <1>1, <1>4, <1>5, Started
<1>7. Top' = f /\ stack' # << >> /\ ~Dying'
  BY <1>1, <1>4 DEF Top, Dying
<1>8. Owned(T, sub)'
  BY <1>1, <1>2, <1>7 DEF Owned
<1>9. Moving(T, sub)'
  BY <1>1, <1>2, <1>4, <1>6, <1>7 DEF Moving
<1>10. Searching(T, sub)'
  <2>1. call.op # "find"
    BY <1>0, <1>1 DEF HeapInvAt, Searching
  <2> QED BY <1>1, <1>4, <1>7, <2>1 DEF Searching
<1>11. Metadata(T)' /\ Filled'
  BY <1>1, <1>2 DEF Metadata, Filled
<1> QED BY <1>3, <1>6, <1>8, <1>9, <1>10, <1>11 DEF HeapInv, HeapInvAt, Frames

\* A call returns to the user.
LEMMA ReturnKeeps == HeapInv /\ Return => HeapInv'
<1> SUFFICES ASSUME HeapInv, Return PROVE HeapInv'
  OBVIOUS
<1>0. PICK T, sub : HeapInvAt(T, sub)
  BY DEF HeapInv
<1>1. /\ up /\ stack # << >> /\ Top.fn = "avl" /\ Top.at = "return" /\ stack' = << >> /\ Filled
      /\ UNCHANGED child /\ UNCHANGED el /\ UNCHANGED alloc /\ UNCHANGED low /\ UNCHANGED up
  BY DEF HeapInv, Return, At, memory
<1>2. /\ low = NULL /\ NULL \notin T /\ ~Dying /\ alloc = T
      /\ \A a \in T : Exact(child, el, a)
  BY <1>0, <1>1, BottomFacts
<1>3. Shape(child', el', T, sub)
  BY <1>0, <1>1 DEF HeapInvAt
<1>4. stack' \in Seq(Frames) /\ Stacked(stack', child', T, sub)
  <2>1. << >> \in Seq(Frames) /\ Len(<< >>) = 0
    OBVIOUS
  <2>2. Stacked(<< >>, child', T, sub)
    BY <2>1 DEF Stacked, Frames
  <2> QED BY <1>1, <2>1, <2>2
<1>5. On(stack') = {}
  BY <1>1 DEF On
<1>6. Owned(T, sub)'
  BY <1>1, <1>2 DEF Owned, Dying
<1>7. Moving(T, sub)' /\ Searching(T, sub)'
  BY <1>1, <1>2, <1>5 DEF Moving, Searching
<1>8. Metadata(T)' /\ Filled'
  BY <1>1, <1>2 DEF Metadata, Filled
<1> QED BY <1>3, <1>4, <1>6, <1>7, <1>8 DEF HeapInv, HeapInvAt, Frames

\* avl_destroy() has freed the nodes and forgets them: the tree is empty.
LEMMA ClearKeeps == HeapInv /\ Clear => HeapInv'
<1> SUFFICES ASSUME HeapInv, Clear PROVE HeapInv'
  OBVIOUS
<1> DEFINE f == [Top EXCEPT !.at = "return"]
           no == [t \in {ROOT} |-> {}]
<1>0. PICK T, sub : HeapInvAt(T, sub)
  BY DEF HeapInv
<1>1. /\ up /\ stack # << >> /\ Top.fn = "avl" /\ Top.at = "clear" /\ Filled
      /\ stack' = << f >> \o Tail(stack) /\ child' = [child EXCEPT ![ROOT] = NULL]
      /\ UNCHANGED el /\ UNCHANGED alloc /\ UNCHANGED low /\ UNCHANGED up /\ UNCHANGED call
  BY DEF HeapInv, Clear, At, rest, Goto
<1>2. low = NULL /\ Dying /\ stack = << Top >> /\ On(stack) = {Top}
  BY <1>0, <1>1, BottomFacts
<1>3. alloc = {} /\ call.op = "destroy"
  <2>1. ToFree(Top, sub) = {}
    BY <1>1 DEF ToFree
  <2> QED BY <1>0, <1>2, <2>1 DEF HeapInvAt, Owned
<1>4. Top \in Frames /\ FrameOK(Top, child, T)
  BY <1>0, <1>1, Running DEF HeapInvAt
<1>5. f \in Frames /\ f.fn = "avl" /\ f.slot = ROOT /\ f.at = "return"
  BY <1>1, <1>4 DEF Frames, Labels, FrameOK
<1>6. stack' = << f >>
  <2>1. Tail(<< Top >>) = << >>
    OBVIOUS
  <2>2. Tail(stack) = << >>
    BY <1>2, <2>1, Zenon
  <2>3. << f >> \o << >> = << f >>
    OBVIOUS
  <2> QED BY <1>1, <2>2, <2>3, Zenon
<1> HIDE DEF f
<1>7. child'[ROOT] = NULL /\ child' \in [Slot -> Addr \cup {NULL}]
  BY <1>1 DEF Filled, Slot
<1>8. Shape(child', el', {}, no)
  <2>1. Slots({}) = {ROOT} /\ IsFiniteSet({})
    BY FS_EmptySet DEF Slots
  <2> QED BY <1>7, <2>1 DEF Shape
<1>9. FrameOK(f, child', {})
  BY <1>5 DEF FrameOK, LabelOK, Slots
<1>10. Stacked(stack', child', {}, no) /\ stack' \in Seq(Frames) /\ On(stack') = {f}
  BY <1>5, <1>6, <1>9, Alone
<1>11. Top' = f /\ stack' # << >> /\ ~Dying'
  BY <1>5, <1>6 DEF Top, Dying
<1>12. Owned({}, no)'
  BY <1>1, <1>2, <1>3, <1>11 DEF Owned
<1>13. Moving({}, no)' /\ Searching({}, no)' /\ Metadata({})'
  BY <1>1, <1>2, <1>3, <1>5, <1>10, <1>11 DEF Moving, Searching, Metadata
<1>14. Filled'
  BY <1>1, <1>2, <1>3, <1>7 DEF Filled
<1> QED BY <1>8, <1>10, <1>12, <1>13, <1>14 DEF HeapInv, HeapInvAt, Frames

-----------------------------------------------------------------------------
(* The walk of find_node(). *)

\* The filter of a node covers the bits of every hash in its subtree.
LEMMA FilterCovers ==
  ASSUME NEW T, NEW sub, Shape(child, el, T, sub), \A a \in T : Exact(child, el, a),
         NEW t \in Slots(T), NEW x \in sub[t]
  PROVE  HashFilter[el[x].hash] \subseteq el[child[t]].filter
<1> DEFINE Q == {u \in Slots(T) : \A y \in sub[u] :
                   HashFilter[el[y].hash] \subseteq el[child[u]].filter}
<1>1. ASSUME NEW u \in Slots(T), child[u] # NULL => \A r \in Sides : << child[u], r >> \in Q
      PROVE  u \in Q
  <2>1. CASE child[u] = NULL
    BY <2>1, SlotAt
  <2>2. ASSUME NEW k, k = child[u], k # NULL
        PROVE  u \in Q
    <3>1. k \in T /\ sub[u] = {k} \cup sub[<< k, "l" >>] \cup sub[<< k, "r" >>]
      BY <2>2, NodeAt
    <3>2. el[k].filter = HashFilter[el[k].hash] \cup Filter(el, child[<< k, "l" >>])
                                                \cup Filter(el, child[<< k, "r" >>])
      BY <3>1 DEF Exact
    <3>3. ASSUME NEW r \in Sides, NEW y \in sub[<< k, r >>]
          PROVE  HashFilter[el[y].hash] \subseteq Filter(el, child[<< k, r >>])
      <4>1. << k, r >> \in Q /\ << k, r >> \in Slots(T)
        BY <1>1, <2>2
      <4>2. child[<< k, r >>] # NULL
        BY <4>1, SlotAt
      <4> QED BY <4>1, <4>2 DEF Filter
    <3> QED BY <2>2, <3>1, <3>2, <3>3 DEF Sides
  <2> QED BY <2>1, <2>2
<1> HIDE DEF Q
<1>2. Slots(T) \subseteq Q
  BY <1>1, Upwards
<1> QED BY <1>2 DEF Q

\* A lookup goes on to a child: whatever has the hash is below it.
LEMMA FindDownKeeps == HeapInv /\ FindDown => HeapInv'
<1> SUFFICES ASSUME HeapInv, FindDown PROVE HeapInv'
  OBVIOUS
<1>0. PICK T, sub : HeapInvAt(T, sub)
  BY DEF HeapInv
<1>1. PICK x \in Sides : x = IF el[Cur].hash > Hash THEN "l" ELSE "r"
  BY DEF Sides
<1> DEFINE f == [Top EXCEPT !.slot = << Cur, x >>]
<1>2. /\ up /\ stack # << >> /\ Top.fn = "find" /\ Top.at = "enter" /\ Filled
      /\ Cur # NULL /\ el[Cur].hash # Hash /\ stack' = << f >>
      /\ UNCHANGED child /\ UNCHANGED el /\ UNCHANGED alloc /\ UNCHANGED low /\ UNCHANGED up
      /\ UNCHANGED call
  BY <1>1 DEF HeapInv, FindDown, At, rest, memory
<1>3. /\ low = NULL /\ NULL \notin T /\ ~Dying /\ alloc = T
      /\ \A a \in T : Exact(child, el, a)
  BY <1>0, <1>2, BottomFacts
<1>4. Shape(child, el, T, sub) /\ Searching(T, sub) /\ Shape(child', el', T, sub)
  BY <1>0, <1>2 DEF HeapInvAt
<1>5. Top \in Frames /\ Top.slot \in Slots(T)
  BY <1>0, <1>2, Running DEF HeapInvAt
<1>6. /\ Cur \in T /\ << Cur, x >> \in Slots(T)
      /\ sub[Top.slot] = {Cur} \cup sub[<< Cur, "l" >>] \cup sub[<< Cur, "r" >>]
  BY <1>2, <1>4, <1>5, NodeAt, KidAt DEF Cur
<1>7. << Cur, x >> \in Slot
  BY <1>4, <1>6 DEF Shape, Slot, Sides
<1>8. f \in Frames /\ f.fn = "find" /\ f.slot = << Cur, x >> /\ f.at = "enter"
  BY <1>2, <1>5, <1>7 DEF Frames
<1> HIDE DEF f
<1>9. FrameOK(f, child', T)
  BY <1>6, <1>8 DEF FrameOK, LabelOK
<1>10. Stacked(stack', child', T, sub) /\ stack' \in Seq(Frames) /\ On(stack') = {f}
  BY <1>2, <1>8, <1>9, Alone
<1>11. Top' = f /\ stack' # << >> /\ ~Dying' /\ Len(stack') = 1
  BY <1>2, <1>8 DEF Top, Dying
<1>12. Owned(T, sub)'
  BY <1>2, <1>3, <1>11 DEF Owned
<1>13. Moving(T, sub)'
  BY <1>2, <1>3, <1>8, <1>10, <1>11 DEF Moving
<1>14. Searching(T, sub)'
  <2>1. call.arg \in Key /\ call.op = "find" /\ Hash \in Nat /\ el[Cur].hash \in Nat
    BY <1>2, <1>4, <1>6, HeapAssumption DEF Searching, Hash, Shape
  <2>2. ASSUME NEW y \in T, el[y].hash = Hash
        PROVE  y \in sub[<< Cur, x >>]
    <3>1. y \in sub[Top.slot] /\ y # Cur
      BY <1>2, <1>4, <2>2 DEF Searching
    <3>2. y \in sub[<< Cur, "l" >>] => el[y].hash < el[Cur].hash
      BY <1>4, <1>6 DEF Shape, Sided, Sides
    <3>3. y \in sub[<< Cur, "r" >>] => el[y].hash > el[Cur].hash
      BY <1>4, <1>6 DEF Shape, Sided, Sides
    <3> QED BY <1>1, <1>6, <2>1, <2>2, <3>1, <3>2, <3>3
  <2>3. Hash' = Hash
    BY <1>2 DEF Hash
  <2> QED BY <1>2, <1>8, <1>11, <2>1, <2>2, <2>3 DEF Searching
<1>15. Metadata(T)' /\ Filled'
  BY <1>2, <1>3 DEF Metadata, Filled
<1> QED BY <1>4, <1>10, <1>12, <1>13, <1>14, <1>15 DEF HeapInv, HeapInvAt, Frames

\* A lookup ends: at a node of the hash, which is the only one, at an empty slot, where no
\* such node is, or at a filter without the bits of the hash, below which there is none.
LEMMA FindEndKeeps == HeapInv /\ FindEnd => HeapInv'
<1> SUFFICES ASSUME HeapInv, FindEnd PROVE HeapInv'
  OBVIOUS
<1> DEFINE f == Frame("avl", ROOT, "return")
<1>0. PICK T, sub : HeapInvAt(T, sub)
  BY DEF HeapInv
<1>1. /\ up /\ stack # << >> /\ Top.fn = "find" /\ Top.at = "enter" /\ Filled /\ stack' = << f >>
      /\ Cur # NULL => el[Cur].hash = Hash \/ ~MayBeBelow
      /\ ret' = IF Cur # NULL /\ el[Cur].hash = Hash THEN ll_find(el[Cur].ll, call.arg) ELSE NULL
      /\ UNCHANGED child /\ UNCHANGED el /\ UNCHANGED alloc /\ UNCHANGED low /\ UNCHANGED up
      /\ UNCHANGED call
  BY DEF HeapInv, FindEnd, At, rest, memory
<1>2. /\ low = NULL /\ NULL \notin T /\ ~Dying /\ alloc = T
      /\ \A a \in T : Exact(child, el, a)
  BY <1>0, <1>1, BottomFacts
<1>3. Shape(child, el, T, sub) /\ Searching(T, sub) /\ Shape(child', el', T, sub)
  BY <1>0, <1>1 DEF HeapInvAt
<1>4. Top.slot \in Slots(T)
  BY <1>0, <1>1, Running DEF HeapInvAt
<1>5. f \in Frames /\ f.fn = "avl" /\ f.slot = ROOT /\ f.at = "return"
  BY DEF Frames, Frame, Fns, Labels, Slot
<1> HIDE DEF f
<1>6. FrameOK(f, child', T)
  BY <1>5 DEF FrameOK, LabelOK, Slots
<1>7. Stacked(stack', child', T, sub) /\ stack' \in Seq(Frames) /\ On(stack') = {f}
  BY <1>1, <1>5, <1>6, Alone
<1>8. Top' = f /\ stack' # << >> /\ ~Dying' /\ Len(stack') = 1
  BY <1>1, <1>5 DEF Top, Dying
<1>9. Owned(T, sub)'
  BY <1>1, <1>2, <1>8 DEF Owned
<1>10. Moving(T, sub)'
  BY <1>1, <1>2, <1>5, <1>7, <1>8 DEF Moving
<1>11. /\ call.arg \in Key /\ Hash \in Nat
       /\ \A x \in T : el[x].hash = Hash => x \in sub[Top.slot]
  BY <1>1, <1>3, HeapAssumption DEF Searching, Hash
\* A node that holds the value is below the slot that was reached, and has its hash.
<1>12. ASSUME NEW a \in T, Contains(el[a].ll, call.arg)
       PROVE  a \in sub[Top.slot] /\ el[a].hash = Hash
  <2>1. el[a].ll \in Seq(OfHash(el[a].hash))
    BY <1>1, <1>2 DEF Filled
  <2>2. call.arg \in OfHash(el[a].hash)
    BY <1>12, <2>1 DEF Contains
  <2> QED BY <1>11, <2>2 DEF OfHash, Hash
<1>13. FoundExactly'
  <2>1. CASE Cur # NULL /\ el[Cur].hash = Hash
    <3>1. Cur \in T
      BY <1>3, <1>4, <2>1, SlotAt DEF Cur
    <3>2. ASSUME NEW a \in T, Contains(el[a].ll, call.arg)
          PROVE  a = Cur
      <4>1. a \in sub[Top.slot] /\ el[a].hash = Hash
        BY <1>12, <3>2
      <4>2. sub[Top.slot] = {Cur} \cup sub[<< Cur, "l" >>] \cup sub[<< Cur, "r" >>]
        BY <1>3, <1>4, <2>1, NodeAt DEF Cur
      <4>3. \A s \in Sides : a \notin sub[<< Cur, s >>]
        BY <1>3, <1>11, <2>1, <3>1, <4>1 DEF Shape, Sided
      <4> QED BY <4>1, <4>2, <4>3 DEF Sides
    <3>3. (\E a \in T : Contains(el[a].ll, call.arg)) <=> Contains(el[Cur].ll, call.arg)
      BY <3>1, <3>2
    <3> QED BY <1>1, <1>2, <2>1, <3>3 DEF FoundExactly, ll_find
  <2>2. CASE Cur = NULL
    <3>1. sub[Top.slot] = {}
      BY <1>3, <1>4, <2>2, SlotAt DEF Cur
    <3>2. ~\E a \in T : Contains(el[a].ll, call.arg)
      BY <1>12, <3>1
    <3> QED BY <1>1, <1>2, <2>2, <3>2 DEF FoundExactly
  <2>3. CASE Cur # NULL /\ el[Cur].hash # Hash
    <3>1. ~MayBeBelow
      BY <1>1, <2>3
    <3>2. ASSUME NEW a \in T, Contains(el[a].ll, call.arg)
          PROVE  FALSE
      <4>1. a \in sub[Top.slot] /\ el[a].hash = Hash
        BY <1>12, <3>2
      <4>2. HashFilter[Hash] \subseteq el[Cur].filter
        BY <1>2, <1>3, <1>4, <4>1, FilterCovers DEF Cur
      <4> QED BY <3>1, <4>2 DEF MayBeBelow, bloom_may_contain
    <3> QED BY <1>1, <1>2, <2>3, <3>2 DEF FoundExactly
  <2> QED BY <2>1, <2>2, <2>3
<1>14. Searching(T, sub)'
  BY <1>5, <1>8, <1>13 DEF Searching
<1>15. Metadata(T)' /\ Filled'
  BY <1>1, <1>2 DEF Metadata, Filled
<1> QED BY <1>3, <1>7, <1>9, <1>10, <1>14, <1>15 DEF HeapInv, HeapInvAt, Frames

-----------------------------------------------------------------------------
(* avl_destroy(). *)

\* What is freed and what is yet to be freed while avl_destroy() runs.
LEMMA DestroyFacts ==
  ASSUME NEW T, NEW sub, HeapInvAt(T, sub), up, stack # << >>, Top.fn = "destroy"
  PROVE  /\ Dying /\ low = NULL /\ call.op = "destroy"
         /\ alloc = {x \in T : \E f \in On(stack) : x \in ToFree(f, sub)}
         /\ Top.at \in {"enter", "l", "r"}
         /\ \A g \in Lower : g.fn \in {"destroy", "avl"}
         /\ \A a \in T : Exact(child, el, a)
<1>1. Stacked(stack, child, T, sub) /\ Shape(child, el, T, sub)
  BY DEF HeapInvAt
<1>2. Dying /\ Top.fn \in Callees(stack[Len(stack)])
  BY <1>1, Walking DEF Walkers
<1>3. Callees(stack[Len(stack)]) = {"destroy"}
  BY <1>2 DEF Callees
<1>4. \A g \in Lower : g.fn \in {"destroy", "avl"}
  BY <1>1, <1>3, Walking DEF Walkers
<1>5. stack \in Seq(Frames) /\ On(stack) = {Top} \cup Lower /\ LabelOK(Top.fn, Top.at)
  BY <1>1, Running
<1>6. Pending = {}
  BY <1>4, <1>5, PendingOn DEF Waiting, Waits
<1>7. \A a \in T : Exact(child, el, a)
  BY <1>6 DEF HeapInvAt, Metadata
<1>8. Top.at \in {"enter", "l", "r"}
  BY <1>5 DEF LabelOK
<1> QED BY <1>2, <1>4, <1>7, <1>8 DEF HeapInvAt, Owned

\* A step of avl_destroy() keeps the invariant if the frames still account for the nodes
\* that are allocated.
LEMMA DestroyStep ==
  ASSUME Filled, NEW T, NEW sub, HeapInvAt(T, sub), up, stack # << >>, Top.fn = "destroy",
         UNCHANGED << child, el, low, call, up >>,
         alloc' = {x \in T : \E f \in On(stack') : x \in ToFree(f, sub)}, alloc' \subseteq alloc,
         Stacked(stack', child', T, sub), stack' # << >>, stack' \in Seq(Frames),
         Dying' <=> Dying, Top' \in On(stack'), Top'.fn \in {"avl", "destroy"},
         \A f \in On(stack') \ Lower : f.at # "replace"
  PROVE  HeapInv'
<1>1. /\ Shape(child, el, T, sub) /\ Stacked(stack, child, T, sub)
      /\ Moving(T, sub) /\ Searching(T, sub)
      /\ Shape(child', el', T, sub)
  BY DEF HeapInvAt
<1>2. /\ Dying' /\ low' = NULL /\ call'.op = "destroy"
      /\ Top.at \in {"enter", "l", "r"} /\ \A a \in T : Exact(child, el, a)
  BY DestroyFacts
<1>3. Owned(T, sub)'
  <2>1. \A f : ToFree(f, sub)' = ToFree(f, sub)
    BY DEF ToFree
  <2> QED BY <1>2, <2>1 DEF Owned
<1>4. Moving(T, sub)'
  BY <1>1, <1>2, StillNotMoving DEF Walkers
<1>5. Searching(T, sub)'
  BY <1>1, SearchOn DEF Walkers
<1>6. Metadata(T)' /\ Filled'
  BY <1>2 DEF Metadata, Filled
<1> QED BY <1>1, <1>3, <1>4, <1>5, <1>6 DEF HeapInv, HeapInvAt, Frames

\* It returns from an empty slot, or frees a node and returns.
LEMMA DestroyReturns ==
  ASSUME HeapInv, VisitNull \/ DestroyHere, Top.fn = "destroy"
  PROVE  HeapInv'
<1>0. PICK T, sub : HeapInvAt(T, sub)
  BY DEF HeapInv
<1>1. /\ up /\ stack # << >> /\ Filled /\ Leave
      /\ \/ Top.at = "enter" /\ Cur = NULL /\ alloc' = alloc
         \/ Top.at = "r" /\ alloc' = alloc \ {Cur}
      /\ UNCHANGED child /\ UNCHANGED el /\ UNCHANGED low /\ UNCHANGED up /\ UNCHANGED call
  BY DEF HeapInv, VisitNull, DestroyHere, At, memory, rest
<1>2. /\ Shape(child, el, T, sub) /\ Stacked(stack, child, T, sub)
      /\ Shape(child', el', T, sub)
  BY <1>0, <1>1 DEF HeapInvAt
<1>3. /\ stack \in Seq(Frames) /\ On(stack) = {Top} \cup Lower /\ FrameOK(Top, child, T)
      /\ Top.slot \in Slots(T)
  BY <1>1, <1>2, Running
<1>4. /\ alloc = {x \in T : \E f \in On(stack) : x \in ToFree(f, sub)}
      /\ \A g \in Lower : g.fn \in {"destroy", "avl"}
  BY <1>0, <1>1, DestroyFacts
<1>5. /\ Stacked(stack', child', T, sub) /\ stack' # << >> /\ stack' \in Seq(Frames)
      /\ On(stack') = Lower /\ (Dying' <=> Dying) /\ Top' = stack[2] /\ stack[2] \in Lower
  BY <1>1, <1>2, SameSteady, LeaveStack, Walking DEF Walkers
<1>6. alloc' = {x \in T : \E f \in Lower : x \in ToFree(f, sub)}
  <2>1. CASE Top.at = "enter"
    <3>1. ToFree(Top, sub) = {}
      BY <1>1, <1>2, <1>3, <2>1, SlotAt DEF ToFree, Cur
    <3> QED BY <1>1, <1>3, <1>4, <2>1, <3>1
  <2>2. CASE Top.at = "r"
    <3>1. ToFree(Top, sub) = {Cur} /\ Cur # NULL
      BY <1>3, <2>2 DEF ToFree, Cur, FrameOK
    <3>2. Cur \in sub[Top.slot] /\ Cur \in T
      BY <1>2, <1>3, <3>1, SlotAt DEF Cur
    <3>3. ASSUME NEW g \in Lower
          PROVE  Cur \notin ToFree(g, sub)
      <4>1. CASE g.fn = "avl"
        BY <4>1 DEF ToFree
      <4>2. CASE g.fn = "destroy"
        <5> DEFINE k == child[g.slot]
        <5>1. g \in Frames /\ g.at # "enter" /\ g.at # "replace"
          BY <1>1, <1>2, <4>2, Callers, Running, Walking DEF Walkers
        <5>2. /\ k \in T /\ g.at \in Sides
              /\ sub[Top.slot] \subseteq sub[Field(g, child)] /\ k \notin sub[Top.slot]
          BY <1>1, <1>2, <4>2, <5>1, Callers
        <5>3. Field(g, child) = << k, g.at >>
          BY <5>1 DEF Field
        <5>4. sub[<< k, "l" >>] \cap sub[<< k, "r" >>] = {}
          BY <1>2, <5>2, NotBelowItself
        <5>5. Cur # k /\ Cur \in sub[<< k, g.at >>]
          BY <3>2, <5>2, <5>3
        <5>6. CASE g.at = "l"
          BY <4>2, <5>4, <5>5, <5>6 DEF ToFree
        <5>7. CASE g.at = "r"
          BY <4>2, <5>5, <5>7 DEF ToFree
        <5> QED BY <5>2, <5>6, <5>7 DEF Sides
      <4> QED BY <1>4, <4>1, <4>2
    <3> QED BY <1>1, <1>3, <1>4, <2>2, <3>1, <3>3
  <2> QED BY <1>1, <2>1, <2>2
<1>7. alloc' \subseteq alloc
  BY <1>1
<1>8. Top'.fn \in {"avl", "destroy"}
  BY <1>4, <1>5
<1> QED BY <1>0, <1>1, <1>5, <1>6, <1>7, <1>8, DestroyStep

\* It goes on to a child.
LEMMA DestroyCalls ==
  ASSUME HeapInv, VisitLeft \/ VisitRight, Top.fn = "destroy"
  PROVE  HeapInv'
<1>0. PICK T, sub : HeapInvAt(T, sub)
  BY DEF HeapInv
<1>1. PICK side \in Sides :
        /\ up /\ stack # << >> /\ Filled /\ Enter(side)
        /\ (Top.at = "enter" /\ Cur # NULL /\ side = "l") \/ (Top.at = "l" /\ side = "r")
        /\ UNCHANGED child /\ UNCHANGED el /\ UNCHANGED low /\ UNCHANGED up
        /\ UNCHANGED call /\ UNCHANGED alloc
  BY DEF HeapInv, VisitLeft, VisitRight, At, memory, rest, Sides
<1>2. Shape(child, el, T, sub) /\ Stacked(stack, child, T, sub)
  BY <1>0, <1>1 DEF HeapInvAt
<1>3. /\ stack \in Seq(Frames) /\ On(stack) = {Top} \cup Lower /\ FrameOK(Top, child, T)
      /\ Top.slot \in Slots(T) /\ Top \in Frames
  BY <1>1, <1>2, Running
<1>4. Cur # NULL /\ Cur \in T
  <2>1. Cur # NULL
    BY <1>1, <1>3 DEF FrameOK, Cur
  <2> QED BY <1>2, <1>3, <2>1, SlotAt DEF Cur
<1> DEFINE f == [Top EXCEPT !.at = side]
           g == Frame(Top.fn, << Cur, side >>, "enter")
<1>5. f \in Frames /\ f.fn = "destroy" /\ f.slot = Top.slot /\ f.at = side
  BY <1>3 DEF Frames, Labels, Sides
<1>6. g \in Frames /\ g.fn = "destroy" /\ g.slot = << Cur, side >> /\ g.at = "enter"
  <2>1. T \subseteq Addr
    BY <1>2 DEF Shape
  <2> QED BY <1>3, <1>4, <2>1 DEF Frames, Frame, Labels, Slot, Sides
<1>7. stack' = << g, f >> \o Tail(stack)
  BY <1>1 DEF Enter
<1> HIDE DEF f, g
<1>8. FrameOK(f, child, T)
  BY <1>3, <1>4, <1>5 DEF FrameOK, LabelOK, Cur, Walkers, Sides
<1>9. g.slot = Field(f, child)
  BY <1>5, <1>6 DEF Field, Cur, Sides
<1>10. /\ Stacked(stack', child', T, sub) /\ stack' # << >> /\ stack' \in Seq(Frames)
       /\ On(stack') = {g, f} \cup Lower /\ (Dying' <=> Dying) /\ Top' = g
  BY <1>1, <1>2, <1>5, <1>6, <1>7, <1>8, <1>9, EnterStack DEF Sides, Walkers
<1>11. alloc = {x \in T : \E h \in On(stack) : x \in ToFree(h, sub)}
  BY <1>0, <1>1, DestroyFacts
<1>12. ToFree(g, sub) \cup ToFree(f, sub) = ToFree(Top, sub)
  <2>1. sub[Top.slot] = {Cur} \cup sub[<< Cur, "l" >>] \cup sub[<< Cur, "r" >>]
    BY <1>2, <1>3, <1>4, NodeAt DEF Cur
  <2>2. CASE side = "l"
    <3>1. ToFree(g, sub) = sub[<< Cur, "l" >>] /\ ToFree(Top, sub) = sub[Top.slot]
      BY <1>1, <1>6, <2>2 DEF ToFree
    <3>2. ToFree(f, sub) = {Cur} \cup sub[<< Cur, "r" >>]
      BY <1>5, <2>2 DEF ToFree, Cur
    <3> QED BY <2>1, <3>1, <3>2
  <2>3. CASE side = "r"
    <3>1. ToFree(g, sub) = sub[<< Cur, "r" >>] /\ ToFree(f, sub) = {Cur}
      BY <1>5, <1>6, <2>3 DEF ToFree, Cur
    <3>2. ToFree(Top, sub) = {Cur} \cup sub[<< Cur, "r" >>]
      BY <1>1, <2>3 DEF ToFree, Cur
    <3> QED BY <3>1, <3>2
  <2> QED BY <2>2, <2>3 DEF Sides
<1>13. alloc' = {x \in T : \E h \in On(stack') : x \in ToFree(h, sub)} /\ alloc' \subseteq alloc
  BY <1>1, <1>3, <1>10, <1>11, <1>12
<1>14. f.at # "replace" /\ g.at # "replace" /\ Top'.fn \in {"avl", "destroy"}
  BY <1>5, <1>6, <1>10 DEF Sides
<1> QED BY <1>0, <1>1, <1>10, <1>13, <1>14, DestroyStep

-----------------------------------------------------------------------------
(* Steps that change the fields of the current node only. *)

\* The functions that regenerate the metadata of their node on the way back.
Updaters == {"insert", "remove", "ndel", "leftmost"}

\* The caller of an update that stands at the child of a node waits at that node.
LEMMA ParentWaits ==
  ASSUME NEW T, NEW sub, Shape(child, el, T, sub), Stacked(stack, child, T, sub),
         stack # << >>, Top.fn \in Updaters, NEW a \in T, NEW s \in Sides, Top.slot = << a, s >>
  PROVE  \E g \in Lower : Waits(g) /\ child[g.slot] = a
<1> DEFINE g == stack[2]
<1>1. /\ g \in Lower /\ g.at # "enter" /\ Called(Top, g, child)
      /\ \/ g.fn = Top.fn /\ g.at \in Sides
         \/ g.fn = "avl" /\ Top.fn # "leftmost"
         \/ g.at = "replace" /\ Top.fn = "leftmost" /\ g.fn \in {"remove", "ndel"}
  BY Walking DEF Updaters, Walkers
<1>2. T \subseteq Addr /\ Top.slot # ROOT
  BY SlotFacts DEF Shape
<1> HIDE DEF g
<1>3. Top.slot = Field(g, child)
  BY <1>1, <1>2 DEF Called
<1>4. child[g.slot] = a
  BY <1>3 DEF Field
<1>5. g.fn \in Updaters
  BY <1>1, <1>2 DEF Called, Updaters
<1> QED BY <1>1, <1>4, <1>5 DEF Waits, Updaters

\* The node of the running function is not pending for a caller.
LEMMA CurNotPending ==
  ASSUME NEW T, NEW sub, Shape(child, el, T, sub), Stacked(stack, child, T, sub),
         stack # << >>, Top.fn \in Walkers, ~Waits(Top), NEW a \in sub[Top.slot]
  PROVE  a \notin Pending
<1>1. stack \in Seq(Frames) /\ On(stack) = {Top} \cup Lower
  BY Running
<1>2. \A g \in Lower : Waits(g) => child[g.slot] # a
  BY Callers DEF Waits
<1> QED BY <1>1, <1>2, PendingOn DEF Waiting

\* A node stays exact if its fields, its children and their metadata stay.
LEMMA ExactKept ==
  ASSUME NEW c, NEW e, NEW a, Exact(c, e, a), NEW d, NEW f,
         f[a].node_cnt = e[a].node_cnt, f[a].filter = e[a].filter, f[a].hash = e[a].hash,
         \A s \in Sides : /\ d[<< a, s >>] = c[<< a, s >>]
                          /\ c[<< a, s >>] # NULL =>
                               /\ f[c[<< a, s >>]].node_cnt = e[c[<< a, s >>]].node_cnt
                               /\ f[c[<< a, s >>]].filter = e[c[<< a, s >>]].filter
  PROVE  Exact(d, f, a)
BY DEF Exact, avl_node_cnt, Filter, Sides

\* Where a hash fits depends on the hashes of the nodes only.
LEMMA FitsSame ==
  ASSUME NEW e, NEW f, NEW T, NEW sub, NEW s, NEW h,
         \A a \in T : f[a].hash = e[a].hash, Fits(e, T, sub, s, h)
  PROVE  Fits(f, T, sub, s, h)
BY DEF Fits

\* A call that is not avl_destroy(): the nodes of the tree are allocated.
LEMMA TreeNodes ==
  ASSUME Filled, NEW T, NEW sub, HeapInvAt(T, sub), up, stack # << >>,
         Top.fn \in Walkers \ {"destroy"}
  PROVE  /\ ~Dying /\ low \notin T /\ alloc = T \cup ({low} \ {NULL})
         /\ T \subseteq Addr /\ NULL \notin T
         /\ \A a \in T : a \in alloc /\ Linked(el, a) /\ el[a].ll \in Seq(OfHash(el[a].hash))
<1>1. Shape(child, el, T, sub) /\ Stacked(stack, child, T, sub)
  BY DEF HeapInvAt
<1>2. ~Dying
  BY <1>1, Walking
<1>3. low \notin T /\ alloc = T \cup ({low} \ {NULL})
  BY <1>2 DEF HeapInvAt, Owned
<1> QED BY <1>1, <1>2, <1>3, HeapAssumption DEF Shape, Filled

\* A step that changes fields of the current node but for its hash keeps the invariant if
\* the node is exact afterwards, or some frame waits for it.
LEMMA EditStep ==
  ASSUME Filled, NEW T, NEW sub, HeapInvAt(T, sub), up, stack # << >>,
         Top.fn \in Updaters, UNCHANGED << child, alloc, low, call, up >>,
         NEW n, n = Cur, n # NULL,
         DOMAIN el' = Addr, \A b \in Addr \ {n} : el'[b] = el[b],
         el'[n].hash = el[n].hash, Linked(el', n), el'[n].ll \in Seq(OfHash(el[n].hash)),
         Stacked(stack', child', T, sub), stack' # << >>, stack' \in Seq(Frames),
         Dying' <=> Dying, Lower \subseteq On(stack'),
         Top'.fn # "find", Top'.fn = "insert" => Top.fn = "insert" /\ Top'.at # "enter",
         Moving(T, sub)', n \in Pending' \/ Exact(child, el', n)
  PROVE  HeapInv'
<1>1. /\ Shape(child, el, T, sub) /\ Stacked(stack, child, T, sub)
      /\ Searching(T, sub) /\ Metadata(T) /\ Owned(T, sub)
  BY DEF HeapInvAt
<1>2. Top.slot \in Slots(T) /\ n \in T
  <2>1. Top.slot \in Slots(T)
    BY <1>1, Running
  <2> QED BY <1>1, <2>1, SlotAt DEF Cur
<1>3. /\ ~Dying /\ T \subseteq Addr /\ T \subseteq alloc /\ low \notin T
      /\ alloc = T \cup ({low} \ {NULL})
  BY TreeNodes DEF Updaters, Walkers
<1>4. \A a \in Addr : el'[a].hash = el[a].hash
  OBVIOUS
<1>5. Shape(child', el', T, sub)
  BY <1>1, <1>3, <1>4, Rehash
<1>6. Owned(T, sub)'
  BY <1>3 DEF Owned
<1>7. Searching(T, sub)'
  BY <1>1, SearchOn DEF Updaters, Walkers
<1>8. Filled'
  <2>1. ASSUME NEW a \in alloc'
        PROVE  Linked(el', a) /\ el'[a].ll \in Seq(OfHash(el'[a].hash))
    <3>1. a \in alloc /\ a \in Addr
      BY DEF Filled
    <3>2. CASE a = n
      BY <3>2
    <3>3. CASE a # n
      BY <3>1, <3>3 DEF Filled, Linked
    <3> QED BY <3>2, <3>3
  <2> QED BY <2>1 DEF Filled
<1>9. ASSUME NEW a \in T \ Pending', a # n
      PROVE  Exact(child', el', a)
  <2>1. Pending \subseteq Pending' \cup (IF Waits(Top) THEN {Cur} ELSE {})
    BY <1>1, StillPending DEF Updaters, Walkers
  <2>2. Exact(child, el, a)
    BY <1>1, <1>9, <2>1 DEF Metadata
  <2>3. ASSUME NEW s \in Sides
        PROVE  child[<< a, s >>] # n
    <3>1. << a, s >> \in Slots(T)
      BY DEF Slots
    <3>2. child[<< a, s >>] = n => Top.slot = << a, s >>
      BY <1>1, <1>2, <3>1 DEF Shape, Cur
    <3>3. Top.slot = << a, s >> => \E g \in Lower : Waits(g) /\ child[g.slot] = a
      BY <1>1, ParentWaits
    <3>4. \A g \in Lower : Waits(g) => child[g.slot] \in Pending'
      BY <1>1, StillPending DEF Updaters, Walkers
    <3> QED BY <3>2, <3>3, <3>4
  <2>4. \A s \in Sides : child[<< a, s >>] # NULL => el'[child[<< a, s >>]] = el[child[<< a, s >>]]
    <3> TAKE s \in Sides
    <3>1. child[<< a, s >>] \in T \cup {NULL}
      BY <1>1 DEF Shape, Slots
    <3> QED BY <1>3, <2>3, <3>1
  <2>5. el'[a] = el[a]
    BY <1>3, <1>9
  <2> QED BY <2>2, <2>4, <2>5, ExactKept
<1>10. Metadata(T)'
  BY <1>9 DEF Metadata
<1> QED BY <1>5, <1>6, <1>7, <1>8, <1>10 DEF HeapInv, HeapInvAt, Frames

\* regen_metadata() makes a node exact.
LEMMA RegenExact ==
  ASSUME NEW c, NEW e, NEW a \in Addr, DOMAIN e = Addr,
         e[a] \in Node, e[a].hash \in Range(hashf),
         \A s \in Sides : /\ c[<< a, s >>] \in (Addr \ {a}) \cup {NULL}
                          /\ c[<< a, s >>] # NULL => Linked(e, c[<< a, s >>])
  PROVE  /\ DOMAIN regen_metadata(e, c, a) = Addr
         /\ \A b \in Addr \ {a} : regen_metadata(e, c, a)[b] = e[b]
         /\ Linked(regen_metadata(e, c, a), a)
         /\ regen_metadata(e, c, a)[a].ll = e[a].ll
         /\ regen_metadata(e, c, a)[a].hash = e[a].hash
         /\ Exact(c, regen_metadata(e, c, a), a)
<1> DEFINE f == regen_metadata(e, c, a)
<1>1. /\ DOMAIN f = Addr
      /\ \A b \in Addr \ {a} : f[b] = e[b]
      /\ Linked(f, a) /\ f[a].ll = e[a].ll /\ f[a].hash = e[a].hash
      /\ f[a].node_cnt = 1 + avl_node_cnt(e, c[<< a, "l" >>]) + avl_node_cnt(e, c[<< a, "r" >>])
      /\ f[a].filter = HashFilter[e[a].hash] \cup Filter(e, c[<< a, "l" >>])
                                             \cup Filter(e, c[<< a, "r" >>])
  BY Regen DEF Sides
<1> HIDE DEF f
<1>2. ASSUME NEW s \in Sides
      PROVE  /\ avl_node_cnt(f, c[<< a, s >>]) = avl_node_cnt(e, c[<< a, s >>])
             /\ Filter(f, c[<< a, s >>]) = Filter(e, c[<< a, s >>])
  BY <1>1 DEF avl_node_cnt, Filter
<1>3. Exact(c, f, a)
  BY <1>1, <1>2 DEF Exact, Sides
<1> QED BY <1>1, <1>3 DEF f

\* The children of a node of the tree.
LEMMA KidsOf ==
  ASSUME NEW c, NEW e, NEW T, NEW sub, Shape(c, e, T, sub), NEW a \in T, NEW s \in Sides
  PROVE  c[<< a, s >>] \in (T \ {a}) \cup {NULL}
<1>1. << a, s >> \in Slots(T) /\ a \notin sub[<< a, s >>]
  BY NotBelowItself DEF Slots
<1>2. c[<< a, s >>] # NULL => c[<< a, s >>] \in T /\ c[<< a, s >>] \in sub[<< a, s >>]
  BY <1>1, SlotAt
<1> QED BY <1>1, <1>2

\* Returning from isolate_leftmost() with the node that was cut out.
LEMMA MovingOn ==
  ASSUME NEW T, NEW sub, Shape(child, el, T, sub), Stacked(stack, child, T, sub),
         Moving(T, sub), stack # << >>, Top.fn = "leftmost", Top.at = "l",
         child' = child, low' = low, low \notin T, On(stack') = Lower, stack' # << >>, Top' = stack[2],
         \A a \in T \cup {low} : el'[a].hash = el[a].hash
  PROVE  Moving(T, sub)'
<1>1. On(stack) = {Top} \cup Lower
  BY Running
<1>2. low # NULL
  BY DEF Moving
<1>3. \/ stack[2].fn = "leftmost" /\ stack[2].at \in Sides
      \/ stack[2].at = "replace"
  BY Walking DEF Walkers
<1>4. (stack[2].fn = "leftmost" /\ stack[2].at = "l") \/ stack[2].at = "replace"
  <2>1. stack[2] \in Lower
    BY Walking DEF Walkers
  <2>2. PICK j \in 2 .. Len(stack) : stack[2] = stack[j]
    <3>1. stack \in Seq(Frames)
      BY Running
    <3> QED BY <2>1, <3>1, TailOn DEF Lower
  <2>3. j \in 1 .. Len(stack)
    <3>1. stack \in Seq(Frames)
      BY Running
    <3> QED BY <3>1
  <2>4. LabelOK(stack[2].fn, stack[2].at)
    BY <2>2, <2>3 DEF Stacked, FrameOK
  <2> QED BY <1>3, <2>4 DEF LabelOK, Sides
<1>5. low' # NULL <=> /\ stack' # << >>
                      /\ (Top'.fn = "leftmost" /\ Top'.at = "l") \/ Top'.at = "replace"
  BY <1>2, <1>4
<1>6. ASSUME NEW f \in Lower, f.at = "replace", NEW t, t = << child[f.slot], "r" >>
      PROVE  /\ Fits(el', T, sub, t, el'[low].hash)
             /\ \A x \in sub[t] : el'[x].hash > el'[low].hash
  <2>1. /\ Fits(el, T, sub, t, el[low].hash)
        /\ \A x \in sub[t] : el[x].hash > el[low].hash
    BY <1>1, <1>2, <1>6 DEF Moving
  <2>2. sub[t] \subseteq T
    <3>1. f.fn # "avl"
      BY <1>6, Walking DEF Walkers
    <3>2. child[f.slot] \in T
      BY <1>6, <3>1, Callers
    <3> QED BY <1>6, <3>2, SlotAt DEF Slots, Sides
  <2> QED BY <2>1, <2>2, FitsSame
<1> QED BY <1>2, <1>5, <1>6 DEF Moving

\* On the way back the metadata of each node is regenerated.
LEMMA UnwindKeeps == HeapInv /\ Unwind => HeapInv'
<1> SUFFICES ASSUME HeapInv, Unwind PROVE HeapInv'
  OBVIOUS
<1>0. PICK T, sub : HeapInvAt(T, sub)
  BY DEF HeapInv
<1>1. /\ up /\ stack # << >> /\ Top.fn \in {"insert", "remove", "leftmost"}
      /\ Top.at \in Sides /\ Filled /\ el' = regen_metadata(el, child, Cur) /\ Leave
      /\ UNCHANGED child /\ UNCHANGED alloc /\ UNCHANGED low /\ UNCHANGED up /\ UNCHANGED call
  BY DEF HeapInv, Unwind, At, rest, Sides
<1>2. Shape(child, el, T, sub) /\ Stacked(stack, child, T, sub) /\ Moving(T, sub)
  BY <1>0, <1>1 DEF HeapInvAt
<1>3. /\ T \subseteq Addr /\ NULL \notin T /\ low \notin T /\ alloc = T \cup ({low} \ {NULL})
      /\ \A a \in T : a \in alloc /\ Linked(el, a) /\ el[a].ll \in Seq(OfHash(el[a].hash))
  BY <1>0, <1>1, TreeNodes DEF Walkers
<1>4. Cur # NULL /\ Cur \in T
  <2>1. Cur # NULL
    BY <1>1, AtNode DEF Walkers, Sides
  <2>2. Top.slot \in Slots(T)
    BY <1>1, <1>2, Running
  <2> QED BY <1>2, <2>1, <2>2, SlotAt DEF Cur
<1> DEFINE n == Cur
<1>5. /\ DOMAIN el' = Addr /\ \A b \in Addr \ {n} : el'[b] = el[b]
      /\ Linked(el', n) /\ el'[n].ll = el[n].ll /\ el'[n].hash = el[n].hash
      /\ Exact(child, el', n)
  <2>1. \A s \in Sides : child[<< n, s >>] \in (Addr \ {n}) \cup {NULL}
    BY <1>2, <1>3, <1>4, KidsOf
  <2>2. \A s \in Sides : child[<< n, s >>] # NULL => Linked(el, child[<< n, s >>])
    BY <1>2, <1>3, <1>4, KidsOf
  <2>3. DOMAIN el = Addr /\ el[n] \in Node /\ el[n].hash \in Range(hashf) /\ n \in Addr
    BY <1>1, <1>3, <1>4 DEF Filled, Linked
  <2> HIDE DEF n
  <2> QED BY <1>1, <2>1, <2>2, <2>3, RegenExact DEF n
<1> HIDE DEF n
<1>6. Shape(child', el', T, sub)
  <2>1. \A a \in T : el'[a].hash = el[a].hash
    BY <1>3, <1>5
  <2> QED BY <1>1, <1>2, <2>1, Rehash
<1>7. /\ Stacked(stack', child', T, sub) /\ stack' # << >> /\ stack' \in Seq(Frames)
      /\ On(stack') = Lower /\ (Dying' <=> Dying) /\ Top' = stack[2]
  BY <1>1, <1>2, <1>6, SameSteady, LeaveStack DEF Walkers
<1>8. /\ stack[2] \in Lower /\ stack[2].at # "enter"
      /\ stack[2].fn \in {"avl", Top.fn, "remove", "ndel"}
      /\ Top.fn # "leftmost" => stack[2].fn \in {"avl", Top.fn}
  BY <1>1, <1>2, Walking DEF Walkers
<1>9. Moving(T, sub)'
  <2>1. CASE Top.fn = "leftmost"
    <3>1. Top.at = "l"
      <4>1. LabelOK(Top.fn, Top.at)
        BY <1>1, <1>2, Running
      <4> QED BY <1>1, <2>1, <4>1 DEF LabelOK, Sides
    <3>2. low # NULL
      BY <1>1, <1>2, <2>1, <3>1 DEF Moving
    <3>3. \A a \in T \cup {low} : el'[a].hash = el[a].hash
      BY <1>1, <1>3, <1>5, <3>2 DEF Filled
    <3> QED BY <1>1, <1>2, <1>3, <1>7, <2>1, <3>1, <3>3, MovingOn
  <2>2. CASE Top.fn # "leftmost"
    BY <1>1, <1>2, <1>7, <1>8, <2>2, StillNotMoving DEF Walkers, Sides
  <2> QED BY <2>1, <2>2
<1>10. el'[n].ll \in Seq(OfHash(el[n].hash))
  BY <1>3, <1>4, <1>5 DEF n
<1>11. Top.fn \in Updaters /\ Top'.fn # "find" /\ (Top'.fn = "insert" => Top.fn = "insert")
  BY <1>1, <1>7, <1>8 DEF Updaters
<1>12. n = Cur /\ n # NULL
  BY <1>4 DEF n
<1> QED BY <1>0, <1>1, <1>5, <1>7, <1>8, <1>9, <1>10, <1>11, <1>12, EditStep

\* Another list of the same kind in node n.
LEMMA ListEdit ==
  ASSUME NEW e, DOMAIN e = Addr, NEW n \in Addr, Linked(e, n),
         NEW l, l \in Seq(OfHash(e[n].hash)),
         NEW f, f = [e EXCEPT ![n].ll = l]
  PROVE  /\ DOMAIN f = Addr /\ \A b \in Addr \ {n} : f[b] = e[b]
         /\ Linked(f, n) /\ f[n].ll = l /\ f[n].hash = e[n].hash
         /\ f[n].node_cnt = e[n].node_cnt /\ f[n].filter = e[n].filter
<1>1. e[n] \in Node
  BY DEF Linked
<1>2. DOMAIN f = Addr /\ \A b \in Addr \ {n} : f[b] = e[b]
  OBVIOUS
<1>3. /\ f[n].ll = l /\ f[n].hash = e[n].hash /\ f[n].height = e[n].height
      /\ f[n].node_cnt = e[n].node_cnt /\ f[n].filter = e[n].filter
  BY <1>1 DEF Node
<1>4. l \in Seq(Key)
  <2>1. OfHash(e[n].hash) \subseteq Key
    BY DEF OfHash
  <2> QED BY <2>1
<1>5. f[n] \in Node
  BY <1>1, <1>4 DEF Node
<1>6. Linked(f, n)
  BY <1>3, <1>5 DEF Linked
<1> QED BY <1>2, <1>3, <1>6

\* The current node, where an element is looked for.
LEMMA HereFacts ==
  ASSUME HeapInv, NEW T, NEW sub, HeapInvAt(T, sub), up, stack # << >>,
         Top.fn \in {"insert", "remove", "ndel"}, NEW n, n = Cur, n # NULL
  PROVE  /\ Filled /\ n \in T /\ n \in Addr /\ Top.slot \in Slots(T) /\ n \in sub[Top.slot]
         /\ Linked(el, n) /\ el[n].ll \in Seq(OfHash(el[n].hash)) /\ DOMAIN el = Addr
         /\ Shape(child, el, T, sub) /\ Stacked(stack, child, T, sub)
         /\ Moving(T, sub) /\ T \subseteq Addr
<1>1. Filled /\ DOMAIN el = Addr
  BY DEF HeapInv, Filled
<1>2. Shape(child, el, T, sub) /\ Stacked(stack, child, T, sub) /\ Moving(T, sub)
  BY DEF HeapInvAt
<1>3. Top.slot \in Slots(T)
  BY <1>2, Running
<1>4. n \in T /\ n \in sub[Top.slot]
  BY <1>2, <1>3, SlotAt DEF Cur
<1>5. /\ T \subseteq Addr
      /\ \A a \in T : a \in alloc /\ Linked(el, a) /\ el[a].ll \in Seq(OfHash(el[a].hash))
  BY <1>1, TreeNodes DEF Walkers
<1> QED BY <1>1, <1>2, <1>3, <1>4, <1>5

\* The list of the current node is changed, and the function returns.
LEMMA ListThenLeave ==
  ASSUME HeapInv, up, stack # << >>, Top.fn \in {"insert", "remove"}, Top.at = "enter",
         Cur # NULL, NEW l, l \in Seq(OfHash(el[Cur].hash)), el' = [el EXCEPT ![Cur].ll = l],
         UNCHANGED << child, alloc, low, call, up >>, Leave
  PROVE  HeapInv'
<1>0. PICK T, sub : HeapInvAt(T, sub)
  BY DEF HeapInv
<1> DEFINE n == Cur
<1>1. /\ Filled /\ n \in T /\ n \in Addr /\ n \in sub[Top.slot] /\ Linked(el, n)
      /\ DOMAIN el = Addr /\ T \subseteq Addr
      /\ Shape(child, el, T, sub) /\ Stacked(stack, child, T, sub) /\ Moving(T, sub)
  BY <1>0, HereFacts
<1>2. n = Cur /\ n # NULL /\ el' = [el EXCEPT ![n].ll = l] /\ l \in Seq(OfHash(el[n].hash))
  OBVIOUS
<1> HIDE DEF n
<1>3. /\ DOMAIN el' = Addr /\ \A b \in Addr \ {n} : el'[b] = el[b]
      /\ Linked(el', n) /\ el'[n].ll = l /\ el'[n].hash = el[n].hash
      /\ el'[n].node_cnt = el[n].node_cnt /\ el'[n].filter = el[n].filter
  <2>1. DOMAIN el = Addr /\ n \in Addr /\ Linked(el, n)
    BY <1>1
  <2>2. l \in Seq(OfHash(el[n].hash)) /\ el' = [el EXCEPT ![n].ll = l]
    BY <1>2
  <2>3. DOMAIN el' = Addr /\ Linked(el', n) /\ \A b \in Addr \ {n} : el'[b] = el[b]
    BY ONLY <2>1, <2>2, ListEdit
  <2>4. el'[n].ll = l
    BY ONLY <2>1, <2>2, ListEdit
  <2>5. el'[n].hash = el[n].hash
    BY ONLY <2>1, <2>2, ListEdit
  <2>6. el'[n].node_cnt = el[n].node_cnt /\ el'[n].filter = el[n].filter
    BY ONLY <2>1, <2>2, ListEdit
  <2> QED BY <2>3, <2>4, <2>5, <2>6
<1>4. Shape(child', el', T, sub)
  <2>1. \A a \in T : el'[a].hash = el[a].hash
    BY <1>1, <1>3
  <2> QED BY <1>1, <2>1, Rehash
<1>5. /\ Stacked(stack', child', T, sub) /\ stack' # << >> /\ stack' \in Seq(Frames)
      /\ On(stack') = Lower /\ (Dying' <=> Dying) /\ Top' = stack[2]
  BY <1>1, <1>4, SameSteady, LeaveStack DEF Walkers
<1>6. stack[2] \in Lower /\ stack[2].at # "enter" /\ stack[2].fn \in {"avl", Top.fn}
  BY <1>1, Walking DEF Walkers
<1>7. Moving(T, sub)'
  BY <1>1, <1>5, <1>6, StillNotMoving DEF Walkers
<1>8. Exact(child, el', n)
  <2>1. n \notin Pending
    BY <1>1, CurNotPending DEF Waits, Walkers
  <2>2. Exact(child, el, n)
    BY <1>0, <1>1, <2>1 DEF HeapInvAt, Metadata
  <2>3. \A s \in Sides : child[<< n, s >>] # NULL => el'[child[<< n, s >>]] = el[child[<< n, s >>]]
    BY <1>1, <1>3, KidsOf
  <2> QED BY <1>3, <2>2, <2>3, ExactKept
<1>9. Top.fn \in Updaters /\ Top'.fn # "find" /\ (Top'.fn = "insert" => Top.fn = "insert")
  BY <1>5, <1>6 DEF Updaters
<1> QED BY <1>0, <1>1, <1>2, <1>3, <1>5, <1>6, <1>7, <1>8, <1>9, EditStep

\* It has become empty, and the function goes on to cut the node loose.
LEMMA ListThenCut ==
  ASSUME HeapInv, up, stack # << >>, Top.fn \in {"remove", "ndel"}, Top.at \in {"enter", "r"},
         Cur # NULL, NEW l, l \in Seq(OfHash(el[Cur].hash)), el' = [el EXCEPT ![Cur].ll = l],
         UNCHANGED << child, alloc, low, call, up >>, Goto("cut")
  PROVE  HeapInv'
<1>0. PICK T, sub : HeapInvAt(T, sub)
  BY DEF HeapInv
<1> DEFINE n == Cur
           f == [Top EXCEPT !.at = "cut"]
<1>1. /\ Filled /\ n \in T /\ n \in Addr /\ n \in sub[Top.slot] /\ Linked(el, n)
      /\ DOMAIN el = Addr /\ T \subseteq Addr
      /\ Shape(child, el, T, sub) /\ Stacked(stack, child, T, sub) /\ Moving(T, sub)
  BY <1>0, HereFacts
<1>2. n = Cur /\ n # NULL /\ el' = [el EXCEPT ![n].ll = l] /\ l \in Seq(OfHash(el[n].hash))
  OBVIOUS
<1> HIDE DEF n
<1>3. /\ DOMAIN el' = Addr /\ \A b \in Addr \ {n} : el'[b] = el[b]
      /\ Linked(el', n) /\ el'[n].ll = l /\ el'[n].hash = el[n].hash
  <2>1. DOMAIN el = Addr /\ n \in Addr /\ Linked(el, n)
    BY <1>1
  <2>2. l \in Seq(OfHash(el[n].hash)) /\ el' = [el EXCEPT ![n].ll = l]
    BY <1>2
  <2>3. DOMAIN el' = Addr /\ Linked(el', n) /\ \A b \in Addr \ {n} : el'[b] = el[b]
    BY ONLY <2>1, <2>2, ListEdit
  <2>4. el'[n].ll = l
    BY ONLY <2>1, <2>2, ListEdit
  <2>5. el'[n].hash = el[n].hash
    BY ONLY <2>1, <2>2, ListEdit
  <2> QED BY <2>3, <2>4, <2>5
<1>4. Shape(child', el', T, sub)
  <2>1. \A a \in T : el'[a].hash = el[a].hash
    BY <1>1, <1>3
  <2> QED BY <1>1, <2>1, Rehash
<1>5. Top \in Frames /\ FrameOK(Top, child, T)
  BY <1>1, Running
<1>6. f \in Frames /\ f.fn = Top.fn /\ f.slot = Top.slot /\ f.at = "cut"
  BY <1>5 DEF Frames, Labels
<1>7. stack' = << f >> \o Tail(stack)
  BY DEF Goto
<1> HIDE DEF f
<1>8. FrameOK(f, child', T)
  BY <1>2, <1>5, <1>6 DEF FrameOK, LabelOK, Cur
<1>9. /\ Stacked(stack', child', T, sub) /\ stack' # << >> /\ stack' \in Seq(Frames)
      /\ On(stack') = {f} \cup Lower /\ (Dying' <=> Dying) /\ Top' = f
  BY <1>1, <1>4, <1>6, <1>7, <1>8, SameSteady, GotoStack DEF Walkers
<1>10. Moving(T, sub)'
  BY <1>1, <1>6, <1>9, StillNotMoving DEF Walkers
<1>11. n \in Pending'
  <2>1. DOMAIN stack' = 1 .. Len(stack')
    BY <1>9
  <2>2. PICK i \in 1 .. Len(stack') : stack'[i] = f
    BY <1>9 DEF On
  <2>3. child'[f.slot] = n
    BY <1>2, <1>6 DEF Cur
  <2> QED BY <1>6, <2>1, <2>2, <2>3 DEF Pending
<1>12. Top.fn \in Updaters /\ Top'.fn # "find" /\ Top'.fn # "insert"
  BY <1>6, <1>9 DEF Updaters
<1>13. el'[n].ll \in Seq(OfHash(el[n].hash))
  <2>1. el'[n].ll = l
    BY <1>1, <1>2, ListEdit
  <2> QED BY <1>2, <2>1
<1> QED BY <1>0, <1>1, <1>2, <1>3, <1>9, <1>10, <1>11, <1>12, <1>13, EditStep

\* An element is put into the list of the node of its hash.
LEMMA InsertHereKeeps == \A nomem \in BOOLEAN : HeapInv /\ InsertHere(nomem) => HeapInv'
<1> SUFFICES ASSUME NEW nomem \in BOOLEAN, HeapInv, InsertHere(nomem) PROVE HeapInv'
  OBVIOUS
<1>0. PICK T, sub : HeapInvAt(T, sub)
  BY DEF HeapInv
<1> DEFINE l == ll_insert(el[Cur].ll, call.arg, nomem).ll
<1>1. /\ up /\ stack # << >> /\ Top.fn = "insert" /\ Top.at = "enter"
      /\ Cur # NULL /\ el[Cur].hash = Hash /\ el' = [el EXCEPT ![Cur].ll = l]
      /\ UNCHANGED << child, alloc, low, call, up >> /\ Leave
  BY DEF InsertHere, At, rest
<1>2. el[Cur].ll \in Seq(OfHash(el[Cur].hash))
  BY <1>0, <1>1, HereFacts
<1>3. call.arg \in OfHash(el[Cur].hash)
  <2>1. call.arg \in Key
    BY <1>0, <1>1 DEF HeapInvAt, Searching
  <2> QED BY <1>1, <2>1 DEF OfHash, Hash
<1>4. l \in Seq(OfHash(el[Cur].hash))
  BY <1>2, <1>3, ListsKeep
<1> HIDE DEF l
<1> QED BY <1>1, <1>4, ListThenLeave

\* An element is taken out of the list of the node of its hash.
LEMMA RemoveHereKeeps == HeapInv /\ RemoveHere => HeapInv'
<1> SUFFICES ASSUME HeapInv, RemoveHere PROVE HeapInv'
  OBVIOUS
<1>0. PICK T, sub : HeapInvAt(T, sub)
  BY DEF HeapInv
<1> DEFINE l == ll_delete(el[Cur].ll, call.arg).ll
<1>1. /\ up /\ stack # << >> /\ Top.fn = "remove" /\ Top.at = "enter"
      /\ Cur # NULL /\ el' = [el EXCEPT ![Cur].ll = l]
      /\ UNCHANGED << child, alloc, low, call, up >> /\ (Goto("cut") \/ Leave)
  BY DEF RemoveHere, At, rest
<1>2. el[Cur].ll \in Seq(OfHash(el[Cur].hash))
  BY <1>0, <1>1, HereFacts
<1>3. l \in Seq(OfHash(el[Cur].hash))
  BY <1>2, ListsKeep
<1> HIDE DEF l
<1> QED BY <1>1, <1>3, ListThenLeave, ListThenCut

\* The elements that satisfy a predicate are taken out of the list of a node.
LEMMA NdelHereKeeps == HeapInv /\ NdelHere => HeapInv'
<1> SUFFICES ASSUME HeapInv, NdelHere PROVE HeapInv'
  OBVIOUS
<1>0. PICK T, sub : HeapInvAt(T, sub)
  BY DEF HeapInv
<1> DEFINE n == Cur
           l == ll_ndel(el[Cur].ll, call.arg).ll
           e == [el EXCEPT ![Cur].ll = l]
<1>1. /\ up /\ stack # << >> /\ Top.fn = "ndel" /\ Top.at = "r"
      /\ UNCHANGED << child, alloc, low, call, up >>
      /\ \/ el' = e /\ Goto("cut")
         \/ el' = regen_metadata(e, child, Cur) /\ Leave
  BY DEF NdelHere, At, rest
<1>2. n # NULL /\ n = Cur
  BY <1>1, AtNode DEF Walkers
<1>3. /\ Filled /\ n \in T /\ n \in Addr /\ Linked(el, n) /\ DOMAIN el = Addr /\ T \subseteq Addr
      /\ el[n].ll \in Seq(OfHash(el[n].hash))
      /\ Shape(child, el, T, sub) /\ Stacked(stack, child, T, sub) /\ Moving(T, sub)
  <2> HIDE DEF n
  <2> QED BY <1>0, <1>1, <1>2, HereFacts
<1>4. l \in Seq(OfHash(el[n].hash))
  BY <1>3, ListsKeep
<1>5. CASE el' = e /\ Goto("cut")
  <2> HIDE DEF l
  <2> QED BY <1>1, <1>2, <1>4, <1>5, ListThenCut
<1>6. CASE el' = regen_metadata(e, child, n) /\ Leave
  <2>1. e = [el EXCEPT ![n].ll = l]
    OBVIOUS
  <2> HIDE DEF n, l, e
  <2>2. DOMAIN e = Addr /\ Linked(e, n) /\ \A b \in Addr \ {n} : e[b] = el[b]
    BY <1>3, <1>4, <2>1, ListEdit
  <2>3. e[n].ll = l /\ e[n].hash = el[n].hash
    BY <1>3, <1>4, <2>1, ListEdit
  <2>4. \A s \in Sides : child[<< n, s >>] \in (Addr \ {n}) \cup {NULL}
    BY <1>3, KidsOf
  <2>5. \A s \in Sides : child[<< n, s >>] # NULL => Linked(e, child[<< n, s >>])
    <3> TAKE s \in Sides
    <3>1. child[<< n, s >>] # NULL => child[<< n, s >>] \in T \ {n}
      BY <1>3, KidsOf
    <3>2. \A a \in T : Linked(el, a)
      BY <1>0, <1>1, <1>3, TreeNodes DEF Walkers
    <3> QED BY <1>3, <2>2, <3>1, <3>2 DEF Linked
  <2>6. /\ DOMAIN el' = Addr /\ \A b \in Addr \ {n} : el'[b] = e[b]
        /\ Linked(el', n) /\ el'[n].ll = e[n].ll /\ el'[n].hash = e[n].hash
        /\ Exact(child, el', n)
    <3>1. e[n] \in Node /\ e[n].hash \in Range(hashf)
      BY <2>2 DEF Linked
    <3> QED BY <1>3, <1>6, <2>2, <2>4, <2>5, <3>1, RegenExact
  <2>7. Shape(child', el', T, sub)
    <3>1. \A a \in T : el'[a].hash = el[a].hash
      BY <1>3, <2>2, <2>3, <2>6
    <3> QED BY <1>1, <1>3, <3>1, Rehash
  <2>8. /\ Stacked(stack', child', T, sub) /\ stack' # << >> /\ stack' \in Seq(Frames)
        /\ On(stack') = Lower /\ (Dying' <=> Dying) /\ Top' = stack[2]
    BY <1>1, <1>3, <1>6, <2>7, SameSteady, LeaveStack DEF Walkers
  <2>9. stack[2] \in Lower /\ stack[2].at # "enter" /\ stack[2].fn \in {"avl", Top.fn}
    BY <1>1, <1>3, Walking DEF Walkers
  <2>10. Moving(T, sub)'
    BY <1>1, <1>3, <2>8, <2>9, StillNotMoving DEF Walkers
  <2>11. Top.fn \in Updaters /\ Top'.fn # "find" /\ Top'.fn # "insert"
    BY <1>1, <2>8, <2>9 DEF Updaters
  <2>12. /\ \A b \in Addr \ {n} : el'[b] = el[b]
         /\ el'[n].hash = el[n].hash /\ el'[n].ll \in Seq(OfHash(el[n].hash))
    BY <1>4, <2>2, <2>3, <2>6
  <2> QED BY <1>0, <1>1, <1>2, <1>3, <2>6, <2>8, <2>10, <2>11, <2>12, EditStep
<1> QED BY <1>1, <1>5, <1>6
=============================================================================
