----------------------------- MODULE RSetProofs -----------------------------
(***************************************************************************)
(* Sets as set.c implements them, for any handles, hashes and trees, and   *)
(* as many buckets and elements as an int can count: the type invariant of *)
(* RSet, and every call is a call of RSetSpec.                             *)
(***************************************************************************)
EXTENDS RSet, HtProofs

Power == HT_INIT_POWER

LEMMA PowerInRange == Power \in TableSizes /\ Power \in 1 .. HASH_BITS
BY CallAssumption DEF Power, TableSizes

-----------------------------------------------------------------------------
(* The procf() that copies. *)

\* c: what such a procf() has made of a table that held there, after it was given some.
Copied(c, there, some, mild) ==
  /\ c = [ret |-> c.ret, ht |-> c.ht] /\ IsTable(c.ht, Power)
  /\ there \subseteq Content(c.ht) /\ Content(c.ht) \subseteq there \cup some
  /\ \/ c.ret = OK /\ some \subseteq Content(c.ht) /\ (mild \/ some \cap there = {})
     \/ c.ret = EEXIST /\ ~mild /\ some \cap there # {}
     \/ c.ret = ENOMEM /\ ~(some \subseteq Content(c.ht))

\* One more call of it.
Step(c, d, mild, nomem) ==
  [ht_insert(c.ht, d, nomem) EXCEPT !.ret = IF mild /\ @ = EEXIST THEN OK ELSE @]

LEMMA CopyOne ==
  ASSUME NEW c, NEW there, NEW some, NEW mild \in BOOLEAN, Copied(c, there, some, mild),
         ~(c.ret < 0), NEW d \in Key, d \notin some, NEW nomem \in {"none", "node", "cell"}
  PROVE  Copied(Step(c, d, mild, nomem), there, some \cup {d}, mild)
<1> DEFINE ins == ht_insert(c.ht, d, nomem)
           new == Step(c, d, mild, nomem)
<1>1. /\ IsTable(c.ht, Power) /\ some \subseteq Content(c.ht)
      /\ there \subseteq Content(c.ht) /\ Content(c.ht) \subseteq there \cup some
      /\ mild \/ some \cap there = {}
  BY DEF Copied, EEXIST, ENOMEM
<1>2. ins = [ret |-> ins.ret, ht |-> ins.ht]
  BY DEF ht_insert
<1>3. new = [ret |-> IF mild /\ ins.ret = EEXIST THEN OK ELSE ins.ret, ht |-> ins.ht]
  <2>1. \A v, w, x : [[ret |-> v, ht |-> w] EXCEPT !.ret = x] = [ret |-> x, ht |-> w]
    OBVIOUS
  <2>2. new = [ins EXCEPT !.ret = IF mild /\ ins.ret = EEXIST THEN OK ELSE ins.ret]
    BY DEF Step
  <2> HIDE DEF ins, new
  <2> QED BY <1>2, <2>1, <2>2
<1>4. /\ IsTable(ins.ht, Power)
      /\ \/ d \notin Content(c.ht) /\ ins.ret = OK /\ Content(ins.ht) = Content(c.ht) \cup {d}
         \/ /\ ins.ret = IF d \in Content(c.ht) THEN EEXIST ELSE ENOMEM
            /\ Content(ins.ht) = Content(c.ht)
  <2>1. Inserted(ins, Power, Content(c.ht), d)
    BY <1>1, PowerInRange, Inserts
  <2> HIDE DEF ins
  <2> QED BY <2>1 DEF Inserted
<1> HIDE DEF ins, new
<1>5. CASE d \notin Content(c.ht) /\ ins.ret = OK /\ Content(ins.ht) = Content(c.ht) \cup {d}
  <2>1. new = [ret |-> OK, ht |-> ins.ht]
    BY <1>3, <1>5
  <2>2. mild \/ (some \cup {d}) \cap there = {}
    BY <1>1, <1>5
  <2> QED BY <1>1, <1>4, <1>5, <2>1, <2>2 DEF Copied, new
<1>6. CASE d \in Content(c.ht) /\ ins.ret = EEXIST /\ Content(ins.ht) = Content(c.ht)
  <2>1. d \in there
    BY <1>1, <1>6
  <2>2. CASE mild
    <3>1. new = [ret |-> OK, ht |-> ins.ht]
      BY <1>3, <1>6, <2>2
    <3>2. /\ there \subseteq Content(ins.ht) /\ Content(ins.ht) \subseteq there \cup (some \cup {d})
          /\ some \cup {d} \subseteq Content(ins.ht)
      BY <1>1, <1>6
    <3>3. mild \/ (some \cup {d}) \cap there = {}
      BY <2>2
    <3> QED BY <1>4, <3>1, <3>2, <3>3 DEF Copied, new
  <2>3. CASE ~mild
    <3>1. new = [ret |-> EEXIST, ht |-> ins.ht]
      BY <1>3, <1>6, <2>3
    <3> QED BY <1>1, <1>4, <1>6, <2>1, <2>3, <3>1 DEF Copied, new
  <2> QED BY <2>2, <2>3
<1>7. CASE d \notin Content(c.ht) /\ ins.ret = ENOMEM /\ Content(ins.ht) = Content(c.ht)
  <2>1. new = [ret |-> ENOMEM, ht |-> ins.ht]
    BY <1>3, <1>7 DEF ENOMEM, EEXIST
  <2> QED BY <1>1, <1>4, <1>7, <2>1 DEF Copied, new
<1> QED BY <1>4, <1>5, <1>6, <1>7

\* Once it has failed nothing that it is not given matters.
LEMMA CopyFailed ==
  ASSUME NEW c, NEW there, NEW some, NEW mild \in BOOLEAN, Copied(c, there, some, mild),
         c.ret < 0, NEW more, some \subseteq more
  PROVE  Copied(c, there, more, mild)
BY DEF Copied, OK

\* All calls together.
LEMMA CopyAll ==
  ASSUME NEW ht, IsTable(ht, Power), NEW elems \in Seq(Key), IsInjective(elems),
         NEW mild \in BOOLEAN, NEW oom
  PROVE  Copied(InsertAll(ht, elems, mild, oom), Content(ht), ToSet(elems), mild)
<1> DEFINE N        == Len(elems)
           nomem(j) == IF elems[j] = oom THEN "cell" ELSE "none"
           On(j, sofar) == IF sofar.ret < 0 THEN sofar
                           ELSE [ht_insert(sofar.ht, elems[j], nomem(j))
                                   EXCEPT !.ret = IF mild /\ @ = EEXIST THEN OK ELSE @]
           copy == CHOOSE f : f = [j \in 0 .. N |->
                                     IF j = 0 THEN [ret |-> OK, ht |-> ht] ELSE On(j, f[j - 1])]
           there   == Content(ht)
           Some(j) == {elems[i] : i \in 1 .. j}
           T    == {t \in [sizeexp : {Power}, buckets : [Places(Power) -> Tree]] : IsTable(t, Power)}
           S    == [ret : {OK, EEXIST, ENOMEM}, ht : T]
           step == [x \in (0 .. (N - 1)) \X S |-> On(x[1] + 1, x[2])]
<1>1. InsertAll(ht, elems, mild, oom) = copy[N]
  BY DEF InsertAll
<1>2. /\ N \in Nat /\ DOMAIN elems = 1 .. N /\ \A i \in 1 .. N : elems[i] \in Key
      /\ \A i, j \in 1 .. N : elems[i] = elems[j] => i = j
  BY LenProperties, ElementOfSeq DEF IsInjective
<1>3. \A j \in 1 .. N : nomem(j) \in {"none", "node", "cell"}
  OBVIOUS
<1>4. \A t : IsTable(t, Power) => t \in T
  BY DEF IsTable
<1>5. ASSUME NEW j \in 1 .. N, NEW sofar
      PROVE  On(j, sofar) = IF sofar.ret < 0 THEN sofar ELSE Step(sofar, elems[j], mild, nomem(j))
  BY DEF Step
<1> HIDE DEF N, nomem, On
<1>6. ASSUME NEW j \in 1 .. N, NEW sofar \in S
      PROVE  On(j, sofar) \in S
  <2>1. CASE sofar.ret < 0
    BY <1>5, <2>1
  <2>2. CASE ~(sofar.ret < 0)
    <3>1. sofar.ret = OK /\ IsTable(sofar.ht, Power) /\ sofar = [ret |-> sofar.ret, ht |-> sofar.ht]
      BY <2>2 DEF EEXIST, ENOMEM
    <3> DEFINE c == Content(sofar.ht)
    <3>2. Copied(sofar, c, {}, mild)
      BY <3>1 DEF Copied
    <3> DEFINE new == Step(sofar, elems[j], mild, nomem(j))
    <3>3. Copied(new, c, {} \cup {elems[j]}, mild)
      BY <3>2, <1>2, <1>3, <2>2, CopyOne
    <3> HIDE DEF new
    <3>4. new \in S
      BY <3>3, <1>4 DEF Copied
    <3> HIDE DEF S
    <3> QED BY <3>4, <1>5, <2>2 DEF new
  <2> QED BY <2>1, <2>2
<1>7. PICK g : Run(N, [ret |-> OK, ht |-> ht], step, S, g)
  <2>1. step \in [(0 .. (N - 1)) \X S -> S]
    <3>1. ASSUME NEW x \in (0 .. (N - 1)) \X S
          PROVE  On(x[1] + 1, x[2]) \in S
      <4>1. x[1] + 1 \in 1 .. N /\ x[2] \in S
        BY <1>2
      <4> HIDE DEF S
      <4> QED BY <4>1, <1>6
    <3> HIDE DEF S
    <3> QED BY <3>1
  <2>2. [ret |-> OK, ht |-> ht] \in S
    BY <1>4
  <2> HIDE DEF step, S
  <2> QED BY <1>2, <2>1, <2>2, IterateTo
<1>8. g = [j \in 0 .. N |-> IF j = 0 THEN [ret |-> OK, ht |-> ht] ELSE On(j, g[j - 1])]
  <2> HIDE DEF S
  <2>1. g \in [0 .. N -> S] /\ g[0] = [ret |-> OK, ht |-> ht]
    BY <1>7 DEF Run
  <2>2. ASSUME NEW j \in 0 .. N, j # 0
        PROVE  g[j] = On(j, g[j - 1])
    <3>1. j - 1 \in 0 .. (N - 1) /\ (j - 1) + 1 = j /\ g[j - 1] \in S
      BY <1>2, <2>1, <2>2
    <3>2. g[(j - 1) + 1] = step[<< j - 1, g[j - 1] >>]
      BY <1>7, <3>1 DEF Run
    <3>3. step[<< j - 1, g[j - 1] >>] = On((j - 1) + 1, g[j - 1])
      BY <3>1
    <3> QED BY <3>1, <3>2, <3>3
  <2> QED BY <2>1, <2>2
<1>9. copy = [j \in 0 .. N |-> IF j = 0 THEN [ret |-> OK, ht |-> ht] ELSE On(j, copy[j - 1])]
  BY <1>8, Zenon
<1> HIDE DEF copy, S, step, T
<1> DEFINE A == {j \in Nat : j <= N => Copied(copy[j], there, Some(j), mild)}
<1>10. 0 \in A
  <2>1. copy[0] = [ret |-> OK, ht |-> ht] /\ Some(0) = {}
    BY <1>2, <1>9
  <2>2. Copied([ret |-> OK, ht |-> ht], there, {}, mild)
    BY DEF Copied
  <2> HIDE DEF Some, there
  <2> QED BY <2>1, <2>2
<1>11. ASSUME NEW j \in Nat, j \in A
       PROVE  j + 1 \in A
  <2> SUFFICES ASSUME j + 1 <= N PROVE Copied(copy[j + 1], there, Some(j + 1), mild)
    OBVIOUS
  <2> DEFINE d == elems[j + 1]
  <2>1. j + 1 \in 1 .. N /\ j + 1 \in 0 .. N /\ j + 1 # 0 /\ (j + 1) - 1 = j
    BY <1>2
  <2>2. copy[j + 1] = IF copy[j].ret < 0 THEN copy[j] ELSE Step(copy[j], d, mild, nomem(j + 1))
    BY <1>5, <1>9, <2>1
  <2>3. Copied(copy[j], there, Some(j), mild)
    BY <1>11, <1>2
  <2>4. Some(j + 1) = Some(j) \cup {d}
    <3>1. 1 .. (j + 1) = (1 .. j) \cup {j + 1}
      OBVIOUS
    <3> QED BY <3>1
  <2>5. d \in Key /\ d \notin Some(j)
    <3>1. ASSUME NEW i \in 1 .. j
          PROVE  elems[i] # d
      BY <1>2, <2>1
    <3> QED BY <3>1, <1>2, <2>1
  <2>6. nomem(j + 1) \in {"none", "node", "cell"}
    BY <1>3, <2>1
  <2> HIDE DEF Some, there, d
  <2>7. CASE copy[j].ret < 0
    BY <2>2, <2>3, <2>4, <2>7, CopyFailed
  <2>8. CASE ~(copy[j].ret < 0)
    BY <2>2, <2>3, <2>4, <2>5, <2>6, <2>8, CopyOne
  <2> QED BY <2>7, <2>8
<1>12. Copied(copy[N], there, Some(N), mild)
  <2>1. N \in A
    <3> HIDE DEF A
    <3> QED BY <1>2, <1>10, <1>11, AllNat
  <2> QED BY <2>1, <1>2
<1>13. Some(N) = ToSet(elems)
  BY <1>2 DEF ToSet
<1> HIDE DEF Some
<1> QED BY <1>1, <1>12, <1>13

-----------------------------------------------------------------------------
(* The sets and what the interface sees of them. *)

\* A table of the initial size that can be counted.
Sound(ht) == IsTable(ht, Power) /\ HasRoom(ht, {})

\* Every set with buckets has one.
SetsInv ==
  /\ TypeOK
  /\ \A h \in Handle : sets[h] # NULL /\ sets[h].ht.buckets # NULL => Sound(sets[h].ht)

InterfaceStep == [Interface!Next]_(Interface!vars)

\* A set is not NULL, neither here nor there.
LEMMA Seen ==
  ASSUME SetsInv, NEW h \in Handle
  PROVE  /\ sets[h] = NULL => AbstractSets[h] = NULL
         /\ sets[h] # NULL => /\ sets[h] = [ht |-> sets[h].ht, cfg |-> sets[h].cfg]
                             /\ sets[h].cfg \in Cfg
                             /\ AbstractSets[h] = [cfg   |-> sets[h].cfg,
                                                   elems |-> Contents(sets[h].ht)]
                             /\ AbstractSets[h] # NULL
<1>1. CASE sets[h] = NULL
  BY <1>1 DEF AbstractSets
<1>2. CASE sets[h] # NULL
  <2>1. sets[h] \in SetObject
    BY <1>2 DEF SetsInv, TypeOK
  <2>2. /\ sets[h] = [ht |-> sets[h].ht, cfg |-> sets[h].cfg]
        /\ sets[h].cfg \in Cfg
    BY <2>1 DEF SetObject
  <2>3. AbstractSets[h] = [cfg |-> sets[h].cfg, elems |-> Contents(sets[h].ht)]
    BY <1>2 DEF AbstractSets
  <2>4. Contents(sets[h].ht) \subseteq Key
    <3>1. CASE sets[h].ht.buckets = NULL
      BY <3>1 DEF Contents
    <3>2. CASE sets[h].ht.buckets # NULL
      <4>1. IsTable(sets[h].ht, Power)
        BY <1>2, <3>2 DEF SetsInv, Sound
      <4> QED BY <3>2, <4>1, PowerInRange, Whereabouts DEF Contents
    <3> QED BY <3>1, <3>2
  <2>5. AbstractSets[h] \in [cfg : Cfg, elems : SUBSET Key]
    BY <2>2, <2>3, <2>4
  <2> QED BY <1>2, <2>2, <2>3, <2>5, NullAssumption
<1> QED BY <1>1, <1>2

\* What can be used has a table.
LEMMA SeenTable ==
  ASSUME SetsInv, NEW h \in Handle, Usable(h)
  PROVE  /\ Sound(sets[h].ht) /\ IsTable(sets[h].ht, Power) /\ sets[h] # NULL
         /\ AbstractSets[h] = [cfg |-> sets[h].cfg, elems |-> Content(sets[h].ht)]
         /\ AbstractSets[h] # NULL /\ AbstractSets[h].elems = Content(sets[h].ht)
<1>1. sets[h] # NULL /\ sets[h].ht.buckets # NULL
  BY DEF Usable
<1>2. Contents(sets[h].ht) = Content(sets[h].ht)
  BY <1>1 DEF Contents
<1>3. /\ AbstractSets[h] = [cfg |-> sets[h].cfg, elems |-> Content(sets[h].ht)]
      /\ AbstractSets[h] # NULL
  BY <1>1, <1>2, Seen
<1>4. Sound(sets[h].ht) /\ IsTable(sets[h].ht, Power)
  BY <1>1 DEF SetsInv, Sound
<1>5. AbstractSets[h].elems = Content(sets[h].ht)
  BY <1>3
<1> QED BY <1>1, <1>3, <1>4, <1>5

\* A table is one of a set.
LEMMA TableOfSet ==
  ASSUME NEW ht, IsTable(ht, Power), NEW c \in Cfg
  PROVE  [ht |-> ht, cfg |-> c] \in SetObject /\ ht.buckets # NULL /\ Contents(ht) = Content(ht)
<1>1. ht = [sizeexp |-> Power, buckets |-> ht.buckets] /\ ht.buckets \in [Places(Power) -> Tree]
  BY DEF IsTable
<1>2. ht.buckets # NULL
  BY <1>1, NullAssumption DEF Places, Power
<1>3. [ht |-> ht, cfg |-> c] \in SetObject
  BY <1>1 DEF SetObject, Places, Power
<1> QED BY <1>2, <1>3 DEF Contents

\* One handle gets another set.
LEMMA OneSet ==
  ASSUME SetsInv, NEW h \in Handle, NEW new \in SetObject,
         new.ht.buckets # NULL => Sound(new.ht), sets' = [sets EXCEPT ![h] = new]
  PROVE  /\ SetsInv'
         /\ AbstractSets' = [AbstractSets EXCEPT ![h] = [cfg   |-> new.cfg,
                                                        elems |-> Contents(new.ht)]]
<1>1. sets \in [Handle -> {NULL} \cup SetObject] /\ new # NULL
  BY NullAssumption DEF SetsInv, TypeOK
<1>2. /\ sets' \in [Handle -> {NULL} \cup SetObject] /\ sets'[h] = new
      /\ \A g \in Handle : g # h => sets'[g] = sets[g]
  BY <1>1
<1>3. SetsInv'
  <2>1. \A g \in Handle : Sound(sets[g].ht)' <=> Sound(sets'[g].ht)
    BY DEF Sound, IsTable, HasRoom, Content
  <2> QED BY <1>1, <1>2, <2>1 DEF SetsInv, TypeOK
<1>4. AbstractSets' = [g \in Handle |-> IF sets'[g] = NULL THEN NULL
                        ELSE [cfg |-> sets'[g].cfg, elems |-> Contents(sets'[g].ht)]]
  BY DEF AbstractSets, Contents, Content
<1> DEFINE see == [cfg |-> new.cfg, elems |-> Contents(new.ht)]
<1>5. AbstractSets'[h] = see /\ \A g \in Handle : g # h => AbstractSets'[g] = AbstractSets[g]
  BY <1>1, <1>2, <1>4 DEF AbstractSets
<1> HIDE DEF see
<1>6. AbstractSets = [g \in Handle |-> AbstractSets[g]] /\ AbstractSets' = [g \in Handle |-> AbstractSets'[g]]
  BY <1>4 DEF AbstractSets
<1>7. AbstractSets' = [AbstractSets EXCEPT ![h] = see]
  BY <1>5, <1>6
<1> QED BY <1>3, <1>7 DEF see

\* A set gets another table, with at most the elements there was room for.
LEMMA OneTable ==
  ASSUME SetsInv, NEW h \in Handle, Usable(h), NEW ht, IsTable(ht, Power),
         NEW more, IsFiniteSet(more), HasRoom(sets[h].ht, more),
         Content(ht) \subseteq Content(sets[h].ht) \cup more,
         sets' = [sets EXCEPT ![h].ht = ht]
  PROVE  SetsInv' /\ AbstractSets' = [AbstractSets EXCEPT ![h].elems = Content(ht)]
<1> DEFINE new == [ht |-> ht, cfg |-> sets[h].cfg]
           A   == AbstractSets
           see == [cfg |-> sets[h].cfg, elems |-> Content(ht)]
<1>1. /\ sets[h] # NULL /\ sets[h] = [ht |-> sets[h].ht, cfg |-> sets[h].cfg] /\ sets[h].cfg \in Cfg
      /\ A[h] = [cfg |-> sets[h].cfg, elems |-> Content(sets[h].ht)]
  BY Seen, SeenTable DEF Usable
<1>2. new \in SetObject /\ new.ht = ht /\ new.cfg = sets[h].cfg /\ Contents(ht) = Content(ht)
  BY <1>1, TableOfSet
<1>3. sets' = [sets EXCEPT ![h] = new]
  <2>1. [sets[h] EXCEPT !.ht = ht] = new
    BY <1>1
  <2> QED BY <2>1
<1>7. Sound(ht)
  <2>1. IsTable(sets[h].ht, Power)
    BY SeenTable
  <2>2. HasRoom(ht, {})
    BY <2>1, PowerInRange, StillRoom
  <2> QED BY <2>2 DEF Sound
<1> HIDE DEF new, A
<1>4. SetsInv' /\ A' = [A EXCEPT ![h] = see]
  <2>1. [cfg |-> new.cfg, elems |-> Contents(new.ht)] = see
    BY <1>2
  <2> HIDE DEF see
  <2> QED BY <1>2, <1>3, <1>7, <2>1, OneSet DEF A
<1>5. [A[h] EXCEPT !.elems = Content(ht)] = see
  BY <1>1
<1>6. A' = [A EXCEPT ![h].elems = Content(ht)]
  BY <1>4, <1>5
<1> QED BY <1>4, <1>6 DEF A

\* Nothing changes.
LEMMA NoSet ==
  ASSUME SetsInv, UNCHANGED sets
  PROVE  SetsInv' /\ AbstractSets' = AbstractSets
BY DEF SetsInv, TypeOK, AbstractSets, Contents, Content, Sound, IsTable, HasRoom

-----------------------------------------------------------------------------
(* Every call keeps the invariant and is a step of the interface. *)

\* r_set_new: a set without elements, even if it has no buckets.
LEMMA NewStep ==
  ASSUME SetsInv, NEW h \in Handle, NEW c \in Cfg, NEW fail \in {"none", "set", "buckets"},
         r_set_new(h, c, fail)
  PROVE  SetsInv' /\ InterfaceStep
<1> DEFINE A == AbstractSets
<1>1. sets[h] = NULL /\ A[h] = NULL
  BY Seen DEF r_set_new
<1>2. CASE fail = "set"
  <2>1. UNCHANGED sets /\ done' = [op |-> "new", arg |-> << h, c >>, ret |-> NULL]
    BY <1>2 DEF r_set_new, Return
  <2>2. SetsInv' /\ A' = A
    BY <2>1, NoSet
  <2> HIDE DEF A
  <2>3. Interface!New(h, c)
    BY <1>1, <2>1, <2>2 DEF Interface!New, Interface!Return, A
  <2> QED BY <2>2, <2>3 DEF InterfaceStep, Interface!Next
<1>3. CASE fail # "set"
  <2> DEFINE ht  == ht_init(Power, fail = "buckets")
             new == [ht |-> ht, cfg |-> c]
  <2>1. /\ sets' = [sets EXCEPT ![h] = new]
        /\ done' = [op |-> "new", arg |-> << h, c >>, ret |-> h]
    BY <1>3 DEF r_set_new, Return, Power
  <2>2. new \in SetObject /\ Contents(ht) = {} /\ (ht.buckets # NULL => Sound(ht))
    <3>1. CASE fail = "buckets"
      <4>1. ht = [sizeexp |-> Power, buckets |-> NULL]
        BY <3>1 DEF ht_init
      <4> HIDE DEF ht
      <4> QED BY <4>1 DEF Contents, SetObject, Power
    <3>2. CASE fail # "buckets"
      <4>1. ht = ht_init(Power, FALSE)
        BY <3>2 DEF ht_init
      <4>2. IsTable(ht, Power) /\ Content(ht) = {}
        BY <4>1, PowerInRange, Initialised
      <4> HIDE DEF ht
      <4>3. Content(ht) \cup {} = {}
        BY <4>2
      <4>4. Sound(ht)
        BY <4>2, <4>3, FS_EmptySet, WidthAssumption DEF Sound, HasRoom
      <4> QED BY <4>2, <4>4, TableOfSet
    <3> QED BY <3>1, <3>2
  <2>3. new.ht = ht /\ new.cfg = c
    OBVIOUS
  <2> HIDE DEF ht, new
  <2>4. SetsInv' /\ A' = [A EXCEPT ![h] = [cfg |-> c, elems |-> {}]]
    BY <2>1, <2>2, <2>3, OneSet
  <2> HIDE DEF A
  <2>5. Interface!New(h, c)
    BY <1>1, <2>1, <2>4 DEF Interface!New, Interface!Return, A
  <2> QED BY <2>4, <2>5 DEF InterfaceStep, Interface!Next
<1> QED BY <1>2, <1>3

\* r_set_destroy: the set of this handle is gone, if there was one.
LEMMA DestroyStep ==
  ASSUME SetsInv, NEW h \in Handle, r_set_destroy(h)
  PROVE  SetsInv' /\ InterfaceStep
<1> DEFINE A == AbstractSets
<1>1. A = [g \in Handle |-> A[g]] /\ sets = [g \in Handle |-> sets[g]]
  BY DEF AbstractSets, SetsInv, TypeOK
<1>2. CASE sets[h] = NULL
  <2>1. UNCHANGED sets /\ done' = [op |-> "destroy", arg |-> h, ret |-> EEXIST] /\ A[h] = NULL
    BY <1>2, Seen DEF r_set_destroy, Return
  <2>2. SetsInv' /\ A' = A
    BY <2>1, NoSet
  <2> HIDE DEF A
  <2>3. A' = [A EXCEPT ![h] = NULL]
    BY <1>1, <2>1, <2>2
  <2>4. Interface!Destroy(h)
    BY <2>1, <2>3 DEF Interface!Destroy, Interface!Return, Interface!EEXIST, EEXIST, A
  <2> QED BY <2>2, <2>4 DEF InterfaceStep, Interface!Next
<1>3. CASE sets[h] # NULL
  <2>1. /\ sets' = [sets EXCEPT ![h] = NULL] /\ A[h] # NULL
        /\ done' = [op |-> "destroy", arg |-> h, ret |-> OK]
    BY <1>3, Seen DEF r_set_destroy, Return, ht_destroy
  <2>2. sets'[h] = NULL /\ \A g \in Handle : g # h => sets'[g] = sets[g]
    BY <1>1, <2>1
  <2>3. SetsInv'
    <3>1. \A g \in Handle : Sound(sets[g].ht)' <=> Sound(sets'[g].ht)
      BY DEF Sound, IsTable, HasRoom, Content
    <3> QED BY <2>1, <2>2, <3>1 DEF SetsInv, TypeOK
  <2>4. A' = [g \in Handle |-> IF sets'[g] = NULL THEN NULL
                ELSE [cfg |-> sets'[g].cfg, elems |-> Contents(sets'[g].ht)]]
    BY DEF AbstractSets, Contents, Content
  <2>5. A'[h] = NULL /\ \A g \in Handle : g # h => A'[g] = A[g]
    BY <2>2, <2>4 DEF AbstractSets
  <2>6. A' = [g \in Handle |-> A'[g]]
    BY <2>4
  <2> HIDE DEF A
  <2>7. A' = [A EXCEPT ![h] = NULL]
    BY <1>1, <2>5, <2>6
  <2>8. Interface!Destroy(h)
    BY <2>1, <2>7 DEF Interface!Destroy, Interface!Return, Interface!OK, OK, A
  <2> QED BY <2>3, <2>8 DEF InterfaceStep, Interface!Next
<1> QED BY <1>2, <1>3

\* r_set_insert: one element more, or none and the reason.
LEMMA InsertStep ==
  ASSUME SetsInv, NEW h \in Handle, NEW d \in Key, NEW nomem \in NoMem, r_set_insert(h, d, nomem)
  PROVE  SetsInv' /\ InterfaceStep
<1> DEFINE A   == AbstractSets
           ins == ht_insert(sets[h].ht, d, nomem)
<1>1. /\ Usable(h) /\ HasRoom(sets[h].ht, {d}) /\ sets' = [sets EXCEPT ![h].ht = ins.ht]
      /\ done' = [op |-> "insert", arg |-> << h, d >>, ret |-> ins.ret]
  BY DEF r_set_insert, Return
<1>2. IsTable(sets[h].ht, Power) /\ A[h] # NULL /\ A[h].elems = Content(sets[h].ht)
  BY <1>1, SeenTable
<1>3. /\ IsTable(ins.ht, Power)
      /\ \/ /\ d \notin Content(sets[h].ht) /\ ins.ret = OK
            /\ Content(ins.ht) = Content(sets[h].ht) \cup {d}
         \/ /\ ins.ret = IF d \in Content(sets[h].ht) THEN EEXIST ELSE ENOMEM
            /\ Content(ins.ht) = Content(sets[h].ht)
  <2>1. nomem \in {"none", "node", "cell"} /\ IsTable(sets[h].ht, Power)
    BY <1>2, CallAssumption
  <2> HIDE DEF A
  <2>2. Inserted(ins, Power, Content(sets[h].ht), d)
    BY <2>1, PowerInRange, Inserts
  <2> HIDE DEF ins
  <2> QED BY <2>2 DEF Inserted
<1> HIDE DEF ins
<1>4. SetsInv' /\ A' = [A EXCEPT ![h].elems = Content(ins.ht)]
  <2>1. IsFiniteSet({d}) /\ Content(ins.ht) \subseteq Content(sets[h].ht) \cup {d}
    BY <1>3, FS_Singleton
  <2> QED BY <1>1, <1>3, <2>1, OneTable
<1> HIDE DEF A
<1>5. CASE /\ d \notin Content(sets[h].ht) /\ ins.ret = OK
           /\ Content(ins.ht) = Content(sets[h].ht) \cup {d}
  <2>1. A' = [A EXCEPT ![h].elems = @ \cup {d}]
    BY <1>2, <1>4, <1>5
  <2>2. Interface!Insert(h, d)
    BY <1>1, <1>2, <1>5, <2>1 DEF Interface!Insert, Interface!Return, Interface!OK, OK, A
  <2> QED BY <1>4, <2>2 DEF InterfaceStep, Interface!Next
<1>6. CASE /\ ins.ret = IF d \in Content(sets[h].ht) THEN EEXIST ELSE ENOMEM
           /\ Content(ins.ht) = Content(sets[h].ht)
  <2>1. A' = A
    <3>1. A[h] = [cfg |-> A[h].cfg, elems |-> A[h].elems] /\ A = [g \in Handle |-> A[g]]
      <4>1. A[h] = [cfg |-> sets[h].cfg, elems |-> Content(sets[h].ht)]
        BY <1>1, SeenTable DEF A
      <4>2. A = [g \in Handle |-> A[g]]
        BY DEF A, AbstractSets
      <4> QED BY <4>1, <4>2
    <3>2. [A[h] EXCEPT !.elems = A[h].elems] = A[h]
      BY <3>1
    <3> QED BY <1>2, <1>4, <1>6, <3>1, <3>2
  <2>2. Interface!Insert(h, d)
    BY <1>1, <1>2, <1>6, <2>1
    DEF Interface!Insert, Interface!Return, Interface!EEXIST, EEXIST, Interface!ENOMEM, ENOMEM, A
  <2> QED BY <1>4, <2>2 DEF InterfaceStep, Interface!Next
<1> QED BY <1>3, <1>5, <1>6

\* r_set_remove: one element less, if it was there.
LEMMA RemoveStep ==
  ASSUME SetsInv, NEW h \in Handle, NEW d \in Key, r_set_remove(h, d)
  PROVE  SetsInv' /\ InterfaceStep
<1> DEFINE A   == AbstractSets
           del == ht_del(sets[h].ht, d)
<1>1. /\ Usable(h) /\ sets' = [sets EXCEPT ![h].ht = del.ht]
      /\ done' = [op |-> "remove", arg |-> << h, d >>, ret |-> del.ret]
  BY DEF r_set_remove, Return
<1>2. IsTable(sets[h].ht, Power) /\ A[h] # NULL /\ A[h].elems = Content(sets[h].ht)
  BY <1>1, SeenTable
<1>3. /\ IsTable(del.ht, Power)
      /\ del.ret = IF d \in A[h].elems THEN OK ELSE EEXIST
      /\ Content(del.ht) = A[h].elems \ {d}
  <2> HIDE DEF A
  <2> QED BY <1>2, PowerInRange, Deletes
<1> HIDE DEF del
<1>4. SetsInv' /\ A' = [A EXCEPT ![h].elems = Content(del.ht)]
  <2>1. HasRoom(sets[h].ht, {}) /\ IsFiniteSet({})
    BY <1>1, SeenTable, FS_EmptySet DEF Sound
  <2>2. Content(del.ht) \subseteq Content(sets[h].ht) \cup {}
    BY <1>2, <1>3
  <2> QED BY <1>1, <1>3, <2>1, <2>2, OneTable
<1> HIDE DEF A
<1>5. A' = [A EXCEPT ![h].elems = @ \ {d}]
  BY <1>3, <1>4
<1>6. Interface!Delete(h, d)
  BY <1>1, <1>2, <1>3, <1>5
  DEF Interface!Delete, Interface!Return, Interface!OK, OK, Interface!EEXIST, EEXIST, A
<1> QED BY <1>4, <1>6 DEF InterfaceStep, Interface!Next

\* r_set_contains: what is there is found.
LEMMA ContainsStep ==
  ASSUME SetsInv, NEW h \in Handle, NEW d \in Key, r_set_contains(h, d)
  PROVE  SetsInv' /\ InterfaceStep
<1> DEFINE A == AbstractSets
<1>1. /\ Usable(h) /\ UNCHANGED sets
      /\ done' = [op |-> "contains", arg |-> << h, d >>, ret |-> ht_find(sets[h].ht, d)]
  BY DEF r_set_contains, Return
<1>2. IsTable(sets[h].ht, Power) /\ A[h] # NULL /\ A[h].elems = Content(sets[h].ht)
  BY <1>1, SeenTable
<1>3. SetsInv' /\ A' = A
  BY <1>1, NoSet
<1> HIDE DEF A
<1>4. ht_find(sets[h].ht, d) = IF d \in A[h].elems THEN d ELSE NULL
  BY <1>2, PowerInRange, Finds
<1>5. Interface!Find(h, d)
  BY <1>1, <1>2, <1>3, <1>4 DEF Interface!Find, Interface!Return, A
<1> QED BY <1>3, <1>5 DEF InterfaceStep, Interface!Next

\* r_set_cardinality: the number of elements.
LEMMA CardinalityStep ==
  ASSUME SetsInv, NEW h \in Handle, r_set_cardinality(h)
  PROVE  SetsInv' /\ InterfaceStep
<1> DEFINE A == AbstractSets
<1>1. /\ Usable(h) /\ UNCHANGED sets
      /\ done' = [op |-> "cardinality", arg |-> h, ret |-> ht_cardinality(sets[h].ht)]
  BY DEF r_set_cardinality, Return
<1>2. IsTable(sets[h].ht, Power) /\ A[h] # NULL /\ A[h].elems = Content(sets[h].ht)
  BY <1>1, SeenTable
<1>3. SetsInv' /\ A' = A
  BY <1>1, NoSet
<1>4. \A S : Interface!Cardinality(S) = Cardinality(S)
  BY DEF Interface!Cardinality, Cardinality
<1> HIDE DEF A
<1>5. ht_cardinality(sets[h].ht) = Interface!Cardinality(A[h].elems)
  <2>1. HasRoom(sets[h].ht, {})
    BY <1>1, SeenTable DEF Sound
  <2> QED BY <1>2, <1>4, <2>1, PowerInRange, Counts
<1>6. Interface!Count(h)
  BY <1>1, <1>2, <1>3, <1>5 DEF Interface!Count, Interface!Return, A
<1> QED BY <1>3, <1>6 DEF InterfaceStep, Interface!Next

\* r_set_select: procf() is called for each selected element once, until it fails.
LEMMA SelectStep ==
  ASSUME SetsInv, NEW h \in Handle, NEW P \in Preds, NEW Bad \in Faults, r_set_select(h, P, Bad)
  PROVE  SetsInv' /\ InterfaceStep
<1> DEFINE A      == AbstractSets
           sel    == ht_select(sets[h].ht, P, Bad)
           seen   == sel.seen
           failed == seen # << >> /\ seen[Len(seen)] \in Bad
           chosen == A[h].elems \cap P
<1>1. /\ Usable(h) /\ UNCHANGED sets
      /\ done' = [op |-> "select", arg |-> << h, P, Bad >>, ret |-> sel]
  BY DEF r_set_select, Return
<1>2. IsTable(sets[h].ht, Power) /\ A[h] # NULL /\ A[h].elems = Content(sets[h].ht)
  BY <1>1, SeenTable
<1>3. SetsInv' /\ A' = A
  BY <1>1, NoSet
<1>4. Selected(sel, chosen, Bad)
  <2>1. P \in SUBSET Key /\ Bad \in SUBSET Key
    BY CallAssumption
  <2> HIDE DEF A
  <2>2. Selected(sel, Content(sets[h].ht) \cap P, Bad)
    BY <1>2, <2>1, PowerInRange, Selects
  <2> QED BY <1>2, <2>2
<1> HIDE DEF A, sel
<1>5. /\ sel = [ret |-> IF failed THEN EEXIST ELSE OK, seen |-> seen]
      /\ seen \in Seq(chosen) /\ IsInjective(seen)
      /\ \A i \in 1 .. (Len(seen) - 1) : seen[i] \notin Bad
      /\ failed \/ chosen = ToSet(seen)
  BY <1>4 DEF Selected
<1>6. Interface!ToSet(seen) = ToSet(seen) /\ ToSet(seen) \subseteq chosen
  <2>1. DOMAIN seen = 1 .. Len(seen) /\ \A i \in 1 .. Len(seen) : seen[i] \in chosen
    BY <1>5, LenProperties, ElementOfSeq
  <2> QED BY <2>1 DEF Interface!ToSet, ToSet
<1>7. Interface!IsInjective(seen)
  BY <1>5 DEF Interface!IsInjective, IsInjective
<1>8. /\ done'.ret.seen = seen
      /\ Interface!Return("select", << h, P, Bad >>,
            [ret |-> IF failed THEN Interface!EEXIST ELSE Interface!OK, seen |-> seen])
  <2>1. sel = [ret |-> IF failed THEN Interface!EEXIST ELSE Interface!OK, seen |-> seen]
    BY <1>5 DEF Interface!EEXIST, Interface!OK, EEXIST, OK
  <2>2. done' = [op |-> "select", arg |-> << h, P, Bad >>,
                 ret |-> [ret |-> IF failed THEN Interface!EEXIST ELSE Interface!OK, seen |-> seen]]
    BY <1>1, <2>1
  <2> HIDE DEF seen, failed
  <2> QED BY <2>2 DEF Interface!Return
<1> HIDE DEF seen
<1>9. Interface!Select(h, P, Bad)
  BY <1>1, <1>2, <1>3, <1>5, <1>6, <1>7, <1>8 DEF Interface!Select, A
<1> QED BY <1>3, <1>9 DEF InterfaceStep, Interface!Next

\* r_set_select with a procf() that inserts into another set: those that were selected
\* and not there before, until one fails, and the result that says why.
LEMMA SelectIntoStep ==
  ASSUME SetsInv, NEW h \in Handle, NEW g \in Handle, NEW P \in Preds, NEW mild \in BOOLEAN,
         NEW oom, SelectInto(h, g, P, mild, oom)
  PROVE  SetsInv' /\ InterfaceStep
<1> DEFINE A      == AbstractSets
           order  == ht_select(sets[h].ht, P, {}).seen
           res    == InsertAll(sets[g].ht, order, mild, oom)
           chosen == A[h].elems \cap P
           there  == A[g].elems
           copied == Content(res.ht) \ there
<1>1. /\ Usable(h) /\ Usable(g) /\ HasRoom(sets[g].ht, Content(sets[h].ht) \cap P)
      /\ sets' = [sets EXCEPT ![g].ht = res.ht]
      /\ done' = [op |-> "select into", arg |-> << h, g, P, mild >>, ret |-> res.ret]
  BY DEF SelectInto, Return
<1>2. /\ IsTable(sets[h].ht, Power) /\ A[h] # NULL /\ A[h].elems = Content(sets[h].ht)
      /\ IsTable(sets[g].ht, Power) /\ A[g] # NULL /\ A[g].elems = Content(sets[g].ht)
  BY <1>1, SeenTable
<1>3. Selected(ht_select(sets[h].ht, P, {}), Content(sets[h].ht) \cap P, {})
  <2>1. P \in SUBSET Key /\ {} \in SUBSET Key
    BY CallAssumption
  <2> QED BY <1>2, <2>1, PowerInRange, Selects
<1>4. /\ order \in Seq(Content(sets[h].ht) \cap P) /\ IsInjective(order)
      /\ ToSet(order) = Content(sets[h].ht) \cap P
  BY <1>3 DEF Selected
<1> HIDE DEF order, A
<1>5. order \in Seq(Key)
  <2>1. Content(sets[h].ht) \cap P \subseteq Key
    BY CallAssumption
  <2> QED BY <1>4, <2>1, SeqMonotonic
<1>6. Copied(res, there, chosen, mild)
  <2>1. Copied(res, Content(sets[g].ht), ToSet(order), mild)
    BY <1>2, <1>4, <1>5, CopyAll
  <2> HIDE DEF res
  <2> QED BY <1>2, <1>4, <2>1
<1> HIDE DEF res
<1>7. SetsInv' /\ A' = [A EXCEPT ![g].elems = Content(res.ht)]
  <2>1. IsTable(res.ht, Power) /\ Content(res.ht) \subseteq there \cup chosen
    BY <1>6 DEF Copied
  <2>2. chosen = Content(sets[h].ht) \cap P /\ there = Content(sets[g].ht)
    BY <1>2
  <2>3. IsFiniteSet(chosen)
    <3>1. IsFiniteSet(Content(sets[h].ht))
      BY <1>2, PowerInRange, Counts
    <3> QED BY <2>2, <3>1, FS_Subset
  <2> HIDE DEF chosen, there
  <2> QED BY <1>1, <2>1, <2>2, <2>3, OneTable DEF A
<1>8. /\ Content(res.ht) = there \cup copied /\ copied \in SUBSET (chosen \ there)
      /\ \/ /\ res.ret = OK
            /\ chosen = copied \/ (mild /\ chosen \subseteq copied \cup there)
         \/ res.ret = EEXIST /\ ~mild /\ chosen \cap there # {}
         \/ res.ret = ENOMEM /\ ~(chosen \subseteq copied \cup there)
  BY <1>6 DEF Copied
<1>9. A' = [A EXCEPT ![g].elems = @ \cup copied]
  BY <1>7, <1>8
<1> HIDE DEF chosen, there, copied
<1>10. res.ret \in
         (IF chosen = copied \/ (mild /\ chosen \subseteq copied \cup there) THEN {Interface!OK} ELSE {})
           \cup (IF ~mild /\ chosen \cap there # {} THEN {Interface!EEXIST} ELSE {})
           \cup (IF chosen \subseteq copied \cup there THEN {} ELSE {Interface!ENOMEM})
  BY <1>8 DEF Interface!OK, OK, Interface!EEXIST, EEXIST, Interface!ENOMEM, ENOMEM
<1>11. /\ done'.op = "select into" /\ done'.arg = << h, g, P, mild >>
       /\ Interface!Return("select into", << h, g, P, mild >>, res.ret)
  BY <1>1 DEF Interface!Return
<1>12. Interface!SelectInto(h, g, P, mild)
  BY <1>2, <1>8, <1>9, <1>10, <1>11 DEF Interface!SelectInto, A, chosen, there
<1> QED BY <1>7, <1>12 DEF InterfaceStep, Interface!Next

\* r_set_equal: only sets of equal configurations that hold the same are equal.
LEMMA EqualStep ==
  ASSUME SetsInv, NEW g \in Handle, NEW h \in Handle, r_set_equal(g, h)
  PROVE  SetsInv' /\ InterfaceStep
<1> DEFINE A  == AbstractSets
           eq == g = h \/ (Comparable(g, h) /\ ht_equal(sets[g].ht, sets[h].ht))
<1>1. /\ Comparable(g, h) => Usable(g) /\ Usable(h)
      /\ UNCHANGED sets
      /\ done' = [op |-> "equal", arg |-> << g, h >>, ret |-> IF eq THEN 1 ELSE 0]
  BY DEF r_set_equal, Return
<1>2. SetsInv' /\ A' = A
  BY <1>1, NoSet
<1>3. ASSUME g # h, eq
      PROVE  A[g] # NULL /\ A[g] = A[h]
  <2>1. /\ Usable(g) /\ Usable(h) /\ ht_equal(sets[g].ht, sets[h].ht)
        /\ sets[g].cfg = sets[h].cfg
    BY <1>1, <1>3 DEF Comparable
  <2>2. /\ IsTable(sets[g].ht, Power) /\ IsTable(sets[h].ht, Power) /\ A[g] # NULL
        /\ HasRoom(sets[g].ht, {}) /\ HasRoom(sets[h].ht, {})
        /\ A[g] = [cfg |-> sets[g].cfg, elems |-> Content(sets[g].ht)]
        /\ A[h] = [cfg |-> sets[h].cfg, elems |-> Content(sets[h].ht)]
    BY <2>1, SeenTable DEF Sound
  <2> HIDE DEF A
  <2>3. Content(sets[g].ht) = Content(sets[h].ht)
    BY <2>1, <2>2, PowerInRange, EqualHold
  <2> QED BY <2>1, <2>2, <2>3
<1> HIDE DEF A, eq
<1>4. Interface!Equal(g, h)
  <2>1. CASE eq
    <3>1. Interface!Return("equal", << g, h >>, 1)
      BY <1>1, <2>1 DEF Interface!Return
    <3> QED BY <1>2, <1>3, <2>1, <3>1 DEF Interface!Equal, A
  <2>2. CASE ~eq
    <3>1. Interface!Return("equal", << g, h >>, 0) /\ g # h
      BY <1>1, <2>2 DEF Interface!Return, eq
    <3> QED BY <1>2, <3>1 DEF Interface!Equal, A
  <2> QED BY <2>1, <2>2
<1> QED BY <1>2, <1>4 DEF InterfaceStep, Interface!Next

\* A crash is not seen at the interface.
LEMMA CrashStep ==
  ASSUME SetsInv, UNCHANGED << sets, done >>
  PROVE  SetsInv' /\ InterfaceStep
BY NoSet DEF InterfaceStep, Interface!vars

-----------------------------------------------------------------------------
(* The theorems. *)

LEMMA Start == Init => SetsInv /\ Interface!Init
<1> SUFFICES ASSUME Init PROVE SetsInv /\ Interface!Init
  OBVIOUS
<1>1. SetsInv
  BY DEF Init, SetsInv, TypeOK
<1>2. AbstractSets = [h \in Handle |-> NULL]
  BY DEF Init, AbstractSets
<1> QED BY <1>1, <1>2 DEF Init, Interface!Init, Interface!OK, OK

LEMMA EveryStep ==
  ASSUME SetsInv, [Next]_vars
  PROVE  SetsInv' /\ InterfaceStep
<1>1. CASE Next
  <2>1. PICK h \in Handle :
          \/ \E c \in Cfg, fail \in {"none", "set", "buckets"} : r_set_new(h, c, fail)
          \/ r_set_destroy(h)
          \/ \E d \in Key : \/ \E nomem \in NoMem : r_set_insert(h, d, nomem)
                            \/ r_set_remove(h, d)
                            \/ r_set_contains(h, d)
          \/ r_set_cardinality(h)
          \/ \E P \in Preds, Bad \in Faults : r_set_select(h, P, Bad)
          \/ \E g \in Handle, P \in Preds, mild \in BOOLEAN, oom \in Key \cup {NULL} :
               SelectInto(h, g, P, mild, oom)
          \/ \E g \in Handle : r_set_equal(g, h)
          \/ Crash(h)
    BY <1>1 DEF Next
  <2>2. CASE \E c \in Cfg, fail \in {"none", "set", "buckets"} : r_set_new(h, c, fail)
    BY <2>2, NewStep
  <2>3. CASE r_set_destroy(h)
    BY <2>3, DestroyStep
  <2>4. CASE \E d \in Key, nomem \in NoMem : r_set_insert(h, d, nomem)
    BY <2>4, InsertStep
  <2>5. CASE \E d \in Key : r_set_remove(h, d)
    BY <2>5, RemoveStep
  <2>6. CASE \E d \in Key : r_set_contains(h, d)
    BY <2>6, ContainsStep
  <2>7. CASE r_set_cardinality(h)
    BY <2>7, CardinalityStep
  <2>8. CASE \E P \in Preds, Bad \in Faults : r_set_select(h, P, Bad)
    BY <2>8, SelectStep
  <2>9. CASE \E g \in Handle, P \in Preds, mild \in BOOLEAN, oom \in Key \cup {NULL} :
               SelectInto(h, g, P, mild, oom)
    BY <2>9, SelectIntoStep
  <2>10. CASE \E g \in Handle : r_set_equal(g, h)
    BY <2>10, EqualStep
  <2>11. CASE Crash(h)
    BY <2>11, CrashStep DEF Crash
  <2> QED BY <2>1, <2>2, <2>3, <2>4, <2>5, <2>6, <2>7, <2>8, <2>9, <2>10, <2>11
<1>2. CASE UNCHANGED vars
  BY <1>2, CrashStep DEF vars
<1> QED BY <1>1, <1>2

LEMMA Invariant == Spec => []SetsInv
<1>1. Init => SetsInv
  BY Start
<1>2. SetsInv /\ [Next]_vars => SetsInv'
  BY EveryStep
<1> QED BY <1>1, <1>2, PTL DEF Spec

\* Every handle has no set, or one with a configuration and, unless its allocation
\* failed, a table of the initial size full of trees.
THEOREM TypeCorrect == Spec => []TypeOK
<1>1. SetsInv => TypeOK
  BY DEF SetsInv
<1> QED BY <1>1, Invariant, PTL

\* Every call of set.c is one that set.h promises, as long as an int counts each set.
THEOREM Implements == Spec => ImplementsSets
<1>1. Init => Interface!Init
  BY Start
<1>2. SetsInv /\ [Next]_vars => [Interface!Next]_(Interface!vars)
  BY EveryStep DEF InterfaceStep
<1> QED BY <1>1, <1>2, Invariant, PTL DEF Spec, ImplementsSets, Interface!Spec
=============================================================================
