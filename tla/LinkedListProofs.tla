-------------------------- MODULE LinkedListProofs --------------------------
(***************************************************************************)
(* Proofs about LinkedList, for any memory, any objects and any predicates *)
(* the user passes: its properties, and that it implements SetSpec.  In    *)
(* whatever order the calls are made, each returns what a set would return *)
(* and leaves the elements a set would have.                               *)
(***************************************************************************)
EXTENDS LinkedList, FiniteSetTheorems, TLAPS
Places == Cell \cup {HEAD, NULL}

\* s lists the n cells of the list in order, between the slot HEAD and NULL.
Chain(nx, n, s) ==
  /\ s \in [0 .. (n + 1) -> Places]
  /\ s[0] = HEAD /\ s[n + 1] = NULL
  /\ \A i \in 1 .. n : s[i] \in Cell
  /\ \A i, j \in 1 .. n : s[i] = s[j] => i = j
  /\ \A i \in 0 .. n : nx[s[i]] = s[i + 1]

\* The key of the i-th cell.
KeyAt(s, i) == keyof[data[s[i]]]

\* What the call has learnt from the cells before s[p]: no element is equal to its
\* argument, ll_ndel has left none the predicate holds of, ll_count has counted them,
\* and procf() was called once for each selected one and did not fail.
Found(s, p) ==
  /\ pc \in ByObject => \A i \in 1 .. (p - 1) : KeyAt(s, i) # keyof[arg]
  /\ pc = "ndel" => \A i \in 1 .. (p - 1) : KeyAt(s, i) \notin pred
  /\ pc = "cardinality" => cnt = p - 1
  /\ pc = "select" =>
       /\ \A i \in 1 .. (p - 1) : KeyAt(s, i) \in pred =>
            KeyAt(s, i) \notin bad /\ \E j \in 1 .. Len(seen) : seen[j] = KeyAt(s, i)
       /\ \A j \in 1 .. Len(seen) :
            seen[j] \in pred /\ \E i \in 1 .. (p - 1) : seen[j] = KeyAt(s, i)
       /\ \A i, j \in 1 .. Len(seen) : seen[i] = seen[j] => i = j

\* The walk of the call looks at s[p]; ll_destroy has freed the cells before it, and
\* knows where to go on once it has freed this one.
Place(n, s, p) ==
  /\ pc \in SlotCalls => it = s[p - 1]
  /\ pc \in CellCalls => it = s[p]
  /\ pc = "free" => p \in 1 .. n /\ it = s[p] /\ ahead = s[p + 1]
  /\ alloc = {s[i] : i \in (IF pc \in Destroying THEN p .. n ELSE 1 .. n)}
  /\ Found(s, p)

Walk == \E n, s, p : /\ n \in Nat /\ p \in 1 .. (n + 1)
                     /\ Chain(nxt, n, s) /\ Place(n, s, p)

Filled == /\ \A c \in alloc : data[c] \in Obj
          /\ pc \in ByObject => arg \in Obj
          /\ pc = "gone" => alloc = {}

\* The inductive invariant.
ListInv == TypeOK /\ Filled /\ NoDuplicates /\ OwnsItsData /\ Walk

-----------------------------------------------------------------------------
(* Chains. *)

\* Cutting the p-th cell out of a chain, as `*iter = to_del->next' does, leaves
\* the chain of the others.
LEMMA Unlink ==
  ASSUME NEW nx \in [Cell \cup {HEAD} -> Cell \cup {NULL}],
         NEW n \in Nat, NEW s, Chain(nx, n, s), NEW p \in 1 .. n
  PROVE  LET t == [i \in 0 .. n |-> IF i < p THEN s[i] ELSE s[i + 1]]
         IN  Chain([nx EXCEPT ![s[p - 1]] = nx[s[p]]], n - 1, t)
<1> DEFINE t  == [i \in 0 .. n |-> IF i < p THEN s[i] ELSE s[i + 1]]
           ny == [nx EXCEPT ![s[p - 1]] = nx[s[p]]]
<1>1. /\ t \in [0 .. ((n - 1) + 1) -> Places]
      /\ t[0] = HEAD /\ t[(n - 1) + 1] = NULL
      /\ \A i \in 1 .. (n - 1) : t[i] \in Cell
  BY DEF Chain
<1>2. \A i, j \in 1 .. (n - 1) : t[i] = t[j] => i = j
  BY DEF Chain
<1>3. \A i \in 0 .. (n - 1) : ny[t[i]] = t[i + 1]
  <2> TAKE i \in 0 .. (n - 1)
  <2>1. CASE i < p - 1
    <3>1. s[i] # s[p - 1] BY <2>1, MemoryAssumption DEF Chain
    <3>2. s[i] \in Cell \cup {HEAD} BY <2>1 DEF Chain
    <3> QED BY <2>1, <3>1, <3>2 DEF Chain
  <2>2. CASE i = p - 1
    <3>1. s[p - 1] \in Cell \cup {HEAD} BY DEF Chain
    <3>2. nx[s[p]] = s[p + 1] BY DEF Chain
    <3> QED BY <2>2, <3>1, <3>2
  <2>3. CASE i >= p
    <3>1. s[i + 1] # s[p - 1] BY <2>3, MemoryAssumption DEF Chain
    <3>2. s[i + 1] \in Cell \cup {HEAD} BY <2>3 DEF Chain
    <3>3. nx[s[i + 1]] = s[(i + 1) + 1] BY <2>3 DEF Chain
    <3> QED BY <2>3, <3>1, <3>2, <3>3
  <2> QED BY <2>1, <2>2, <2>3
<1> QED BY <1>1, <1>2, <1>3 DEF Chain

\* A new cell is hung into slot e: the end of the chain s, which it extends.
Hung(nx, e, c) == [nx EXCEPT ![c] = NULL, ![e] = c]
Extended(s, n, c) ==
  [i \in 0 .. (n + 2) |-> IF i <= n THEN s[i] ELSE IF i = n + 1 THEN c ELSE NULL]

\* Hanging a new cell into the last slot of a chain makes it the last cell.
LEMMA Link ==
  ASSUME NEW nx \in [Cell \cup {HEAD} -> Cell \cup {NULL}],
         NEW n \in Nat, NEW s, Chain(nx, n, s),
         NEW c \in Cell, \A i \in 1 .. n : s[i] # c
  PROVE  Chain(Hung(nx, s[n], c), n + 1, Extended(s, n, c))
<1> DEFINE t  == [i \in 0 .. (n + 2) |->
                    IF i <= n THEN s[i] ELSE IF i = n + 1 THEN c ELSE NULL]
           ny == [nx EXCEPT ![c] = NULL, ![s[n]] = c]
<1>1. /\ t \in [0 .. ((n + 1) + 1) -> Places]
      /\ t[0] = HEAD /\ t[(n + 1) + 1] = NULL
      /\ \A i \in 1 .. (n + 1) : t[i] \in Cell
  BY DEF Chain, Places
<1>2. \A i, j \in 1 .. (n + 1) : t[i] = t[j] => i = j
  BY DEF Chain
<1>3. s[n] \in Cell \cup {HEAD} /\ s[n] # c
  BY MemoryAssumption DEF Chain
<1>4. \A i \in 0 .. (n + 1) : ny[t[i]] = t[i + 1]
  <2> TAKE i \in 0 .. (n + 1)
  <2>1. CASE i < n
    <3>1. s[i] # s[n] /\ s[i] # c BY <2>1, MemoryAssumption DEF Chain
    <3>2. s[i] \in Cell \cup {HEAD} BY <2>1 DEF Chain
    <3> QED BY <2>1, <3>1, <3>2 DEF Chain
  <2>2. CASE i = n
    BY <2>2, <1>3
  <2>3. CASE i = n + 1
    BY <2>3, <1>3
  <2> QED BY <2>1, <2>2, <2>3
<1>5. Chain(ny, n + 1, t)
  BY <1>1, <1>2, <1>4 DEF Chain
<1> QED BY <1>5 DEF Hung, Extended

-----------------------------------------------------------------------------
(* The steps of a walk. *)

Calls == SlotCalls \cup CellCalls

\* Where the call is in the chain: the end is the only place where Cur is NULL.
LEMMA Here ==
  ASSUME NEW n \in Nat, NEW s, NEW p \in 1 .. (n + 1),
         Chain(nxt, n, s), Place(n, s, p), pc \in Calls
  PROVE  /\ Cur = s[p]
         /\ Cur = NULL <=> p = n + 1
         /\ Cur # NULL => p \in 1 .. n /\ Cur \in alloc /\ Cur \in Cell
         /\ nxt[it] = s[IF pc \in SlotCalls THEN p ELSE p + 1] \/ p = n + 1
<1>1. Cur = s[p]
  BY DEF Chain, Place, Cur, Calls
<1>2. p # n + 1 => s[p] \in Cell /\ nxt[s[p]] = s[p + 1]
  BY DEF Chain
<1>3. Cur = NULL <=> p = n + 1
  BY <1>1, <1>2, MemoryAssumption DEF Chain
<1>4. p # n + 1 => s[p] \in alloc
  BY DEF Place
<1>5. pc \in SlotCalls => nxt[it] = s[p]
  BY <1>1 DEF Cur
<1>6. pc \notin SlotCalls /\ p # n + 1 => nxt[it] = s[p + 1]
  BY <1>2 DEF Place, Calls
<1> QED BY <1>1, <1>2, <1>3, <1>4, <1>5, <1>6

\* What an iteration that goes forward over the current cell does for each call.
Passes ==
  /\ pc \in ByObject => CurKey # keyof[arg]
  /\ pc = "ndel" => CurKey \notin pred
  /\ pc = "cardinality" => cnt' = cnt + 1
  /\ pc = "select" =>
       /\ CurKey \notin pred \cap bad
       /\ seen' = IF CurKey \in pred THEN Append(seen, CurKey) ELSE seen

\* What the call then knows of one cell more.
LEMMA Learn ==
  ASSUME ListInv, NEW n \in Nat, NEW s, NEW p \in 1 .. n,
         Chain(nxt, n, s), Place(n, s, p), Cur = s[p],
         pc \in Calls \ {"destroy"}, Passes, UNCHANGED << memory, call, pc >>
  PROVE  Found(s, p + 1)'
<1>1. UNCHANGED << data, arg, pred, bad, pc >> /\ Found(s, p)
  BY DEF memory, call, Place
<1>2. CurKey = KeyAt(s, p) /\ \A i : KeyAt(s, i)' = KeyAt(s, i)
  BY <1>1 DEF CurKey, KeyAt
<1>3. \A i \in 1 .. ((p + 1) - 1) : i \in 1 .. (p - 1) \/ i = p
  OBVIOUS
<1>4. pc' \in ByObject => \A i \in 1 .. ((p + 1) - 1) : KeyAt(s, i)' # keyof[arg']
  BY <1>1, <1>2, <1>3 DEF Found, Passes
<1>5. pc' = "ndel" => \A i \in 1 .. ((p + 1) - 1) : KeyAt(s, i)' \notin pred'
  BY <1>1, <1>2, <1>3 DEF Found, Passes, ByObject
<1>6. pc' = "cardinality" => cnt' = (p + 1) - 1
  BY <1>1 DEF Found, Passes
<1>7. ASSUME pc = "select", CurKey \notin pred
      PROVE  Found(s, p + 1)'
  <2>1. seen' = seen /\ p \in 1 .. ((p + 1) - 1) /\ \A i \in 1 .. (p - 1) : i \in 1 .. ((p + 1) - 1)
    BY <1>7 DEF Passes
  <2>2. ASSUME NEW i \in 1 .. ((p + 1) - 1), KeyAt(s, i) \in pred
        PROVE  KeyAt(s, i) \notin bad /\ \E j \in 1 .. Len(seen) : seen[j] = KeyAt(s, i)
    <3>1. i \in 1 .. (p - 1)
      BY <1>2, <1>3, <1>7, <2>2
    <3> QED BY <1>1, <1>7, <2>2, <3>1 DEF Found
  <2>3. ASSUME NEW j \in 1 .. Len(seen)
        PROVE  seen[j] \in pred /\ \E i \in 1 .. ((p + 1) - 1) : seen[j] = KeyAt(s, i)
    BY <1>1, <1>7, <2>1 DEF Found
  <2>4. \A i, j \in 1 .. Len(seen) : seen[i] = seen[j] => i = j
    BY <1>1, <1>7 DEF Found
  <2>5. pc' = "select" /\ pc' \notin ByObject
    BY <1>1, <1>7 DEF ByObject
  <2> QED BY <1>1, <1>2, <2>1, <2>2, <2>3, <2>4, <2>5 DEF Found
<1>8. ASSUME pc = "select", CurKey \in pred
      PROVE  Found(s, p + 1)'
  <2> DEFINE m == Len(seen)
  <2>1. seen \in Seq(Key) /\ m \in Nat /\ CurKey \notin bad /\ seen' = Append(seen, CurKey)
    BY <1>7, <1>8 DEF ListInv, TypeOK, Passes
  <2>2. /\ Len(seen') = m + 1 /\ seen'[m + 1] = CurKey
        /\ \A j \in 1 .. m : seen'[j] = seen[j]
    BY <2>1
  <2>3. \A j \in 1 .. (m + 1) : j \in 1 .. m \/ j = m + 1
    BY <2>1
  <2>4. m + 1 \in 1 .. (m + 1) /\ \A j \in 1 .. m : j \in 1 .. (m + 1)
    BY <2>1
  <2>5. p \in 1 .. ((p + 1) - 1) /\ \A i \in 1 .. (p - 1) : i \in 1 .. ((p + 1) - 1)
    OBVIOUS
  <2>6. \A j \in 1 .. m : seen[j] # CurKey
    <3> SUFFICES ASSUME NEW j \in 1 .. m, seen[j] = CurKey PROVE FALSE
      OBVIOUS
    <3>1. PICK i \in 1 .. (p - 1) : seen[j] = KeyAt(s, i)
      BY <1>1, <1>8 DEF Found
    <3>2. i \in 1 .. n /\ p \in 1 .. n /\ i # p
      OBVIOUS
    <3>3. s[i] \in alloc /\ s[p] \in alloc
      BY <1>8, <3>2 DEF Place, Destroying
    <3>4. s[i] = s[p]
      BY <1>2, <3>1, <3>3 DEF ListInv, NoDuplicates, KeyAt
    <3> QED BY <3>2, <3>4 DEF Chain
  <2> HIDE DEF m
  <2>7. \A i \in 1 .. ((p + 1) - 1) : KeyAt(s, i)' \in pred' =>
          KeyAt(s, i)' \notin bad' /\ \E j \in 1 .. Len(seen') : seen'[j] = KeyAt(s, i)'
    <3> SUFFICES ASSUME NEW i \in 1 .. ((p + 1) - 1), KeyAt(s, i)' \in pred'
                 PROVE  /\ KeyAt(s, i)' \notin bad'
                        /\ \E j \in 1 .. Len(seen') : seen'[j] = KeyAt(s, i)'
      OBVIOUS
    <3>1. CASE i = p
      BY <1>1, <1>2, <2>1, <2>2, <2>4, <3>1
    <3>2. CASE i \in 1 .. (p - 1)
      <4>1. KeyAt(s, i) \notin bad /\ \E j \in 1 .. m : seen[j] = KeyAt(s, i)
        BY <1>1, <1>2, <1>8, <3>2 DEF Found, m
      <4> QED BY <1>1, <1>2, <2>2, <2>4, <4>1
    <3> QED BY <1>3, <3>1, <3>2
  <2>8. \A j \in 1 .. Len(seen') :
          seen'[j] \in pred' /\ \E i \in 1 .. ((p + 1) - 1) : seen'[j] = KeyAt(s, i)'
    BY <1>1, <1>2, <1>8, <2>2, <2>3, <2>5 DEF Found, m
  <2>9. \A i, j \in 1 .. Len(seen') : seen'[i] = seen'[j] => i = j
    BY <1>1, <1>8, <2>2, <2>3, <2>6 DEF Found, m
  <2> QED BY <1>1, <1>8, <2>7, <2>8, <2>9 DEF Found, ByObject
<1>9. pc # "select" => Found(s, p + 1)'
  BY <1>1, <1>4, <1>5, <1>6 DEF Found
<1> QED BY <1>7, <1>8, <1>9

\* Going forward over a cell that stays.
LEMMA Advance ==
  ASSUME ListInv, pc \in Calls \ {"destroy"}, Cur # NULL, Passes,
         Forward, UNCHANGED << memory, call, pc >>
  PROVE  Walk' /\ it' \in Places
<1>1. PICK n, s, p : /\ n \in Nat /\ p \in 1 .. (n + 1)
                     /\ Chain(nxt, n, s) /\ Place(n, s, p)
  BY DEF ListInv, Walk
<1>2. Cur = s[p] /\ p \in 1 .. n
  BY <1>1, Here, pc \in Calls
<1>3. it' = s[IF pc \in SlotCalls THEN p ELSE p + 1]
  BY <1>1, <1>2, Here, pc \in Calls DEF Forward
<1>4. Chain(nxt', n, s)
  BY <1>1 DEF memory
<1>5. p + 1 \in 1 .. (n + 1)
  BY <1>1, <1>2
<1>6. pc' \in SlotCalls => it' = s[(p + 1) - 1]
  BY <1>1, <1>2, <1>3
<1>7. pc' \in CellCalls => it' = s[p + 1]
  BY <1>3 DEF SlotCalls, CellCalls
<1>8. Found(s, p + 1)'
  BY <1>1, <1>2, Learn
<1>9. alloc' = {s[i] : i \in (IF pc' \in Destroying THEN (p + 1) .. n ELSE 1 .. n)}
  BY <1>1 DEF Place, Calls, SlotCalls, CellCalls, Destroying, memory
<1>10. Place(n, s, p + 1)'
  <2>1. pc' # "free"
    BY DEF Calls, SlotCalls, CellCalls
  <2> QED BY <1>5, <1>6, <1>7, <1>8, <1>9, <2>1 DEF Place
<1>11. it' \in Places
  <2>1. s \in [0 .. (n + 1) -> Places] /\ p \in 0 .. (n + 1) /\ p + 1 \in 0 .. (n + 1)
    BY <1>1, <1>2 DEF Chain
  <2> QED BY <2>1, <1>3
<1> QED BY <1>1, <1>4, <1>5, <1>10, <1>11 DEF Walk

\* A call other than ll_destroy returns: the chain is what counts.
LEMMA Finish ==
  ASSUME Walk, pc \notin Destroying,
         pc' = "idle", UNCHANGED << nxt, alloc >>
  PROVE  Walk'
<1>1. PICK n, s, p : /\ n \in Nat /\ p \in 1 .. (n + 1)
                     /\ Chain(nxt, n, s) /\ Place(n, s, p)
  BY DEF Walk
<1>2. Place(n, s, p)'
  BY <1>1 DEF Place, Found, SlotCalls, CellCalls, ByObject, Destroying
<1> QED BY <1>1, <1>2 DEF Walk

\* A call begins at the head of the list.
LEMMA Start ==
  ASSUME Walk, NEW op \in Calls, Begin(op)
  PROVE  Walk' /\ it' \in Places
<1>1. PICK n, s, p : /\ n \in Nat /\ p \in 1 .. (n + 1)
                     /\ Chain(nxt, n, s) /\ Place(n, s, p)
  BY DEF Walk
<1>2. UNCHANGED << nxt, alloc >> /\ pc = "idle" /\ pc' = op
  BY DEF Begin, memory
<1>3. it' = IF op \in SlotCalls THEN s[0] ELSE s[1]
  BY <1>1 DEF Begin, Chain
<1>4. alloc' = {s[i] : i \in 1 .. n}
  BY <1>1, <1>2 DEF Place, Destroying
<1>a. cnt' = 0 /\ seen' = << >>
  BY DEF Begin
<1>b. Found(s, 1)'
  BY <1>a DEF Found
<1>5. Place(n, s, 1)'
  BY <1>1, <1>2, <1>3, <1>4, <1>b DEF Place, Calls, SlotCalls, CellCalls, ByObject, Destroying
<1>6. s \in [0 .. (n + 1) -> Places] /\ 0 \in 0 .. (n + 1) /\ 1 \in 1 .. (n + 1)
      /\ 1 \in 0 .. (n + 1)
  BY <1>1 DEF Chain
<1>7. it' \in Places
  BY <1>3, <1>6
<1>8. Chain(nxt', n, s)
  BY <1>1, <1>2
<1> QED BY <1>1, <1>5, <1>6, <1>7, <1>8 DEF Walk

\* Unlinking and freeing the current cell, as ll_delete and ll_ndel do.
LEMMA Cut ==
  ASSUME Walk, nxt \in [Cell \cup {HEAD} -> Cell \cup {NULL}],
         pc \in {"remove", "ndel"}, Cur # NULL,
         nxt' = [nxt EXCEPT ![it] = nxt[Cur]], FreeCur,
         UNCHANGED << data, pred >>,
         \/ pc' = "idle"
         \/ pc = "ndel" /\ pc' = "ndel" /\ it' = it
  PROVE  Walk'
<1>1. PICK n, s, p : /\ n \in Nat /\ p \in 1 .. (n + 1)
                     /\ Chain(nxt, n, s) /\ Place(n, s, p)
  BY DEF Walk
<1>2. Cur = s[p] /\ p \in 1 .. n /\ it = s[p - 1]
  BY <1>1, Here DEF Calls, SlotCalls, CellCalls, Place
<1> DEFINE t == [i \in 0 .. n |-> IF i < p THEN s[i] ELSE s[i + 1]]
<1>3. Chain(nxt', n - 1, t)
  BY <1>1, <1>2, Unlink
<1>4. alloc' = {t[i] : i \in 1 .. (n - 1)}
  <2>1. alloc = {s[i] : i \in 1 .. n}
    BY <1>1 DEF Place, Destroying
  <2>2. alloc' = alloc \ {s[p]}
    BY <1>2 DEF FreeCur
  <2>3. ASSUME NEW i \in 1 .. n, i # p
        PROVE  \E j \in 1 .. (n - 1) : t[j] = s[i]
    <3>1. CASE i < p BY <3>1, <2>3, <1>1, <1>2
    <3>2. CASE i > p
      <4>1. i - 1 \in 1 .. (n - 1) /\ i - 1 \in 0 .. n /\ ~ (i - 1 < p) /\ (i - 1) + 1 = i
        BY <3>2, <2>3, <1>1, <1>2
      <4>2. t[i - 1] = s[i]
        BY <4>1
      <4> QED BY <4>1, <4>2
    <3>3. i < p \/ i > p
      BY <2>3, <1>1, <1>2
    <3> QED BY <3>1, <3>2, <3>3
  <2>4. ASSUME NEW j \in 1 .. (n - 1)
        PROVE  \E i \in 1 .. n : i # p /\ t[j] = s[i]
    <3>1. CASE j < p BY <3>1, <2>4, <1>1, <1>2
    <3>2. CASE j >= p
      <4>1. j + 1 \in 1 .. n /\ j + 1 # p /\ j \in 0 .. n
        BY <3>2, <2>4, <1>1, <1>2
      <4>2. t[j] = s[j + 1]
        BY <3>2, <4>1, <2>4, <1>2
      <4> QED BY <4>1, <4>2
    <3> QED BY <3>1, <3>2, <2>4, <1>1, <1>2
  <2>5. \A i \in 1 .. n : i # p => s[i] # s[p]
    BY <1>1, <1>2 DEF Chain
  <2>6. alloc' = {s[i] : i \in (1 .. n) \ {p}}
    BY <2>1, <2>2, <2>5
  <2> HIDE DEF t
  <2> QED BY <2>3, <2>4, <2>6
<1>5. p \in 1 .. ((n - 1) + 1)
  BY <1>1, <1>2
<1>6. pc' \in SlotCalls => it' = t[p - 1]
  BY <1>1, <1>2 DEF SlotCalls
<1>7. pc' \notin CellCalls /\ pc' \notin ByObject /\ pc' \notin Destroying /\ pc' # "free"
  BY DEF CellCalls, ByObject, Destroying
<1>a. Found(t, p)'
  <2>1. \A i \in 1 .. (p - 1) : t[i] = s[i]
    BY <1>1, <1>2
  <2>2. pc' = "ndel" => \A i \in 1 .. (p - 1) : KeyAt(t, i)' \notin pred'
    BY <1>1, <2>1 DEF Place, Found, KeyAt
  <2>3. pc' \notin ByObject \cup {"cardinality", "select"}
    BY DEF ByObject
  <2> QED BY <2>2, <2>3 DEF Found
<1>8. Place(n - 1, t, p)'
  BY <1>4, <1>5, <1>6, <1>7, <1>a DEF Place
<1>9. n - 1 \in Nat /\ t \in [0 .. ((n - 1) + 1) -> Places]
  BY <1>1, <1>2, <1>3 DEF Chain
<1> QED BY <1>3, <1>5, <1>8, <1>9 DEF Walk

\* Appending the new cell: the walk has reached the end, so no cell of the list
\* holds an equal element.
LEMMA Hang ==
  ASSUME Walk, nxt \in [Cell \cup {HEAD} -> Cell \cup {NULL}],
         NEW c \in Cell, NEW o \in Obj, InsertNew(c, o)
  PROVE  Walk' /\ \A b \in alloc : keyof[data[b]] # keyof[arg]
<1>1. PICK n, s, p : /\ n \in Nat /\ p \in 1 .. (n + 1)
                     /\ Chain(nxt, n, s) /\ Place(n, s, p)
  BY DEF Walk
<1>2. pc = "insert" /\ Cur = NULL /\ c \notin alloc /\ pc' = "idle"
  BY DEF InsertNew, Return
<1>3. p = n + 1 /\ it = s[n]
  <2>1. pc \in Calls /\ pc \in SlotCalls
    BY <1>2 DEF Calls, SlotCalls
  <2>2. p = n + 1
    BY <1>1, <1>2, <2>1, Here
  <2>3. it = s[p - 1] /\ p - 1 = n
    BY <1>1, <2>1, <2>2 DEF Place
  <2> QED BY <2>2, <2>3
<1>4. alloc = {s[i] : i \in 1 .. n}
  BY <1>1, <1>2 DEF Place, Destroying
<1>5. \A b \in alloc : keyof[data[b]] # keyof[arg]
  BY <1>1, <1>2, <1>3, <1>4 DEF Place, Found, KeyAt, ByObject
<1> DEFINE t == [i \in 0 .. (n + 2) |->
                   IF i <= n THEN s[i] ELSE IF i = n + 1 THEN c ELSE NULL]
<1>6. Chain(nxt', n + 1, t)
  <2>1. nxt' = [nxt EXCEPT ![c] = NULL, ![s[n]] = c]
    BY <1>3 DEF InsertNew
  <2>2. \A i \in 1 .. n : s[i] # c
    BY <1>2, <1>4
  <2>3. Chain(Hung(nxt, s[n], c), n + 1, Extended(s, n, c))
    <3>1. n \in Nat /\ Chain(nxt, n, s)
      BY <1>1
    <3> QED BY <2>2, <3>1, Link
  <2> QED BY <2>1, <2>3 DEF Hung, Extended
<1>7. alloc' = {t[i] : i \in 1 .. (n + 1)}
  <2>1. alloc' = alloc \cup {c}
    BY DEF InsertNew
  <2>2. \A i \in 1 .. n : i \in 1 .. (n + 1) /\ t[i] = s[i]
    BY <1>1
  <2>3. n + 1 \in 1 .. (n + 1) /\ t[n + 1] = c
    BY <1>1
  <2>4. \A i \in 1 .. (n + 1) : i \in 1 .. n \/ i = n + 1
    BY <1>1
  <2> HIDE DEF t
  <2> QED BY <2>1, <2>2, <2>3, <2>4, <1>4
<1>8. Place(n + 1, t, 1)'
  BY <1>2, <1>7 DEF Place, Found, SlotCalls, CellCalls, ByObject, Destroying
<1>9. n + 1 \in Nat /\ 1 \in 1 .. ((n + 1) + 1)
  BY <1>1
<1> HIDE DEF t
<1> QED BY <1>5, <1>6, <1>8, <1>9 DEF Walk

\* ll_destroy keeps what comes after the cell it looks at.
LEMMA Look ==
  ASSUME Walk, DestroyNext
  PROVE  Walk'
<1>1. PICK n, s, p : /\ n \in Nat /\ p \in 1 .. (n + 1)
                     /\ Chain(nxt, n, s) /\ Place(n, s, p)
  BY DEF Walk
<1>2. /\ pc = "destroy" /\ pc' = "free" /\ Cur # NULL /\ ahead' = nxt[it]
      /\ UNCHANGED << nxt, alloc, it >>
  BY DEF DestroyNext, memory
<1>3. Cur = s[p] /\ p \in 1 .. n /\ ahead' = s[p + 1] /\ it = s[p]
  BY <1>1, <1>2, Here DEF Calls, SlotCalls, CellCalls, Place
<1>4. alloc' = {s[i] : i \in p .. n}
  BY <1>1, <1>2 DEF Place, Destroying
<1>5. Place(n, s, p)'
  BY <1>2, <1>3, <1>4 DEF Place, Found, SlotCalls, CellCalls, ByObject, Destroying
<1> QED BY <1>1, <1>2, <1>5 DEF Walk

\* Then it frees that cell and goes to the next one.
LEMMA Free ==
  ASSUME Walk, DestroyFree
  PROVE  Walk' /\ it \in alloc /\ it' \in Places
<1>1. PICK n, s, p : /\ n \in Nat /\ p \in 1 .. (n + 1)
                     /\ Chain(nxt, n, s) /\ Place(n, s, p)
  BY DEF Walk
<1>2. /\ pc = "free" /\ pc' = "destroy" /\ nxt' = nxt
      /\ it' = ahead /\ alloc' = alloc \ {it}
  BY DEF DestroyFree, FreeCur, Cur, SlotCalls
<1>3. it = s[p] /\ p \in 1 .. n /\ it' = s[p + 1]
  BY <1>1, <1>2 DEF Place
<1>4. alloc = {s[i] : i \in p .. n}
  BY <1>1, <1>2 DEF Place, Destroying
<1>5. \A i \in p .. n : i # p <=> s[i] # s[p]
  BY <1>1, <1>3 DEF Chain
<1>6. \A i : i \in (p + 1) .. n <=> i \in p .. n /\ i # p
  BY <1>1, <1>3
<1>7. alloc' = {s[i] : i \in (p + 1) .. n}
  BY <1>2, <1>3, <1>4, <1>5, <1>6
<1>8. Place(n, s, p + 1)'
  BY <1>2, <1>3, <1>7 DEF Place, Found, SlotCalls, ByObject, Destroying
<1>9. p + 1 \in 1 .. (n + 1) /\ p + 1 \in 0 .. (n + 1)
  BY <1>1, <1>3
<1>10. it \in alloc
  BY <1>3, <1>4
<1>11. it' \in Places
  BY <1>1, <1>3, <1>9 DEF Chain
<1> QED BY <1>1, <1>2, <1>8, <1>9, <1>10, <1>11 DEF Walk

\* When ll_destroy reaches the end, all cells are freed.
LEMMA Gone ==
  ASSUME Walk, DestroyEnd
  PROVE  Walk' /\ alloc' = {}
<1>1. PICK n, s, p : /\ n \in Nat /\ p \in 1 .. (n + 1)
                     /\ Chain(nxt, n, s) /\ Place(n, s, p)
  BY DEF Walk
<1>2. pc = "destroy" /\ pc' = "gone" /\ Cur = NULL /\ UNCHANGED << nxt, alloc, it >>
  BY DEF DestroyEnd, memory
<1>3. p = n + 1
  BY <1>1, <1>2, Here DEF Calls, CellCalls
<1>4. alloc = {s[i] : i \in p .. n}
  BY <1>1, <1>2 DEF Place, Destroying
<1>5. p .. n = {}
  BY <1>1, <1>3
<1>6. Place(n, s, p)'
  BY <1>1, <1>2, <1>4 DEF Place, Found, SlotCalls, CellCalls, ByObject, Destroying
<1> QED BY <1>1, <1>2, <1>4, <1>5, <1>6 DEF Walk

-----------------------------------------------------------------------------
(* What the steps do to the elements. *)

\* The cell a call looks at holds an object.
LEMMA Current ==
  ASSUME ListInv, pc \in Calls, Cur # NULL
  PROVE  Cur \in alloc /\ Cur \in Cell /\ data[Cur] \in Obj /\ CurKey \in Key
<1>1. PICK n, s, p : /\ n \in Nat /\ p \in 1 .. (n + 1)
                     /\ Chain(nxt, n, s) /\ Place(n, s, p)
  BY DEF ListInv, Walk
<1>2. Cur \in alloc /\ Cur \in Cell
  BY <1>1, Here
<1> QED BY <1>2, ObjAssumption DEF ListInv, Filled, CurKey

\* Steps that leave the memory alone keep what is said of the elements.
LEMMA Kept ==
  ASSUME ListInv, UNCHANGED << memory, call >>
  PROVE  NoDuplicates' /\ OwnsItsData'
BY DEF ListInv, NoDuplicates, OwnsItsData, memory, call

\* Freeing the cell a call looks at takes its element, and no other, from the list.
LEMMA Freed ==
  ASSUME ListInv, Cur \in alloc, FreeCur, UNCHANGED << data, cfg >>
  PROVE  /\ NoDuplicates' /\ OwnsItsData'
         /\ alloc' \subseteq alloc /\ live' \subseteq live
<1>1. alloc' = alloc \ {Cur}
  BY DEF FreeCur
<1>2. NoDuplicates'
  BY <1>1 DEF ListInv, NoDuplicates
<1>3. \A c \in alloc : c # Cur => data[c] # data[Cur]
  BY DEF ListInv, NoDuplicates
<1>4. cfg.freef => live' = {data[c] : c \in alloc'}
  BY <1>1, <1>3 DEF FreeCur, ListInv, OwnsItsData
<1>5. live' \subseteq live
  BY DEF FreeCur
<1> QED BY <1>1, <1>2, <1>4, <1>5 DEF OwnsItsData

\* A step of a loop that goes forward over a cell that stays.
LEMMA GoesOn ==
  ASSUME ListInv, pc \in Calls \ {"destroy"}, Cur # NULL, Passes,
         Forward, UNCHANGED << memory, call, pc >>,
         cnt' \in Nat, seen' \in Seq(Key)
  PROVE  ListInv'
<1>1. Walk' /\ it' \in Places
  BY Advance
<1>2. TypeOK'
  BY <1>1 DEF ListInv, TypeOK, memory, call, Places
<1>3. Filled'
  BY DEF ListInv, Filled, memory, call
<1> QED BY <1>1, <1>2, <1>3, Kept DEF ListInv

\* A call returns and leaves the memory as it is.
LEMMA Returns ==
  ASSUME ListInv, pc \notin Destroying, pc' = "idle",
         UNCHANGED << memory, call, it, cnt >>, seen' \in Seq(Key)
  PROVE  ListInv'
<1>1. Walk'
  BY Finish DEF ListInv, memory
<1>2. TypeOK'
  BY DEF ListInv, TypeOK, memory, call
<1>3. Filled'
  BY DEF ListInv, Filled, memory, call, ByObject
<1> QED BY <1>1, <1>2, <1>3, Kept DEF ListInv

\* A call begins.
LEMMA Begins ==
  ASSUME ListInv, NEW op \in Calls, Begin(op), op \in ByObject => arg' \in Obj,
         arg' \in Obj \cup {NULL}, pred' \subseteq Key, bad' \subseteq Key
  PROVE  ListInv'
<1>1. /\ Walk' /\ it' \in Places
      /\ pc' = op /\ cnt' = 0 /\ seen' = << >> /\ before' = Keys
      /\ UNCHANGED << nxt, data, alloc, live, cfg, ahead >>
  BY Start DEF ListInv, Begin, memory
<1>2. Keys \subseteq Key
  BY ObjAssumption DEF ListInv, Filled, Keys
<1>3. TypeOK'
  BY <1>1, <1>2 DEF ListInv, TypeOK, Places, Calls
<1>4. Filled'
  BY <1>1 DEF ListInv, Filled, Calls, SlotCalls, CellCalls
<1>5. NoDuplicates' /\ OwnsItsData'
  BY <1>1 DEF ListInv, NoDuplicates, OwnsItsData
<1> QED BY <1>1, <1>3, <1>4, <1>5 DEF ListInv

-----------------------------------------------------------------------------
(* The steps that write. *)

\* Appending a cell.
LEMMA Inserts ==
  ASSUME ListInv, NEW c \in Cell, NEW o \in Obj, InsertNew(c, o)
  PROVE  ListInv'
<1>1. Walk' /\ \A b \in alloc : keyof[data[b]] # keyof[arg]
  BY Hang DEF ListInv, TypeOK
<1>2. /\ pc = "insert" /\ pc' = "idle" /\ alloc' = alloc \cup {c} /\ c \notin alloc
      /\ data' = [data EXCEPT ![c] = o] /\ nxt' = [nxt EXCEPT ![c] = NULL, ![it] = c]
      /\ live' = IF cfg.copyf \/ cfg.freef THEN live \cup {o} ELSE live
      /\ UNCHANGED << arg, pred, bad, before, cfg, ahead, it, cnt, seen >>
  BY DEF InsertNew, Return, call
<1>3. keyof[o] = keyof[arg]
  BY DEF InsertNew
<1>4. data'[c] = o /\ \A b \in alloc : data'[b] = data[b]
  BY <1>2 DEF ListInv, TypeOK
<1>5. TypeOK'
  BY <1>2 DEF ListInv, TypeOK
<1>6. Filled'
  BY <1>2, <1>4 DEF ListInv, Filled, ByObject
<1>7. NoDuplicates'
  BY <1>1, <1>2, <1>3, <1>4 DEF ListInv, NoDuplicates
<1>8. OwnsItsData'
  BY <1>2, <1>4 DEF ListInv, OwnsItsData
<1> QED BY <1>1, <1>5, <1>6, <1>7, <1>8 DEF ListInv

\* Removing the current cell.
LEMMA Removes ==
  ASSUME ListInv, pc \in {"remove", "ndel"}, Cur # NULL,
         nxt' = [nxt EXCEPT ![it] = nxt[Cur]], FreeCur,
         pc' = "idle" \/ (pc = "ndel" /\ pc' = "ndel"),
         UNCHANGED << data, call, it, seen >>, cnt' \in Nat
  PROVE  ListInv'
<1>1. Cur \in alloc /\ Cur \in Cell
  BY Current DEF Calls, SlotCalls
<1>2. Walk'
  BY Cut DEF ListInv, TypeOK, call
<1>3. /\ NoDuplicates' /\ OwnsItsData'
      /\ alloc' \subseteq alloc /\ live' \subseteq live
  BY <1>1, Freed DEF call
<1>4. nxt' \in [Cell \cup {HEAD} -> Cell \cup {NULL}]
  BY <1>1 DEF ListInv, TypeOK
<1>5. TypeOK'
  BY <1>3, <1>4 DEF ListInv, TypeOK, call, SlotCalls
<1>6. Filled'
  BY <1>3 DEF ListInv, Filled, ByObject
<1> QED BY <1>2, <1>3, <1>5, <1>6 DEF ListInv

\* Freeing a cell in ll_destroy.
LEMMA Destroys ==
  ASSUME ListInv, DestroyFree
  PROVE  ListInv'
<1>1. pc = "free" /\ pc' = "destroy" /\ FreeCur /\ Cur = it
      /\ UNCHANGED << nxt, data, arg, pred, bad, before, cfg, ahead, cnt, seen >>
  BY DEF DestroyFree, call, Cur, SlotCalls
<1>2. Walk' /\ it \in alloc /\ it' \in Places
  BY Free DEF ListInv
<1>3. /\ NoDuplicates' /\ OwnsItsData'
      /\ alloc' \subseteq alloc /\ live' \subseteq live
  BY <1>1, <1>2, Freed
<1>4. TypeOK'
  BY <1>1, <1>2, <1>3 DEF ListInv, TypeOK, CellCalls, Places
<1>5. Filled'
  BY <1>1, <1>3 DEF ListInv, Filled, ByObject
<1> QED BY <1>2, <1>3, <1>4, <1>5 DEF ListInv

-----------------------------------------------------------------------------
(* The theorems. *)

\* A new list is empty.
LEMMA Initially == Init => ListInv
<1> SUFFICES ASSUME Init PROVE ListInv
  OBVIOUS
<1>1. TypeOK
  BY DEF Init, TypeOK, CellCalls, SlotCalls
<1>2. Filled /\ NoDuplicates /\ OwnsItsData
  BY DEF Init, Filled, NoDuplicates, OwnsItsData, ByObject
<1>3. Walk
  <2> DEFINE s == [i \in 0 .. 1 |-> IF i = 0 THEN HEAD ELSE NULL]
  <2>1. Chain(nxt, 0, s)
    BY DEF Init, Chain, Places
  <2>2. Place(0, s, 1)
    BY DEF Init, Place, Found, SlotCalls, CellCalls, ByObject
  <2> HIDE DEF s
  <2> QED BY <2>1, <2>2 DEF Walk
<1> QED BY <1>1, <1>2, <1>3 DEF ListInv

\* Every step of every call keeps the list well formed.
LEMMA Inductive == ListInv /\ [Next]_vars => ListInv'
<1> SUFFICES ASSUME ListInv, [Next]_vars PROVE ListInv'
  OBVIOUS
<1> USE DEF Calls, SlotCalls, CellCalls, Destroying
<1>1. ASSUME NEW op \in ByObject, NEW d \in Obj, CallByObject(op, d) PROVE ListInv'
  BY <1>1, Begins DEF CallByObject, ByObject
<1>2. ASSUME NEW P \in Preds, CallNdel(P) PROVE ListInv'
  BY <1>2, Begins, PredAssumption DEF CallNdel, ByObject
<1>3. ASSUME NEW P \in Preds, NEW B \in Faults, CallSelect(P, B) PROVE ListInv'
  BY <1>3, Begins, PredAssumption DEF CallSelect, ByObject
<1>4. CASE CallCount
  BY <1>4, Begins DEF CallCount, ByObject
<1>5. CASE CallDestroy
  BY <1>5, Begins DEF CallDestroy, ByObject
<1>6. CASE Skip
  BY <1>6, GoesOn DEF Skip, Passes, ByObject, ListInv, TypeOK
<1>7. CASE InsertExists
  BY <1>7, Returns DEF InsertExists, Return, ListInv, TypeOK
<1>8. CASE InsertNoMem
  BY <1>8, Returns DEF InsertNoMem, Return, ListInv, TypeOK
<1>9. ASSUME NEW c \in Cell, NEW o \in Obj, InsertNew(c, o) PROVE ListInv'
  BY <1>9, Inserts
<1>10. CASE FindHit
  BY <1>10, Returns DEF FindHit, Return, ListInv, TypeOK
<1>11. CASE FindMiss
  BY <1>11, Returns DEF FindMiss, Return, ListInv, TypeOK
<1>12. CASE DeleteHit
  BY <1>12, Removes DEF DeleteHit, Return, ListInv, TypeOK
<1>13. CASE DeleteMiss
  BY <1>13, Returns DEF DeleteMiss, Return, ListInv, TypeOK
<1>14. CASE NdelKeep
  BY <1>14, GoesOn DEF NdelKeep, Passes, ByObject, ListInv, TypeOK
<1>15. CASE NdelRemove
  BY <1>15, Removes DEF NdelRemove, ListInv, TypeOK
<1>16. CASE NdelEnd
  BY <1>16, Returns DEF NdelEnd, Return, ListInv, TypeOK
<1>17. CASE CountStep
  BY <1>17, GoesOn DEF CountStep, Passes, ByObject, ListInv, TypeOK
<1>18. CASE CountEnd
  BY <1>18, Returns DEF CountEnd, Return, ListInv, TypeOK
<1>19. CASE SelectStep
  <2>1. pc = "select" /\ Cur # NULL /\ CurKey \in Key /\ seen \in Seq(Key) /\ cnt \in Nat
    BY <1>19, Current DEF SelectStep, ListInv, TypeOK
  <2>2. seen' \in Seq(Key)
    BY <1>19, <2>1 DEF SelectStep
  <2> QED BY <1>19, <2>1, <2>2, GoesOn DEF SelectStep, Passes, ByObject
<1>20. CASE SelectFail
  <2>1. pc = "select" /\ CurKey \in Key /\ seen \in Seq(Key)
    BY <1>20, Current DEF SelectFail, ListInv, TypeOK
  <2>2. seen' \in Seq(Key)
    BY <1>20, <2>1 DEF SelectFail
  <2> QED BY <1>20, <2>1, <2>2, Returns DEF SelectFail, Return
<1>21. CASE SelectEnd
  BY <1>21, Returns DEF SelectEnd, Return, ListInv, TypeOK
<1>22. CASE DestroyNext
  <2>1. Walk'
    BY <1>22, Look DEF ListInv
  <2>2. /\ pc = "destroy" /\ pc' = "free" /\ Cur # NULL /\ ahead' = nxt[it]
        /\ UNCHANGED << memory, arg, pred, bad, before, cfg, it, cnt, seen >>
    BY <1>22 DEF DestroyNext
  <2>3. ahead' \in Cell \cup {NULL}
    <3>1. it = Cur /\ Cur \in Cell
      BY <2>2, Current DEF Cur
    <3> QED BY <2>2, <3>1 DEF ListInv, TypeOK
  <2>4. TypeOK' /\ Filled'
    BY <2>2, <2>3 DEF ListInv, TypeOK, Filled, ByObject, memory
  <2>5. NoDuplicates' /\ OwnsItsData'
    BY <2>2 DEF ListInv, NoDuplicates, OwnsItsData, memory
  <2> QED BY <2>1, <2>4, <2>5 DEF ListInv
<1>25. CASE DestroyFree
  BY <1>25, Destroys
<1>23. CASE DestroyEnd
  <2>1. Walk' /\ alloc' = {}
    BY <1>23, Gone DEF ListInv
  <2>2. pc' = "gone" /\ UNCHANGED << memory, call, it, cnt, seen >>
    BY <1>23 DEF DestroyEnd
  <2>3. TypeOK'
    BY <2>2 DEF ListInv, TypeOK, memory, call
  <2>4. Filled'
    BY <2>1, <2>2 DEF Filled, ByObject
  <2> QED BY <2>1, <2>2, <2>3, <2>4, Kept DEF ListInv
<1>24. CASE UNCHANGED vars
  <2>1. UNCHANGED << nxt, data, alloc, live, cfg, pc, it, ahead, arg, pred, bad, cnt, seen, before >>
    BY <1>24 DEF vars, memory, call
  <2>2. Walk'
    <3>1. PICK n, s, p : /\ n \in Nat /\ p \in 1 .. (n + 1)
                         /\ Chain(nxt, n, s) /\ Place(n, s, p)
      BY DEF ListInv, Walk
    <3>2. Place(n, s, p)'
      BY <3>1, <2>1 DEF Place, Found, KeyAt
    <3> QED BY <2>1, <3>1, <3>2 DEF Walk
  <2>3. TypeOK' /\ Filled'
    BY <2>1 DEF ListInv, TypeOK, Filled
  <2>4. NoDuplicates' /\ OwnsItsData'
    BY <2>1 DEF ListInv, NoDuplicates, OwnsItsData
  <2> QED BY <2>2, <2>3, <2>4 DEF ListInv
<1> QED
  BY <1>1, <1>2, <1>3, <1>4, <1>5, <1>6, <1>7, <1>8, <1>9, <1>10, <1>11, <1>12,
     <1>13, <1>14, <1>15, <1>16, <1>17, <1>18, <1>19, <1>20, <1>21, <1>22, <1>23,
     <1>24, <1>25 DEF Next, Call, Step

\* ListInv holds in every state of every behaviour.
LEMMA Invariant == Spec => []ListInv
<1> QED BY Initially, Inductive, PTL DEF Spec

\* Every variable keeps its type, whatever calls are made in whatever order.
THEOREM TypeCorrect == Spec => []TypeOK
<1>1. ListInv => TypeOK
  BY DEF ListInv
<1> QED BY <1>1, Invariant, PTL

\* However elements come and go, no two cells hold equal ones.
THEOREM Unique == Spec => []NoDuplicates
<1>1. ListInv => NoDuplicates
  BY DEF ListInv
<1> QED BY <1>1, Invariant, PTL

\* With a freef() the list owns exactly what it holds.
THEOREM Ownership == Spec => []OwnsItsData
<1>1. ListInv => OwnsItsData
  BY DEF ListInv
<1> QED BY <1>1, Invariant, PTL

\* ll_insert, ll_delete, ll_ndel, ll_destroy and the reading calls only touch
\* allocated cells.
THEOREM MemorySafe == Spec => []NoUseAfterFree
<1>1. ListInv => NoUseAfterFree
  <2> SUFFICES ASSUME ListInv PROVE NoUseAfterFree
    OBVIOUS
  <2>1. PICK n, s, p : /\ n \in Nat /\ p \in 1 .. (n + 1)
                       /\ Chain(nxt, n, s) /\ Place(n, s, p)
    BY DEF ListInv, Walk
  <2>2. pc \in SlotCalls => it \in alloc \cup {HEAD}
    <3>1. pc \in SlotCalls => alloc = {s[i] : i \in 1 .. n} /\ it = s[p - 1]
      BY <2>1 DEF Place, SlotCalls, Destroying
    <3>2. p - 1 = 0 \/ p - 1 \in 1 .. n
      BY <2>1
    <3> QED BY <3>1, <3>2, <2>1 DEF Chain
  <2>3. pc \in SlotCalls \cup CellCalls => Cur \in alloc \cup {NULL}
    BY <2>1, Here DEF Calls
  <2>4. ASSUME pc \notin Destroying, NEW c \in alloc \cup {HEAD}
        PROVE  nxt[c] \in alloc \cup {NULL}
    <3>1. alloc = {s[i] : i \in 1 .. n}
      BY <2>1, <2>4 DEF Place, Destroying
    <3>2. PICK i \in 0 .. n : c = s[i]
      BY <2>1, <3>1 DEF Chain
    <3>3. nxt[c] = s[i + 1]
      BY <2>1, <3>2 DEF Chain
    <3>4. i + 1 = n + 1 \/ i + 1 \in 1 .. n
      BY <2>1
    <3> QED BY <2>1, <3>1, <3>3, <3>4 DEF Chain
  <2>5. pc = "free" => it \in alloc /\ ahead \in alloc \cup {NULL}
    <3> SUFFICES ASSUME pc = "free" PROVE it \in alloc /\ ahead \in alloc \cup {NULL}
      OBVIOUS
    <3>1. p \in 1 .. n /\ it = s[p] /\ ahead = s[p + 1] /\ alloc = {s[i] : i \in p .. n}
      BY <2>1 DEF Place, Destroying
    <3>2. p \in p .. n /\ (p + 1 = n + 1 \/ p + 1 \in p .. n)
      BY <2>1, <3>1
    <3>3. it \in alloc
      BY <3>1, <3>2
    <3>4. s[n + 1] = NULL
      BY <2>1 DEF Chain
    <3>5. ahead \in alloc \cup {NULL}
      BY <3>1, <3>2, <3>4
    <3> QED BY <3>3, <3>5
  <2> QED BY <2>2, <2>3, <2>4, <2>5 DEF NoUseAfterFree
<1> QED BY <1>1, Invariant, PTL

\* Every allocated cell hangs in the list, and ll_destroy frees them all.
THEOREM Leakless == Spec => []NoLeak
<1>1. ListInv => NoLeak
  <2> SUFFICES ASSUME ListInv PROVE NoLeak
    OBVIOUS
  <2>1. PICK n, s, p : /\ n \in Nat /\ p \in 1 .. (n + 1)
                       /\ Chain(nxt, n, s) /\ Place(n, s, p)
    BY DEF ListInv, Walk
  <2>2. pc = "gone" => alloc = {}
    BY DEF ListInv, Filled
  <2>3. ASSUME pc \notin Destroying, NEW c \in alloc
        PROVE  \E b \in alloc \cup {HEAD} : nxt[b] = c
    <3>1. alloc = {s[i] : i \in 1 .. n}
      BY <2>1, <2>3 DEF Place, Destroying
    <3>2. PICK i \in 1 .. n : c = s[i]
      BY <3>1
    <3>3. i - 1 \in 0 .. n /\ (i - 1) + 1 = i /\ (i - 1 = 0 \/ i - 1 \in 1 .. n)
      BY <2>1
    <3>4. nxt[s[i - 1]] = c
      BY <2>1, <3>2, <3>3 DEF Chain
    <3> QED BY <2>1, <3>1, <3>3, <3>4 DEF Chain
  <2> QED BY <2>2, <2>3 DEF NoLeak
<1> QED BY <1>1, Invariant, PTL

-----------------------------------------------------------------------------
(* Implementation of SetSpec. *)

\* The elements when the call began and those there are now: only ll_ndel takes some away
\* before it returns, and counts them.
Since ==
  /\ pc \in Calls \ {"ndel", "destroy"} => before = Keys
  /\ pc = "ndel" => /\ Keys \subseteq before /\ before \ Keys \subseteq pred
                    /\ IsFiniteSet(before \ Keys) /\ cnt = Cardinality(before \ Keys)
  /\ pc \in {"ndel", "select"} => pred \in Preds
  /\ pc = "select" => bad \in Faults

\* The invariant that relates the list to the set.
RefinementInv == ListInv /\ Since

\* What the users see of the list.
Contents == IF pc \in {"idle", "gone"} THEN Keys ELSE before

-----------------------------------------------------------------------------
(* The end of a walk. *)

\* seen lists the elements of S, each once.
Lists(S) ==
  /\ \A j \in 1 .. Len(seen) : seen[j] \in S
  /\ \A k \in S : \E j \in 1 .. Len(seen) : seen[j] = k
  /\ \A i, j \in 1 .. Len(seen) : seen[i] = seen[j] => i = j

\* A chain of n cells holds n elements.
LEMMA HowMany ==
  ASSUME ListInv, NEW n \in Nat, NEW s, Chain(nxt, n, s), alloc = {s[i] : i \in 1 .. n}
  PROVE  IsFiniteSet(Keys) /\ Cardinality(Keys) = n
<1> DEFINE f == [i \in 1 .. n |-> KeyAt(s, i)]
<1>1. Keys = {KeyAt(s, i) : i \in 1 .. n}
  BY DEF Keys, KeyAt
<1>2. f \in [1 .. n -> Keys] /\ \A k \in Keys : \E i \in 1 .. n : f[i] = k
  BY <1>1
<1>3. \A i, j \in 1 .. n : f[i] = f[j] => i = j
  <2> SUFFICES ASSUME NEW i \in 1 .. n, NEW j \in 1 .. n, f[i] = f[j] PROVE i = j
    OBVIOUS
  <2>1. s[i] \in alloc /\ s[j] \in alloc /\ KeyAt(s, i) = KeyAt(s, j)
    OBVIOUS
  <2>2. s[i] = s[j]
    BY <2>1 DEF ListInv, NoDuplicates, KeyAt
  <2> QED BY <2>2 DEF Chain
<1> HIDE DEF f
<1>4. f \in Bijection(1 .. n, Keys)
  BY <1>2, <1>3 DEF Bijection, Injection, Surjection, IsInjective
<1>5. ExistsBijection(1 .. n, Keys)
  BY <1>4 DEF ExistsBijection
<1> QED BY <1>5, FS_NatBijection, FS_CountingElements

\* A walk that has come to the end has looked at every element.
LEMMA AtEnd ==
  ASSUME ListInv, pc \in Calls \ {"destroy"}, Cur = NULL
  PROVE  /\ pc \in ByObject => keyof[arg] \notin Keys
         /\ pc = "ndel" => Keys \cap pred = {}
         /\ pc = "cardinality" => Cardinality(Keys) = cnt
         /\ pc = "select" => Lists(Keys \cap pred) /\ Keys \cap pred \cap bad = {}
<1>1. PICK n, s, p : /\ n \in Nat /\ p \in 1 .. (n + 1)
                     /\ Chain(nxt, n, s) /\ Place(n, s, p)
  BY DEF ListInv, Walk
<1>2. p = n + 1 /\ p - 1 = n
  BY <1>1, Here
<1>3. alloc = {s[i] : i \in 1 .. n}
  BY <1>1 DEF Place, Calls, SlotCalls, CellCalls, Destroying
<1>4. Keys = {KeyAt(s, i) : i \in 1 .. n}
  BY <1>3 DEF Keys, KeyAt
<1>5. Found(s, p)
  BY <1>1 DEF Place
<1>6. pc \in ByObject => keyof[arg] \notin Keys
  BY <1>2, <1>4, <1>5 DEF Found
<1>7. pc = "ndel" => Keys \cap pred = {}
  BY <1>2, <1>4, <1>5 DEF Found
<1>8. pc = "cardinality" => Cardinality(Keys) = cnt
  BY <1>1, <1>2, <1>3, <1>5, HowMany DEF Found
<1>9. pc = "select" => Lists(Keys \cap pred) /\ Keys \cap pred \cap bad = {}
  <2> SUFFICES ASSUME pc = "select"
               PROVE  Lists(Keys \cap pred) /\ Keys \cap pred \cap bad = {}
    OBVIOUS
  <2>1. \A j \in 1 .. Len(seen) : seen[j] \in Keys \cap pred
    BY <1>2, <1>4, <1>5 DEF Found
  <2>2. ASSUME NEW k \in Keys \cap pred
        PROVE  k \notin bad /\ \E j \in 1 .. Len(seen) : seen[j] = k
    <3>1. PICK i \in 1 .. (p - 1) : k = KeyAt(s, i)
      BY <1>2, <1>4
    <3> QED BY <1>5, <3>1 DEF Found
  <2>3. \A i, j \in 1 .. Len(seen) : seen[i] = seen[j] => i = j
    BY <1>5 DEF Found
  <2> QED BY <2>1, <2>2, <2>3 DEF Lists
<1> QED BY <1>6, <1>7, <1>8, <1>9

\* When procf() fails on an element, it was called for others before, and did not fail.
LEMMA AtFailure ==
  ASSUME ListInv, pc = "select", Cur # NULL, CurKey \in pred
  PROVE  /\ \A j \in 1 .. Len(seen) : /\ seen[j] \in Keys \cap pred /\ seen[j] \notin bad
                                      /\ seen[j] # CurKey
         /\ \A i, j \in 1 .. Len(seen) : seen[i] = seen[j] => i = j
<1>1. PICK n, s, p : /\ n \in Nat /\ p \in 1 .. (n + 1)
                     /\ Chain(nxt, n, s) /\ Place(n, s, p)
  BY DEF ListInv, Walk
<1>2. p \in 1 .. n /\ Cur = s[p]
  BY <1>1, Here DEF Calls, CellCalls
<1>3. Found(s, p) /\ alloc = {s[i] : i \in 1 .. n}
  BY <1>1 DEF Place, Destroying
<1>4. CurKey = KeyAt(s, p)
  BY <1>2 DEF CurKey, KeyAt
<1>5. ASSUME NEW i \in 1 .. (p - 1)
      PROVE  KeyAt(s, i) \in Keys /\ KeyAt(s, i) # KeyAt(s, p)
  <2>1. i \in 1 .. n /\ i # p
    BY <1>1, <1>2
  <2>2. s[i] \in alloc /\ s[p] \in alloc /\ s[i] # s[p]
    BY <1>1, <1>2, <1>3, <2>1 DEF Chain
  <2> QED BY <2>2 DEF ListInv, NoDuplicates, KeyAt, Keys
<1>6. ASSUME NEW j \in 1 .. Len(seen)
      PROVE  seen[j] \in Keys \cap pred /\ seen[j] \notin bad /\ seen[j] # CurKey
  <2>1. PICK i \in 1 .. (p - 1) : seen[j] = KeyAt(s, i)
    BY <1>3 DEF Found
  <2>2. seen[j] \in pred
    BY <1>3 DEF Found
  <2>3. KeyAt(s, i) \notin bad
    BY <1>3, <2>1, <2>2 DEF Found
  <2> QED BY <1>4, <1>5, <2>1, <2>2, <2>3
<1> QED BY <1>3, <1>6 DEF Found

-----------------------------------------------------------------------------
(* What the steps do to the elements. *)

\* The elements are the same as long as the cells are.
LEMMA KeysKept ==
  ASSUME UNCHANGED << data, alloc >>
  PROVE  Keys' = Keys
BY DEF Keys

\* Freeing the current cell takes its element away.
LEMMA KeysCut ==
  ASSUME ListInv, pc \in Calls, Cur # NULL, FreeCur, UNCHANGED data
  PROVE  CurKey \in Keys /\ Keys' = Keys \ {CurKey}
<1>1. Cur \in alloc /\ alloc' = alloc \ {Cur}
  BY Current DEF FreeCur
<1>2. \A c \in alloc : keyof[data[c]] = CurKey <=> c = Cur
  BY <1>1 DEF ListInv, NoDuplicates, CurKey
<1> QED BY <1>1, <1>2 DEF Keys, CurKey

\* The current element is one of the list's.
LEMMA CurrentKey ==
  ASSUME ListInv, pc \in Calls, Cur # NULL
  PROVE  CurKey \in Keys
BY Current DEF Keys, CurKey

\* A new cell adds the element that was given.
LEMMA KeysAdded ==
  ASSUME ListInv, NEW c \in Cell, NEW o \in Obj, InsertNew(c, o)
  PROVE  Keys' = Keys \cup {keyof[arg]}
<1>1. /\ c \notin alloc /\ alloc' = alloc \cup {c} /\ data' = [data EXCEPT ![c] = o]
      /\ keyof[o] = keyof[arg]
  BY DEF InsertNew
<1>2. data'[c] = o /\ \A b \in alloc : data'[b] = data[b]
  BY <1>1 DEF ListInv, TypeOK
<1> QED BY <1>1, <1>2 DEF Keys

-----------------------------------------------------------------------------
(* The invariant. *)

\* At first the list is empty and no call runs.
LEMMA SinceInitially == Init => Since
BY DEF Init, Since, Calls, SlotCalls, CellCalls

\* A call begins with what is in the list.
LEMMA SinceBegins ==
  ASSUME NEW op \in Calls, Begin(op),
         op \in {"ndel", "select"} => pred' \in Preds, op = "select" => bad' \in Faults
  PROVE  Since'
<1>1. pc' = op /\ cnt' = 0 /\ before' = Keys /\ Keys' = Keys
  BY KeysKept DEF Begin, memory
<1>2. before' \ Keys' = {}
  BY <1>1
<1>3. IsFiniteSet(before' \ Keys') /\ Cardinality(before' \ Keys') = 0
  BY <1>2, FS_EmptySet
<1> QED BY <1>1, <1>2, <1>3 DEF Since

\* A step that goes forward over a cell.
LEMMA SinceGoesOn ==
  ASSUME Since, UNCHANGED << memory, call, pc >>, pc = "ndel" => cnt' = cnt
  PROVE  Since'
<1>1. Keys' = Keys
  BY KeysKept DEF memory
<1>2. UNCHANGED << pc, before, pred, bad >>
  BY DEF call
<1> QED BY <1>1, <1>2 DEF Since

\* ll_ndel takes an element away and counts it.
LEMMA SinceRemoves ==
  ASSUME RefinementInv, NdelRemove
  PROVE  Since'
<1>1. /\ pc = "ndel" /\ pc' = "ndel" /\ Cur # NULL /\ CurKey \in pred /\ FreeCur
      /\ cnt' = cnt + 1 /\ UNCHANGED << data, before, pred, bad >>
  BY DEF NdelRemove, call
<1>2. CurKey \in Keys /\ Keys' = Keys \ {CurKey}
  BY <1>1, KeysCut DEF RefinementInv, Calls, SlotCalls
<1> DEFINE removed == before \ Keys
<1>3. /\ Keys \subseteq before /\ removed \subseteq pred /\ IsFiniteSet(removed)
      /\ cnt = Cardinality(removed)
  BY <1>1 DEF RefinementInv, Since
<1>4. before' \ Keys' = removed \cup {CurKey} /\ CurKey \notin removed
  BY <1>1, <1>2, <1>3
<1>5. IsFiniteSet(before' \ Keys') /\ Cardinality(before' \ Keys') = cnt + 1
  BY <1>3, <1>4, FS_AddElement
<1> QED BY <1>1, <1>2, <1>3, <1>4, <1>5 DEF RefinementInv, Since

\* Every step keeps the relation.
LEMMA SinceInductive == RefinementInv /\ [Next]_vars => Since'
<1> SUFFICES ASSUME RefinementInv, [Next]_vars PROVE Since'
  OBVIOUS
<1> USE DEF Calls, SlotCalls, CellCalls
<1>1. ASSUME NEW op \in ByObject, NEW d \in Obj, CallByObject(op, d) PROVE Since'
  BY <1>1, SinceBegins DEF CallByObject, ByObject
<1>2. ASSUME NEW P \in Preds, CallNdel(P) PROVE Since'
  BY <1>2, SinceBegins DEF CallNdel
<1>3. ASSUME NEW P \in Preds, NEW B \in Faults, CallSelect(P, B) PROVE Since'
  BY <1>3, SinceBegins DEF CallSelect
<1>4. CASE CallCount \/ CallDestroy
  BY <1>4, SinceBegins DEF CallCount, CallDestroy
<1>5. CASE Skip \/ NdelKeep \/ CountStep \/ SelectStep
  <2>1. UNCHANGED << memory, call, pc >> /\ (pc = "ndel" => cnt' = cnt)
    BY <1>5 DEF Skip, NdelKeep, CountStep, SelectStep
  <2> QED BY <2>1, SinceGoesOn DEF RefinementInv
<1>6. CASE NdelRemove
  BY <1>6, SinceRemoves
<1>7. ASSUME pc' \in {"idle"} \cup Destroying PROVE Since'
  BY <1>7 DEF Since, Destroying
<1>8. CASE \/ InsertExists \/ InsertNoMem \/ FindHit \/ FindMiss
           \/ DeleteHit \/ DeleteMiss \/ NdelEnd \/ CountEnd
  BY <1>7, <1>8 DEF InsertExists, InsertNoMem, FindHit, FindMiss, DeleteHit, DeleteMiss,
                    NdelEnd, CountEnd, Return
<1>9. CASE SelectFail \/ SelectEnd \/ DestroyNext \/ DestroyFree \/ DestroyEnd
  BY <1>7, <1>9 DEF SelectFail, SelectEnd, DestroyNext, DestroyFree, DestroyEnd, Return, Destroying
<1>10. ASSUME NEW c \in Cell, NEW o \in Obj, InsertNew(c, o) PROVE Since'
  BY <1>7, <1>10 DEF InsertNew, Return
<1>11. CASE UNCHANGED vars
  BY <1>11, SinceGoesOn DEF RefinementInv, vars
<1> QED
  BY <1>1, <1>2, <1>3, <1>4, <1>5, <1>6, <1>8, <1>9, <1>10, <1>11 DEF Next, Call, Step

\* Both invariants hold at every step.
LEMMA RefinementInvariant == Spec => []RefinementInv
<1>1. Init => RefinementInv
  BY Initially, SinceInitially DEF RefinementInv
<1>2. RefinementInv /\ [Next]_vars => RefinementInv'
  BY Inductive, SinceInductive DEF RefinementInv
<1> QED BY <1>1, <1>2, PTL DEF Spec

-----------------------------------------------------------------------------
(* The steps, as a user of the list sees them. *)

SetStep == [Container!Next]_(Container!vars)

\* SetSpec counts as the list does.
LEMMA SameCardinality ==
  ASSUME NEW S
  PROVE  Container!Cardinality(S) = Cardinality(S)
BY DEF Container!Cardinality, Cardinality

\* While a call runs, and when one begins, nothing is to be seen.
LEMMA Unseen ==
  ASSUME Contents' = Contents, done' = done
  PROVE  SetStep
BY DEF SetStep, Container!vars, Contents

\* When a call returns that changed nothing before.
LEMMA Seen ==
  ASSUME RefinementInv, pc \in Calls \ {"ndel", "destroy"}, pc' = "idle"
  PROVE  Contents = Keys /\ Contents' = Keys'
BY DEF RefinementInv, Since, Contents, Calls, SlotCalls, CellCalls

\* ll_insert.
LEMMA InsertStep ==
  ASSUME RefinementInv,
         InsertExists \/ InsertNoMem \/ (\E c \in Cell, o \in Obj : InsertNew(c, o))
  PROVE  SetStep
<1> DEFINE d == keyof[arg]
<1>1. pc = "insert" /\ pc' = "idle" /\ pc \in Calls \ {"ndel", "destroy"}
  BY DEF InsertExists, InsertNoMem, InsertNew, Return, Calls, SlotCalls
<1>2. arg \in Obj /\ d \in Key
  BY <1>1, ObjAssumption DEF RefinementInv, ListInv, Filled, ByObject
<1>3. Contents = Keys /\ Contents' = Keys'
  BY <1>1, Seen
<1>4. CASE InsertExists
  <2>1. Keys' = Keys /\ done' = [op |-> "insert", arg |-> d, ret |-> EEXIST]
    BY <1>1, <1>4, KeysKept DEF InsertExists, Return, memory
  <2>2. d \in Keys
    BY <1>1, <1>4, CurrentKey DEF InsertExists, RefinementInv
  <2>3. Container!Insert(d)
    BY <1>3, <2>1, <2>2 DEF Container!Insert, Container!Return, Container!EEXIST, EEXIST, Contents
  <2> QED BY <1>2, <2>3 DEF SetStep, Container!Next
<1>5. CASE InsertNoMem
  <2>1. Keys' = Keys /\ done' = [op |-> "insert", arg |-> d, ret |-> ENOMEM]
    BY <1>1, <1>5, KeysKept DEF InsertNoMem, Return, memory
  <2>2. d \notin Keys
    BY <1>1, <1>5, AtEnd DEF InsertNoMem, RefinementInv, ByObject
  <2>3. Container!Insert(d)
    BY <1>3, <2>1, <2>2 DEF Container!Insert, Container!Return, Container!ENOMEM, ENOMEM, Contents
  <2> QED BY <1>2, <2>3 DEF SetStep, Container!Next
<1>6. ASSUME NEW c \in Cell, NEW o \in Obj, InsertNew(c, o)
      PROVE  SetStep
  <2>1. done' = [op |-> "insert", arg |-> d, ret |-> OK] /\ Cur = NULL
    BY <1>1, <1>6 DEF InsertNew, Return
  <2>2. Keys' = Keys \cup {d}
    BY <1>6, KeysAdded DEF RefinementInv
  <2>3. d \notin Keys
    BY <1>1, <2>1, AtEnd DEF RefinementInv, ByObject
  <2>4. Container!Insert(d)
    BY <1>3, <2>1, <2>2, <2>3 DEF Container!Insert, Container!Return, Container!OK, OK, Contents
  <2> QED BY <1>2, <2>4 DEF SetStep, Container!Next
<1> QED BY <1>4, <1>5, <1>6

\* ll_find.
LEMMA FindStep ==
  ASSUME RefinementInv, FindHit \/ FindMiss
  PROVE  SetStep
<1> DEFINE d == keyof[arg]
<1>1. pc = "find" /\ pc' = "idle" /\ pc \in Calls \ {"ndel", "destroy"}
  BY DEF FindHit, FindMiss, Return, Calls, CellCalls
<1>2. arg \in Obj /\ d \in Key
  BY <1>1, ObjAssumption DEF RefinementInv, ListInv, Filled, ByObject
<1>3. Contents = Keys /\ Contents' = Keys' /\ Keys' = Keys
  BY <1>1, Seen, KeysKept DEF FindHit, FindMiss, memory
<1>4. done' = [op |-> "find", arg |-> d, ret |-> IF d \in Keys THEN d ELSE NULL]
  <2>1. CASE FindHit
    BY <1>1, <2>1, CurrentKey DEF FindHit, Return, RefinementInv
  <2>2. CASE FindMiss
    BY <1>1, <2>2, AtEnd DEF FindMiss, Return, RefinementInv, ByObject
  <2> QED BY <2>1, <2>2
<1>5. Container!Find(d)
  BY <1>3, <1>4 DEF Container!Find, Container!Return, Contents
<1> QED BY <1>2, <1>5 DEF SetStep, Container!Next

\* ll_delete.
LEMMA DeleteStep ==
  ASSUME RefinementInv, DeleteHit \/ DeleteMiss
  PROVE  SetStep
<1> DEFINE d == keyof[arg]
<1>1. pc = "remove" /\ pc' = "idle" /\ pc \in Calls \ {"ndel", "destroy"}
  BY DEF DeleteHit, DeleteMiss, Return, Calls, SlotCalls
<1>2. arg \in Obj /\ d \in Key
  BY <1>1, ObjAssumption DEF RefinementInv, ListInv, Filled, ByObject
<1>3. Contents = Keys /\ Contents' = Keys'
  BY <1>1, Seen
<1>4. /\ Keys' = Keys \ {d}
      /\ done' = [op |-> "remove", arg |-> d, ret |-> IF d \in Keys THEN OK ELSE EEXIST]
  <2>1. CASE DeleteHit
    BY <1>1, <2>1, KeysCut DEF DeleteHit, Return, RefinementInv
  <2>2. CASE DeleteMiss
    <3>1. d \notin Keys
      BY <1>1, <2>2, AtEnd DEF DeleteMiss, RefinementInv, ByObject
    <3>2. Keys' = Keys
      BY <2>2, KeysKept DEF DeleteMiss, memory
    <3> QED BY <1>1, <2>2, <3>1, <3>2 DEF DeleteMiss, Return
  <2> QED BY <2>1, <2>2
<1>5. Container!Delete(d)
  BY <1>3, <1>4 DEF Container!Delete, Container!Return, Container!OK, OK,
                    Container!EEXIST, EEXIST, Contents
<1> QED BY <1>2, <1>5 DEF SetStep, Container!Next

\* ll_ndel: all that the predicate holds of is gone, and was counted.
LEMMA DeleteIfStep ==
  ASSUME RefinementInv, NdelEnd
  PROVE  SetStep
<1>1. /\ pc = "ndel" /\ pc' = "idle" /\ pc \in Calls \ {"destroy"} /\ Cur = NULL
      /\ done' = [op |-> "ndel", arg |-> pred, ret |-> cnt]
  BY DEF NdelEnd, Return, Calls, SlotCalls
<1>2. Keys' = Keys
  BY KeysKept DEF NdelEnd, memory
<1>3. Keys \cap pred = {}
  BY <1>1, AtEnd DEF RefinementInv
<1>4. /\ Keys \subseteq before /\ before \ Keys \subseteq pred
      /\ cnt = Cardinality(before \ Keys) /\ pred \in Preds
  BY <1>1 DEF RefinementInv, Since
<1>5. before \ Keys = before \cap pred /\ Keys = before \ pred
  BY <1>3, <1>4
<1>6. Contents = before /\ Contents' = Keys
  BY <1>1, <1>2 DEF Contents
<1>7. Container!DeleteIf(pred)
  BY <1>1, <1>4, <1>5, <1>6, SameCardinality DEF Container!DeleteIf, Container!Return, Contents
<1> QED BY <1>4, <1>7 DEF SetStep, Container!Next

\* ll_count.
LEMMA CountingStep ==
  ASSUME RefinementInv, CountEnd
  PROVE  SetStep
<1>1. /\ pc = "cardinality" /\ pc' = "idle" /\ pc \in Calls \ {"ndel", "destroy"}
      /\ Cur = NULL /\ done' = [op |-> "cardinality", arg |-> NULL, ret |-> cnt]
  BY DEF CountEnd, Return, Calls, CellCalls
<1>2. Contents = Keys /\ Contents' = Keys' /\ Keys' = Keys
  BY <1>1, Seen, KeysKept DEF CountEnd, memory
<1>3. Cardinality(Keys) = cnt
  BY <1>1, AtEnd DEF RefinementInv
<1>4. Container!Count
  BY <1>1, <1>2, <1>3, SameCardinality DEF Container!Count, Container!Return, Contents
<1> QED BY <1>4 DEF SetStep, Container!Next

\* ll_destroy.
LEMMA DestroyedStep ==
  ASSUME RefinementInv, DestroyEnd
  PROVE  SetStep
<1>1. /\ pc' = "gone" /\ done' = [op |-> "destroy", arg |-> NULL, ret |-> OK]
      /\ UNCHANGED data
  BY DEF DestroyEnd, memory
<1>2. alloc' = {}
  BY Gone DEF RefinementInv, ListInv
<1>3. Contents' = {}
  BY <1>1, <1>2 DEF Contents, Keys
<1>4. Container!Destroy
  BY <1>1, <1>3 DEF Container!Destroy, Container!Return, Container!OK, OK, Contents
<1> QED BY <1>4 DEF SetStep, Container!Next

\* ll_select: the calls of procf() are those that SetSpec allows.
LEMMA SelectedStep ==
  ASSUME RefinementInv, SelectFail \/ SelectEnd
  PROVE  SetStep
<1> DEFINE q      == seen'
           m      == Len(q)
           failed == q # << >> /\ q[m] \in bad
<1>1. pc = "select" /\ pc' = "idle" /\ pc \in Calls \ {"ndel", "destroy"}
  BY DEF SelectFail, SelectEnd, Return, Calls, CellCalls
<1>2. Contents = Keys /\ Contents' = Keys' /\ Keys' = Keys
  BY <1>1, Seen, KeysKept DEF SelectFail, SelectEnd, memory
<1>3. pred \in Preds /\ bad \in Faults /\ seen \in Seq(Key)
  BY <1>1 DEF RefinementInv, Since, ListInv, TypeOK
<1>4. /\ q \in Seq(Key)
      /\ done' = [op |-> "select", arg |-> << pred, bad >>,
                  ret |-> [ret |-> IF failed THEN EEXIST ELSE OK, seen |-> q]]
      /\ \A i, j \in 1 .. m : q[i] = q[j] => i = j
      /\ \A i \in 1 .. m : q[i] \in Keys \cap pred
      /\ \A i \in 1 .. (m - 1) : q[i] \notin bad
      /\ failed \/ \A k \in Keys \cap pred : \E i \in 1 .. m : q[i] = k
  <2>1. CASE SelectFail
    <3>1. /\ Cur # NULL /\ CurKey \in pred /\ CurKey \in bad /\ q = Append(seen, CurKey)
          /\ done' = [op |-> "select", arg |-> << pred, bad >>,
                      ret |-> [ret |-> EEXIST, seen |-> q]]
      BY <1>1, <2>1 DEF SelectFail, Return
    <3>2. CurKey \in Keys /\ CurKey \in Key
      BY <1>1, <3>1, Current, CurrentKey DEF RefinementInv
    <3>3. /\ \A j \in 1 .. Len(seen) : /\ seen[j] \in Keys \cap pred /\ seen[j] \notin bad
                                       /\ seen[j] # CurKey
          /\ \A i, j \in 1 .. Len(seen) : seen[i] = seen[j] => i = j
      BY <1>1, <3>1, AtFailure DEF RefinementInv
    <3>4. /\ q \in Seq(Key) /\ m = Len(seen) + 1 /\ Len(seen) \in Nat /\ q[m] = CurKey
          /\ q # << >> /\ \A j \in 1 .. Len(seen) : q[j] = seen[j]
      BY <1>3, <3>1, <3>2
    <3>5. \A j \in 1 .. m : j \in 1 .. Len(seen) \/ j = m
      BY <3>4
    <3>6. failed /\ m - 1 = Len(seen)
      BY <3>1, <3>4
    <3> HIDE DEF q, m
    <3> QED BY <3>1, <3>2, <3>3, <3>4, <3>5, <3>6
  <2>2. CASE SelectEnd
    <3>1. /\ Cur = NULL /\ q = seen
          /\ done' = [op |-> "select", arg |-> << pred, bad >>,
                      ret |-> [ret |-> OK, seen |-> q]]
      BY <1>1, <2>2 DEF SelectEnd, Return
    <3>2. Lists(Keys \cap pred) /\ Keys \cap pred \cap bad = {}
      BY <1>1, <3>1, AtEnd DEF RefinementInv
    <3>3. m \in Nat /\ m = Len(seen) /\ (q # << >> => m \in 1 .. m)
      BY <1>3, <3>1
    <3>4. ~failed
      BY <3>1, <3>2, <3>3 DEF Lists
    <3> QED BY <1>3, <3>1, <3>2, <3>3, <3>4 DEF Lists
  <2> QED BY <2>1, <2>2
<1>5. q = done'.ret.seen
  BY <1>4
<1>6. DOMAIN q = 1 .. m /\ Container!ToSet(q) = {q[i] : i \in 1 .. m}
  BY <1>4 DEF Container!ToSet
<1>7. Container!IsInjective(q)
  BY <1>4, <1>6 DEF Container!IsInjective
<1> HIDE DEF q, m
<1>8. Container!Select(pred, bad)
  <2>1. Container!Return("select", << pred, bad >>,
                         [ret |-> IF failed THEN Container!EEXIST ELSE Container!OK, seen |-> q])
    BY <1>4 DEF Container!Return, Container!EEXIST, Container!OK, EEXIST, OK
  <2>2. Container!ToSet(q) \subseteq Contents \cap pred
    BY <1>2, <1>4, <1>6
  <2>3. failed \/ Contents \cap pred \subseteq Container!ToSet(q)
    BY <1>2, <1>4, <1>6
  <2>4. Contents' = Contents
    BY <1>2
  <2> QED BY <1>4, <1>5, <1>7, <2>1, <2>2, <2>3, <2>4 DEF Container!Select, Contents, m
<1> QED BY <1>3, <1>8 DEF SetStep, Container!Next

\* The calls themselves and the iterations of their loops are not seen.
LEMMA InnerStep ==
  ASSUME RefinementInv,
         \/ Call
         \/ Skip \/ NdelKeep \/ NdelRemove \/ CountStep \/ SelectStep
         \/ DestroyNext \/ DestroyFree
         \/ UNCHANGED vars
  PROVE  SetStep
<1> USE DEF SlotCalls, CellCalls, ByObject
<1>1. ASSUME NEW op \in SlotCalls \cup CellCalls, Begin(op)
      PROVE  SetStep
  <2>1. /\ pc = "idle" /\ pc' = op /\ before' = Keys /\ done' = done
    BY <1>1 DEF Begin
  <2>2. Contents' = Contents
    BY <2>1 DEF Contents
  <2> QED BY <2>1, <2>2, Unseen
<1>2. CASE Call
  BY <1>1, <1>2 DEF Call, CallByObject, CallNdel, CallSelect, CallCount, CallDestroy
<1>3. CASE \/ Skip \/ NdelKeep \/ NdelRemove \/ CountStep \/ SelectStep
           \/ DestroyNext \/ DestroyFree
  <2>1. /\ pc \notin {"idle", "gone"} /\ pc' \notin {"idle", "gone"}
        /\ before' = before /\ done' = done
    BY <1>3 DEF Skip, NdelKeep, NdelRemove, CountStep, SelectStep, DestroyNext, DestroyFree, call
  <2>2. Contents' = Contents
    BY <2>1 DEF Contents
  <2> QED BY <2>1, <2>2, Unseen
<1>4. CASE UNCHANGED vars
  <2>1. Keys' = Keys /\ UNCHANGED << pc, before, done >>
    BY <1>4, KeysKept DEF vars, memory, call
  <2>2. Contents' = Contents
    BY <2>1 DEF Contents
  <2> QED BY <2>1, <2>2, Unseen
<1> QED BY <1>2, <1>3, <1>4

-----------------------------------------------------------------------------
(* The theorem. *)

\* The list in memory is a set: each call of ll_insert, ll_delete, ll_find, ll_ndel,
\* ll_count, ll_select and ll_destroy that returns does to the elements, and returns,
\* what SetSpec says, and nothing else is ever to be seen.
THEOREM Implements == Spec => ImplementsSet
<1>1. Init => Container!Init
  <2> SUFFICES ASSUME Init PROVE Container!Init
    OBVIOUS
  <2>1. pc = "idle" /\ Keys = {} /\ done = [op |-> "new", arg |-> NULL, ret |-> OK]
    BY DEF Init, Keys
  <2> QED BY <2>1 DEF Container!Init, Container!OK, OK
<1>2. RefinementInv /\ [Next]_vars => SetStep
  BY InsertStep, FindStep, DeleteStep, DeleteIfStep, CountingStep, SelectedStep,
     DestroyedStep, InnerStep DEF Next, Step
<1> QED BY <1>1, <1>2, RefinementInvariant, PTL DEF Spec, ImplementsSet, Container!Spec, SetStep
=============================================================================
