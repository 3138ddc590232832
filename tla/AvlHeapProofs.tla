--------------------------- MODULE AvlHeapProofs ----------------------------
(***************************************************************************)
(* The steps of AvlHeap that relink nodes keep its inductive invariant,    *)
(* too, and so its properties hold, for any number of nodes, any values,   *)
(* any hash function and any filters.                                      *)
(*                                                                         *)
(* And AvlHeap implements SetSpec: whatever the tree, the call and the     *)
(* allocations that fail, a call that returns has done to the elements in  *)
(* the lists of the nodes what it would do to a set, and returns what it   *)
(* would return for a set.                                                 *)
(***************************************************************************)
EXTENDS AvlHeapSteps

-----------------------------------------------------------------------------
(* Cutting a node out. *)

\* avl_del_node() calls isolate_leftmost() for the right subtree.
LEMMA CutHardKeeps == HeapInv /\ CutHard => HeapInv'
<1> SUFFICES ASSUME HeapInv, CutHard PROVE HeapInv'
  OBVIOUS
<1>0. PICK T, sub : HeapInvAt(T, sub)
  BY DEF HeapInv
<1> DEFINE f == [Top EXCEPT !.at = "replace"]
           t == << Cur, "r" >>
           g == Frame("leftmost", t, "enter")
<1>1. /\ up /\ stack # << >> /\ Top.fn \in {"remove", "ndel"} /\ Top.at = "cut" /\ Filled
      /\ stack' = << g, f >> \o Tail(stack) /\ child[t] # NULL
      /\ UNCHANGED child /\ UNCHANGED el /\ UNCHANGED alloc /\ UNCHANGED low
      /\ UNCHANGED up /\ UNCHANGED call
  BY DEF HeapInv, CutHard, At, rest, memory, Kid
<1>2. /\ Shape(child, el, T, sub) /\ Stacked(stack, child, T, sub) /\ Moving(T, sub)
      /\ Searching(T, sub) /\ Metadata(T) /\ Owned(T, sub)
  BY <1>0, <1>1 DEF HeapInvAt
<1>3. /\ Top \in Frames /\ FrameOK(Top, child, T) /\ Top.slot \in Slots(T)
      /\ On(stack) = {Top} \cup Lower
  BY <1>1, <1>2, Running
<1>4. Cur # NULL /\ Cur \in T /\ T \subseteq Addr
  BY <1>1, <1>2, <1>3, SlotAt DEF FrameOK, Cur, Shape
<1>5. f \in Frames /\ f.fn = Top.fn /\ f.slot = Top.slot /\ f.at = "replace"
  BY <1>3 DEF Frames, Labels
<1>6. g \in Frames /\ g.fn = "leftmost" /\ g.slot = t /\ g.at = "enter" /\ t = << child[f.slot], "r" >>
  BY <1>4, <1>5 DEF Frames, Frame, Labels, Slot, Fns, Cur
<1> HIDE DEF f, g, t
<1>7. FrameOK(f, child, T)
  BY <1>1, <1>3, <1>4, <1>5 DEF FrameOK, LabelOK, Cur
<1>8. g.slot = Field(f, child)
  BY <1>5, <1>6 DEF Field
<1>9. /\ Stacked(stack', child', T, sub) /\ stack' # << >> /\ stack' \in Seq(Frames)
      /\ On(stack') = {g, f} \cup Lower /\ (Dying' <=> Dying) /\ Top' = g
  BY <1>1, <1>2, <1>5, <1>6, <1>7, <1>8, EnterStack DEF Walkers
<1>10. Owned(T, sub)'
  <2>1. ~Dying
    BY <1>1, <1>2, Walking DEF Walkers
  <2> QED BY <1>1, <1>2, <1>9, <2>1 DEF Owned
<1>11. low = NULL /\ \A h \in Lower : h.at # "replace"
  BY <1>1, <1>2, NotMoving DEF Walkers
<1>12. Moving(T, sub)'
  <2>1. ~((Top'.fn = "leftmost" /\ Top'.at = "l") \/ Top'.at = "replace")
    BY <1>6, <1>9
  <2>2. \A h \in On(stack') : h.at = "replace" => h = f
    BY <1>6, <1>9, <1>11
  <2>3. << child[f.slot], "r" >> = Top'.slot
    BY <1>6, <1>9
  <2> QED BY <1>1, <1>11, <2>1, <2>2, <2>3 DEF Moving
<1>13. Searching(T, sub)'
  BY <1>1, <1>2, <1>6, <1>9, SearchOn DEF Walkers
<1>14. Metadata(T)'
  <2>1. Waits(f) /\ child'[f.slot] = Cur
    BY <1>1, <1>5 DEF Waits, Cur
  <2>2. Pending \subseteq Pending'
    BY <1>1, <1>2, <1>9, <2>1, StillPending DEF Walkers
  <2> QED BY <1>1, <1>2, <2>2 DEF Metadata
<1>15. Filled'
  BY <1>1 DEF Filled
<1> QED BY <1>1, <1>2, <1>9, <1>10, <1>12, <1>13, <1>14, <1>15 DEF HeapInv, HeapInvAt, Frames

\* isolate_leftmost() goes down to the left.
LEMMA LeftmostDownKeeps == HeapInv /\ LeftmostDown => HeapInv'
<1> SUFFICES ASSUME HeapInv, LeftmostDown PROVE HeapInv'
  OBVIOUS
<1>0. PICK T, sub : HeapInvAt(T, sub)
  BY DEF HeapInv
<1> DEFINE f == [Top EXCEPT !.at = "l"]
           u == << Cur, "l" >>
           g == Frame("leftmost", u, "enter")
<1>1. /\ up /\ stack # << >> /\ Top.fn = "leftmost" /\ Top.at = "enter" /\ Filled
      /\ stack' = << g, f >> \o Tail(stack) /\ child[u] # NULL
      /\ UNCHANGED child /\ UNCHANGED el /\ UNCHANGED alloc /\ UNCHANGED low
      /\ UNCHANGED up /\ UNCHANGED call
  BY DEF HeapInv, LeftmostDown, At, rest, memory, Kid, Enter
<1>2. /\ Shape(child, el, T, sub) /\ Stacked(stack, child, T, sub) /\ Moving(T, sub)
      /\ Searching(T, sub) /\ Metadata(T) /\ Owned(T, sub)
  BY <1>0, <1>1 DEF HeapInvAt
<1>3. /\ Top \in Frames /\ FrameOK(Top, child, T) /\ Top.slot \in Slots(T)
      /\ On(stack) = {Top} \cup Lower
  BY <1>1, <1>2, Running
<1>4. Cur # NULL /\ Cur \in T /\ T \subseteq Addr
  BY <1>1, <1>2, <1>3, SlotAt DEF FrameOK, Cur, Shape
<1>5. f \in Frames /\ f.fn = "leftmost" /\ f.slot = Top.slot /\ f.at = "l"
  BY <1>1, <1>3 DEF Frames, Labels
<1>6. g \in Frames /\ g.fn = "leftmost" /\ g.slot = u /\ g.at = "enter" /\ u = << child[f.slot], "l" >>
  BY <1>4, <1>5 DEF Frames, Frame, Labels, Slot, Fns, Cur
<1>7. u = << Cur, "l" >>
  OBVIOUS
<1> HIDE DEF f, g, u
<1>8. FrameOK(f, child, T)
  BY <1>1, <1>3, <1>4, <1>5 DEF FrameOK, LabelOK, Cur, Walkers
<1>9. /\ Stacked(stack', child', T, sub) /\ stack' # << >> /\ stack' \in Seq(Frames)
      /\ On(stack') = {g, f} \cup Lower /\ (Dying' <=> Dying) /\ Top' = g
  <2>1. g.slot = Field(f, child)
    BY <1>5, <1>6 DEF Field
  <2> QED BY <1>1, <1>2, <1>5, <1>6, <1>8, <2>1, EnterStack DEF Walkers, Sides
<1>10. Owned(T, sub)'
  <2>1. ~Dying
    BY <1>1, <1>2, Walking DEF Walkers
  <2> QED BY <1>1, <1>2, <1>9, <2>1 DEF Owned
<1>11. low = NULL
  BY <1>1, <1>2 DEF Moving
<1>12. Moving(T, sub)'
  <2>1. ~((Top'.fn = "leftmost" /\ Top'.at = "l") \/ Top'.at = "replace")
    BY <1>6, <1>9
  <2>2. ASSUME NEW h \in On(stack'), h.at = "replace", NEW t, t = << child[h.slot], "r" >>,
               NEW x \in sub[t], NEW y \in sub[u], x \notin sub[u]
        PROVE  el[y].hash < el[x].hash
    <3>1. h \in Lower /\ h \in On(stack)
      BY <1>3, <1>5, <1>6, <1>9, <2>2
    <3>2. \A z \in sub[t], w \in sub[Top.slot] : z \notin sub[Top.slot] => el[w].hash < el[z].hash
      BY <1>2, <1>11, <2>2, <3>1 DEF Moving
    <3>3. /\ sub[Top.slot] = {Cur} \cup sub[u] \cup sub[<< Cur, "r" >>]
          /\ u \in Slots(T) /\ << Cur, "r" >> \in Slots(T)
      BY <1>2, <1>3, <1>4, <1>7, NodeAt DEF Cur, Slots, Sides
    <3>4. /\ y \in T /\ el[y].hash \in Nat /\ el[Cur].hash \in Nat
          /\ el[y].hash < el[Cur].hash
      BY <1>2, <1>4, <1>7, <3>3 DEF Shape, Sides, Sided
    <3>5. CASE x \in sub[Top.slot]
      <4>1. x \in sub[<< Cur, "r" >>] => el[x].hash > el[Cur].hash /\ el[x].hash \in Nat
        BY <1>2, <1>4, <3>3 DEF Shape, Sides, Sided
      <4> QED BY <2>2, <3>3, <3>4, <3>5, <4>1
    <3> QED BY <3>2, <3>3, <3>5
  <2> QED BY <1>1, <1>6, <1>9, <1>11, <2>1, <2>2 DEF Moving
<1>13. Searching(T, sub)'
  BY <1>1, <1>2, <1>6, <1>9, SearchOn DEF Walkers
<1>14. Metadata(T)'
  <2>1. ~Waits(Top)
    BY <1>1 DEF Waits
  <2>2. Pending \subseteq Pending'
    BY <1>1, <1>2, <1>9, <2>1, StillPending DEF Walkers
  <2> QED BY <1>1, <1>2, <2>2 DEF Metadata
<1>15. Filled'
  BY <1>1 DEF Filled
<1> QED BY <1>1, <1>2, <1>9, <1>10, <1>12, <1>13, <1>14, <1>15 DEF HeapInv, HeapInvAt, Frames

\* The other nodes stay exact: what the step changes hangs in the slot of the running
\* function, whose node waits.
LEMMA OthersExact ==
  ASSUME NEW T, NEW sub, Shape(child, el, T, sub), Stacked(stack, child, T, sub), Metadata(T),
         stack # << >>, Top.fn \in Updaters, stack' \in Seq(Frames), Lower \subseteq On(stack'),
         \A g \in Lower : g.fn # "avl" => child'[g.slot] = child[g.slot],
         NEW a \in T \ Pending', ~Waits(Top) \/ a # Cur, el'[a] = el[a],
         \A s \in Sides : << a, s >> # Top.slot =>
            /\ child'[<< a, s >>] = child[<< a, s >>]
            /\ child[<< a, s >>] # NULL => el'[child[<< a, s >>]] = el[child[<< a, s >>]]
  PROVE  Exact(child', el', a)
<1>1. /\ Pending \subseteq Pending' \cup (IF Waits(Top) THEN {Cur} ELSE {})
      /\ \A g \in Lower : Waits(g) => child[g.slot] \in Pending'
  BY StillPending DEF Updaters, Walkers
<1>2. Exact(child, el, a)
  BY <1>1 DEF Metadata
<1>3. \A s \in Sides : << a, s >> # Top.slot
  <2>1. \A s \in Sides : Top.slot = << a, s >> => \E g \in Lower : Waits(g) /\ child[g.slot] = a
    BY ParentWaits
  <2> QED BY <1>1, <2>1
<1> QED BY <1>2, <1>3, ExactKept

\* The node n of the running function, with nothing on its side opposite to x, has been
\* cut out of the tree; the callers stay where they are.
CutOut(T, sub, n, x) ==
  /\ \E sub2 : /\ \A t \in Slots(T) : sub2[t] = sub[t] \ {n}
              /\ Shape(child', el, T \ {n}, sub2) /\ Steady(T, sub, T \ {n}, sub2)
  /\ Top.slot \in Slots(T) /\ n \in T /\ n \in sub[Top.slot]
  /\ sub[Top.slot] = {n} \cup sub[<< n, x >>]
  /\ child' \in [Slot -> Addr \cup {NULL}] /\ Slots(T \ {n}) \subseteq Slots(T)
  /\ \A t \in Slots(T) : child'[t] = IF t = Top.slot THEN child[<< n, x >>] ELSE child[t]

\* Nothing changes for the callers when a node below all of them is cut out.
LEMMA CutSteady ==
  ASSUME Filled, NEW T, NEW sub, Shape(child, el, T, sub), Stacked(stack, child, T, sub),
         stack # << >>, Top.fn \in Walkers, NEW n, n = Cur, n # NULL,
         NEW x \in Sides, child[<< n, Opp(x) >>] = NULL,
         child' = [child EXCEPT ![Top.slot] = child[<< n, x >>]]
  PROVE  CutOut(T, sub, n, x)
<1> DEFINE U    == T \ {n}
           sub2 == [t \in Slots(T) |-> sub[t] \ {n}]
<1>0. \A t \in Slots(T) : sub2[t] = sub[t] \ {n}
  OBVIOUS
<1>1. Top.slot \in Slots(T)
  BY Running
<1>2. /\ n \in T /\ n \in sub[Top.slot] /\ T \subseteq Addr
      /\ sub[Top.slot] = {n} \cup sub[<< n, "l" >>] \cup sub[<< n, "r" >>]
  <2>1. n = child[Top.slot]
    BY DEF Cur
  <2>2. /\ n \in T /\ n \in sub[Top.slot]
        /\ sub[Top.slot] = {n} \cup sub[<< n, "l" >>] \cup sub[<< n, "r" >>]
    BY ONLY <1>1, <2>1, Shape(child, el, T, sub), n # NULL, NodeAt
  <2> QED BY <2>2 DEF Shape
<1>3. Slots(T) \subseteq Slot /\ DOMAIN child = Slot /\ child \in [Slot -> Addr \cup {NULL}]
  BY <1>2 DEF Slots, Slot, Sides, Filled
<1>4. Shape(child', el, U, sub2)
  <2>1. n = child[Top.slot] /\ Slots(T) \subseteq DOMAIN child
    BY <1>3 DEF Cur
  <2>2. Shape([child EXCEPT ![Top.slot] = child[<< n, x >>]], el, T \ {n},
              [t \in Slots(T) |-> sub[t] \ {n}])
    BY ONLY <1>1, <2>1, Shape(child, el, T, sub), n # NULL, x \in Sides,
            child[<< n, Opp(x) >>] = NULL, Cut
  <2> QED BY <2>2
<1> HIDE DEF sub2
<1>5. \A t \in Slots(T) : child'[t] = IF t = Top.slot THEN child[<< n, x >>] ELSE child[t]
  BY <1>3
<1>6. child' \in [Slot -> Addr \cup {NULL}]
  <2>1. << n, x >> \in Slot
    BY <1>2, <1>3 DEF Slots
  <2> QED BY <1>3, <2>1
<1>7. Slots(U) \subseteq Slots(T)
  BY DEF Slots
<1>8. sub[Top.slot] = {n} \cup sub[<< n, x >>]
  <2>1. << n, Opp(x) >> \in Slots(T) /\ {x, Opp(x)} = {"l", "r"}
    BY <1>2 DEF Slots, Sides, Opp
  <2>2. sub[<< n, Opp(x) >>] = {}
    BY <2>1, SlotAt
  <2> QED BY <1>2, <2>1, <2>2
<1>9. Steady(T, sub, U, sub2)
  <2>1. ASSUME NEW g \in Lower, g.fn # "avl"
        PROVE  g.slot \in Slots(U) /\ child'[g.slot] = child[g.slot]
    <3>1. g.slot \in Slots(T) /\ g.slot # Top.slot /\ g.slot[1] \notin sub[Top.slot]
      BY <2>1, Callers
    <3>2. g.slot \in Slots(U)
      BY <1>2, <3>1, SlotFacts DEF Slots
    <3> QED BY <1>5, <3>1, <3>2
  <2>2. \A t \in Slots(T) \cap Slots(U) : sub[t] \cap U \subseteq sub2[t]
    BY <1>0
  <2> QED BY <2>1, <2>2 DEF Steady
<1> QED BY <1>0, <1>1, <1>2, <1>4, <1>5, <1>6, <1>7, <1>8, <1>9 DEF CutOut

\* isolate_leftmost() cuts out the least node.
LEMMA LeftmostCutKeeps == HeapInv /\ LeftmostCut => HeapInv'
<1> SUFFICES ASSUME HeapInv, LeftmostCut PROVE HeapInv'
  OBVIOUS
<1>0. PICK T, sub : HeapInvAt(T, sub)
  BY DEF HeapInv
<1>a. PICK n, s : n = Cur /\ s = Top.slot
  OBVIOUS
<1> DEFINE U == T \ {n}
<1>1. /\ up /\ stack # << >> /\ Top.fn = "leftmost" /\ Top.at = "enter" /\ Filled
      /\ child[<< n, "l" >>] = NULL /\ low' = n /\ Leave
      /\ child' = [child EXCEPT ![s] = child[<< n, "r" >>]]
      /\ UNCHANGED el /\ UNCHANGED alloc /\ UNCHANGED up /\ UNCHANGED call
  BY <1>a DEF HeapInv, LeftmostCut, At, rest, Kid
<1>2. /\ Shape(child, el, T, sub) /\ Stacked(stack, child, T, sub) /\ Moving(T, sub)
      /\ Searching(T, sub) /\ Metadata(T)
  BY <1>0, <1>1 DEF HeapInvAt
<1>3. n # NULL /\ n = Cur
  <2>1. FrameOK(Top, child, T)
    BY <1>1, <1>2, Running
  <2> QED BY <1>1, <1>a, <2>1 DEF FrameOK, Cur
<1>5. s = Top.slot
  BY <1>a
<1> HIDE DEF U
<1>b. U = T \ {n}
  BY DEF U
<1>c. PICK side \in Sides : side = "r" /\ Opp(side) = "l"
  BY DEF Sides, Opp
<1>d. /\ Filled /\ Shape(child, el, T, sub) /\ Stacked(stack, child, T, sub)
      /\ stack # << >> /\ Top.fn \in Walkers /\ n = Cur /\ n # NULL
      /\ side \in Sides /\ child[<< n, Opp(side) >>] = NULL
      /\ child' = [child EXCEPT ![Top.slot] = child[<< n, side >>]]
  BY <1>1, <1>2, <1>3, <1>5, <1>c DEF Walkers
<1>e. CutOut(T, sub, n, side)
  BY ONLY <1>d, CutSteady
<1>f. PICK sub2 : /\ \A t \in Slots(T) : sub2[t] = sub[t] \ {n}
                  /\ Shape(child', el, T \ {n}, sub2) /\ Steady(T, sub, T \ {n}, sub2)
  BY <1>e DEF CutOut
<1>4. U = T \ {n} /\ \A t \in Slots(T) : sub2[t] = sub[t] \ {n}
  BY <1>b, <1>f
<1>6. /\ Shape(child', el, U, sub2) /\ Steady(T, sub, U, sub2)
      /\ s \in Slots(T) /\ n \in T /\ n \in sub[s] /\ sub[s] = {n} \cup sub[<< n, "r" >>]
      /\ child' \in [Slot -> Addr \cup {NULL}] /\ Slots(U) \subseteq Slots(T)
      /\ \A t \in Slots(T) : child'[t] = IF t = s THEN child[<< n, "r" >>] ELSE child[t]
  BY <1>5, <1>b, <1>c, <1>e, <1>f DEF CutOut
<1>7. Shape(child', el', U, sub2)
  BY <1>1, <1>6
<1>8. /\ Stacked(stack', child', U, sub2) /\ stack' # << >> /\ stack' \in Seq(Frames)
      /\ On(stack') = Lower /\ (Dying' <=> Dying) /\ Top' = stack[2]
  BY <1>1, <1>2, <1>6, <1>7, LeaveStack DEF Walkers
<1>9. low = NULL /\ ~Dying /\ alloc = T /\ T \subseteq Addr
  <2>1. low = NULL
    BY <1>1, <1>2 DEF Moving
  <2>2. /\ Filled /\ HeapInvAt(T, sub) /\ up /\ stack # << >>
        /\ Top.fn \in Walkers \ {"destroy"}
    BY <1>0, <1>1 DEF Walkers
  <2>3. /\ ~Dying /\ alloc = T \cup ({low} \ {NULL}) /\ T \subseteq Addr
        /\ NULL \notin T
    BY ONLY <2>2, TreeNodes
  <2> QED BY <2>1, <2>3
<1>10. Owned(U, sub2)'
  <2>1. alloc' = U \cup ({low'} \ {NULL}) /\ low' \notin U
    BY <1>1, <1>3, <1>4, <1>6, <1>9
  <2> QED BY <1>8, <1>9, <2>1 DEF Owned
<1>11. /\ stack[2] \in Lower
       /\ (stack[2].fn = "leftmost" /\ stack[2].at = "l") \/ stack[2].at = "replace"
       /\ stack[2].fn \in {"leftmost", "remove", "ndel"}
  <2>1. /\ stack[2] \in Lower
        /\ \/ stack[2].fn = "leftmost" /\ stack[2].at \in Sides
           \/ stack[2].at = "replace" /\ stack[2].fn \in {"remove", "ndel"}
    BY <1>1, <1>2, Walking DEF Walkers
  <2>2. stack \in Seq(Frames)
    BY <1>1, <1>2, Running
  <2>3. \E j \in 2 .. Len(stack) : stack[2] = stack[j]
    BY <1>1, <2>1, <2>2, TailOn DEF Lower
  <2>4. LabelOK(stack[2].fn, stack[2].at)
    BY <1>2, <2>2, <2>3 DEF Stacked, FrameOK
  <2> QED BY <2>1, <2>4 DEF LabelOK, Sides
<1>12. Moving(U, sub2)'
  <2>1. low' # NULL /\ ((Top'.fn = "leftmost" /\ Top'.at = "l") \/ Top'.at = "replace")
    BY <1>1, <1>3, <1>8, <1>11
  <2>2. ASSUME NEW f \in Lower, f.at = "replace", NEW t, t = << child'[f.slot], "r" >>
        PROVE  /\ Fits(el, U, sub2, t, el[n].hash)
               /\ \A x \in sub2[t] : el[x].hash > el[n].hash
    <3>1. f.fn # "avl"
      BY <1>1, <1>2, <2>2, Walking DEF Walkers
    <3>2. t = Field(f, child)
      BY <1>6, <2>2, <3>1 DEF Steady, Field
    <3>3. t \in Slots(T) /\ sub[s] \subseteq sub[t] /\ n \in sub[t]
      BY <1>1, <1>2, <1>5, <1>6, <2>2, <3>1, <3>2, Callers
    <3>4. f \in On(stack) /\ t = << child[f.slot], "r" >>
      BY <1>1, <1>2, <2>2, <3>2, Running DEF Field
    <3>5. ASSUME NEW x \in sub2[t]
          PROVE  el[x].hash > el[n].hash
      <4>1. x \in sub[t] /\ x # n /\ x \in T /\ el[x].hash \in Nat /\ el[n].hash \in Nat
        BY <1>2, <1>4, <1>6, <3>3 DEF Shape
      <4>2. CASE x \in sub[s]
        <5>1. x \in sub[<< n, "r" >>]
          BY <1>6, <4>1, <4>2
        <5> QED BY <1>2, <1>6, <5>1 DEF Shape, Sides, Sided
      <4>3. CASE x \notin sub[s]
        BY <1>2, <1>5, <1>6, <1>9, <2>2, <3>4, <4>1, <4>3 DEF Moving
      <4> QED BY <4>2, <4>3
    <3>6. ASSUME NEW b \in U, NEW y \in Sides, Under(sub2, t, << b, y >>)
          PROVE  Sided(el, n, y, el[b].hash)
      <4>1. b \in T /\ << b, y >> \in Slots(T)
        BY <1>4 DEF Slots
      <4>2. Under(sub, t, << b, y >>)
        BY <1>4, <3>6, <4>1 DEF Under
      <4>3. n \in sub[<< b, y >>]
        BY <1>2, <3>3, <4>1, <4>2, UnderSub
      <4> QED BY <1>2, <4>1, <4>3 DEF Shape
    <3>7. Fits(el, U, sub2, t, el[n].hash)
      <4>1. \A b \in U : el[b].hash \in Nat /\ el[n].hash \in Nat
        BY <1>2, <1>4, <1>6 DEF Shape
      <4> QED BY <3>6, <4>1 DEF Fits, Sided, Sides
    <3> QED BY <3>5, <3>7
  <2> QED BY <1>1, <1>8, <2>1, <2>2 DEF Moving
<1>13. Searching(U, sub2)'
  BY <1>1, <1>2, <1>8, <1>11, SearchOn DEF Walkers
<1>14. Metadata(U)'
  <2>1. ASSUME NEW a \in U \ Pending'
        PROVE  Exact(child', el', a)
    <3>1. \A q \in Sides : << a, q >> # s => child'[<< a, q >>] = child[<< a, q >>]
      BY <1>4, <1>6 DEF Slots
    <3>2. ~Waits(Top) /\ a \in T /\ Top.fn \in Updaters
      BY <1>1, <1>4 DEF Waits, Updaters
    <3>3. \A g \in Lower : g.fn # "avl" => child'[g.slot] = child[g.slot]
      BY <1>6 DEF Steady
    <3> QED BY <1>1, <1>2, <1>5, <1>8, <2>1, <3>1, <3>2, <3>3, OthersExact
  <2> QED BY <2>1 DEF Metadata
<1>15. Filled'
  BY <1>1, <1>6, <1>9 DEF Filled
<1> QED BY <1>1, <1>7, <1>8, <1>10, <1>12, <1>13, <1>14, <1>15 DEF HeapInv, HeapInvAt, Frames

\* The fields f differ from e in node k only, which keeps its list and its hash and is
\* exact.
Refreshed(c, e, f, k) ==
  /\ DOMAIN f = Addr /\ \A b \in Addr \ {k} : f[b] = e[b]
  /\ Linked(f, k) /\ f[k].ll = e[k].ll /\ f[k].hash = e[k].hash
  /\ Exact(c, f, k)

\* regen_metadata() of a node whose children have metadata.
LEMMA RefreshOne ==
  ASSUME NEW c, NEW e, DOMAIN e = Addr, NEW k \in Addr,
         e[k] \in Node, e[k].hash \in Range(hashf),
         \A s \in Sides : /\ c[<< k, s >>] \in (Addr \ {k}) \cup {NULL}
                          /\ c[<< k, s >>] # NULL => Linked(e, c[<< k, s >>]),
         NEW f, f = regen_metadata(e, c, k)
  PROVE  Refreshed(c, e, f, k)
<1>1. /\ DOMAIN f = Addr /\ \A b \in Addr \ {k} : f[b] = e[b]
      /\ Linked(f, k) /\ f[k].ll = e[k].ll /\ f[k].hash = e[k].hash
  BY RegenExact
<1>2. Exact(c, f, k)
  BY RegenExact
<1> QED BY <1>1, <1>2 DEF Refreshed

\* regen_metadata() of a node of the tree leaves the tree as it is.
LEMMA RefreshIn ==
  ASSUME NEW c, NEW e, NEW U, NEW sub, Shape(c, e, U, sub), DOMAIN e = Addr,
         \A a \in U : Linked(e, a), NEW k \in U, NEW f, f = regen_metadata(e, c, k)
  PROVE  Refreshed(c, e, f, k) /\ Shape(c, f, U, sub)
<1>1. U \subseteq Addr
  BY DEF Shape
<1>2. \A s \in Sides : c[<< k, s >>] \in (U \ {k}) \cup {NULL}
  BY KidsOf
<1>3. /\ e[k] \in Node /\ e[k].hash \in Range(hashf)
      /\ \A s \in Sides : /\ c[<< k, s >>] \in (Addr \ {k}) \cup {NULL}
                          /\ c[<< k, s >>] # NULL => Linked(e, c[<< k, s >>])
  BY <1>1, <1>2 DEF Linked
<1>4. Refreshed(c, e, f, k)
  BY <1>1, <1>3, RefreshOne
<1>5. Shape(c, f, U, sub)
  <2>1. \A a \in U : f[a].hash = e[a].hash
    BY <1>1, <1>4 DEF Refreshed
  <2> QED BY <2>1, Rehash
<1> QED BY <1>4, <1>5

\* A node with at most one child is cut out and freed.
LEMMA CutEasyKeeps == HeapInv /\ CutEasy => HeapInv'
<1> SUFFICES ASSUME HeapInv, CutEasy PROVE HeapInv'
  OBVIOUS
<1>0. PICK T, sub : HeapInvAt(T, sub)
  BY DEF HeapInv
<1>a. PICK n, k : n = Cur /\ k = OnlyKid
  OBVIOUS
<1> DEFINE U == T \ {n}
<1>1. /\ up /\ stack # << >> /\ Top.fn \in {"remove", "ndel"} /\ Top.at = "cut" /\ Filled
      /\ child' = [child EXCEPT ![Top.slot] = k] /\ Leave
      /\ el' = IF k = NULL THEN el ELSE regen_metadata(el, child', k)
      /\ alloc' = alloc \ {n} /\ UNCHANGED low /\ UNCHANGED up /\ UNCHANGED call
  BY <1>a DEF HeapInv, CutEasy, At, rest
<1>b. PICK x \in Sides : child[<< n, Opp(x) >>] = NULL /\ child[<< n, x >>] = k
  BY <1>a DEF Sides, Opp, CutEasy, OnlyKid, Kid
<1>2. /\ Shape(child, el, T, sub) /\ Stacked(stack, child, T, sub) /\ Moving(T, sub)
      /\ Searching(T, sub) /\ Metadata(T)
  BY <1>0, <1>1 DEF HeapInvAt
<1>3. n # NULL
  BY <1>a, <1>1, <1>2, Running DEF FrameOK, Cur
<1>4. low = NULL /\ ~Dying /\ alloc = T /\ T \subseteq Addr /\ NULL \notin T
  <2>1. low = NULL
    BY <1>1, <1>2, NotMoving DEF Walkers
  <2>2. /\ Filled /\ HeapInvAt(T, sub) /\ up /\ stack # << >>
        /\ Top.fn \in Walkers \ {"destroy"}
    BY <1>0, <1>1 DEF Walkers
  <2>3. /\ ~Dying /\ alloc = T \cup ({low} \ {NULL}) /\ T \subseteq Addr
        /\ NULL \notin T
    BY ONLY <2>2, TreeNodes
  <2> QED BY <2>1, <2>3
<1>5. CutOut(T, sub, n, x)
  <2>1. /\ Filled /\ Shape(child, el, T, sub) /\ Stacked(stack, child, T, sub)
        /\ stack # << >> /\ Top.fn \in Walkers /\ n = Cur /\ n # NULL
        /\ x \in Sides /\ child[<< n, Opp(x) >>] = NULL
        /\ child' = [child EXCEPT ![Top.slot] = child[<< n, x >>]]
    BY <1>a, <1>b, <1>1, <1>2, <1>3 DEF Walkers
  <2> QED BY ONLY <2>1, CutSteady
<1>6. PICK sub2 : Shape(child', el, T \ {n}, sub2) /\ Steady(T, sub, T \ {n}, sub2)
  BY <1>5 DEF CutOut
<1>7. /\ Shape(child', el, U, sub2) /\ Steady(T, sub, U, sub2)
  BY <1>6
<1> HIDE DEF U
<1>8. /\ Top.slot \in Slots(T) /\ n \in T /\ U \subseteq T /\ n \notin U
      /\ child' \in [Slot -> Addr \cup {NULL}] /\ Slots(U) \subseteq Slots(T)
      /\ \A t \in Slots(T) : child'[t] = IF t = Top.slot THEN k ELSE child[t]
      /\ << n, x >> \in Slots(T) /\ U = T \ {n}
  BY <1>5, <1>b DEF CutOut, U, Slots
<1>9. k # NULL => k \in U
  <2>1. Top.slot \in Slots(U)
    <3>1. Top.slot[1] \notin sub[Top.slot] /\ n \in sub[Top.slot]
      BY <1>2, <1>5, OwnerNotBelow DEF CutOut
    <3> QED BY <1>4, <1>8, <3>1, SlotFacts DEF Slots
  <2>2. child'[Top.slot] = k
    BY <1>8
  <2> QED BY <1>7, <2>1, <2>2, SlotAt
<1>10. k # NULL => Refreshed(child', el, el', k) /\ Shape(child', el', U, sub2)
  <2>1. \A a \in U : Linked(el, a)
    BY <1>1, <1>4, <1>8 DEF Filled
  <2> QED BY <1>1, <1>7, <1>9, <2>1, RefreshIn DEF Filled
<1>11. Shape(child', el', U, sub2)
  BY <1>1, <1>7, <1>10
<1>12. /\ Stacked(stack', child', U, sub2) /\ stack' # << >> /\ stack' \in Seq(Frames)
       /\ On(stack') = Lower /\ (Dying' <=> Dying) /\ Top' = stack[2]
  BY <1>1, <1>2, <1>7, <1>11, LeaveStack DEF Walkers
<1>13. stack[2] \in Lower /\ stack[2].fn \in {"avl", Top.fn}
  BY <1>1, <1>2, Walking DEF Walkers
<1>14. \A a \in Addr : a # k => el'[a] = el[a]
  BY <1>1, <1>10 DEF Refreshed
<1>15. Owned(T \ {n}, sub2)'
  BY <1>1, <1>4, <1>12 DEF Owned
<1>16. Moving(T \ {n}, sub2)'
  BY <1>1, <1>2, <1>12, <1>13, StillNotMoving DEF Walkers
<1>17. Searching(T \ {n}, sub2)'
  BY <1>1, <1>2, <1>12, <1>13, SearchOn DEF Walkers
<1>18. Metadata(T \ {n})'
  <2>1. ASSUME NEW a \in U \ Pending', a # k
        PROVE  Exact(child', el', a)
    <3>1. a \in T \ Pending' /\ a # Cur /\ el'[a] = el[a] /\ Top.fn \in Updaters
      BY <1>1, <1>a, <1>4, <1>8, <1>14, <2>1 DEF Updaters
    <3>2. \A g \in Lower : g.fn # "avl" => child'[g.slot] = child[g.slot]
      BY <1>7 DEF Steady
    <3>3. ASSUME NEW q \in Sides, << a, q >> # Top.slot
          PROVE  /\ child'[<< a, q >>] = child[<< a, q >>]
                 /\ child[<< a, q >>] # NULL => el'[child[<< a, q >>]] = el[child[<< a, q >>]]
      <4>1. << a, q >> \in Slots(T) /\ << a, q >> # << n, x >>
        BY <1>8, <2>1 DEF Slots
      <4>2. child[<< a, q >>] # NULL => child[<< a, q >>] \in T /\ child[<< a, q >>] # k
        BY <1>2, <1>8, <1>b, <4>1 DEF Shape
      <4> QED BY <1>4, <1>8, <1>14, <3>3, <4>1, <4>2
    <3> QED BY <1>1, <1>2, <1>12, <3>1, <3>2, <3>3, OthersExact
  <2>2. ASSUME NEW a \in U, a = k
        PROVE  Exact(child', el', a)
    BY <1>4, <1>8, <1>10, <2>2 DEF Refreshed
  <2> QED BY <2>1, <2>2 DEF Metadata, U
<1>19. Filled'
  <2>1. ASSUME NEW a \in alloc'
        PROVE  Linked(el', a) /\ el'[a].ll \in Seq(OfHash(el'[a].hash))
    <3>1. a \in Addr /\ Linked(el, a) /\ el[a].ll \in Seq(OfHash(el[a].hash))
      BY <1>1, <1>4, <2>1 DEF Filled
    <3>2. CASE a # k
      BY <1>14, <3>1, <3>2 DEF Linked
    <3>3. CASE a = k
      <4>1. k # NULL
        BY <3>1, <3>3, HeapAssumption
      <4> QED BY <1>10, <3>1, <3>3, <4>1 DEF Refreshed
    <3> QED BY <3>2, <3>3
  <2>2. DOMAIN el' = Addr
    BY <1>1, <1>10 DEF Refreshed, Filled
  <2> QED BY <1>1, <1>4, <1>8, <2>1, <2>2 DEF Filled
<1>20. up' /\ Shape(child', el', T \ {n}, sub2) /\ Stacked(stack', child', T \ {n}, sub2)
  BY <1>1, <1>11, <1>12 DEF U
<1> QED BY <1>12, <1>15, <1>16, <1>17, <1>18, <1>19, <1>20 DEF HeapInv, HeapInvAt, Frames

\* avl_ndel() has emptied a leaf: the tree is left without it, and the process is gone.
LEMMA CrashKeeps == HeapInv /\ CrashInDeleteIf => HeapInv'
<1> SUFFICES ASSUME HeapInv, CrashInDeleteIf PROVE HeapInv'
  OBVIOUS
<1>0. PICK T, sub : HeapInvAt(T, sub)
  BY DEF HeapInv
<1>a. PICK n : n = Cur
  OBVIOUS
<1>b. PICK x \in Sides : child[<< n, Opp(x) >>] = NULL /\ child[<< n, x >>] = NULL
  BY <1>a DEF Sides, Opp, CrashInDeleteIf, Kid
<1>1. /\ up /\ stack # << >> /\ Top.fn = "ndel" /\ Top.at = "cut" /\ Filled
      /\ child' = [child EXCEPT ![Top.slot] = child[<< n, x >>]]
      /\ alloc' = alloc \ {n} /\ UNCHANGED el /\ UNCHANGED low /\ up' = FALSE
      /\ UNCHANGED stack /\ UNCHANGED call
  BY <1>a, <1>b DEF HeapInv, CrashInDeleteIf, At, rest
<1>2. /\ Shape(child, el, T, sub) /\ Stacked(stack, child, T, sub) /\ Moving(T, sub)
  BY <1>0, <1>1 DEF HeapInvAt
<1>3. n # NULL
  BY <1>a, <1>1, <1>2, Running DEF FrameOK, Cur
<1>4. low = NULL /\ ~Dying /\ alloc = T /\ T \subseteq Addr /\ NULL \notin T
  <2>1. low = NULL
    BY <1>1, <1>2, NotMoving DEF Walkers
  <2>2. /\ Filled /\ HeapInvAt(T, sub) /\ up /\ stack # << >>
        /\ Top.fn \in Walkers \ {"destroy"}
    BY <1>0, <1>1 DEF Walkers
  <2>3. /\ ~Dying /\ alloc = T \cup ({low} \ {NULL}) /\ T \subseteq Addr
        /\ NULL \notin T
    BY ONLY <2>2, TreeNodes
  <2> QED BY <2>1, <2>3
<1>5. CutOut(T, sub, n, x)
  <2>1. /\ Filled /\ Shape(child, el, T, sub) /\ Stacked(stack, child, T, sub)
        /\ stack # << >> /\ Top.fn \in Walkers /\ n = Cur /\ n # NULL
        /\ x \in Sides /\ child[<< n, Opp(x) >>] = NULL
        /\ child' = [child EXCEPT ![Top.slot] = child[<< n, x >>]]
    BY <1>a, <1>b, <1>1, <1>2, <1>3 DEF Walkers
  <2> QED BY ONLY <2>1, CutSteady
<1>6. PICK sub2 : Shape(child', el, T \ {n}, sub2)
  BY <1>5 DEF CutOut
<1>7. Shape(child', el', T \ {n}, sub2)
  BY <1>1, <1>6
<1>8. Owned(T \ {n}, sub2)'
  <2>1. ~Dying'
    BY <1>1, <1>4 DEF Dying
  <2> QED BY <1>1, <1>4, <2>1 DEF Owned
<1>9. Filled'
  BY <1>1, <1>4, <1>5 DEF Filled, CutOut
<1>10. stack' \in Seq(Frames)
  BY <1>1, <1>2, Running
<1> QED BY <1>1, <1>7, <1>8, <1>9, <1>10 DEF HeapInv, HeapInvAt, Frames

-----------------------------------------------------------------------------
(* Putting a node in. *)

\* The node insert_element_into_tree() makes, before its metadata is regenerated.
LEMMA NewNode ==
  ASSUME NEW d \in Key, NEW nomem \in BOOLEAN, NEW new,
         new = [ll |-> ll_insert(<< >>, d, nomem).ll, hash |-> hashf[d], filter |-> {},
                height |-> 0, node_cnt |-> 0]
  PROVE  /\ new \in Node /\ new.hash = hashf[d] /\ new.hash \in Range(hashf) /\ new.hash \in Nat
         /\ new.ll \in Seq(OfHash(hashf[d]))
<1>1. hashf[d] \in Nat /\ hashf[d] \in Range(hashf)
  BY HeapAssumption DEF Range
<1> DEFINE l == ll_insert(<< >>, d, nomem).ll
<1>2. l \in Seq(OfHash(hashf[d]))
  <2>1. << >> \in Seq(OfHash(hashf[d])) /\ d \in OfHash(hashf[d])
    BY DEF OfHash
  <2> QED BY <2>1, ListsKeep
<1> HIDE DEF l
<1>3. l \in Seq(Key)
  <2>1. OfHash(hashf[d]) \subseteq Key
    BY DEF OfHash
  <2> QED BY <1>2, <2>1
<1> QED BY <1>1, <1>2, <1>3 DEF Node, l

\* A new node is hung into the empty slot that the search has reached.
LEMMA InsertNodeKeeps ==
  ASSUME NEW a \in Addr, NEW nomem \in BOOLEAN, HeapInv, InsertNode(a, nomem)
  PROVE  HeapInv'
<1>0. PICK T, sub : HeapInvAt(T, sub)
  BY DEF HeapInv
<1>a. PICK s, h, new :
        /\ s = Top.slot /\ h = Hash
        /\ new = [ll |-> ll_insert(<< >>, call.arg, nomem).ll, hash |-> h, filter |-> {},
                  height |-> 0, node_cnt |-> 0]
  OBVIOUS
<1>b. PICK e : e = [el EXCEPT ![a] = new]
  OBVIOUS
<1> DEFINE U    == T \cup {a}
           sub2 == [t \in Slots(U) |->
                      IF t[1] = a THEN {}
                      ELSE IF Under(sub, s, t) THEN sub[t] \cup {a} ELSE sub[t]]
<1>1. /\ up /\ stack # << >> /\ Top.fn = "insert" /\ Top.at = "enter" /\ Filled
      /\ child[s] = NULL /\ a \notin alloc
      /\ child' = [child EXCEPT ![s] = a, ![<< a, "l" >>] = NULL, ![<< a, "r" >>] = NULL]
      /\ el' = regen_metadata(e, child', a) /\ Leave
      /\ alloc' = alloc \cup {a} /\ UNCHANGED low /\ UNCHANGED up /\ UNCHANGED call
  BY <1>a, <1>b DEF HeapInv, InsertNode, At, rest, Cur
<1>2. /\ Shape(child, el, T, sub) /\ Stacked(stack, child, T, sub) /\ Moving(T, sub)
      /\ Searching(T, sub) /\ Metadata(T)
  BY <1>0, <1>1 DEF HeapInvAt
<1>3. low = NULL /\ ~Dying /\ alloc = T /\ T \subseteq Addr /\ NULL \notin T /\ a \notin T
  <2>1. low = NULL
    BY <1>1, <1>2, NotMoving DEF Walkers
  <2>2. ~Dying /\ alloc = T \cup ({low} \ {NULL}) /\ T \subseteq Addr /\ NULL \notin T
    BY <1>0, <1>1, TreeNodes DEF Walkers
  <2> QED BY <1>1, <2>1, <2>2
<1>4. call.arg \in Key /\ h = hashf[call.arg] /\ Fits(el, T, sub, s, h)
  BY <1>a, <1>1, <1>2 DEF Searching, Hash
<1>5. new \in Node /\ new.hash = h /\ h \in Range(hashf) /\ h \in Nat /\ new.ll \in Seq(OfHash(h))
  BY <1>a, <1>4, NewNode
<1>6. DOMAIN e = Addr /\ e[a] = new /\ \A b \in Addr \ {a} : e[b] = el[b]
  BY <1>b, <1>1 DEF Filled
<1>7. s \in Slots(T) /\ DOMAIN child = Slot /\ Slots(U) \subseteq Slot /\ Slots(T) \subseteq Slots(U)
  <2>1. s \in Slots(T)
    BY <1>a, <1>1, <1>2, Running
  <2> QED BY <1>1, <1>3, <2>1 DEF Filled, Slots, Slot, Sides
<1>8. Shape(child', e, U, sub2)
  <2>1. Shape(child, e, T, sub) /\ Fits(e, T, sub, s, e[a].hash) /\ e[a].hash \in Nat
    <3>1. \A b \in T : e[b].hash = el[b].hash
      BY <1>3, <1>6
    <3> QED BY <1>2, <1>4, <1>5, <1>6, <3>1, Rehash, FitsSame
  <2>2. a \in Addr \ T /\ Slots(T \cup {a}) \subseteq DOMAIN child /\ s \in Slots(T) /\ child[s] = NULL
    BY <1>1, <1>3, <1>7
  <2>3. Shape(HangMem(child, s, a), e, T \cup {a}, HangSub(T, sub, s, a))
    BY ONLY <2>1, <2>2, Hang
  <2> QED BY <1>1, <2>3 DEF HangMem, HangSub
<1>9. /\ \A t \in Slots(T) : t[1] # a /\ sub[t] \subseteq sub2[t]
      /\ U = T \cup {a}
  BY <1>3, <1>7, SlotFacts
<1>10. /\ child' \in [Slot -> Addr \cup {NULL}]
       /\ \A t \in Slots(T) : t # s => child'[t] = child[t]
       /\ \A y \in Sides : child'[<< a, y >>] = NULL
  <2>1. \A t \in Slots(T) : t # << a, "l" >> /\ t # << a, "r" >>
    BY <1>9
  <2>2. << a, "l" >> \in Slot /\ << a, "r" >> \in Slot /\ s \in Slot /\ Slots(T) \subseteq Slot
    BY <1>7 DEF Slot
  <2>3. child \in [Slot -> Addr \cup {NULL}]
    BY <1>1 DEF Filled
  <2>4. child' \in [Slot -> Addr \cup {NULL}]
    BY <1>1, <2>2, <2>3
  <2>5. \A t \in Slots(T) : t # s => child'[t] = child[t]
    BY <1>1, <1>7, <2>1, <2>2
  <2>6. \A y \in Sides : child'[<< a, y >>] = NULL
    BY <1>1, <1>7, <2>2 DEF Sides
  <2> QED BY <2>4, <2>5, <2>6
<1> HIDE DEF U, sub2
<1>11. Refreshed(child', e, el', a)
  <2>1. \A y \in Sides : /\ child'[<< a, y >>] \in (Addr \ {a}) \cup {NULL}
                         /\ child'[<< a, y >>] # NULL => Linked(e, child'[<< a, y >>])
    BY <1>10
  <2> QED BY <1>1, <1>5, <1>6, <2>1, RefreshOne
<1>12. Shape(child', el', U, sub2)
  <2>1. \A b \in U : el'[b].hash = e[b].hash
    BY <1>3, <1>9, <1>11 DEF Refreshed
  <2> QED BY <1>8, <2>1, Rehash
<1>13. Steady(T, sub, U, sub2)
  <2>1. ASSUME NEW g \in Lower, g.fn # "avl"
        PROVE  g.slot \in Slots(U) /\ child'[g.slot] = child[g.slot]
    <3>1. g.slot \in Slots(T) /\ g.slot # s
      BY <1>a, <1>1, <1>2, <2>1, Callers
    <3> QED BY <1>7, <1>10, <3>1 DEF U
  <2> QED BY <1>9, <2>1 DEF Steady
<1>14. /\ Stacked(stack', child', U, sub2) /\ stack' # << >> /\ stack' \in Seq(Frames)
       /\ On(stack') = Lower /\ (Dying' <=> Dying) /\ Top' = stack[2]
  BY <1>1, <1>2, <1>12, <1>13, LeaveStack DEF Walkers
<1>15. stack[2] \in Lower /\ stack[2].fn \in {"avl", "insert"} /\ stack[2].at # "enter"
  BY <1>1, <1>2, Walking DEF Walkers
<1>16. Owned(U, sub2)'
  <2>1. alloc' = U /\ low' = NULL /\ NULL \notin U
    BY <1>1, <1>3, <1>9, HeapAssumption
  <2> QED BY <1>3, <1>14, <2>1 DEF Owned
<1>17. Moving(U, sub2)'
  BY <1>1, <1>2, <1>14, <1>15, StillNotMoving DEF Walkers
<1>18. Searching(U, sub2)'
  BY <1>1, <1>2, <1>14, <1>15, SearchOn DEF Walkers
<1>19. Metadata(U)'
  <2>1. ASSUME NEW b \in T \ Pending'
        PROVE  Exact(child', el', b)
    <3>1. b # a /\ ~Waits(Top) /\ Top.fn \in Updaters
      BY <1>1, <1>3 DEF Waits, Updaters
    <3>2. \A d \in T : el'[d] = el[d]
      BY <1>3, <1>6, <1>11 DEF Refreshed
    <3>3. \A g \in Lower : g.fn # "avl" => child'[g.slot] = child[g.slot]
      BY <1>13 DEF Steady
    <3>4. ASSUME NEW q \in Sides, << b, q >> # Top.slot
          PROVE  /\ child'[<< b, q >>] = child[<< b, q >>]
                 /\ child[<< b, q >>] # NULL => el'[child[<< b, q >>]] = el[child[<< b, q >>]]
      <4>1. << b, q >> \in Slots(T)
        BY DEF Slots
      <4>2. child[<< b, q >>] # NULL => child[<< b, q >>] \in T
        BY <1>2, <4>1, SlotAt
      <4> QED BY <1>a, <1>10, <3>2, <3>4, <4>1, <4>2
    <3> QED BY <1>1, <1>2, <1>14, <2>1, <3>1, <3>2, <3>3, <3>4, OthersExact
  <2>2. Exact(child', el', a)
    BY <1>11 DEF Refreshed
  <2> QED BY <1>9, <2>1, <2>2 DEF Metadata
<1>20. Filled'
  <2>1. ASSUME NEW b \in alloc'
        PROVE  Linked(el', b) /\ el'[b].ll \in Seq(OfHash(el'[b].hash))
    <3>1. CASE b = a
      <4>1. el'[a].ll = new.ll /\ el'[a].hash = h
        BY <1>5, <1>6, <1>11 DEF Refreshed
      <4> QED BY <1>5, <1>11, <3>1, <4>1 DEF Refreshed
    <3>2. CASE b # a
      <4>1. b \in alloc /\ b \in Addr /\ el'[b] = el[b]
        BY <1>1, <1>6, <1>11, <2>1, <3>2 DEF Refreshed, Filled
      <4> QED BY <1>1, <4>1 DEF Filled, Linked
    <3> QED BY <3>1, <3>2
  <2> QED BY <1>1, <1>3, <1>10, <1>11, <2>1 DEF Filled, Refreshed
<1> QED BY <1>1, <1>12, <1>14, <1>16, <1>17, <1>18, <1>19, <1>20 DEF HeapInv, HeapInvAt, Frames

\* The node b has taken the place of the node n in slot s: the tree is U then, and the
\* callers stay where they are.
Replaced(T, sub, s, n, b, U, sub2) ==
  /\ s \in Slots(T) /\ Top \in On(stack) /\ n # NULL /\ n = child[s] /\ n \in T /\ n \in sub[s]
  /\ b # NULL /\ ~Dying /\ b \notin T /\ alloc = T \cup {b} /\ T \subseteq Addr /\ NULL \notin T
  /\ U \subseteq alloc /\ U = (T \ {n}) \cup {b}
  /\ child' \in [Slot -> Addr \cup {NULL}]
  /\ \A t \in Slots(T) : t # s => child'[t] = child[t]
  /\ Refreshed(child', el, el', b) /\ Shape(child', el', U, sub2)
  /\ Steady(T, sub, U, sub2) /\ \A t \in Slots(T) \cap Slots(U) : sub[t] \cap U \subseteq sub2[t]

\* avl_del_node() puts the leftmost node below on the right in place of its own.
LEMMA ReplaceShape ==
  ASSUME HeapInv, Replace, NEW T, NEW sub, HeapInvAt(T, sub),
         NEW s, s = Top.slot, NEW n, n = Cur, NEW b, b = low
  PROVE  \E U, sub2 : Replaced(T, sub, s, n, b, U, sub2)
<1> DEFINE U    == (T \ {n}) \cup {b}
           sub2 == SupplantSub(T, sub, n, b)
<1>a. s = Top.slot /\ n = Cur /\ b = low
  OBVIOUS
<1>0. HeapInvAt(T, sub)
  OBVIOUS
<1>1. /\ up /\ stack # << >> /\ Top.fn \in {"remove", "ndel"} /\ Top.at = "replace" /\ Filled
      /\ child' = SupplantMem(child, s, n, b)
      /\ el' = regen_metadata(el, child', b)
  BY <1>a DEF HeapInv, Replace, At, rest, Kid, SupplantMem
<1>2. /\ Shape(child, el, T, sub) /\ Stacked(stack, child, T, sub) /\ Moving(T, sub)
      /\ Searching(T, sub) /\ Metadata(T)
  BY <1>0, <1>1 DEF HeapInvAt
<1>3. /\ s \in Slots(T) /\ Top \in On(stack) /\ n # NULL /\ n = child[s]
      /\ n \in T /\ n \in sub[s]
  <2>1. s \in Slots(T) /\ Top \in On(stack) /\ FrameOK(Top, child, T)
    BY <1>a, <1>1, <1>2, Running
  <2>2. n = child[s] /\ n # NULL
    BY <1>a, <1>1, <2>1 DEF FrameOK, Cur
  <2> QED BY <1>2, <2>1, <2>2, SlotAt
<1>4. /\ b # NULL /\ Fits(el, T, sub, << n, "r" >>, el[b].hash)
      /\ \A x \in sub[<< n, "r" >>] : el[x].hash > el[b].hash
  <2>1. b # NULL
    BY <1>a, <1>1, <1>2 DEF Moving
  <2> QED BY <1>a, <1>1, <1>2, <1>3, <2>1 DEF Moving, Cur
<1>5. /\ ~Dying /\ b \notin T /\ alloc = T \cup {b} /\ T \subseteq Addr /\ NULL \notin T
      /\ b \in Addr
  <2>1. /\ ~Dying /\ low \notin T /\ alloc = T \cup ({low} \ {NULL}) /\ T \subseteq Addr
        /\ NULL \notin T
    BY <1>0, <1>1, TreeNodes DEF Walkers
  <2> QED BY <1>a, <1>1, <1>4, <2>1 DEF Filled
<1>6. \A a \in alloc : a \in Addr /\ Linked(el, a) /\ el[a].hash \in Nat
  BY <1>1 DEF Filled, Linked, Node
<1>7. /\ child \in [Slot -> Addr \cup {NULL}] /\ DOMAIN child = Slot /\ DOMAIN el = Addr
      /\ Slots(T \cup {b}) \subseteq Slot /\ Slots(U) \subseteq Slots(T \cup {b})
      /\ Slots(T) \subseteq Slots(T \cup {b}) /\ Slots(T \ {n}) \subseteq Slots(U)
      /\ U \subseteq alloc /\ U = (T \ {n}) \cup {b}
  BY <1>1, <1>5 DEF Filled, Slots, Slot, Sides
<1>8. Shape(child', el, U, sub2)
  <2>1. /\ Shape(child, el, T, sub) /\ s \in Slots(T) /\ n = child[s] /\ n # NULL
        /\ b \in Addr \ T /\ Slots(T \cup {b}) \subseteq DOMAIN child
        /\ el[b].hash \in Nat /\ Fits(el, T, sub, << n, "r" >>, el[b].hash)
        /\ \A x \in sub[<< n, "r" >>] : el[x].hash > el[b].hash
    BY <1>2, <1>3, <1>4, <1>5, <1>6, <1>7
  <2>2. Shape(SupplantMem(child, s, n, b), el, (T \ {n}) \cup {b}, SupplantSub(T, sub, n, b))
    BY ONLY <2>1, Supplant
  <2> QED BY <1>1, <2>2
<1>9. \A t \in Slots(T) : t[1] # b /\ \A y \in Sides : t # << b, y >>
  BY <1>4, <1>5, SlotFacts
<1>10. /\ child' \in [Slot -> Addr \cup {NULL}]
       /\ \A t \in Slots(T) : t # s => child'[t] = child[t]
  <2>1. << b, "l" >> \in Slot /\ << b, "r" >> \in Slot /\ s \in Slot
    BY <1>3, <1>5, <1>7 DEF Slot
  <2>2. << n, "l" >> \in Slot /\ << n, "r" >> \in Slot
    BY <1>3, <1>5 DEF Slot
  <2>3. child' \in [Slot -> Addr \cup {NULL}]
    BY <1>1, <1>5, <1>7, <2>1, <2>2 DEF SupplantMem
  <2>4. \A t \in Slots(T) : t # << b, "l" >> /\ t # << b, "r" >> /\ t \in Slot
    BY <1>7, <1>9 DEF Sides
  <2>5. \A t \in Slots(T) : t # s => child'[t] = child[t]
    BY <1>1, <1>7, <2>1, <2>4 DEF SupplantMem
  <2> QED BY <2>3, <2>5
<1>11. Refreshed(child', el, el', b) /\ Shape(child', el', U, sub2)
  <2>1. b \in U /\ \A a \in U : Linked(el, a)
    BY <1>6, <1>7
  <2> HIDE DEF U, sub2
  <2>2. Shape(child', el, U, sub2) /\ DOMAIN el = Addr /\ el' = regen_metadata(el, child', b)
    BY <1>1, <1>7, <1>8
  <2> QED BY ONLY <2>1, <2>2, RefreshIn
<1>12. Steady(T, sub, U, sub2) /\ \A t \in Slots(T) \cap Slots(U) : sub[t] \cap U \subseteq sub2[t]
  <2>1. ASSUME NEW g \in Lower, g.fn # "avl"
        PROVE  g.slot \in Slots(U) /\ child'[g.slot] = child[g.slot]
    <3>1. g.slot \in Slots(T) /\ g.slot # s /\ g.slot[1] \notin sub[s]
      BY <1>a, <1>1, <1>2, <2>1, Callers
    <3>2. g.slot \in Slots(T \ {n})
      BY <1>3, <1>5, <3>1, SlotFacts DEF Slots
    <3> QED BY <1>7, <1>10, <3>1, <3>2
  <2>2. ASSUME NEW t \in Slots(T) \cap Slots(U)
        PROVE  sub[t] \cap U \subseteq sub2[t]
    <3>1. sub2[t] = IF n \in sub[t] THEN (sub[t] \ {n}) \cup {b} ELSE sub[t]
      BY <1>9 DEF SupplantSub
    <3>2. n \notin U
      BY <1>3, <1>5
    <3> QED BY <3>1, <3>2
  <2> QED BY <2>1, <2>2 DEF Steady
<1> HIDE DEF U, sub2
<1>13. Replaced(T, sub, s, n, b, U, sub2)
  BY <1>3, <1>4, <1>5, <1>7, <1>10, <1>11, <1>12 DEF Replaced
<1> QED BY <1>13

\* The leftmost node of the right subtree takes the place of the node that is removed.
LEMMA ReplaceKeeps == HeapInv /\ Replace => HeapInv'
<1> SUFFICES ASSUME HeapInv, Replace PROVE HeapInv'
  OBVIOUS
<1>0. PICK T, sub : HeapInvAt(T, sub)
  BY DEF HeapInv
<1>a. PICK s, n, b : s = Top.slot /\ n = Cur /\ b = low
  OBVIOUS
<1>b. PICK U, sub2 : Replaced(T, sub, s, n, b, U, sub2)
  BY <1>0, <1>a, ReplaceShape
<1>1. /\ up /\ stack # << >> /\ Top.fn \in {"remove", "ndel"} /\ Top.at = "replace" /\ Filled
      /\ Leave /\ alloc' = alloc \ {n} /\ low' = NULL /\ UNCHANGED up /\ UNCHANGED call
  BY <1>a DEF HeapInv, Replace, At, rest
<1>2. /\ Shape(child, el, T, sub) /\ Stacked(stack, child, T, sub) /\ Moving(T, sub)
      /\ Searching(T, sub) /\ Metadata(T)
  BY <1>0, <1>1 DEF HeapInvAt
<1>3. /\ s \in Slots(T) /\ Top \in On(stack) /\ n # NULL /\ n = child[s]
      /\ n \in T /\ n \in sub[s]
  BY <1>b DEF Replaced
<1>4. b # NULL
  BY <1>b DEF Replaced
<1>5. /\ ~Dying /\ b \notin T /\ alloc = T \cup {b} /\ T \subseteq Addr /\ NULL \notin T
  BY <1>b DEF Replaced
<1>7. U \subseteq alloc /\ U = (T \ {n}) \cup {b}
  BY <1>b DEF Replaced
<1>10. /\ child' \in [Slot -> Addr \cup {NULL}]
       /\ \A t \in Slots(T) : t # s => child'[t] = child[t]
  BY <1>b DEF Replaced
<1>11. Refreshed(child', el, el', b) /\ Shape(child', el', U, sub2)
  BY <1>b DEF Replaced
<1>12. Steady(T, sub, U, sub2)
  BY <1>b DEF Replaced
<1>13. /\ Stacked(stack', child', U, sub2) /\ stack' # << >> /\ stack' \in Seq(Frames)
       /\ On(stack') = Lower /\ (Dying' <=> Dying) /\ Top' = stack[2]
  BY <1>1, <1>2, <1>11, <1>12, LeaveStack DEF Walkers
<1>14. stack[2] \in Lower /\ stack[2].fn \in {"avl", Top.fn} /\ stack[2].at # "enter"
  BY <1>1, <1>2, Walking DEF Walkers
<1>15. Owned(U, sub2)'
  <2>1. alloc' = U /\ low' = NULL /\ NULL \notin U
    BY <1>1, <1>3, <1>4, <1>5, <1>7
  <2> QED BY <1>5, <1>13, <2>1 DEF Owned
<1>16. Moving(U, sub2)'
  <2>1. \A g \in Lower : g.at # "replace"
    <3> TAKE g \in Lower
    <3>1. g.fn = "avl" => g.at # "replace"
      BY <1>1, <1>2, Walking DEF Walkers
    <3>2. g.fn # "avl" => g.at # "replace"
      BY <1>1, <1>2, Callers
    <3> QED BY <3>1, <3>2
  <2>2. Top'.at # "replace" /\ Top'.fn # "leftmost"
    BY <1>1, <1>13, <1>14, <2>1
  <2> QED BY <1>1, <1>13, <2>1, <2>2 DEF Moving
<1>17. Searching(U, sub2)'
  BY <1>1, <1>2, <1>13, <1>14, SearchOn DEF Walkers
<1>18. Metadata(U)'
  <2>1. ASSUME NEW a \in U \ Pending', a # b
        PROVE  Exact(child', el', a)
    <3>1. a \in T \ Pending' /\ a # Cur /\ Top.fn \in Updaters
      BY <1>a, <1>1, <1>7, <2>1 DEF Updaters
    <3>2. \A d \in T : el'[d] = el[d]
      BY <1>5, <1>11 DEF Refreshed
    <3>3. \A g \in Lower : g.fn # "avl" => child'[g.slot] = child[g.slot]
      BY <1>12 DEF Steady
    <3>4. ASSUME NEW q \in Sides, << a, q >> # Top.slot
          PROVE  /\ child'[<< a, q >>] = child[<< a, q >>]
                 /\ child[<< a, q >>] # NULL => el'[child[<< a, q >>]] = el[child[<< a, q >>]]
      <4>1. << a, q >> \in Slots(T)
        BY <3>1 DEF Slots
      <4>2. child[<< a, q >>] # NULL => child[<< a, q >>] \in T
        BY <1>2, <4>1, SlotAt
      <4> QED BY <1>a, <1>10, <3>2, <3>4, <4>1, <4>2
    <3> QED BY <1>1, <1>2, <1>13, <3>1, <3>2, <3>3, <3>4, OthersExact
  <2>2. Exact(child', el', b)
    BY <1>11 DEF Refreshed
  <2> QED BY <2>1, <2>2 DEF Metadata
<1>19. Filled'
  <2>1. ASSUME NEW a \in alloc'
        PROVE  Linked(el', a) /\ el'[a].ll \in Seq(OfHash(el'[a].hash))
    <3>1. a \in alloc /\ a \in Addr /\ Linked(el, a) /\ el[a].ll \in Seq(OfHash(el[a].hash))
      BY <1>1, <2>1 DEF Filled
    <3>2. CASE a = b
      BY <1>11, <3>1, <3>2 DEF Refreshed
    <3>3. CASE a # b
      <4>1. el'[a] = el[a]
        BY <1>11, <3>1, <3>3 DEF Refreshed
      <4> QED BY <3>1, <4>1 DEF Linked
    <3> QED BY <3>2, <3>3
  <2>2. alloc' \subseteq Addr /\ DOMAIN el' = Addr /\ up' \in BOOLEAN
    BY <1>1, <1>11 DEF Refreshed, Filled
  <2> QED BY <1>1, <1>10, <2>1, <2>2 DEF Filled
<1> QED BY <1>1, <1>11, <1>13, <1>15, <1>16, <1>17, <1>18, <1>19 DEF HeapInv, HeapInvAt, Frames

-----------------------------------------------------------------------------
(* Rotations. *)

\* A step that changes nothing of the tree and of the call.
LEMMA SameKeeps ==
  ASSUME HeapInv, UNCHANGED << memory, stack, ret, low, call, up >>
  PROVE  HeapInv'
<1>1. /\ child' = child /\ el' = el /\ alloc' = alloc /\ stack' = stack /\ ret' = ret
      /\ low' = low /\ call' = call /\ up' = up
  BY DEF memory
<1>2. PICK T, sub : HeapInvAt(T, sub)
  BY DEF HeapInv
<1>3. Filled' /\ stack' \in Seq(Frames)
  BY <1>1 DEF HeapInv, Filled, Frames
<1>4. Top' = Top /\ Hash' = Hash /\ (Dying' <=> Dying) /\ Pending' = Pending
  BY <1>1 DEF Top, Hash, Dying, Pending
<1>5. Owned(T, sub)'
  BY <1>1, <1>2, <1>4 DEF HeapInvAt, Owned, ToFree
<1>6. ASSUME up
      PROVE  Moving(T, sub)' /\ Metadata(T)' /\ Searching(T, sub)'
  <2>1. Moving(T, sub)'
    BY <1>1, <1>2, <1>4, <1>6 DEF HeapInvAt, Moving
  <2>2. Metadata(T)'
    BY <1>1, <1>2, <1>4, <1>6 DEF HeapInvAt, Metadata
  <2>3. Searching(T, sub)'
    BY <1>1, <1>2, <1>4, <1>6 DEF HeapInvAt, Searching, FoundExactly
  <2> QED BY <2>1, <2>2, <2>3
<1>7. Shape(child', el', T, sub) /\ (up => Stacked(stack', child', T, sub))
  BY <1>1, <1>2 DEF HeapInvAt
<1> QED BY <1>1, <1>3, <1>5, <1>6, <1>7 DEF HeapInv, HeapInvAt, Frames

\* While the tree is rebalanced no node waits for its metadata.
LEMMA NonePending ==
  ASSUME NEW T, NEW sub, Shape(child, el, T, sub), Stacked(stack, child, T, sub),
         stack # << >>, Top.fn = "rebalance"
  PROVE  Pending = {}
<1>1. /\ Top.fn \in Callees(stack[Len(stack)])
      /\ \A g \in Lower : g.fn \in Callees(stack[Len(stack)]) \cup {"avl"}
  BY Walking DEF Walkers
<1>2. Callees(stack[Len(stack)]) = {"rebalance"}
  BY <1>1 DEF Callees
<1>3. stack \in Seq(Frames) /\ On(stack) = {Top} \cup Lower
  BY Running
<1>4. \A f \in On(stack) : ~Waits(f)
  BY <1>1, <1>2, <1>3 DEF Waits
<1> QED BY <1>3, <1>4, PendingOn DEF Waiting

\* The count and the filter of an exact node, its children named in either order.
LEMMA BothSides ==
  ASSUME NEW c, NEW e, NEW a, Exact(c, e, a), NEW x \in Sides,
         NEW k, k = c[<< a, x >>], NEW j, j = c[<< a, Opp(x) >>],
         avl_node_cnt(e, k) \in Nat, avl_node_cnt(e, j) \in Nat
  PROVE  /\ e[a].node_cnt = 1 + avl_node_cnt(e, k) + avl_node_cnt(e, j)
         /\ e[a].filter = HashFilter[e[a].hash] \cup Filter(e, k) \cup Filter(e, j)
<1>1. \/ k = c[<< a, "l" >>] /\ j = c[<< a, "r" >>]
      \/ k = c[<< a, "r" >>] /\ j = c[<< a, "l" >>]
  BY DEF Sides, Opp
<1> QED BY <1>1 DEF Exact

\* The count of a subtree is a number.
LEMMA Counts ==
  ASSUME NEW e, NEW k, k # NULL => Linked(e, k)
  PROVE  avl_node_cnt(e, k) \in Nat
BY DEF Linked, Node, avl_node_cnt

\* The links round a rotation, before (c) and after it (d).
Links(c, d, n, m, x, k, k2, n2) ==
  /\ m # NULL /\ n # NULL /\ m = c[<< n, x >>]
  /\ k = c[<< m, Opp(x) >>] /\ k2 = c[<< m, x >>] /\ n2 = c[<< n, Opp(x) >>]
  /\ d[<< n, x >>] = k /\ d[<< n, Opp(x) >>] = n2
  /\ d[<< m, x >>] = k2 /\ d[<< m, Opp(x) >>] = n

\* The metadata round a rotation, before (e) and after it (f).
Totals(c, d, e, f, n, m, k, k2, n2) ==
  /\ Exact(c, e, n) /\ Exact(c, e, m) /\ Exact(d, f, n) /\ Exact(d, f, m)
  /\ \A a \in {n, m, k, k2, n2} : a # NULL => Linked(e, a) /\ Linked(f, a)
  /\ \A a \in {k, k2, n2} : a # NULL => f[a] = e[a]
  /\ f[n].hash = e[n].hash /\ f[m].hash = e[m].hash

\* A rotation keeps the count and the filter of the whole subtree: they are computed
\* anew for the node n that goes down, and then for its child m that comes up.
LEMMA SameTotals ==
  ASSUME NEW c, NEW d, NEW e, NEW f, NEW n, NEW m, NEW x \in Sides, NEW k, NEW k2, NEW n2,
         Links(c, d, n, m, x, k, k2, n2), Totals(c, d, e, f, n, m, k, k2, n2)
  PROVE  f[m].node_cnt = e[n].node_cnt /\ f[m].filter = e[n].filter
<1>1. /\ avl_node_cnt(e, m) = e[m].node_cnt /\ Filter(e, m) = e[m].filter
      /\ avl_node_cnt(f, n) = f[n].node_cnt /\ Filter(f, n) = f[n].filter
      /\ \A a \in {k, k2, n2} : avl_node_cnt(f, a) = avl_node_cnt(e, a) /\ Filter(f, a) = Filter(e, a)
  BY DEF avl_node_cnt, Filter, Links, Totals
<1>2. \A a \in {n, m, k, k2, n2} : avl_node_cnt(e, a) \in Nat /\ avl_node_cnt(f, a) \in Nat
  BY Counts DEF Totals
<1>3. /\ e[n].node_cnt = 1 + avl_node_cnt(e, m) + avl_node_cnt(e, n2)
      /\ e[n].filter = HashFilter[e[n].hash] \cup Filter(e, m) \cup Filter(e, n2)
  BY <1>2, BothSides DEF Links, Totals
<1>4. /\ e[m].node_cnt = 1 + avl_node_cnt(e, k2) + avl_node_cnt(e, k)
      /\ e[m].filter = HashFilter[e[m].hash] \cup Filter(e, k2) \cup Filter(e, k)
  BY <1>2, BothSides DEF Links, Totals
<1>5. /\ f[n].node_cnt = 1 + avl_node_cnt(f, k) + avl_node_cnt(f, n2)
      /\ f[n].filter = HashFilter[f[n].hash] \cup Filter(f, k) \cup Filter(f, n2)
  BY <1>2, BothSides DEF Links, Totals
<1>6. /\ f[m].node_cnt = 1 + avl_node_cnt(f, k2) + avl_node_cnt(f, n)
      /\ f[m].filter = HashFilter[f[m].hash] \cup Filter(f, k2) \cup Filter(f, n)
  BY <1>2, BothSides DEF Links, Totals
<1>7. f[m].node_cnt = e[n].node_cnt
  <2>1. /\ e[n].node_cnt = 1 + (1 + avl_node_cnt(e, k2) + avl_node_cnt(e, k)) + avl_node_cnt(e, n2)
        /\ f[m].node_cnt = 1 + avl_node_cnt(e, k2) + (1 + avl_node_cnt(e, k) + avl_node_cnt(e, n2))
    BY <1>1, <1>3, <1>4, <1>5, <1>6 DEF Totals
  <2> QED BY <1>2, <2>1
<1>8. f[m].filter = e[n].filter
  BY <1>1, <1>3, <1>4, <1>5, <1>6 DEF Totals
<1> QED BY <1>7, <1>8

\* Where a rotation takes place: both nodes are below the slot s, and the fields the
\* rotation writes are not the fields of the other two subtrees.
Turnable(T, sub, s, n, m, x) ==
  LET p == << n, x >>
      q == << m, Opp(x) >>
  IN  /\ n \in T /\ m \in T /\ m # n /\ n \in sub[s] /\ m \in sub[s]
      /\ p \in Slots(T) /\ q \in Slots(T) /\ s # p /\ s # q /\ p # q
      /\ << n, Opp(x) >> \in Slots(T) /\ << m, x >> \in Slots(T)
      /\ << n, Opp(x) >> \notin {s, p, q} /\ << m, x >> \notin {s, p, q}

\* The slots a rotation writes.
LEMMA TurnSlots ==
  ASSUME NEW c, NEW e, NEW T, NEW sub, Shape(c, e, T, sub), Slots(T) \subseteq DOMAIN c,
         NEW s \in Slots(T), NEW n, n = c[s], n # NULL,
         NEW x \in Sides, NEW m, m = c[<< n, x >>], m # NULL
  PROVE  Turnable(T, sub, s, n, m, x)
<1> DEFINE p == << n, x >>
           q == << m, Opp(x) >>
<1>1. Opp(x) \in Sides /\ Opp(x) # x
  BY DEF Sides, Opp
<1>2. n \in T /\ n \in sub[s]
  BY NodeAt
<1>3. /\ p \in Slots(T) /\ << n, Opp(x) >> \in Slots(T) /\ sub[p] \subseteq sub[s]
      /\ n \notin sub[p]
  <2>1. p \in Slots(T) /\ sub[p] \subseteq sub[s] /\ n \notin sub[p]
    BY KidAt
  <2> QED BY <1>1, <1>2, <2>1 DEF Slots
<1>4. m \in T /\ m \in sub[p] /\ q \in Slots(T) /\ << m, x >> \in Slots(T)
  <2>1. m \in T /\ m \in sub[p]
    BY <1>3, SlotAt
  <2> QED BY <1>1, <2>1 DEF Slots
<1>5. s[1] # n /\ s[1] # m
  <2>1. s[1] \notin sub[s]
    BY OwnerNotBelow
  <2> QED BY <1>2, <1>3, <1>4, <2>1
<1>6. /\ s # p /\ s # q /\ p # q /\ m # n /\ m \in sub[s]
      /\ << n, Opp(x) >> \notin {s, p, q} /\ << m, x >> \notin {s, p, q}
  BY <1>1, <1>3, <1>4, <1>5
<1> QED BY <1>2, <1>3, <1>4, <1>6 DEF Turnable

\* What a rotation leaves behind: the tree in order, every node exact, and no field but
\* the metadata of n and m touched.
Turned(d, e, f, T, sub2, n, m) ==
  /\ Shape(d, f, T, sub2) /\ DOMAIN f = Addr
  /\ \A b \in Addr \ {n, m} : f[b] = e[b]
  /\ \A a \in T : /\ Linked(f, a) /\ f[a].ll = e[a].ll /\ f[a].hash = e[a].hash
                  /\ Exact(d, f, a)

\* A rotation of a tree whose nodes are exact makes such a tree.
LEMMA TurnExact ==
  ASSUME NEW c, NEW e, NEW T, NEW sub, Shape(c, e, T, sub), Slots(T) \subseteq DOMAIN c,
         DOMAIN e = Addr, \A a \in T : Linked(e, a) /\ Exact(c, e, a),
         NEW s \in Slots(T), NEW n, n = c[s], n # NULL,
         NEW x \in Sides, NEW m, m = c[<< n, x >>], m # NULL,
         NEW d, d = TurnMem(c, s, n, m, x),
         NEW f1, f1 = regen_metadata(e, d, n), NEW f, f = regen_metadata(f1, d, m),
         NEW sub2, sub2 = TurnSub(T, sub, n, m, x)
  PROVE  Turned(d, e, f, T, sub2, n, m)
<1> DEFINE p == << n, x >>
           q == << m, Opp(x) >>
<1>1. /\ n \in T /\ m \in T /\ m # n
      /\ p \in Slots(T) /\ q \in Slots(T) /\ s # p /\ s # q /\ p # q
      /\ << n, Opp(x) >> \in Slots(T) /\ << m, x >> \in Slots(T)
      /\ << n, Opp(x) >> \notin {s, p, q} /\ << m, x >> \notin {s, p, q}
  BY TurnSlots DEF Turnable
<1>2. \A t \in Slots(T) : d[t] = IF t = s THEN m ELSE IF t = q THEN n
                                 ELSE IF t = p THEN c[q] ELSE c[t]
  BY <1>1 DEF TurnMem
<1>3. Shape(d, e, T, sub2) /\ T \subseteq Addr /\ NULL \notin T
  <2>1. Shape(TurnMem(c, s, n, m, x), e, T, TurnSub(T, sub, n, m, x))
    BY Turn
  <2>2. T \subseteq Addr /\ NULL \notin T
    BY HeapAssumption DEF Shape
  <2> QED BY <2>1, <2>2
<1>4. Refreshed(d, e, f1, n) /\ Shape(d, f1, T, sub2)
  BY <1>1, <1>3, RefreshIn
<1>5. DOMAIN f1 = Addr /\ \A a \in T : Linked(f1, a) /\ f1[a].hash = e[a].hash /\ f1[a].ll = e[a].ll
  <2>1. DOMAIN f1 = Addr /\ Linked(f1, n) /\ f1[n].hash = e[n].hash /\ f1[n].ll = e[n].ll
    BY <1>4 DEF Refreshed
  <2>2. \A a \in T : a # n => f1[a] = e[a]
    BY <1>3, <1>4 DEF Refreshed
  <2>3. ASSUME NEW a \in T, a # n
        PROVE  Linked(f1, a) /\ f1[a].hash = e[a].hash /\ f1[a].ll = e[a].ll
    <3>1. Linked(e, a) /\ f1[a] = e[a]
      BY <2>2, <2>3
    <3> QED BY <3>1 DEF Linked
  <2> QED BY <2>1, <2>3
<1>6. Refreshed(d, f1, f, m) /\ Shape(d, f, T, sub2)
  BY <1>1, <1>4, <1>5, RefreshIn
<1>7. DOMAIN f = Addr /\ \A a \in T : Linked(f, a) /\ f[a].hash = e[a].hash /\ f[a].ll = e[a].ll
  <2>1. DOMAIN f = Addr /\ f[m].ll = f1[m].ll /\ f[m].hash = f1[m].hash /\ Linked(f, m)
    BY <1>6 DEF Refreshed
  <2>2. \A a \in T : a # m => f[a] = f1[a]
    BY ONLY <1>3, <1>6 DEF Refreshed
  <2>3. ASSUME NEW a \in T
        PROVE  Linked(f, a) /\ f[a].hash = e[a].hash /\ f[a].ll = e[a].ll
    <3>1. /\ Linked(f1, a) /\ f1[a].hash = e[a].hash /\ f1[a].ll = e[a].ll
      BY <1>5
    <3>2. CASE a = m
      BY <2>1, <3>1, <3>2
    <3>3. CASE a # m
      <4>1. f[a] = f1[a]
        BY <2>2, <3>3
      <4> QED BY <3>1, <4>1 DEF Linked
    <3> QED BY <3>2, <3>3
  <2> QED BY <2>1, <2>3
<1>8. \A b \in Addr \ {n, m} : f[b] = e[b]
  <2>1. \A b \in Addr \ {n} : f1[b] = e[b]
    BY <1>4 DEF Refreshed
  <2>2. \A b \in Addr \ {m} : f[b] = f1[b]
    BY <1>6 DEF Refreshed
  <2> QED BY ONLY <2>1, <2>2
<1>9. PICK k, k2, n2 : k = c[q] /\ k2 = c[<< m, x >>] /\ n2 = c[<< n, Opp(x) >>]
  OBVIOUS
<1>10. d[p] = k /\ d[<< n, Opp(x) >>] = n2 /\ d[<< m, x >>] = k2 /\ d[q] = n
  BY <1>1, <1>2, <1>9
<1>11. \A a \in {k, k2, n2} : a # NULL => a \in T \ {n, m}
  <2>1. \A t \in Slots(T) : c[t] \in T \cup {NULL} /\ (c[t] = n => t = s) /\ (c[t] = m => t = p)
    BY <1>1 DEF Shape
  <2>2. q \notin {s, p} /\ << n, Opp(x) >> \notin {s, p} /\ << m, x >> \notin {s, p}
    BY <1>1
  <2> HIDE DEF p, q
  <2> QED BY <1>1, <1>9, <2>1, <2>2
<1>12. Exact(d, f, n)
  <2>1. Exact(d, f1, n)
    BY <1>4 DEF Refreshed
  <2>2. f[n] = f1[n] /\ \A a \in {k, n2} : a # NULL => f[a] = f1[a]
    <3>1. \A b \in T \ {m} : f[b] = f1[b]
      BY ONLY <1>3, <1>6 DEF Refreshed
    <3> QED BY <1>1, <1>11, <3>1
  <2>3. \A y \in Sides : d[<< n, y >>] \in {k, n2}
    BY <1>10 DEF Sides, Opp
  <2>4. \A y \in Sides : d[<< n, y >>] # NULL => f[d[<< n, y >>]] = f1[d[<< n, y >>]]
    BY ONLY <2>2, <2>3
  <2> HIDE DEF p, q
  <2> QED BY ONLY <2>1, <2>2, <2>4, ExactKept
<1>13. Exact(d, f, m)
  BY <1>6 DEF Refreshed
<1>14. f[m].node_cnt = e[n].node_cnt /\ f[m].filter = e[n].filter
  <2>1. \A a \in {n, m, k, k2, n2} : a # NULL => Linked(e, a) /\ Linked(f, a)
    <3>1. \A a \in {n, m, k, k2, n2} : a # NULL => a \in T
      BY ONLY <1>1, <1>11
    <3>2. \A a \in T : Linked(e, a) /\ Linked(f, a)
      BY <1>7
    <3> QED BY ONLY <3>1, <3>2
  <2>2. \A a \in {k, k2, n2} : a # NULL => f[a] = e[a]
    BY <1>3, <1>8, <1>11
  <2>3. /\ m # NULL /\ n # NULL /\ k = c[<< m, Opp(x) >>] /\ k2 = c[<< m, x >>]
        /\ n2 = c[<< n, Opp(x) >>] /\ m = c[<< n, x >>] /\ d[<< n, x >>] = k
        /\ d[<< n, Opp(x) >>] = n2 /\ d[<< m, x >>] = k2 /\ d[<< m, Opp(x) >>] = n
    BY <1>9, <1>10
  <2>4. /\ Exact(c, e, n) /\ Exact(c, e, m) /\ f[n].hash = e[n].hash /\ f[m].hash = e[m].hash
    BY <1>1, <1>7
  <2>5. Links(c, d, n, m, x, k, k2, n2)
    BY ONLY <2>3 DEF Links
  <2>6. Totals(c, d, e, f, n, m, k, k2, n2)
    BY ONLY <1>12, <1>13, <2>1, <2>2, <2>4 DEF Totals
  <2> QED BY ONLY x \in Sides, <2>5, <2>6, SameTotals
<1>15. ASSUME NEW a \in T, a \notin {n, m}
       PROVE  Exact(d, f, a)
  <2>1. Exact(c, e, a) /\ f[a] = e[a]
    BY <1>3, <1>8, <1>15
  <2>2. ASSUME NEW y \in Sides
        PROVE  /\ avl_node_cnt(f, d[<< a, y >>]) = avl_node_cnt(e, c[<< a, y >>])
               /\ Filter(f, d[<< a, y >>]) = Filter(e, c[<< a, y >>])
    <3>1. << a, y >> \in Slots(T) /\ << a, y >> # p /\ << a, y >> # q
      BY <1>15 DEF Slots
    <3>2. CASE << a, y >> = s
      <4>1. d[<< a, y >>] = m /\ c[<< a, y >>] = n
        BY <1>2, <3>1, <3>2
      <4> QED BY <1>14, <4>1 DEF avl_node_cnt, Filter
    <3>3. CASE << a, y >> # s
      <4>1. d[<< a, y >>] = c[<< a, y >>]
        BY <1>2, <3>1, <3>3
      <4>2. c[<< a, y >>] # NULL => c[<< a, y >>] \in T \ {n, m}
        BY <1>1, <3>1, <3>3 DEF Shape
      <4>3. c[<< a, y >>] # NULL => f[c[<< a, y >>]] = e[c[<< a, y >>]]
        BY ONLY <1>3, <1>8, <4>2
      <4> QED BY ONLY <4>1, <4>3 DEF avl_node_cnt, Filter
    <3> QED BY <3>2, <3>3
  <2> QED BY <2>1, <2>2 DEF Exact, Sides
<1> QED BY <1>6, <1>7, <1>8, <1>12, <1>13, <1>15 DEF Turned

\* One rotation at or below the node that is being balanced: the lists stay the same.
LEMMA RotateKeeps ==
  ASSUME HeapInv, up, stack # << >>, Top.fn = "rebalance",
         Top.at \in {"left_heavy", "right_heavy"},
         NEW s, NEW x \in Sides, child[s] # NULL,
         s = Top.slot \/ \E y \in Sides : s = << Cur, y >>,
         Rotate(s, x), UNCHANGED << alloc, stack, ret, low, call, up >>
  PROVE  HeapInv' /\ \A a \in alloc : el'[a].ll = el[a].ll
<1>0. PICK T, sub : HeapInvAt(T, sub)
  BY DEF HeapInv
<1>a. PICK n, m : n = child[s] /\ m = child[<< n, x >>]
  OBVIOUS
<1>1. Filled /\ DOMAIN child = Slot /\ DOMAIN el = Addr /\ n # NULL
  BY <1>a DEF HeapInv, Filled
<1>2. /\ Shape(child, el, T, sub) /\ Stacked(stack, child, T, sub) /\ Moving(T, sub)
      /\ Searching(T, sub) /\ Metadata(T)
  BY <1>0 DEF HeapInvAt
<1>3. low = NULL /\ ~Dying /\ alloc = T /\ T \subseteq Addr /\ NULL \notin T
  <2>1. low = NULL
    BY <1>2, NotMoving DEF Walkers
  <2>2. ~Dying /\ alloc = T \cup ({low} \ {NULL}) /\ T \subseteq Addr /\ NULL \notin T
    BY <1>0, <1>1, TreeNodes DEF Walkers
  <2> QED BY <2>1, <2>2
<1>4. CASE m = NULL
  <2>1. UNCHANGED << child, el >>
    BY <1>a, <1>4 DEF Rotate
  <2> QED BY <2>1, SameKeeps DEF memory
<1>5. CASE m # NULL
  <2>1. PICK d, f1, f, sub2 :
          /\ d = TurnMem(child, s, n, m, x) /\ f1 = regen_metadata(el, d, n)
          /\ f = regen_metadata(f1, d, m) /\ sub2 = TurnSub(T, sub, n, m, x)
    OBVIOUS
  <2>2. child' = d /\ el' = f
    BY <1>a, <1>5, <2>1 DEF Rotate, TurnMem
  <2>3. /\ Top \in Frames /\ FrameOK(Top, child, T) /\ Top.slot \in Slots(T) /\ Top = stack[1]
        /\ stack \in Seq(Frames) /\ On(stack) = {Top} \cup Lower
    BY <1>2, Running
  <2>4. /\ s \in Slots(T) /\ sub[s] \subseteq sub[Top.slot]
        /\ s # Top.slot => s[1] \in sub[Top.slot]
    <3>1. Cur # NULL /\ Cur = child[Top.slot]
      BY <2>3 DEF FrameOK, Cur
    <3>2. CASE s = Top.slot
      BY <2>3, <3>2
    <3>3. ASSUME NEW y \in Sides, s = << Cur, y >>
          PROVE  s \in Slots(T) /\ sub[s] \subseteq sub[Top.slot] /\ s[1] \in sub[Top.slot]
      <4>1. Cur \in sub[Top.slot]
        BY <1>2, <2>3, <3>1, SlotAt
      <4>2. << Cur, y >> \in Slots(T) /\ sub[<< Cur, y >>] \subseteq sub[Top.slot]
        BY <1>2, <2>3, <3>1, KidAt
      <4> QED BY <3>3, <4>1, <4>2
    <3> QED BY <3>2, <3>3
  <2>5. Slots(T) \subseteq DOMAIN child
    BY <1>1, <1>3 DEF Slots, Slot, Sides
  <2> DEFINE p == << n, x >>
             q == << m, Opp(x) >>
  <2>6. /\ n \in T /\ m \in T /\ n \in sub[s] /\ m \in sub[s]
        /\ p \in Slots(T) /\ q \in Slots(T) /\ s # p /\ s # q
    <3>1. Turnable(T, sub, s, n, m, x)
      BY ONLY <1>1, <1>2, <1>5, <1>a, <2>4, <2>5, x \in Sides, TurnSlots
    <3> QED BY <3>1 DEF Turnable
  <2>7. /\ d \in [Slot -> Addr \cup {NULL}] /\ d[s] = m
        /\ \A t \in Slots(T) : t \notin {s, p, q} => d[t] = child[t]
    <3>1. child \in [Slot -> Addr \cup {NULL}] /\ p \in Slot /\ q \in Slot /\ s \in Slot
      BY <1>1, <2>4, <2>5, <2>6 DEF Filled
    <3>2. d = [child EXCEPT ![p] = child[q], ![q] = n, ![s] = m]
      BY <2>1 DEF TurnMem
    <3> HIDE DEF p, q
    <3> QED BY <1>1, <1>3, <2>5, <2>6, <3>1, <3>2
  <2>8. \A a \in T : Linked(el, a) /\ Exact(child, el, a)
    <3>1. Pending = {}
      BY <1>2, NonePending
    <3> QED BY <1>1, <1>2, <1>3, <3>1 DEF Filled, Metadata
  <2>9. Turned(d, el, f, T, sub2, n, m)
    BY ONLY <1>1, <1>2, <1>5, <1>a, <2>1, <2>4, <2>5, <2>8, x \in Sides, TurnExact
  <2>10. Shape(child', el', T, sub2)
    BY <2>2, <2>9 DEF Turned
  <2>11. \A g \in Lower : g.fn # "avl" =>
           /\ g.slot \in Slots(T) /\ g.slot \notin {s, p, q}
           /\ Field(g, child) \notin {p, q}
    <3> TAKE g \in Lower
    <3> SUFFICES ASSUME g.fn # "avl"
                 PROVE  /\ g.slot \in Slots(T) /\ g.slot \notin {s, p, q}
                        /\ Field(g, child) \notin {p, q}
      OBVIOUS
    <3>1. /\ g.slot \in Slots(T) /\ g.slot # Top.slot /\ g.slot[1] \notin sub[Top.slot]
          /\ child[g.slot] \notin sub[Top.slot]
      BY <1>2, Callers
    <3>2. Field(g, child)[1] = child[g.slot]
      BY DEF Field
    <3>3. p[1] = n /\ q[1] = m
      OBVIOUS
    <3> HIDE DEF p, q
    <3> QED BY <2>4, <2>6, <3>1, <3>2, <3>3
  <2>12. Steady(T, sub, T, sub2)
    <3>1. \A t \in Slots(T) : t \notin {p, q} => sub2[t] = sub[t]
      BY <2>1 DEF TurnSub
    <3> HIDE DEF p, q
    <3> QED BY <2>2, <2>7, <2>11, <3>1 DEF Steady
  <2>13. FrameOK(Top, child', T)
    <3>1. child'[Top.slot] # NULL
      <4>1. Top.slot[1] \notin sub[Top.slot] /\ p[1] = n /\ q[1] = m
        BY <1>2, <2>3, OwnerNotBelow
      <4>2. child[Top.slot] # NULL
        BY <2>3 DEF FrameOK
      <4> HIDE DEF p, q
      <4> QED BY <1>5, <2>2, <2>3, <2>4, <2>6, <2>7, <4>1, <4>2
    <3> QED BY <2>3, <3>1 DEF FrameOK
  <2>14. /\ Stacked(stack', child', T, sub2) /\ stack' # << >> /\ stack' \in Seq(Frames)
         /\ On(stack') = {Top} \cup Lower /\ (Dying' <=> Dying) /\ Top' = Top
    <3>1. stack' = << Top >> \o Tail(stack)
      BY <2>3
    <3> QED BY <1>2, <2>3, <2>10, <2>12, <2>13, <3>1, GotoStack DEF Walkers
  <2>15. Owned(T, sub2)'
    BY <1>3, <2>14 DEF Owned
  <2>16. Moving(T, sub2)'
    BY <1>2, <2>14, StillNotMoving DEF Walkers
  <2>17. Searching(T, sub2)'
    BY <1>2, <2>14, SearchOn DEF Walkers
  <2>18. Metadata(T)'
    BY <2>2, <2>9 DEF Metadata, Turned
  <2>19. \A a \in T : Linked(f, a) /\ f[a].ll = el[a].ll /\ f[a].hash = el[a].hash
    BY <2>9 DEF Turned
  <2>20. Filled'
    <3>1. DOMAIN f = Addr
      BY <2>9 DEF Turned
    <3> QED BY <1>1, <1>3, <2>2, <2>7, <2>19, <3>1 DEF Filled
  <2>21. HeapInv'
    BY <2>10, <2>14, <2>15, <2>16, <2>17, <2>18, <2>20 DEF HeapInv, HeapInvAt, Frames
  <2> QED BY <1>3, <2>2, <2>19, <2>21
<1> QED BY <1>4, <1>5

\* The two kinds of rotation rebalance_subtree() makes.
LEMMA RotationsKeep ==
  ASSUME HeapInv, NEW s \in Sides, RotateInner(s) \/ RotateOuter(s)
  PROVE  HeapInv' /\ \A a \in alloc : el'[a].ll = el[a].ll
<1>0. PICK T, sub : HeapInvAt(T, sub)
  BY DEF HeapInv
<1>1. /\ up /\ stack # << >> /\ Top.fn = "rebalance" /\ Top.at \in {"left_heavy", "right_heavy"}
      /\ Heavy(s) /\ UNCHANGED << alloc, stack, ret, low, call, up >>
  BY DEF RotateInner, RotateOuter, Looping, At, rest
<1>2. Cur # NULL /\ Shape(child, el, T, sub) /\ Top.slot \in Slots(T) /\ Cur \in T
  <2>1. Shape(child, el, T, sub) /\ Stacked(stack, child, T, sub)
    BY <1>0, <1>1 DEF HeapInvAt
  <2>2. FrameOK(Top, child, T)
    BY <1>1, <2>1, Running
  <2>3. child[Top.slot] # NULL /\ Top.slot \in Slots(T)
    BY <1>1, <2>2 DEF FrameOK
  <2> QED BY <2>1, <2>3, SlotAt DEF Cur
<1>3. CASE RotateOuter(s)
  <2>1. Rotate(Top.slot, s)
    BY <1>3 DEF RotateOuter
  <2> QED BY <1>1, <1>2, <2>1, RotateKeeps DEF Cur
<1>4. CASE RotateInner(s)
  <2>1. Rotate(<< Cur, s >>, Opp(s)) /\ Opp(s) \in Sides
    BY <1>4 DEF RotateInner, Sides, Opp
  <2>2. child[<< Cur, s >>] # NULL
    <3>1. Kid(Opp(s)) # NULL => Linked(el, Kid(Opp(s)))
      <4>1. child[<< Cur, Opp(s) >>] \in T \cup {NULL}
        BY <1>2, <2>1, KidsOf
      <4>2. \A a \in T : Linked(el, a)
        BY <1>0, <1>1, TreeNodes DEF HeapInv, Walkers
      <4> QED BY <4>1, <4>2 DEF Kid
    <3>2. avl_node_cnt(el, Kid(Opp(s))) \in Nat
      BY <3>1, Counts
    <3>3. Kid(s) = NULL => avl_node_cnt(el, Kid(s)) = 0
      BY DEF avl_node_cnt
    <3> QED BY <1>1, <3>2, <3>3 DEF Heavy, Kid
  <2> QED BY <1>1, <2>1, <2>2, RotateKeeps
<1> QED BY <1>3, <1>4

-----------------------------------------------------------------------------
(* The invariant. *)

\* The tree avl_init() makes is empty.
LEMMA InitKeeps == Init => HeapInv
<1> SUFFICES ASSUME Init PROVE HeapInv
  OBVIOUS
<1> DEFINE T   == {}
           sub == [t \in Slots(T) |-> {}]
<1>1. /\ child \in [Slot -> {NULL}] /\ alloc = {} /\ stack = << >> /\ low = NULL
      /\ up = TRUE /\ DOMAIN el = Addr
  BY DEF Init
<1>2. Slots(T) = {ROOT} /\ ROOT \in Slot /\ child[ROOT] = NULL
  BY <1>1 DEF Slots, Slot
<1>3. Shape(child, el, T, sub)
  <2>1. IsFiniteSet(T)
    BY FS_EmptySet
  <2>2. \A t \in Slots(T) : t = ROOT /\ child[t] = NULL /\ sub[t] = {}
    BY <1>2
  <2> HIDE DEF sub
  <2> QED BY <1>2, <2>1, <2>2 DEF Shape
<1>4. Len(stack) = 0 /\ DOMAIN stack = {} /\ On(stack) = {} /\ ~Dying
  BY <1>1 DEF On, Dying
<1>5. Stacked(stack, child, T, sub)
  <2>1. \A i \in 1 .. Len(stack) : FALSE
    BY <1>4
  <2>2. \A i \in 1 .. (Len(stack) - 1) : FALSE
    BY <1>4
  <2>3. stack \in Seq([fn : Fns, slot : Slot, at : Labels])
    BY <1>1
  <2> QED BY <1>4, <2>1, <2>2, <2>3 DEF Stacked
<1>6. Owned(T, sub) /\ Moving(T, sub) /\ Searching(T, sub) /\ Metadata(T)
  BY <1>1, <1>4 DEF Owned, Moving, Searching, Metadata
<1>7. Filled /\ stack \in Seq([fn : Fns, slot : Slot, at : Labels])
  BY <1>1 DEF Filled
<1> HIDE DEF T, sub
<1> QED BY <1>3, <1>5, <1>6, <1>7 DEF HeapInv, HeapInvAt

\* The calls the user may make.
LEMMA CallKeeps == HeapInv /\ Call => HeapInv'
BY CallUpdate, CallFindKeeps, CallDestroyKeeps DEF Call

\* The steps of the running call.
LEMMA StepKeeps == HeapInv /\ Step => HeapInv'
<1> SUFFICES ASSUME HeapInv, Step PROVE HeapInv'
  OBVIOUS
<1>1. CASE Rebalance \/ Clear \/ Return
  BY <1>1, RebalanceKeeps, ClearKeeps, ReturnKeeps
<1>2. CASE Descend \/ Unwind
  BY <1>2, DescendKeeps, UnwindKeeps
<1>3. CASE InsertNoNode \/ RemoveMiss \/ RebalanceSkip \/ RebalanceEnd
  BY <1>3, QuietReturns
<1>4. CASE \E nomem \in BOOLEAN : InsertHere(nomem)
  BY <1>4, InsertHereKeeps
<1>5. CASE \E nomem \in BOOLEAN, a \in Addr : InsertNode(a, nomem)
  BY <1>5, InsertNodeKeeps
<1>6. CASE RemoveHere \/ NdelHere
  BY <1>6, RemoveHereKeeps, NdelHereKeeps
<1>7. CASE VisitNull \/ VisitLeft \/ VisitRight \/ DestroyHere
  <2>1. CASE Top.fn = "destroy"
    BY <1>7, <2>1, DestroyReturns, DestroyCalls
  <2>2. CASE Top.fn # "destroy"
    <3>1. VisitNull \/ VisitLeft => Top.fn = "ndel"
      BY <2>2 DEF VisitNull, VisitLeft, At
    <3>2. ~DestroyHere
      BY <2>2 DEF DestroyHere, At
    <3> QED BY <1>7, <2>2, <3>1, <3>2, QuietReturns, QuietCalls
  <2> QED BY <2>1, <2>2
<1>8. CASE CutEasy \/ CrashInDeleteIf \/ CutHard
  BY <1>8, CutEasyKeeps, CrashKeeps, CutHardKeeps
<1>9. CASE LeftmostDown \/ LeftmostCut \/ Replace
  BY <1>9, LeftmostDownKeeps, LeftmostCutKeeps, ReplaceKeeps
<1>10. CASE RebalanceStart \/ RightDone \/ LeftDone
  BY <1>10, QuietLabels, QuietCalls
<1>11. CASE \E s \in Sides : RotateInner(s) \/ RotateOuter(s)
  BY <1>11, RotationsKeep
<1>12. CASE FindDown \/ FindEnd
  BY <1>12, FindDownKeeps, FindEndKeeps
<1> QED BY <1>1, <1>2, <1>3, <1>4, <1>5, <1>6, <1>7, <1>8, <1>9, <1>10, <1>11, <1>12
        DEF Step, Sides

\* The invariant is inductive.
LEMMA NextKeeps == HeapInv /\ [Next]_vars => HeapInv'
<1>1. HeapInv /\ UNCHANGED vars => HeapInv'
  <2>1. UNCHANGED vars => UNCHANGED << memory, stack, ret, low, call, up >>
    BY DEF vars, rest
  <2> QED BY <2>1, SameKeeps
<1> QED BY <1>1, CallKeeps, StepKeeps DEF Next

\* The nodes make up a search tree, and every running function works where its caller
\* sent it, at every step.
THEOREM Invariance == Spec => []HeapInv
<1>1. Init => HeapInv
  BY InitKeeps
<1>2. HeapInv /\ [Next]_vars => HeapInv'
  BY NextKeeps
<1> QED BY <1>1, <1>2, PTL DEF Spec

-----------------------------------------------------------------------------
(* What it implies. *)

\* Unless avl_destroy() runs, the nodes of the tree are those allocated, but for the
\* one being moved.
LEMMA Living ==
  ASSUME HeapInv, ~Destroying, NEW T, NEW sub, HeapInvAt(T, sub)
  PROVE  /\ Shape(child, el, T, sub) /\ low \notin T /\ T \subseteq alloc /\ T = alloc \ {low}
         /\ TreeSlots = Slots(T) /\ NULL \notin alloc
<1>1. Shape(child, el, T, sub) /\ ~Dying
  BY DEF HeapInvAt, Owned, Destroying, Dying
<1>2. low \notin T /\ alloc = T \cup ({low} \ {NULL}) /\ NULL \notin alloc
  BY <1>1, HeapAssumption DEF HeapInvAt, Owned, HeapInv, Filled
<1> QED BY <1>1, <1>2 DEF TreeSlots, Slots, Sides

\* TypeOK, for any number of nodes and any values.
THEOREM TypeCorrect == Spec => []TypeOK
<1>1. HeapInv => TypeOK
  <2> SUFFICES ASSUME HeapInv PROVE TypeOK
    OBVIOUS
  <2>1. Filled /\ stack \in Seq([fn : Fns, slot : Slot, at : Labels])
    BY DEF HeapInv
  <2> QED BY <2>1 DEF Filled, Linked, TypeOK
<1> QED BY <1>1, Invariance, PTL

\* A frame of avl_destroy() stands at a node that is not freed yet, in a slot of one.
LEMMA FreesLast ==
  ASSUME NEW T, NEW sub, HeapInvAt(T, sub), up, Dying,
         NEW i \in 1 .. Len(stack), stack[i].fn # "avl"
  PROVE  stack[i].slot[1] \in alloc \cup {NULL} /\ child[stack[i].slot] \in alloc \cup {NULL}
<1> DEFINE n == Len(stack)
<1>1. Shape(child, el, T, sub) /\ Stacked(stack, child, T, sub)
  BY DEF HeapInvAt
<1>2. /\ n \in Nat /\ n \in 1 .. n /\ stack[n].at = "clear"
      /\ alloc = {x \in T : \E f \in On(stack) : x \in ToFree(f, sub)}
  BY <1>1 DEF HeapInvAt, Owned, Dying, Stacked
<1>3. \A j \in 1 .. n : FrameOK(stack[j], child, T) /\ stack[j] \in On(stack)
  BY <1>1 DEF Stacked, On
<1>4. stack[n].fn = "avl" /\ Callees(stack[n]) = {"destroy"}
  BY <1>2, <1>3 DEF FrameOK, LabelOK, Callees
<1>5. i \in 1 .. (n - 1) /\ i \in 1 .. n /\ i + 1 \in 1 .. n
  BY <1>2, <1>4
<1>6. stack[i].fn = "destroy" /\ Called(stack[i], stack[i + 1], child)
  BY <1>1, <1>4, <1>5 DEF Stacked
<1>7. PICK f, g : f = stack[i] /\ g = stack[i + 1]
  OBVIOUS
<1> HIDE DEF n
<1>8. /\ FrameOK(f, child, T) /\ f \in On(stack) /\ FrameOK(g, child, T) /\ g \in On(stack)
      /\ f.fn = "destroy" /\ Called(f, g, child)
  BY <1>3, <1>5, <1>6, <1>7
<1>9. child[f.slot] \in alloc \cup {NULL}
  <2>1. f.slot \in Slots(T)
    BY <1>8 DEF FrameOK
  <2>2. child[f.slot] # NULL => child[f.slot] \in T /\ child[f.slot] \in sub[f.slot]
    BY <1>1, <2>1, SlotAt
  <2>3. child[f.slot] # NULL => child[f.slot] \in ToFree(f, sub)
    BY <1>8, <2>2 DEF ToFree
  <2> QED BY <1>2, <1>8, <2>2, <2>3
<1>10. f.slot[1] \in alloc \cup {NULL}
  <2>1. CASE f.slot = ROOT
    BY <2>1 DEF ROOT
  <2>2. CASE f.slot # ROOT
    <3>1. g.fn = "destroy" /\ g.at \in Sides /\ f.slot = Field(g, child)
      BY <1>8, <2>2 DEF Called
    <3>2. child[g.slot] # NULL /\ g.slot \in Slots(T)
      BY <1>8, <3>1 DEF FrameOK, Sides
    <3>3. child[g.slot] \in T
      BY <1>1, <3>2, SlotAt
    <3>4. child[g.slot] \in ToFree(g, sub)
      BY <3>1 DEF ToFree, Sides
    <3>5. f.slot[1] = child[g.slot]
      BY <3>1 DEF Field
    <3> QED BY <1>2, <1>8, <3>3, <3>4, <3>5
  <2> QED BY <2>1, <2>2
<1> QED BY <1>7, <1>9, <1>10

\* The children of the node that is being moved are still there, although nothing but
\* the node itself says so.
MovedOK == low # NULL => \A s \in Sides : child[<< low, s >>] \in alloc \cup {NULL}

\* While a node is being moved, isolate_leftmost() only returns.
LEMMA MovedKeeps == HeapInv /\ MovedOK /\ [Next]_vars => MovedOK'
<1> SUFFICES ASSUME HeapInv, MovedOK, [Next]_vars PROVE MovedOK'
  OBVIOUS
<1>1. CASE UNCHANGED << child, alloc, low >>
  BY <1>1 DEF MovedOK
<1>2. CASE LeftmostCut
  <2>1. PICK T, sub : HeapInvAt(T, sub)
    BY DEF HeapInv
  <2>2. /\ up /\ stack # << >> /\ Top.fn = "leftmost" /\ Filled
        /\ low' = Cur /\ child' = [child EXCEPT ![Top.slot] = Kid("r")] /\ alloc' = alloc
    BY <1>2 DEF LeftmostCut, At, HeapInv
  <2>3. /\ Shape(child, el, T, sub) /\ Stacked(stack, child, T, sub)
        /\ FrameOK(Top, child, T) /\ Top.slot \in Slots(T)
    BY <2>1, <2>2, Running DEF HeapInvAt
  <2>4. T \subseteq alloc
    BY <2>1, <2>2, TreeNodes DEF Walkers
  <2>5. Cur # NULL /\ Cur = child[Top.slot]
    BY <2>2, <2>3 DEF FrameOK, Cur
  <2>6. ASSUME NEW s \in Sides
        PROVE  child'[<< Cur, s >>] \in alloc \cup {NULL}
    <3>1. /\ << Cur, s >> \in Slots(T) /\ sub[<< Cur, s >>] \subseteq sub[Top.slot]
          /\ Cur \notin sub[<< Cur, s >>] /\ Cur \in sub[Top.slot]
      <4>1. PICK k, t : k = Cur /\ t = Top.slot
        OBVIOUS
      <4>2. Shape(child, el, T, sub) /\ t \in Slots(T) /\ k = child[t] /\ k # NULL
        BY <2>3, <2>5, <4>1
      <4>3. k \in sub[t]
        BY ONLY <4>2, NodeAt
      <4>4. << k, s >> \in Slots(T) /\ sub[<< k, s >>] \subseteq sub[t] /\ k \notin sub[<< k, s >>]
        BY ONLY <4>2, s \in Sides, KidAt
      <4> QED BY <4>1, <4>3, <4>4
    <3>2. << Cur, s >> # Top.slot
      BY <3>1
    <3>3. child[<< Cur, s >>] \in T \cup {NULL}
      BY <2>3, <3>1, SlotAt
    <3> QED BY <2>2, <2>4, <3>2, <3>3 DEF Filled
  <2> QED BY <2>2, <2>6 DEF MovedOK
<1>3. CASE Replace
  BY <1>3 DEF Replace, MovedOK
<1>4. ASSUME up, stack # << >>, Top.fn # "leftmost", Top.at # "replace", low' = low
      PROVE  MovedOK'
  <2>1. PICK T, sub : HeapInvAt(T, sub)
    BY DEF HeapInv
  <2>2. low = NULL
    BY <1>4, <2>1 DEF HeapInvAt, Moving
  <2> QED BY <1>4, <2>2 DEF MovedOK
<1>5. CASE Clear \/ DestroyHere \/ CutEasy \/ CrashInDeleteIf
  BY <1>4, <1>5 DEF Clear, DestroyHere, CutEasy, CrashInDeleteIf, At
<1>6. CASE \E nomem \in BOOLEAN, a \in Addr : InsertNode(a, nomem)
  BY <1>4, <1>6 DEF InsertNode, At
<1>7. CASE \E s \in Sides : RotateInner(s) \/ RotateOuter(s)
  <2>1. /\ up /\ stack # << >> /\ Top.fn = "rebalance" /\ Top.at \in {"left_heavy", "right_heavy"}
        /\ low' = low
    BY <1>7 DEF RotateInner, RotateOuter, Looping, At
  <2> QED BY <1>4, <2>1
<1>8. CASE UNCHANGED vars \/ Call
  BY <1>1, <1>8 DEF vars, memory, Call, CallInsert, CallDelete, CallDeleteIf, CallFind,
                    CallDestroy, Begin
<1>9. CASE Rebalance \/ Return \/ Descend \/ Unwind \/ InsertNoNode \/ RemoveMiss
  BY <1>1, <1>9 DEF memory, Rebalance, Return, Descend, Unwind, InsertNoNode, RemoveMiss
<1>10. CASE (\E nomem \in BOOLEAN : InsertHere(nomem)) \/ RemoveHere \/ NdelHere
  BY <1>1, <1>10 DEF InsertHere, RemoveHere, NdelHere
<1>11. CASE VisitNull \/ VisitLeft \/ VisitRight \/ CutHard \/ LeftmostDown
  BY <1>1, <1>11 DEF memory, VisitNull, VisitLeft, VisitRight, CutHard, LeftmostDown
<1>12. CASE RebalanceSkip \/ RebalanceStart \/ RightDone \/ LeftDone \/ RebalanceEnd
  BY <1>1, <1>12 DEF memory, RebalanceSkip, RebalanceStart, RightDone, LeftDone, RebalanceEnd
<1>13. CASE FindDown \/ FindEnd
  BY <1>1, <1>13 DEF memory, FindDown, FindEnd
<1> QED BY <1>2, <1>3, <1>5, <1>6, <1>7, <1>8, <1>9, <1>10, <1>11, <1>12, <1>13
        DEF Next, Step, Sides

\* The invariant of the node that is being moved.
LEMMA Moved == Spec => []MovedOK
<1>1. Init => MovedOK
  BY DEF Init, MovedOK
<1> QED BY <1>1, MovedKeeps, Invariance, PTL DEF Spec

\* No function holds, follows or returns a pointer to a freed node, however deep the
\* recursion and whichever nodes it unlinked on the way.
THEOREM MemorySafe == Spec => []NoUseAfterFree
<1>1. HeapInv /\ MovedOK => NoUseAfterFree
  <2> SUFFICES ASSUME HeapInv, MovedOK, up PROVE NoUseAfterFree
    BY DEF NoUseAfterFree
  <2>1. PICK T, sub : HeapInvAt(T, sub)
    BY DEF HeapInv
  <2>2. /\ Shape(child, el, T, sub) /\ Stacked(stack, child, T, sub)
        /\ stack \in Seq(Frames) /\ low \in alloc \cup {NULL}
    BY <2>1 DEF HeapInvAt, HeapInv, Frames, Filled
  <2>3. DOMAIN stack = 1 .. Len(stack)
    BY <2>2
  <2>4. CASE Dying
    <3>1. Destroying
      BY <2>1, <2>4 DEF HeapInvAt, Owned, Dying, Destroying
    <3> QED BY <2>1, <2>2, <2>3, <2>4, <3>1, FreesLast DEF NoUseAfterFree
  <2>5. CASE ~Dying
    <3>1. T \subseteq alloc /\ T \subseteq Addr
      BY <2>1, <2>2, <2>5 DEF HeapInvAt, Owned, Shape
    <3>2. ASSUME NEW i \in 1 .. Len(stack)
          PROVE  /\ stack[i].slot[1] \in alloc \cup {NULL}
                 /\ child[stack[i].slot] \in alloc \cup {NULL}
      <4>1. stack[i].slot \in Slots(T)
        BY <2>2 DEF Stacked, FrameOK
      <4>2. child[stack[i].slot] \in T \cup {NULL}
        BY <2>2, <4>1, SlotAt
      <4>3. stack[i].slot[1] \in T \cup {NULL}
        BY <3>1, <4>1, SlotFacts
      <4> QED BY <3>1, <4>2, <4>3
    <3>3. ASSUME ~Destroying
          PROVE  /\ child[ROOT] \in alloc \cup {NULL}
                 /\ \A a \in alloc, s \in Sides : a # low =>
                      child[<< a, s >>] \in alloc \cup {NULL}
      <4>1. T = alloc \ {low} /\ T \subseteq alloc
        BY <2>1, <3>3, Living
      <4>2. \A t \in Slots(T) : child[t] \in T \cup {NULL}
        BY <2>2, SlotAt
      <4> QED BY <4>1, <4>2 DEF Slots
    <3>4. \A s \in Sides : low # NULL => child[<< low, s >>] \in alloc \cup {NULL}
      BY DEF MovedOK
    <3>5. ~Destroying => NULL \notin alloc
      BY <2>1, Living
    <3> QED BY <2>2, <2>3, <3>2, <3>3, <3>4, <3>5 DEF NoUseAfterFree, Sides
  <2> QED BY <2>4, <2>5
<1> QED BY <1>1, Invariance, Moved, PTL

\* Each node hangs in exactly one slot, and the node being moved in none.
THEOREM NothingShared == Spec => []OneSlotEach
<1>1. HeapInv => OneSlotEach
  <2> SUFFICES ASSUME HeapInv, ~Destroying PROVE OneSlotEach
    BY DEF OneSlotEach
  <2>1. PICK T, sub : HeapInvAt(T, sub)
    BY DEF HeapInv
  <2>2. /\ Shape(child, el, T, sub) /\ low \notin T /\ T = alloc \ {low} /\ TreeSlots = Slots(T)
    BY <2>1, Living
  <2>3. \A a \in T : \E s \in Slots(T) : child[s] = a
    BY <2>2, Hangs
  <2>4. \A s, t \in Slots(T) : child[s] = child[t] /\ child[s] # NULL => s = t
    BY <2>2 DEF Shape
  <2>5. low # NULL => \A s \in Slots(T) : child[s] # low
    BY <2>2, SlotAt
  <2> QED BY <2>2, <2>3, <2>4, <2>5 DEF OneSlotEach
<1> QED BY <1>1, Invariance, PTL

\* Between two calls the nodes allocated are those the tree reaches.
THEOREM NothingLeaks == Spec => []NoLeak
<1>1. HeapInv => NoLeak
  <2> SUFFICES ASSUME HeapInv, up, stack = << >>, NEW S \in SUBSET alloc,
                      child[ROOT] \in S \cup {NULL}, Closed(S)
               PROVE  S = alloc
    BY DEF NoLeak
  <2>1. PICK T, sub : HeapInvAt(T, sub)
    BY DEF HeapInv
  <2>2. Shape(child, el, T, sub) /\ alloc = T
    BY <2>1, IdleFacts DEF HeapInvAt
  <2> DEFINE Q == {t \in Slots(T) : child[t] \in S \cup {NULL} => sub[t] \subseteq S}
  <2>3. ASSUME NEW t \in Slots(T), child[t] # NULL => \A s \in Sides : << child[t], s >> \in Q
        PROVE  t \in Q
    <3> SUFFICES ASSUME child[t] \in S, child[t] # NULL PROVE sub[t] \subseteq S
      BY <2>2 DEF Shape
    <3>1. PICK k : k = child[t]
      OBVIOUS
    <3>2. sub[t] = {k} \cup sub[<< k, "l" >>] \cup sub[<< k, "r" >>]
      BY <2>2, <3>1, NodeAt
    <3>3. \A s \in Sides : child[<< k, s >>] \in S \cup {NULL}
      BY <3>1 DEF Closed, Sides
    <3>4. \A s \in Sides : sub[<< k, s >>] \subseteq S
      BY <2>3, <3>1, <3>3
    <3> QED BY <3>1, <3>2, <3>4 DEF Sides
  <2> HIDE DEF Q
  <2>4. Slots(T) \subseteq Q
    BY <2>2, <2>3, Upwards
  <2>5. ROOT \in Slots(T) /\ sub[ROOT] = T
    BY <2>2 DEF Shape, Slots
  <2> QED BY <2>2, <2>4, <2>5 DEF Q
<1> QED BY <1>1, Invariance, PTL

\* What hangs on one side of a node is the set of the nodes below its field, which is
\* closed under going down.
LEMMA SideClosed ==
  ASSUME HeapInv, ~Destroying, NEW T, NEW sub, HeapInvAt(T, sub),
         NEW a \in T, NEW side \in Sides
  PROVE  /\ sub[<< a, side >>] \subseteq T /\ Closed(sub[<< a, side >>])
         /\ child[<< a, side >>] \in sub[<< a, side >>] \cup {NULL}
         /\ \A x \in sub[<< a, side >>] : Sided(el, x, side, el[a].hash)
<1>1. Shape(child, el, T, sub)
  BY Living
<1>2. PICK t : t = << a, side >>
  OBVIOUS
<1>3. t \in Slots(T)
  BY <1>2 DEF Slots
<1>4. sub[t] \subseteq T /\ child[t] \in sub[t] \cup {NULL}
  BY <1>1, <1>3, SlotAt
<1>5. ASSUME NEW x \in sub[t], NEW s \in Sides
      PROVE  child[<< x, s >>] \in sub[t] \cup {NULL}
  <2>1. << x, s >> \in Slots(T)
    BY <1>4 DEF Slots
  <2>2. sub[<< x, s >>] \subseteq sub[t]
    BY <1>1, <1>3, Below
  <2> QED BY <1>1, <2>1, <2>2, SlotAt
<1>6. Closed(sub[t])
  <2>1. ASSUME NEW s \in sub[t] \X {"l", "r"}
        PROVE  child[s] \in sub[t] \cup {NULL}
    <3>1. s = << s[1], s[2] >> /\ s[1] \in sub[t] /\ s[2] \in Sides
      BY DEF Sides
    <3> QED BY <1>5, <3>1
  <2> QED BY <2>1 DEF Closed
<1>7. \A x \in sub[t] : Sided(el, x, side, el[a].hash)
  BY <1>1, <1>2 DEF Shape
<1> QED BY <1>2, <1>4, <1>6, <1>7

\* The tree is in the order of the hashes at every step of every call.
THEOREM AlwaysSorted == Spec => []Sorted
<1>1. HeapInv => Sorted
  <2> SUFFICES ASSUME HeapInv, ~Destroying, NEW a \in alloc \ {low}
               PROVE  /\ \E S \in SUBSET {b \in alloc : el[b].hash < el[a].hash} :
                           Closed(S) /\ child[<< a, "l" >>] \in S \cup {NULL}
                      /\ \E S \in SUBSET {b \in alloc : el[b].hash > el[a].hash} :
                           Closed(S) /\ child[<< a, "r" >>] \in S \cup {NULL}
    BY DEF Sorted
  <2>1. PICK T, sub : HeapInvAt(T, sub)
    BY DEF HeapInv
  <2>2. a \in T /\ T \subseteq alloc
    BY <2>1, Living
  <2> DEFINE Good(y) == /\ sub[<< a, y >>] \subseteq T /\ Closed(sub[<< a, y >>])
                        /\ child[<< a, y >>] \in sub[<< a, y >>] \cup {NULL}
                        /\ \A x \in sub[<< a, y >>] : Sided(el, x, y, el[a].hash)
  <2>a. Good("l") /\ Good("r")
    <3>1. \A y \in Sides : Good(y)
      BY <2>1, <2>2, SideClosed
    <3> HIDE DEF Good
    <3> QED BY <3>1 DEF Sides
  <2>3. /\ sub[<< a, "l" >>] \subseteq T /\ Closed(sub[<< a, "l" >>])
        /\ child[<< a, "l" >>] \in sub[<< a, "l" >>] \cup {NULL}
        /\ \A x \in sub[<< a, "l" >>] : el[x].hash < el[a].hash
    BY ONLY <2>a DEF Sided
  <2>4. /\ sub[<< a, "r" >>] \subseteq T /\ Closed(sub[<< a, "r" >>])
        /\ child[<< a, "r" >>] \in sub[<< a, "r" >>] \cup {NULL}
        /\ \A x \in sub[<< a, "r" >>] : el[x].hash > el[a].hash
    BY ONLY <2>a DEF Sided
  <2>5. /\ sub[<< a, "l" >>] \in SUBSET {b \in alloc : el[b].hash < el[a].hash}
        /\ sub[<< a, "r" >>] \in SUBSET {b \in alloc : el[b].hash > el[a].hash}
    BY <2>2, <2>3, <2>4
  <2> QED BY <2>3, <2>4, <2>5
<1> QED BY <1>1, Invariance, PTL

\* Counts and filters agree with those of the children wherever the running call will
\* not come back to.
THEOREM AlwaysExact == Spec => []MetadataExact
<1>1. HeapInv => MetadataExact
  <2> SUFFICES ASSUME HeapInv, up, ~Destroying, NEW a \in alloc \ ({low} \cup Pending),
                      NEW f, f = regen_metadata(el, child, a)
               PROVE  el[a].node_cnt = f[a].node_cnt /\ el[a].filter = f[a].filter
    BY DEF MetadataExact
  <2>1. PICK T, sub : HeapInvAt(T, sub)
    BY DEF HeapInv
  <2>2. Shape(child, el, T, sub) /\ a \in T /\ T \subseteq alloc
    BY <2>1, Living
  <2>3. Exact(child, el, a)
    BY <2>1, <2>2 DEF HeapInvAt, Metadata
  <2>4. /\ DOMAIN el = Addr /\ \A b \in T : Linked(el, b) /\ b \in Addr
    BY <2>2 DEF HeapInv, Filled
  <2>5. \A s \in {"l", "r"} : child[<< a, s >>] # NULL => Linked(el, child[<< a, s >>])
    <3>1. \A s \in Sides : child[<< a, s >>] \in (T \ {a}) \cup {NULL}
      BY <2>2, KidsOf
    <3> QED BY <2>4, <3>1 DEF Sides
  <2>6. /\ f[a].node_cnt = 1 + avl_node_cnt(el, child[<< a, "l" >>])
                              + avl_node_cnt(el, child[<< a, "r" >>])
        /\ f[a].filter = HashFilter[el[a].hash] \cup Filter(el, child[<< a, "l" >>])
                                               \cup Filter(el, child[<< a, "r" >>])
    BY <2>2, <2>4, <2>5, Regen DEF Linked
  <2> QED BY <2>3, <2>6 DEF Exact
<1> QED BY <1>1, Invariance, PTL

\* avl_find() finds what some node holds, and nothing else.
THEOREM LookupsExact == Spec => []FindIsExact
<1>1. HeapInv => FindIsExact
  <2> SUFFICES ASSUME HeapInv, call.op = "find", At({"avl"}, "return")
               PROVE  FoundExactly
    BY DEF FindIsExact, FoundExactly
  <2>1. PICK T, sub : HeapInvAt(T, sub)
    BY DEF HeapInv
  <2>2. up /\ stack # << >> /\ Top.fn = "avl"
    BY DEF At
  <2>3. Searching(T, sub)
    BY <2>1, <2>2 DEF HeapInvAt
  <2> QED BY <2>2, <2>3 DEF Searching
<1> QED BY <1>1, Invariance, PTL

-----------------------------------------------------------------------------
(* The refinement, and its invariant: what a call has done to the elements so far. *)

\* The elements in the tree, and those when the call began.
Held == Elements(el, alloc)
Had  == Elements(before.el, before.alloc)

Ops == {"insert", "remove", "ndel", "find", "destroy"}

\* The functions that run during a call.
Runs(op) == IF op \in {"find", "destroy"} THEN {"avl", op}
            ELSE {"avl", op, "leftmost", "rebalance"}

\* The call is still on its way down to the hash of its argument.
GoingDown == call.op \in {"insert", "remove"} /\ Top.fn = call.op /\ Top.at = "enter"

\* avl_insert() has inserted, found the element or run out of memory.
Inserted ==
  \/ call.arg \notin Had /\ Held = Had \cup {call.arg} /\ ret = OK
  \/ Held = Had /\ ret = IF call.arg \in Had THEN EEXIST ELSE ENOMEM

Removed == Held = Had \ {call.arg} /\ ret = IF call.arg \in Had THEN OK ELSE EEXIST

\* avl_ndel() has taken away some elements the predicate holds of, and counted them.
Thinned ==
  /\ Held \subseteq Had /\ Had \ Held \subseteq call.arg
  /\ IsFiniteSet(Had \ Held) /\ ret = Cardinality(Had \ Held)

\* avl_destroy() frees the nodes, and then there is no tree.
Destroyed ==
  /\ call.arg = NULL
  /\ ret = OK \/ (ret = EEXIST /\ Had = {})
  /\ \A f \in On(stack) : \/ f.fn = "destroy"
                          \/ f.fn = "avl" /\ f.at = "clear"
                          \/ f.at = "return" /\ child[ROOT] = NULL

\* A frame of the call; if it is about to cut out its node, the list there is empty.
Proper(f) == /\ f.fn \in Runs(call.op)
             /\ f.at \in {"cut", "replace"} => el[child[f.slot]].ll = << >>

\* The running call has done to the elements what it is to do, up to where it is.
Effect ==
  /\ call.op \in Ops /\ \A f \in On(stack) : Proper(f)
  /\ call.op \in {"insert", "remove", "find"} => call.arg \in Key
  /\ call.op = "find" \/ GoingDown => Held = Had
  /\ call.op = "insert" /\ ~GoingDown => Inserted
  /\ call.op = "remove" /\ ~GoingDown => Removed
  /\ call.op = "ndel" => call.arg \in Preds /\ Thinned
  /\ call.op = "destroy" => Destroyed

\* The nodes that a frame of avl_ndel() will yet visit, but for those its callee will.
ToVisit(f, c, sub) ==
  IF f.fn # "ndel" THEN {}
  ELSE IF f.at = "enter" THEN sub[f.slot]
  ELSE IF f.at = "l" THEN {c[f.slot]} \cup sub[<< c[f.slot], "r" >>]
  ELSE IF f.at = "r" THEN {c[f.slot]} ELSE {}

\* A node with an element that avl_ndel() is to take away.
Affected(x) == ToSet(el[x].ll) \cap call.arg # {}

\* A node of the hash looked for is below the slot reached, and the affected nodes will
\* yet be visited.
Reach(T, sub) ==
  /\ GoingDown => \A x \in T : el[x].hash = Hash => x \in sub[Top.slot]
  /\ call.op = "ndel" =>
       \A x \in alloc : Affected(x) => \E f \in On(stack) : x \in ToVisit(f, child, sub)

Updating == call.op \in {"insert", "remove", "ndel"}

\* So it is in the tree there is.
Placed == \E T, sub : T = alloc \ {low} /\ Shape(child, el, T, sub) /\ Reach(T, sub)

\* No list has an element twice, and the running call is where it should be.
EffectInv ==
  up => /\ \A a \in alloc : IsInjective(el[a].ll)
        /\ stack # << >> => Effect /\ (Updating => Placed)

-----------------------------------------------------------------------------
(* Facts about a tree and its elements. *)

\* The slots determine the subtrees.
LEMMA SameSub ==
  ASSUME NEW c, NEW e, NEW T, NEW sub, Shape(c, e, T, sub), NEW sub2, Shape(c, e, T, sub2)
  PROVE  \A t \in Slots(T) : sub[t] = sub2[t]
<1> DEFINE Q == {t \in Slots(T) : sub[t] = sub2[t]}
<1>1. ASSUME NEW t \in Slots(T), c[t] # NULL => \A s \in Sides : << c[t], s >> \in Q
      PROVE  t \in Q
  <2>1. CASE c[t] = NULL
    <3>1. sub[t] = {}
      BY <2>1, SlotAt
    <3>2. sub2[t] = {}
      BY <2>1, SlotAt
    <3> QED BY <3>1, <3>2
  <2>2. CASE c[t] # NULL
    <3>1. sub[t] = {c[t]} \cup sub[<< c[t], "l" >>] \cup sub[<< c[t], "r" >>]
      BY <2>2, NodeAt
    <3>2. sub2[t] = {c[t]} \cup sub2[<< c[t], "l" >>] \cup sub2[<< c[t], "r" >>]
      BY <2>2, NodeAt
    <3> QED BY <1>1, <2>2, <3>1, <3>2 DEF Sides
  <2> QED BY <2>1, <2>2
<1> HIDE DEF Q
<1>2. Slots(T) \subseteq Q
  BY <1>1, Upwards
<1> QED BY <1>2 DEF Q

\* A hash has one node at most.
LEMMA OneNode ==
  ASSUME NEW c, NEW e, NEW T, NEW sub, Shape(c, e, T, sub),
         NEW x \in T, NEW y \in T, e[x].hash = e[y].hash
  PROVE  x = y
<1> DEFINE Q == {t \in Slots(T) : \A a, b \in sub[t] : e[a].hash = e[b].hash => a = b}
<1>1. ASSUME NEW t \in Slots(T), c[t] # NULL => \A s \in Sides : << c[t], s >> \in Q
      PROVE  t \in Q
  <2>1. CASE c[t] = NULL
    BY <2>1, SlotAt
  <2>2. CASE c[t] # NULL
    <3>a. PICK k : k = c[t]
      OBVIOUS
    <3>1. k \in T /\ sub[t] = {k} \cup sub[<< k, "l" >>] \cup sub[<< k, "r" >>]
      BY <2>2, <3>a, NodeAt
    <3>2. << k, "l" >> \in Slots(T) /\ << k, "r" >> \in Slots(T)
      BY <3>1 DEF Slots, Sides
    <3>3. /\ \A a \in T : e[a].hash \in Nat
          /\ sub[<< k, "l" >>] \subseteq T /\ sub[<< k, "r" >>] \subseteq T
      BY <3>2 DEF Shape
    <3>4. /\ \A a \in sub[<< k, "l" >>] : e[a].hash < e[k].hash
          /\ \A a \in sub[<< k, "r" >>] : e[a].hash > e[k].hash
      BY <3>1 DEF Shape, Sides, Sided
    <3>5. << k, "l" >> \in Q /\ << k, "r" >> \in Q
      BY <1>1, <2>2, <3>a DEF Sides
    <3>6. ASSUME NEW a \in sub[t], NEW b \in sub[t], e[a].hash = e[b].hash
          PROVE  a = b
      <4>1. e[a].hash \in Nat /\ e[b].hash \in Nat /\ e[k].hash \in Nat
        BY <3>1, <3>3
      <4> QED BY <3>1, <3>4, <3>5, <3>6, <4>1
    <3> QED BY <3>6
  <2> QED BY <2>1, <2>2
<1> HIDE DEF Q
<1>2. Slots(T) \subseteq Q
  BY <1>1, Upwards
<1>3. ROOT \in Slots(T) /\ sub[ROOT] = T
  BY DEF Slots, Shape
<1> QED BY <1>2, <1>3 DEF Q

\* The elements depend on what is in the lists only.
LEMMA SameElements ==
  ASSUME NEW e, NEW f, NEW A, \A a \in A : ToSet(f[a].ll) = ToSet(e[a].ll)
  PROVE  Elements(f, A) = Elements(e, A)
BY DEF Elements

\* The elements in a list have the hash of its node.
LEMMA OwnHash ==
  ASSUME Filled, NEW a \in alloc, NEW d \in ToSet(el[a].ll)
  PROVE  d \in Key /\ hashf[d] = el[a].hash
<1>1. el[a].ll \in Seq(OfHash(el[a].hash))
  BY DEF Filled
<1>2. d \in OfHash(el[a].hash)
  BY <1>1 DEF ToSet
<1> QED BY <1>2 DEF OfHash

\* regen_metadata() leaves the lists alone.
LEMMA RegenLists ==
  ASSUME NEW e, NEW c, NEW k, e[k] \in Node, NEW f, f = regen_metadata(e, c, k),
         NEW a \in DOMAIN e
  PROVE  f[a].ll = e[a].ll /\ f[a].hash = e[a].hash
<1> DEFINE H == 1 + Max({0} \cup {e[j].height : j \in {c[<< k, "l" >>], c[<< k, "r" >>]} \ {NULL}})
           N == 1 + avl_node_cnt(e, c[<< k, "l" >>]) + avl_node_cnt(e, c[<< k, "r" >>])
           F == HashFilter[e[k].hash]
                  \cup UNION {e[j].filter : j \in {c[<< k, "l" >>], c[<< k, "r" >>]} \ {NULL}}
<1>1. f = [[[e EXCEPT ![k].height = H] EXCEPT ![k].node_cnt = N] EXCEPT ![k].filter = F]
  BY DEF regen_metadata
<1> HIDE DEF H, N, F
<1>2. CASE a # k
  BY <1>1, <1>2
<1>3. CASE a = k
  BY <1>1, <1>3 DEF Node
<1> QED BY <1>2, <1>3

-----------------------------------------------------------------------------
(* The running call. *)

\* The slots the frames on the stack stand for.
LEMMA FrameAt ==
  ASSUME NEW T, NEW sub, Shape(child, el, T, sub), Stacked(stack, child, T, sub),
         NEW f \in On(stack)
  PROVE  /\ f.slot \in Slots(T)
         /\ f.fn = "ndel" /\ f.at # "enter" => /\ child[f.slot] \in T
                                               /\ << child[f.slot], "r" >> \in Slots(T)
         /\ f.at \in {"cut", "replace"} => f.fn # "avl" /\ child[f.slot] \in T
<1>1. FrameOK(f, child, T)
  BY DEF Stacked, On
<1>2. /\ f.slot \in Slots(T) /\ (f.fn = "ndel" /\ f.at # "enter" => child[f.slot] # NULL)
      /\ f.at \in {"cut", "replace"} => f.fn # "avl" /\ child[f.slot] # NULL
  BY <1>1 DEF FrameOK, LabelOK
<1>3. child[f.slot] # NULL => child[f.slot] \in T
  BY <1>2, SlotAt
<1> QED BY <1>2, <1>3 DEF Slots, Sides

\* The frames on the stack visit nodes of the tree only.
LEMMA VisitsTree ==
  ASSUME NEW T, NEW sub, Shape(child, el, T, sub), Stacked(stack, child, T, sub),
         NEW f \in On(stack)
  PROVE  ToVisit(f, child, sub) \subseteq T
BY FrameAt, SlotAt DEF ToVisit

\* What the invariant says of the tree during an update.
LEMMA Recall ==
  ASSUME HeapInv, EffectInv, up, stack # << >>, Updating, NEW T, NEW sub, HeapInvAt(T, sub)
  PROVE  ~Dying /\ low \notin T /\ T = alloc \ {low} /\ Reach(T, sub)
<1>1. Shape(child, el, T, sub) /\ Stacked(stack, child, T, sub) /\ Owned(T, sub)
  BY DEF HeapInvAt
<1>2. ~Dying
  BY <1>1 DEF Owned, Updating
<1>3. low \notin T /\ alloc = T \cup ({low} \ {NULL}) /\ NULL \notin T
  BY <1>1, <1>2, HeapAssumption DEF Owned, Shape
<1>4. T = alloc \ {low}
  BY <1>3
<1>5. PICK sub2 : Shape(child, el, T, sub2) /\ Reach(T, sub2)
  BY <1>4 DEF EffectInv, Placed
<1>6. \A t \in Slots(T) : sub[t] = sub2[t]
  BY <1>1, <1>5, SameSub
<1>7. Top.slot \in Slots(T)
  BY <1>1, Running
<1>8. \A f \in On(stack) : ToVisit(f, child, sub) = ToVisit(f, child, sub2)
  BY <1>1, <1>6, FrameAt DEF ToVisit
<1>9. Reach(T, sub)
  BY <1>5, <1>6, <1>7, <1>8 DEF Reach
<1> QED BY <1>2, <1>3, <1>4, <1>9

\* The running function returns to its caller, which stands past its entry.
LEMMA Leaving ==
  ASSUME NEW T, NEW sub, Shape(child, el, T, sub), Stacked(stack, child, T, sub),
         stack # << >>, Top.fn \in Walkers, Leave
  PROVE  /\ stack' # << >> /\ On(stack') = Lower /\ Top' = stack[2] /\ Top' \in Lower
         /\ Top'.at # "enter"
<1>1. stack \in Seq(Frames) /\ Tail(stack) \in Seq(Frames)
  BY Running
<1>2. Len(stack) \in Nat /\ Len(stack) > 1 /\ stack[2] \in Lower /\ stack[2].at # "enter"
  BY Walking
<1>3. Tail(stack) # << >>
  BY <1>1, <1>2, TailOn
<1>4. Head(Tail(stack)) = stack[2]
  BY <1>1, <1>2
<1> QED BY <1>2, <1>3, <1>4 DEF Leave, Lower, Top

\* It goes on to another label.
LEMMA GoingOn ==
  ASSUME NEW T, NEW sub, Stacked(stack, child, T, sub), stack # << >>,
         NEW label \in Labels, Goto(label), NEW f, f = [Top EXCEPT !.at = label]
  PROVE  /\ stack' # << >> /\ On(stack') = {f} \cup Lower /\ Top' = f
         /\ f.fn = Top.fn /\ f.slot = Top.slot /\ f.at = label
<1>1. Top \in Frames /\ Tail(stack) \in Seq(Frames)
  BY Running
<1>2. f \in Frames /\ f.fn = Top.fn /\ f.slot = Top.slot /\ f.at = label
  BY <1>1 DEF Frames
<1> DEFINE t == Tail(stack)
<1> HIDE DEF t
<1>3. LET r == << f >> \o t
      IN  r # << >> /\ r[1] = f /\ On(r) = {f} \cup On(t)
  BY <1>1, <1>2, PutOn DEF t
<1>4. stack' = << f >> \o t
  BY DEF Goto, t
<1>5. Head(<< f >> \o t) = (<< f >> \o t)[1]
  BY <1>3
<1> QED BY <1>2, <1>3, <1>4, <1>5 DEF t, Lower, Top

\* It calls another function, that of frame g, and stands at a label meanwhile.
LEMMA Calling ==
  ASSUME NEW T, NEW sub, Stacked(stack, child, T, sub), stack # << >>,
         NEW label \in Labels, NEW f, f = [Top EXCEPT !.at = label], NEW g \in Frames,
         stack' = << g, f >> \o Tail(stack)
  PROVE  /\ stack' # << >> /\ On(stack') = {g, f} \cup Lower /\ Top' = g
         /\ f.fn = Top.fn /\ f.slot = Top.slot /\ f.at = label
<1>1. Top \in Frames /\ Tail(stack) \in Seq(Frames)
  BY Running
<1>2. f \in Frames /\ f.fn = Top.fn /\ f.slot = Top.slot /\ f.at = label
  BY <1>1 DEF Frames
<1> DEFINE t == Tail(stack)
           u == << f >> \o t
<1> HIDE DEF t
<1>3. u \in Seq(Frames) /\ On(u) = {f} \cup On(t)
  BY <1>1, <1>2, PutOn DEF t
<1>4. stack' = << g >> \o u
  BY <1>1, <1>2, TwoOn DEF t
<1> HIDE DEF u
<1>5. LET r == << g >> \o u
      IN  r # << >> /\ r[1] = g /\ On(r) = {g} \cup On(u)
  BY <1>3, PutOn
<1>6. Head(<< g >> \o u) = (<< g >> \o u)[1]
  BY <1>5
<1> QED BY <1>2, <1>3, <1>4, <1>5, <1>6 DEF t, Lower, Top

-----------------------------------------------------------------------------
(* How a step may change what the invariant says. *)

\* The callers still are frames of the call, and the one that waits for the leftmost node
\* still has an empty list.
LEMMA LowerProper ==
  ASSUME NEW T, NEW sub, Shape(child, el, T, sub), Stacked(stack, child, T, sub),
         stack # << >>, Top.fn \in Walkers, Effect, call' = call,
         Top.fn = "leftmost" =>
            /\ \A g \in Lower : g.fn # "avl" => child'[g.slot] = child[g.slot]
            /\ \A a \in T : el'[a].ll = el[a].ll
  PROVE  \A g \in Lower : Proper(g)'
<1> SUFFICES ASSUME NEW g \in Lower PROVE Proper(g)'
  OBVIOUS
<1>1. g \in On(stack)
  BY Running
<1>2. Proper(g)
  BY <1>1 DEF Effect
<1>3. g.at \in {"cut", "replace"} => g.fn # "avl" /\ child[g.slot] \in T
  BY <1>1, FrameAt
<1>4. g.at \in {"cut", "replace"} => Top.fn = "leftmost"
  BY <1>3, Callers DEF Sides
<1> QED BY <1>2, <1>3, <1>4 DEF Proper

\* The elements, and what the call has counted, stay what they were.
LEMMA EffectOn ==
  ASSUME Effect, UNCHANGED << call, before, ret >>, Held' = Held, GoingDown' <=> GoingDown,
         \A f \in On(stack') : Proper(f)', call.op = "destroy" => Destroyed'
  PROVE  Effect'
<1>1. Had' = Had
  BY DEF Had
<1>2. Inserted => Inserted'
  BY <1>1 DEF Inserted
<1>3. Removed => Removed'
  BY <1>1 DEF Removed
<1>4. Thinned => Thinned'
  BY <1>1 DEF Thinned
<1> QED BY <1>1, <1>2, <1>3, <1>4 DEF Effect

\* The lists stay what they were.
LEMMA SameLists ==
  ASSUME alloc' = alloc, \A a \in alloc : el'[a].ll = el[a].ll
  PROVE  /\ Held' = Held
         /\ (\A a \in alloc : IsInjective(el[a].ll)) => \A a \in alloc' : IsInjective(el'[a].ll)
BY DEF Held, Elements

\* A step that leaves all lists alone keeps the invariant, if the frames are those of the
\* call and the affected nodes will be visited.
LEMMA Onward ==
  ASSUME EffectInv, up, stack # << >>, UNCHANGED << alloc, call, before, ret >>,
         \A a \in alloc : el'[a].ll = el[a].ll, GoingDown' <=> GoingDown,
         \A f \in On(stack') : Proper(f)', call.op = "destroy" => Destroyed',
         Updating => Placed'
  PROVE  EffectInv'
<1>1. Effect /\ \A a \in alloc : IsInjective(el[a].ll)
  BY DEF EffectInv
<1>2. Held' = Held /\ \A a \in alloc' : IsInjective(el'[a].ll)
  BY <1>1, SameLists
<1>3. Effect'
  BY <1>1, <1>2, EffectOn
<1>4. Updating' <=> Updating
  BY DEF Updating
<1> QED BY <1>2, <1>3, <1>4 DEF EffectInv

\* Past the way down the tree tells nothing more of avl_insert() and avl_del(), and nothing
\* of avl_ndel() when no node is affected any more.
LEMMA PlacedAnyhow ==
  ASSUME HeapInv', up', stack' # << >>, Updating', ~GoingDown',
         call'.op = "ndel" => \A x \in alloc' : ~Affected(x)'
  PROVE  Placed'
<1>1. PICK T, sub : HeapInvAt(T, sub)'
  BY DEF HeapInv
<1>2. Shape(child', el', T, sub) /\ Owned(T, sub)'
  BY <1>1 DEF HeapInvAt
<1>3. low' \notin T /\ alloc' = T \cup ({low'} \ {NULL}) /\ NULL \notin T
  BY <1>2, HeapAssumption DEF Owned, Updating, Shape
<1>4. T = alloc' \ {low'}
  BY <1>3
<1>5. Reach(T, sub)'
  BY DEF Reach
<1> QED BY <1>2, <1>4, <1>5 DEF Placed

\* The affected nodes stay those that will be visited.
LEMMA ReachOn ==
  ASSUME NEW T, NEW sub, NEW T2, NEW sub2, Reach(T, sub), call' = call, ~GoingDown',
         \A x \in alloc' : Affected(x)' => /\ x \in alloc /\ Affected(x)
                                          /\ \A f \in On(stack) : x \in ToVisit(f, child, sub) =>
                                               \E g \in On(stack') : x \in ToVisit(g, child', sub2)
  PROVE  Reach(T2, sub2)'
<1> SUFFICES ASSUME call.op = "ndel", NEW x \in alloc', Affected(x)'
             PROVE  \E g \in On(stack') : x \in ToVisit(g, child', sub2)
  BY DEF Reach
<1> QED BY DEF Reach

\* It calls itself for the child on a side.
LEMMA Entering ==
  ASSUME NEW T, NEW sub, Shape(child, el, T, sub), Stacked(stack, child, T, sub),
         stack # << >>, Cur # NULL, NEW side \in Sides, Enter(side),
         NEW f, f = [Top EXCEPT !.at = side],
         NEW g, g = Frame(Top.fn, << Cur, side >>, "enter")
  PROVE  /\ stack' # << >> /\ On(stack') = {g, f} \cup Lower /\ Top' = g
         /\ f.fn = Top.fn /\ f.slot = Top.slot /\ f.at = side
         /\ g.fn = Top.fn /\ g.slot = << Cur, side >> /\ g.at = "enter"
<1>1. Top \in Frames /\ Top.slot \in Slots(T)
  BY Running
<1>2. Cur \in Addr
  BY <1>1, SlotAt DEF Cur, Shape
<1>3. g \in Frames /\ g.fn = Top.fn /\ g.slot = << Cur, side >> /\ g.at = "enter"
  BY <1>1, <1>2 DEF Frames, Frame, Labels, Slot, Sides
<1>4. stack' = << g, f >> \o Tail(stack) /\ side \in Labels
  BY DEF Enter, Labels, Sides
<1> QED BY <1>3, <1>4, Calling

-----------------------------------------------------------------------------
(* Rebalancing. *)

\* When avl_ndel() has visited all nodes, none is affected any more.
LEMMA Unaffected ==
  ASSUME HeapInv, EffectInv, up, stack # << >>, call.op = "ndel",
         \A f \in On(stack) : f.fn # "ndel"
  PROVE  \A x \in alloc : ~Affected(x)
<1>1. PICK T, sub : HeapInvAt(T, sub)
  BY DEF HeapInv
<1>2. Reach(T, sub)
  BY <1>1, Recall DEF Updating
<1>3. \A f \in On(stack) : ToVisit(f, child, sub) = {}
  BY DEF ToVisit
<1> QED BY <1>2, <1>3 DEF Reach

\* Frames of the interface function and of rebalance_subtree().
Balancers(F) == \A f \in F : f.fn \in {"avl", "rebalance"} /\ f.at \notin {"cut", "replace"}

\* The steps from the end of an update on.
LEMMA Balancing ==
  ASSUME HeapInv, EffectInv, HeapInv', up, up', stack # << >>, Updating, Balancers(On(stack)),
         UNCHANGED << alloc, call, before, ret >>, \A a \in alloc : el'[a].ll = el[a].ll,
         stack' # << >>, Balancers(On(stack')), Top \in On(stack), Top' \in On(stack')
  PROVE  EffectInv'
<1>1. ~GoingDown /\ ~GoingDown'
  BY DEF GoingDown, Updating, Balancers
<1>2. call.op = "ndel" => \A x \in alloc' : ~Affected(x)'
  BY Unaffected DEF Balancers, Affected
<1>3. Placed'
  BY <1>1, <1>2, PlacedAnyhow DEF Updating
<1>4. \A f \in On(stack') : Proper(f)'
  BY DEF Balancers, Proper, Runs, Updating
<1> QED BY <1>1, <1>3, <1>4, Onward DEF Updating

\* The functions that run while the tree is rebalanced.
LEMMA WhileBalancing ==
  ASSUME HeapInv, EffectInv, up, stack # << >>, Top.fn = "rebalance",
         NEW T, NEW sub, HeapInvAt(T, sub)
  PROVE  /\ Shape(child, el, T, sub) /\ Stacked(stack, child, T, sub)
         /\ Updating /\ Top \in On(stack) /\ Balancers(On(stack)) /\ Balancers(Lower)
<1>1. Shape(child, el, T, sub) /\ Stacked(stack, child, T, sub)
  BY DEF HeapInvAt
<1>2. Top \in On(stack) /\ On(stack) = {Top} \cup Lower
  BY <1>1, Running
<1>3. Updating
  BY <1>2 DEF EffectInv, Effect, Proper, Runs, Ops, Updating
<1>4. /\ "rebalance" \in Callees(stack[Len(stack)])
      /\ \A g \in Lower : g.fn \in Callees(stack[Len(stack)]) \cup {"avl"}
  BY <1>1, Walking DEF Walkers
<1>5. Callees(stack[Len(stack)]) = {"rebalance"}
  BY <1>4 DEF Callees
<1>6. \A f \in On(stack) : f.fn \in {"avl", "rebalance"} /\ LabelOK(f.fn, f.at)
  BY <1>1, <1>2, <1>4, <1>5 DEF Stacked, FrameOK, On
<1>7. Balancers(On(stack))
  BY <1>6 DEF Balancers, LabelOK, Walkers
<1> QED BY <1>1, <1>2, <1>3, <1>7 DEF Balancers

\* The update is over.
LEMMA RebalanceEffect == HeapInv /\ EffectInv /\ Rebalance => EffectInv' /\ stack' # << >>
<1> SUFFICES ASSUME HeapInv, EffectInv, Rebalance PROVE EffectInv' /\ stack' # << >>
  OBVIOUS
<1> DEFINE f == Frame("rebalance", ROOT, "enter")
           g == Frame("avl", ROOT, "return")
<1>1. /\ up /\ up' /\ stack # << >> /\ Top.fn = "avl" /\ Top.at = "rebalance"
      /\ UNCHANGED << alloc, call, before, ret >> /\ el' = el /\ stack' = << f, g >>
  BY DEF Rebalance, At, rest, memory
<1>2. PICK T, sub : HeapInvAt(T, sub)
  BY DEF HeapInv
<1>3. On(stack) = {Top} /\ Top \in On(stack)
  BY <1>1, <1>2, BottomFacts
<1>4. Balancers(On(stack))
  BY <1>1, <1>3 DEF Balancers
<1>5. Updating
  <2>1. Effect /\ Searching(T, sub)
    BY <1>1, <1>2 DEF EffectInv, HeapInvAt
  <2>2. call.op # "find"
    BY <1>1, <2>1 DEF Searching
  <2>3. call.op # "destroy"
    BY <1>1, <1>3, <2>1 DEF Effect, Destroyed
  <2> QED BY <2>1, <2>2, <2>3 DEF Effect, Ops, Updating
<1>6. /\ f.fn = "rebalance" /\ f.at = "enter" /\ g.fn = "avl" /\ g.at = "return"
      /\ f \in Frames /\ g \in Frames
  BY DEF Frame, Frames, Fns, Labels, Slot
<1> HIDE DEF f, g
<1>7. << f, g >> # << >> /\ On(<< f, g >>) = {f, g} /\ Head(<< f, g >>) = f
  <2>1. Len(<< f, g >>) = 2 /\ 1 .. 2 = {1, 2} /\ << f, g >>[1] = f /\ << f, g >>[2] = g
    OBVIOUS
  <2> QED BY <2>1 DEF On
<1>8. Balancers(On(stack')) /\ Top' \in On(stack')
  BY <1>1, <1>6, <1>7 DEF Balancers, Top
<1>9. HeapInv'
  BY RebalanceKeeps
<1> QED BY <1>1, <1>3, <1>4, <1>5, <1>7, <1>8, <1>9, Balancing

\* A call of rebalance_subtree() goes on, calls itself or returns.
LEMMA BalanceStep ==
  ASSUME HeapInv, EffectInv, HeapInv', up, up', stack # << >>, Top.fn = "rebalance",
         UNCHANGED << alloc, call, before, ret >>, \A a \in alloc : el'[a].ll = el[a].ll,
         \/ Leave
         \/ \E label \in Labels \ {"cut", "replace"} : Goto(label)
         \/ Cur # NULL /\ \E side \in Sides : Enter(side)
         \/ stack' = stack
  PROVE  EffectInv' /\ stack' # << >>
<1>1. PICK T, sub : HeapInvAt(T, sub)
  BY DEF HeapInv
<1>2. /\ Shape(child, el, T, sub) /\ Stacked(stack, child, T, sub)
      /\ Updating /\ Top \in On(stack) /\ Balancers(On(stack)) /\ Balancers(Lower)
  BY <1>1, WhileBalancing
<1>3. SUFFICES stack' # << >> /\ Balancers(On(stack')) /\ Top' \in On(stack')
  BY <1>2, Balancing
<1>4. CASE Leave
  <2>1. stack' # << >> /\ On(stack') = Lower /\ Top' \in Lower
    BY <1>2, <1>4, Leaving DEF Walkers
  <2> QED BY <1>2, <2>1
<1>5. ASSUME NEW label \in Labels \ {"cut", "replace"}, Goto(label)
      PROVE  stack' # << >> /\ Balancers(On(stack')) /\ Top' \in On(stack')
  <2>1. PICK f : f = [Top EXCEPT !.at = label]
    OBVIOUS
  <2>2. /\ stack' # << >> /\ On(stack') = {f} \cup Lower /\ Top' = f
        /\ f.fn = Top.fn /\ f.at = label
    BY <1>2, <1>5, <2>1, GoingOn
  <2> QED BY <1>2, <1>5, <2>2 DEF Balancers
<1>6. ASSUME NEW side \in Sides, Enter(side), Cur # NULL
      PROVE  stack' # << >> /\ Balancers(On(stack')) /\ Top' \in On(stack')
  <2>1. PICK f, g : f = [Top EXCEPT !.at = side] /\ g = Frame(Top.fn, << Cur, side >>, "enter")
    OBVIOUS
  <2>2. /\ stack' # << >> /\ On(stack') = {g, f} \cup Lower /\ Top' = g
        /\ f.fn = Top.fn /\ f.at = side /\ g.fn = Top.fn /\ g.at = "enter"
    BY <1>2, <1>6, <2>1, Entering
  <2> QED BY <1>2, <1>6, <2>2 DEF Balancers, Sides
<1>7. ASSUME stack' = stack
      PROVE  stack' # << >> /\ Balancers(On(stack')) /\ Top' \in On(stack')
  <2>1. Top' = Top
    BY <1>7 DEF Top
  <2> QED BY <1>2, <1>7, <2>1
<1> QED BY <1>4, <1>5, <1>6, <1>7

\* The steps of rebalance_subtree().
LEMMA BalanceEffect ==
  ASSUME HeapInv, EffectInv,
         \/ RebalanceSkip \/ RebalanceStart \/ RightDone \/ LeftDone \/ RebalanceEnd
         \/ \E s \in Sides : RotateInner(s) \/ RotateOuter(s)
         \/ VisitRight /\ Top.fn = "rebalance"
  PROVE  EffectInv' /\ stack' # << >>
<1>1. /\ up /\ up' /\ stack # << >> /\ Top.fn = "rebalance"
      /\ UNCHANGED << alloc, call, before, ret >>
  <2>1. CASE RebalanceSkip \/ RebalanceStart \/ RebalanceEnd
    BY <2>1 DEF RebalanceSkip, RebalanceStart, RebalanceEnd, At, memory, rest
  <2>2. CASE RightDone \/ LeftDone
    BY <2>2 DEF RightDone, LeftDone, Looping, At, memory, rest
  <2>3. CASE \E s \in Sides : RotateInner(s) \/ RotateOuter(s)
    BY <2>3 DEF RotateInner, RotateOuter, Looping, At, rest
  <2>4. CASE VisitRight /\ Top.fn = "rebalance"
    BY <2>4 DEF VisitRight, At, memory, rest
  <2> QED BY <2>1, <2>2, <2>3, <2>4
<1>2. HeapInv'
  BY QuietReturns, QuietCalls, QuietLabels, RotationsKeep
<1>3. \A a \in alloc : el'[a].ll = el[a].ll
  <2>1. CASE \E s \in Sides : RotateInner(s) \/ RotateOuter(s)
    BY <2>1, RotationsKeep
  <2>2. CASE ~\E s \in Sides : RotateInner(s) \/ RotateOuter(s)
    <3>1. el' = el
      BY <2>2 DEF RebalanceSkip, RebalanceStart, RightDone, LeftDone, RebalanceEnd,
                  VisitRight, memory
    <3> QED BY <3>1
  <2> QED BY <2>1, <2>2
<1>4. Top.at # "enter" => Cur # NULL
  BY <1>1, AtNode DEF Walkers
<1>5. \/ Leave
      \/ \E label \in Labels \ {"cut", "replace"} : Goto(label)
      \/ Cur # NULL /\ \E side \in Sides : Enter(side)
      \/ stack' = stack
  <2>1. CASE RebalanceSkip \/ RebalanceEnd
    BY <2>1 DEF RebalanceSkip, RebalanceEnd
  <2>2. CASE RebalanceStart
    BY <2>2 DEF RebalanceStart, Labels
  <2>3. CASE RightDone
    BY <2>3 DEF RightDone, Labels
  <2>4. CASE LeftDone
    BY <1>4, <2>4 DEF LeftDone, Looping, At, Sides
  <2>5. CASE VisitRight
    BY <1>4, <2>5 DEF VisitRight, At, Sides
  <2>6. CASE \E s \in Sides : RotateInner(s) \/ RotateOuter(s)
    BY <2>6 DEF RotateInner, RotateOuter
  <2> QED BY <2>1, <2>2, <2>3, <2>4, <2>5, <2>6
<1> QED BY <1>1, <1>2, <1>3, <1>5, BalanceStep

-----------------------------------------------------------------------------
(* Going through the tree. *)

\* The functions of an update.
UpdateFns == {"insert", "remove", "ndel", "leftmost"}

\* What the invariant says while one of them runs.
LEMMA WhileUpdating ==
  ASSUME HeapInv, EffectInv, up, stack # << >>, Top.fn \in UpdateFns,
         NEW T, NEW sub, HeapInvAt(T, sub)
  PROVE  /\ Filled /\ Shape(child, el, T, sub) /\ Stacked(stack, child, T, sub)
         /\ Updating /\ Effect /\ low \notin T /\ T = alloc \ {low} /\ Reach(T, sub)
         /\ Top \in On(stack) /\ On(stack) = {Top} \cup Lower /\ Proper(Top)
         /\ Top.fn # "leftmost" => call.op = Top.fn
<1>1. Shape(child, el, T, sub) /\ Stacked(stack, child, T, sub)
  BY DEF HeapInvAt
<1>2. Top \in On(stack) /\ On(stack) = {Top} \cup Lower
  BY <1>1, Running
<1>3. Effect /\ Proper(Top) /\ call.op \in Ops
  BY <1>2 DEF EffectInv, Effect
<1>4. Updating /\ (Top.fn # "leftmost" => call.op = Top.fn)
  BY <1>3 DEF Proper, Runs, Ops, Updating, UpdateFns
<1>5. low \notin T /\ T = alloc \ {low} /\ Reach(T, sub)
  BY <1>4, Recall
<1> QED BY <1>1, <1>2, <1>3, <1>4, <1>5 DEF HeapInv

\* A step that leaves slots and lists alone keeps the invariant, if the nodes affected or
\* looked for still are ahead.
LEMMA Walk ==
  ASSUME HeapInv, EffectInv, up, stack # << >>, Top.fn \in UpdateFns,
         NEW T, NEW sub, HeapInvAt(T, sub),
         UNCHANGED << child, alloc, low, call, before, ret >>,
         \A a \in alloc : el'[a].ll = el[a].ll /\ el'[a].hash = el[a].hash,
         \A f \in On(stack') \ Lower :
            /\ f.fn \in {Top.fn, "leftmost"} /\ f.at # "cut"
            /\ f.at = "replace" => Top.at = "cut" /\ f.slot = Top.slot,
         Reach(T, sub)', GoingDown' <=> GoingDown
  PROVE  EffectInv'
<1>1. /\ Filled /\ Shape(child, el, T, sub) /\ Stacked(stack, child, T, sub)
      /\ Updating /\ Effect /\ low \notin T /\ T = alloc \ {low}
      /\ Top \in On(stack) /\ On(stack) = {Top} \cup Lower /\ Proper(Top)
  BY WhileUpdating
<1>2. \A g \in Lower : Proper(g)'
  BY <1>1, LowerProper DEF UpdateFns, Walkers
<1>3. ASSUME NEW f \in On(stack') \ Lower
      PROVE  Proper(f)'
  <2>1. f.fn \in Runs(call'.op)
    BY <1>1, <1>3 DEF Proper, Runs, Updating
  <2>2. CASE f.at = "replace"
    <3>1. child[Top.slot] \in T /\ el[child[Top.slot]].ll = << >>
      BY <1>1, <1>3, <2>2, FrameAt DEF Proper
    <3> QED BY <1>1, <1>3, <2>1, <2>2, <3>1 DEF Proper
  <2>3. CASE f.at # "replace"
    BY <1>3, <2>1, <2>3 DEF Proper
  <2> QED BY <2>2, <2>3
<1>4. Shape(child', el', T, sub)
  BY <1>1, Rehash
<1>5. Placed'
  BY <1>1, <1>4 DEF Placed
<1>6. call.op # "destroy"
  BY <1>1 DEF Updating
<1> QED BY <1>2, <1>3, <1>5, <1>6, Onward

\* A recursive search goes on to the side of the hash.
LEMMA DescendEffect == HeapInv /\ EffectInv /\ Descend => EffectInv' /\ stack' # << >>
<1> SUFFICES ASSUME HeapInv, EffectInv, Descend PROVE EffectInv' /\ stack' # << >>
  OBVIOUS
<1>1. PICK T, sub : HeapInvAt(T, sub)
  BY DEF HeapInv
<1>2. /\ up /\ stack # << >> /\ Top.fn \in {"insert", "remove"} /\ Top.at = "enter"
      /\ Cur # NULL /\ el[Cur].hash # Hash
      /\ UNCHANGED << child, alloc, low, call, before, ret >> /\ el' = el
  BY DEF Descend, At, memory, rest
<1>3. PICK side \in Sides : side = (IF Hash < el[Cur].hash THEN "l" ELSE "r") /\ Enter(side)
  BY DEF Descend, Sides
<1>4. PICK n, f, g : /\ n = Cur /\ f = [Top EXCEPT !.at = side]
                     /\ g = Frame(Top.fn, << Cur, side >>, "enter")
  OBVIOUS
<1>5. /\ Filled /\ Shape(child, el, T, sub) /\ Stacked(stack, child, T, sub)
      /\ Updating /\ Effect /\ Reach(T, sub) /\ call.op = Top.fn
      /\ Top.slot \in Slots(T)
  BY <1>1, <1>2, WhileUpdating, Running DEF UpdateFns
<1>6. /\ stack' # << >> /\ On(stack') = {g, f} \cup Lower /\ Top' = g
      /\ f.fn = Top.fn /\ f.slot = Top.slot /\ f.at = side
      /\ g.fn = Top.fn /\ g.slot = << n, side >> /\ g.at = "enter"
  BY <1>2, <1>3, <1>4, <1>5, Entering
<1>7. GoingDown /\ GoingDown'
  BY <1>2, <1>5, <1>6 DEF GoingDown
<1>8. ASSUME NEW x \in T, el[x].hash = Hash
      PROVE  x \in sub[<< n, side >>]
  <2>1. x \in sub[Top.slot] /\ x # n
    BY <1>2, <1>4, <1>5, <1>7, <1>8 DEF Reach
  <2>2. n \in T /\ sub[Top.slot] = {n} \cup sub[<< n, "l" >>] \cup sub[<< n, "r" >>]
    BY <1>2, <1>4, <1>5, NodeAt DEF Cur
  <2>3. el[x].hash \in Nat /\ el[n].hash \in Nat
    BY <1>5, <2>2 DEF Shape
  <2>4. /\ x \in sub[<< n, "l" >>] => el[x].hash < el[n].hash
        /\ x \in sub[<< n, "r" >>] => el[x].hash > el[n].hash
    BY <1>5, <2>2 DEF Shape, Sides, Sided
  <2> QED BY <1>3, <1>4, <1>8, <2>1, <2>2, <2>3, <2>4
<1>9. Reach(T, sub)'
  <2>1. Hash' = Hash /\ call'.op # "ndel"
    BY <1>2, <1>5 DEF Hash
  <2> QED BY <1>2, <1>6, <1>8, <2>1 DEF Reach
<1>10. \A h \in On(stack') \ Lower : h.fn = Top.fn /\ h.at \notin {"cut", "replace"}
  BY <1>6 DEF Sides
<1> QED BY <1>1, <1>2, <1>6, <1>7, <1>9, <1>10, Walk DEF UpdateFns

\* A step past the search, or of avl_ndel(), that leaves the slots and lists alone.
LEMMA WalkOn ==
  ASSUME HeapInv, EffectInv, up, stack # << >>, Top.fn \in UpdateFns, ~GoingDown,
         NEW T, NEW sub, HeapInvAt(T, sub),
         UNCHANGED << child, alloc, low, call, before, ret >>,
         \A a \in alloc : el'[a].ll = el[a].ll /\ el'[a].hash = el[a].hash,
         \A f \in On(stack') \ Lower :
            /\ f.fn \in {Top.fn, "leftmost"} /\ f.at # "cut"
            /\ f.at = "replace" => Top.at = "cut" /\ f.slot = Top.slot,
         Lower \subseteq On(stack'), ~GoingDown',
         \A x \in ToVisit(Top, child, sub) : \E g \in On(stack') : x \in ToVisit(g, child, sub)
  PROVE  EffectInv'
<1>1. Reach(T, sub) /\ On(stack) = {Top} \cup Lower
  BY WhileUpdating
<1>2. \A x \in alloc' : Affected(x)' => x \in alloc /\ Affected(x)
  BY DEF Affected
<1>3. \A x : \A f \in On(stack) : x \in ToVisit(f, child, sub) =>
               \E g \in On(stack') : x \in ToVisit(g, child', sub)
  BY <1>1
<1>4. Reach(T, sub)'
  BY <1>1, <1>2, <1>3, ReachOn
<1> QED BY <1>4, Walk

\* On the way back a function returns to one that is past its entry.
LEMMA UnwindEffect == HeapInv /\ EffectInv /\ Unwind => EffectInv' /\ stack' # << >>
<1> SUFFICES ASSUME HeapInv, EffectInv, Unwind PROVE EffectInv' /\ stack' # << >>
  OBVIOUS
<1>1. PICK T, sub : HeapInvAt(T, sub)
  BY DEF HeapInv
<1>2. /\ up /\ stack # << >> /\ Top.fn \in {"insert", "remove", "leftmost"} /\ Top.at \in Sides
      /\ Leave /\ el' = regen_metadata(el, child, Cur)
      /\ UNCHANGED << child, alloc, low, call, before, ret >>
  BY DEF Unwind, At, rest, Sides
<1>3. /\ Filled /\ Shape(child, el, T, sub) /\ Stacked(stack, child, T, sub)
      /\ T = alloc \ {low}
  BY <1>1, <1>2, WhileUpdating DEF UpdateFns
<1>4. /\ stack' # << >> /\ On(stack') = Lower /\ Top' \in Lower /\ Top'.at # "enter"
  BY <1>2, <1>3, Leaving DEF Walkers
<1>5. ~GoingDown /\ ~GoingDown'
  BY <1>2, <1>4 DEF GoingDown, Sides
<1>6. \A a \in alloc : el'[a].ll = el[a].ll /\ el'[a].hash = el[a].hash
  <2>1. Cur \in T
    <3>1. Cur # NULL
      BY <1>2, AtNode DEF Walkers, Sides
    <3>2. Top.slot \in Slots(T)
      BY <1>2, <1>3, Running
    <3> QED BY <1>3, <3>1, <3>2, SlotAt DEF Cur
  <2>2. el[Cur] \in Node /\ alloc \subseteq DOMAIN el
    BY <1>3, <2>1 DEF Filled, Linked
  <2> QED BY <1>2, <2>2, RegenLists
<1>7. ToVisit(Top, child, sub) = {}
  BY <1>2 DEF ToVisit
<1> QED BY <1>1, <1>2, <1>4, <1>5, <1>6, <1>7, WalkOn DEF UpdateFns

\* avl_ndel() goes to the left, to the right, or returns from an empty slot.
LEMMA NdelVisits ==
  ASSUME HeapInv, EffectInv, VisitNull \/ VisitLeft \/ VisitRight, Top.fn = "ndel"
  PROVE  EffectInv' /\ stack' # << >>
<1>1. PICK T, sub : HeapInvAt(T, sub)
  BY DEF HeapInv
<1>2. /\ up /\ stack # << >> /\ el' = el
      /\ UNCHANGED << child, alloc, low, call, before, ret >>
  BY DEF VisitNull, VisitLeft, VisitRight, At, memory, rest
<1>3. /\ Shape(child, el, T, sub) /\ Stacked(stack, child, T, sub)
      /\ call.op = "ndel" /\ Top.slot \in Slots(T)
  BY <1>1, <1>2, WhileUpdating, Running DEF UpdateFns
<1>4. ~GoingDown /\ ~GoingDown'
  BY <1>2, <1>3 DEF GoingDown
<1>5. CASE VisitNull
  <2>1. Leave /\ Top.at = "enter" /\ child[Top.slot] = NULL
    BY <1>5 DEF VisitNull, At, Cur
  <2>2. stack' # << >> /\ On(stack') = Lower
    BY <1>2, <1>3, <2>1, Leaving DEF Walkers
  <2>3. ToVisit(Top, child, sub) = {}
    BY <1>3, <2>1, SlotAt DEF ToVisit
  <2> QED BY <1>1, <1>2, <1>4, <2>2, <2>3, WalkOn DEF UpdateFns
<1>6. ASSUME NEW side \in Sides, Enter(side), Cur # NULL,
             side = "l" => Top.at = "enter", side = "r" => Top.at = "l"
      PROVE  EffectInv' /\ stack' # << >>
  <2>1. PICK n, f, g : /\ n = Cur /\ f = [Top EXCEPT !.at = side]
                       /\ g = Frame(Top.fn, << Cur, side >>, "enter")
    OBVIOUS
  <2>2. /\ stack' # << >> /\ On(stack') = {g, f} \cup Lower
        /\ f.fn = Top.fn /\ f.slot = Top.slot /\ f.at = side
        /\ g.fn = Top.fn /\ g.slot = << n, side >> /\ g.at = "enter"
    BY <1>2, <1>3, <1>6, <2>1, Entering
  <2>3. sub[Top.slot] = {n} \cup sub[<< n, "l" >>] \cup sub[<< n, "r" >>]
    BY <1>3, <1>6, <2>1, NodeAt DEF Cur
  <2>4. \A x \in ToVisit(Top, child, sub) : x \in ToVisit(f, child, sub) \cup ToVisit(g, child, sub)
    BY <1>6, <2>1, <2>2, <2>3 DEF ToVisit, Cur, Sides
  <2>5. \A h \in On(stack') \ Lower : h.fn = Top.fn /\ h.at \notin {"cut", "replace"}
    BY <2>2 DEF Sides
  <2> QED BY <1>1, <1>2, <1>4, <2>2, <2>4, <2>5, WalkOn DEF UpdateFns
<1>7. CASE VisitLeft
  BY <1>6, <1>7 DEF VisitLeft, At, Sides
<1>8. CASE VisitRight
  <2>1. Cur # NULL
    BY <1>2, <1>8, AtNode DEF VisitRight, At, Walkers
  <2> QED BY <1>6, <1>8, <2>1 DEF VisitRight, At, Sides
<1> QED BY <1>5, <1>7, <1>8

\* isolate_leftmost() is called, and goes down to the left.
LEMMA LeftmostVisits ==
  ASSUME HeapInv, EffectInv, CutHard \/ LeftmostDown
  PROVE  EffectInv' /\ stack' # << >>
<1>1. PICK T, sub : HeapInvAt(T, sub)
  BY DEF HeapInv
<1>2. /\ up /\ stack # << >> /\ el' = el /\ Top.fn \in UpdateFns
      /\ UNCHANGED << child, alloc, low, call, before, ret >>
  BY DEF CutHard, LeftmostDown, At, memory, rest, UpdateFns
<1>3. /\ Shape(child, el, T, sub) /\ Stacked(stack, child, T, sub) /\ Updating
      /\ Top.slot \in Slots(T)
  BY <1>1, <1>2, WhileUpdating, Running
<1>4. ToVisit(Top, child, sub) = {}
  BY DEF ToVisit, CutHard, LeftmostDown, At
<1>5. ~GoingDown
  BY <1>3 DEF GoingDown, CutHard, LeftmostDown, At, Updating
<1>6. CASE CutHard
  <2>1. PICK n, f, g : /\ n = Cur /\ f = [Top EXCEPT !.at = "replace"]
                       /\ g = Frame("leftmost", << Cur, "r" >>, "enter")
    OBVIOUS
  <2>2. stack' = << g, f >> \o Tail(stack) /\ Top.at = "cut" /\ Top.fn \in {"remove", "ndel"}
    BY <1>6, <2>1 DEF CutHard, At
  <2>3. g \in Frames /\ g.fn = "leftmost" /\ g.at = "enter"
    <3>1. n \in T
      <4>1. n # NULL
        BY <1>2, <2>1, <2>2, AtNode DEF Walkers
      <4> QED BY <1>3, <2>1, <4>1, SlotAt DEF Cur
    <3>2. n \in Addr
      BY <1>3, <3>1 DEF Shape
    <3> QED BY <2>1, <3>2 DEF Frame, Frames, Fns, Labels, Slot
  <2>4. /\ stack' # << >> /\ On(stack') = {g, f} \cup Lower /\ Top' = g
        /\ f.fn = Top.fn /\ f.slot = Top.slot /\ f.at = "replace"
    <3>1. "replace" \in Labels
      BY DEF Labels
    <3> QED BY <1>2, <1>3, <2>1, <2>2, <2>3, <3>1, Calling
  <2>5. ~GoingDown'
    BY <1>2, <1>3, <2>3, <2>4 DEF GoingDown, Updating
  <2>6. \A h \in On(stack') \ Lower : /\ h.fn \in {Top.fn, "leftmost"} /\ h.at # "cut"
                                      /\ h.at = "replace" => h.slot = Top.slot
    BY <2>3, <2>4
  <2> QED BY <1>1, <1>2, <1>4, <1>5, <2>2, <2>4, <2>5, <2>6, WalkOn
<1>7. CASE LeftmostDown
  <2>1. Enter("l") /\ Top.fn = "leftmost" /\ Top.at = "enter"
    BY <1>7 DEF LeftmostDown, At
  <2>2. Cur # NULL
    BY <1>2, <1>3, <2>1, Running DEF FrameOK, Cur
  <2>3. PICK f, g : f = [Top EXCEPT !.at = "l"] /\ g = Frame(Top.fn, << Cur, "l" >>, "enter")
    OBVIOUS
  <2>4. /\ stack' # << >> /\ On(stack') = {g, f} \cup Lower /\ Top' = g
        /\ f.fn = Top.fn /\ f.at = "l" /\ g.fn = Top.fn /\ g.at = "enter"
    BY <1>2, <1>3, <2>1, <2>2, <2>3, Entering DEF Sides
  <2>5. ~GoingDown'
    BY <1>2, <1>3, <2>1, <2>4 DEF GoingDown, Updating
  <2>6. \A h \in On(stack') \ Lower : h.fn = "leftmost" /\ h.at \notin {"cut", "replace"}
    BY <2>1, <2>4
  <2> QED BY <1>1, <1>2, <1>4, <1>5, <2>4, <2>5, <2>6, WalkOn
<1> QED BY <1>6, <1>7

-----------------------------------------------------------------------------
(* Cutting a node out. *)

\* A caller that will visit a node still will after a change below it, and the node is not
\* below the running function.
LEMMA StillVisited ==
  ASSUME NEW T, NEW sub, Shape(child, el, T, sub), Stacked(stack, child, T, sub),
         stack # << >>, NEW g \in Lower, NEW x \in ToVisit(g, child, sub),
         NEW U, NEW sub2, Cur \in sub[Top.slot], T \ {Cur} \subseteq U,
         g.fn # "avl" => child'[g.slot] = child[g.slot],
         \A t \in Slots(T) \cap Slots(U) : sub[t] \cap U \subseteq sub2[t]
  PROVE  x \in U /\ x \in ToVisit(g, child', sub2)
<1>1. g.fn = "ndel" /\ g \in On(stack)
  BY Running DEF ToVisit
<1>2. PICK k : k = child[g.slot]
  OBVIOUS
<1>3. /\ g.at \in Sides \cup {"replace"} /\ g.slot \in Slots(T) /\ k \in T /\ k # NULL
      /\ sub[Top.slot] \subseteq sub[Field(g, child)] /\ k \notin sub[Top.slot]
      /\ child'[g.slot] = k
  BY <1>1, <1>2, Callers
<1>4. /\ sub[<< k, "l" >>] \cap sub[<< k, "r" >>] = {}
      /\ << k, "r" >> \in Slots(T) /\ sub[<< k, "r" >>] \subseteq T
  <2>1. << k, "r" >> \in Slots(T)
    BY <1>3 DEF Slots, Sides
  <2>2. sub[<< k, "l" >>] \cap sub[<< k, "r" >>] = {}
    BY <1>2, <1>3, NodeAt
  <2> QED BY <2>1, <2>2, SlotAt
<1>5. k \in U /\ << k, "r" >> \in Slots(U)
  BY <1>3 DEF Slots, Sides
<1>6. CASE x = k
  BY <1>1, <1>2, <1>3, <1>5, <1>6 DEF ToVisit, Sides
<1>7. CASE x # k
  <2>1. g.at = "l" /\ x \in sub[<< k, "r" >>]
    BY <1>1, <1>2, <1>3, <1>7 DEF ToVisit, Sides
  <2>2. Field(g, child) = << k, "l" >>
    BY <1>2, <2>1 DEF Field
  <2>3. x # Cur /\ x \in U
    BY <1>3, <1>4, <2>1, <2>2
  <2>4. x \in sub2[<< k, "r" >>]
    BY <1>4, <1>5, <2>1, <2>3
  <2> QED BY <1>1, <1>3, <2>1, <2>3, <2>4 DEF ToVisit
<1> QED BY <1>6, <1>7

\* Taking nodes with empty lists away changes no element.
LEMMA SameHeld ==
  ASSUME alloc' \subseteq alloc, \A a \in alloc' : el'[a].ll = el[a].ll,
         \A a \in alloc \ alloc' : el[a].ll = << >>
  PROVE  Held' = Held
<1>1. Held' = UNION {ToSet(el[a].ll) : a \in alloc'}
  BY DEF Held, Elements
<1>2. ToSet(<< >>) = {}
  BY DEF ToSet
<1>3. \A a \in alloc \ alloc' : ToSet(el[a].ll) = {}
  BY <1>2
<1> QED BY <1>1, <1>3 DEF Held, Elements

\* The node of the running function leaves the tree, freed or to be put elsewhere, and the
\* function returns.
LEMMA Relink ==
  ASSUME HeapInv, EffectInv, up, stack # << >>, Top.fn \in UpdateFns, ~GoingDown, Leave,
         NEW T, NEW sub, HeapInvAt(T, sub), ToVisit(Top, child, sub) = {},
         UNCHANGED << call, before, ret >>,
         alloc' \subseteq alloc, \A a \in alloc' : el'[a].ll = el[a].ll,
         \A a \in alloc \ alloc' : el[a].ll = << >>, Top.fn = "leftmost" => alloc' = alloc,
         NEW U, NEW sub2, U = alloc' \ {low'}, Shape(child', el', U, sub2),
         Cur \in sub[Top.slot], T \ {Cur} \subseteq U,
         \A g \in Lower : g.fn # "avl" => child'[g.slot] = child[g.slot],
         \A t \in Slots(T) \cap Slots(U) : sub[t] \cap U \subseteq sub2[t]
  PROVE  EffectInv' /\ stack' # << >>
<1>1. /\ Shape(child, el, T, sub) /\ Stacked(stack, child, T, sub)
      /\ Updating /\ Effect /\ T = alloc \ {low} /\ Reach(T, sub)
      /\ On(stack) = {Top} \cup Lower
  BY WhileUpdating
<1>2. /\ stack' # << >> /\ On(stack') = Lower /\ Top' \in Lower /\ Top'.at # "enter"
  BY <1>1, Leaving DEF Walkers, UpdateFns
<1>3. ~GoingDown'
  BY <1>2 DEF GoingDown
<1>4. \A g \in Lower : Proper(g)'
  BY <1>1, LowerProper DEF UpdateFns, Walkers
<1>5. Held' = Held
  BY SameHeld
<1>6. Effect'
  BY <1>1, <1>2, <1>3, <1>4, <1>5, EffectOn DEF Updating
<1>7. \A x \in alloc' : Affected(x)' => x \in alloc /\ Affected(x)
  BY DEF Affected
<1>8. ASSUME NEW x, NEW f \in On(stack), x \in ToVisit(f, child, sub)
      PROVE  \E g \in On(stack') : x \in ToVisit(g, child', sub2)
  <2>1. f \in Lower
    BY <1>1, <1>8
  <2>2. /\ Shape(child, el, T, sub) /\ Stacked(stack, child, T, sub) /\ stack # << >>
        /\ x \in ToVisit(f, child, sub) /\ Cur \in sub[Top.slot] /\ T \ {Cur} \subseteq U
        /\ f.fn # "avl" => child'[f.slot] = child[f.slot]
        /\ \A t \in Slots(T) \cap Slots(U) : sub[t] \cap U \subseteq sub2[t]
    BY <1>1, <1>8, <2>1
  <2>3. x \in ToVisit(f, child', sub2)
    BY ONLY <2>1, <2>2, StillVisited
  <2> QED BY <1>2, <2>1, <2>3
<1>9. Reach(U, sub2)'
  BY <1>1, <1>3, <1>7, <1>8, ReachOn
<1>10. Placed'
  BY <1>9 DEF Placed
<1>11. \A a \in alloc' : IsInjective(el'[a].ll)
  BY DEF EffectInv
<1> QED BY <1>2, <1>6, <1>10, <1>11 DEF EffectInv

\* isolate_leftmost() cuts out the least node.
LEMMA LeftmostCutEffect == HeapInv /\ EffectInv /\ LeftmostCut => EffectInv' /\ stack' # << >>
<1> SUFFICES ASSUME HeapInv, EffectInv, LeftmostCut PROVE EffectInv' /\ stack' # << >>
  OBVIOUS
<1>1. PICK T, sub : HeapInvAt(T, sub)
  BY DEF HeapInv
<1>2. PICK n : n = Cur
  OBVIOUS
<1>3. /\ up /\ stack # << >> /\ Top.fn = "leftmost" /\ Top.at = "enter"
      /\ child[<< n, "l" >>] = NULL /\ low' = n
      /\ child' = [child EXCEPT ![Top.slot] = child[<< n, "r" >>]] /\ Leave
      /\ UNCHANGED << el, alloc, ret, call, before >>
  BY <1>2 DEF LeftmostCut, At, rest, Kid
<1>4. /\ Filled /\ Shape(child, el, T, sub) /\ Stacked(stack, child, T, sub)
      /\ Updating /\ low \notin T /\ T = alloc \ {low} /\ Moving(T, sub)
  BY <1>1, <1>3, WhileUpdating DEF UpdateFns, HeapInvAt
<1>5. low = NULL /\ alloc = T
  <2>1. low = NULL
    BY <1>3, <1>4 DEF Moving
  <2> QED BY <1>4, <2>1, HeapAssumption DEF Filled
<1>6. n # NULL
  BY <1>2, <1>3, <1>4, Running DEF FrameOK, Cur
<1>7. CutOut(T, sub, n, "r")
  <2>1. "r" \in Sides /\ Opp("r") = "l"
    BY DEF Sides, Opp
  <2> QED BY <1>2, <1>3, <1>4, <1>6, <2>1, CutSteady DEF Walkers
<1>8. PICK sub2 : /\ \A t \in Slots(T) : sub2[t] = sub[t] \ {n}
                  /\ Shape(child', el, T \ {n}, sub2) /\ Steady(T, sub, T \ {n}, sub2)
  BY <1>7 DEF CutOut
<1>9. PICK U : U = T \ {n}
  OBVIOUS
<1>10. /\ U = alloc' \ {low'} /\ Shape(child', el', U, sub2) /\ T \ {Cur} \subseteq U
       /\ \A g \in Lower : g.fn # "avl" => child'[g.slot] = child[g.slot]
       /\ \A t \in Slots(T) \cap Slots(U) : sub[t] \cap U \subseteq sub2[t]
  BY <1>2, <1>3, <1>5, <1>8, <1>9 DEF Steady
<1>11. Cur \in sub[Top.slot]
  BY <1>2, <1>7 DEF CutOut
<1>12. ~GoingDown /\ ToVisit(Top, child, sub) = {}
  BY <1>3, <1>4 DEF GoingDown, ToVisit, Updating
<1>13. /\ up /\ stack # << >> /\ Top.fn \in UpdateFns /\ Leave /\ HeapInvAt(T, sub)
       /\ UNCHANGED << call, before, ret >>
       /\ alloc' \subseteq alloc /\ \A a \in alloc' : el'[a].ll = el[a].ll
       /\ \A a \in alloc \ alloc' : el[a].ll = << >>
       /\ (Top.fn = "leftmost" => alloc' = alloc)
  BY <1>1, <1>3 DEF UpdateFns
<1> QED BY ONLY HeapInv, EffectInv, <1>10, <1>11, <1>12, <1>13, Relink

\* A node with at most one child is cut out and freed.
LEMMA CutEasyEffect == HeapInv /\ EffectInv /\ CutEasy => EffectInv' /\ stack' # << >>
<1> SUFFICES ASSUME HeapInv, EffectInv, CutEasy PROVE EffectInv' /\ stack' # << >>
  OBVIOUS
<1>1. PICK T, sub : HeapInvAt(T, sub)
  BY DEF HeapInv
<1>2. PICK n, k : n = Cur /\ k = OnlyKid
  OBVIOUS
<1>3. /\ up /\ stack # << >> /\ Top.fn \in {"remove", "ndel"} /\ Top.at = "cut"
      /\ child' = [child EXCEPT ![Top.slot] = k] /\ Leave
      /\ el' = IF k = NULL THEN el ELSE regen_metadata(el, child', k)
      /\ alloc' = alloc \ {n} /\ UNCHANGED << low, ret, call, before >>
  BY <1>2 DEF CutEasy, At, rest
<1>4. PICK x \in Sides : child[<< n, Opp(x) >>] = NULL /\ child[<< n, x >>] = k
  BY <1>2 DEF Sides, Opp, CutEasy, OnlyKid, Kid
<1>5. /\ Filled /\ Shape(child, el, T, sub) /\ Stacked(stack, child, T, sub)
      /\ Updating /\ low \notin T /\ T = alloc \ {low} /\ Moving(T, sub) /\ Proper(Top)
      /\ Top.slot \in Slots(T)
  BY <1>1, <1>3, WhileUpdating, Running DEF UpdateFns, HeapInvAt
<1>6. low = NULL /\ alloc = T /\ NULL \notin T
  <2>1. low = NULL
    BY <1>3, <1>5, NotMoving DEF Walkers
  <2> QED BY <1>5, <2>1, HeapAssumption DEF Filled
<1>7. n # NULL /\ n \in T
  <2>1. n # NULL
    BY <1>2, <1>3, AtNode DEF Walkers
  <2> QED BY <1>2, <1>5, <2>1, SlotAt DEF Cur
<1>8. CutOut(T, sub, n, x)
  <2>1. /\ Filled /\ Shape(child, el, T, sub) /\ Stacked(stack, child, T, sub)
        /\ stack # << >> /\ Top.fn \in Walkers /\ n = Cur /\ n # NULL
        /\ x \in Sides /\ child[<< n, Opp(x) >>] = NULL
        /\ child' = [child EXCEPT ![Top.slot] = child[<< n, x >>]]
    BY <1>2, <1>3, <1>4, <1>5, <1>7 DEF Walkers
  <2> QED BY ONLY <2>1, CutSteady
<1>9. PICK sub2 : /\ \A t \in Slots(T) : sub2[t] = sub[t] \ {n}
                  /\ Shape(child', el, T \ {n}, sub2) /\ Steady(T, sub, T \ {n}, sub2)
  BY <1>8 DEF CutOut
<1>10. \A a \in alloc : el'[a].ll = el[a].ll /\ el'[a].hash = el[a].hash
  <2>1. CASE k = NULL
    BY <1>3, <2>1
  <2>2. CASE k # NULL
    <3>1. k \in T
      BY <1>4, <1>5, <1>7, <2>2, KidsOf
    <3>2. el[k] \in Node /\ alloc \subseteq DOMAIN el
      BY <1>5, <1>6, <3>1 DEF Filled, Linked
    <3> QED BY <1>3, <2>2, <3>2, RegenLists
  <2> QED BY <2>1, <2>2
<1>11. PICK U : U = T \ {n}
  OBVIOUS
<1>12. Shape(child', el', U, sub2)
  BY <1>6, <1>9, <1>10, <1>11, Rehash
<1>13. /\ U = alloc' \ {low'} /\ T \ {Cur} \subseteq U
       /\ \A g \in Lower : g.fn # "avl" => child'[g.slot] = child[g.slot]
       /\ \A t \in Slots(T) \cap Slots(U) : sub[t] \cap U \subseteq sub2[t]
  <2>1. low' = NULL /\ alloc' = T \ {n}
    BY <1>3, <1>6
  <2> QED BY <1>2, <1>6, <1>9, <1>11, <2>1 DEF Steady
<1>14. Cur \in sub[Top.slot]
  BY <1>2, <1>8 DEF CutOut
<1>15. ~GoingDown /\ ToVisit(Top, child, sub) = {}
  BY <1>3, <1>5 DEF GoingDown, ToVisit, Updating
<1>16. /\ alloc' \subseteq alloc /\ \A a \in alloc' : el'[a].ll = el[a].ll
       /\ \A a \in alloc \ alloc' : el[a].ll = << >>
  <2>1. el[n].ll = << >>
    BY <1>2, <1>3, <1>5 DEF Proper, Cur
  <2> QED BY <1>3, <1>10, <2>1
<1>17. /\ up /\ stack # << >> /\ Top.fn \in UpdateFns /\ Leave
       /\ UNCHANGED << call, before, ret >> /\ (Top.fn = "leftmost" => alloc' = alloc)
  BY <1>3 DEF UpdateFns
<1> QED BY ONLY HeapInv, EffectInv, <1>1, <1>12, <1>13, <1>14, <1>15, <1>16, <1>17, Relink

\* The leftmost node of the right subtree takes the place of the node that is removed.
LEMMA ReplaceEffect == HeapInv /\ EffectInv /\ Replace => EffectInv' /\ stack' # << >>
<1> SUFFICES ASSUME HeapInv, EffectInv, Replace PROVE EffectInv' /\ stack' # << >>
  OBVIOUS
<1>1. PICK T, sub : HeapInvAt(T, sub)
  BY DEF HeapInv
<1>2. PICK s, n, b : s = Top.slot /\ n = Cur /\ b = low
  OBVIOUS
<1>3. /\ up /\ stack # << >> /\ Top.fn \in {"remove", "ndel"} /\ Top.at = "replace"
      /\ Leave /\ alloc' = alloc \ {n} /\ low' = NULL /\ UNCHANGED << ret, call, before >>
  BY <1>2 DEF Replace, At, rest
<1>4. PICK U, sub2 : Replaced(T, sub, s, n, b, U, sub2)
  BY <1>1, <1>2, ReplaceShape
<1>5. /\ n \in T /\ n \in sub[s] /\ b \notin T /\ alloc = T \cup {b}
      /\ U \subseteq alloc /\ U = (T \ {n}) \cup {b} /\ NULL \notin T /\ b # NULL
      /\ Refreshed(child', el, el', b) /\ Shape(child', el', U, sub2)
      /\ Steady(T, sub, U, sub2) /\ \A t \in Slots(T) \cap Slots(U) : sub[t] \cap U \subseteq sub2[t]
  BY <1>4 DEF Replaced
<1>6. /\ Filled /\ Updating /\ Proper(Top)
  BY <1>1, <1>3, WhileUpdating DEF UpdateFns
<1>7. U = alloc' \ {low'} /\ T \ {Cur} \subseteq U
  BY <1>2, <1>3, <1>5
<1>8. /\ alloc' \subseteq alloc /\ \A a \in alloc' : el'[a].ll = el[a].ll
      /\ \A a \in alloc \ alloc' : el[a].ll = << >>
  <2>1. el[n].ll = << >>
    BY <1>2, <1>3, <1>6 DEF Proper, Cur
  <2>2. \A a \in alloc : el'[a].ll = el[a].ll
    BY <1>5, <1>6 DEF Refreshed, Filled
  <2> QED BY <1>3, <2>1, <2>2
<1>9. ~GoingDown /\ ToVisit(Top, child, sub) = {}
  BY <1>3 DEF GoingDown, ToVisit
<1>10. \A g \in Lower : g.fn # "avl" => child'[g.slot] = child[g.slot]
  BY <1>5 DEF Steady
<1>11. /\ up /\ stack # << >> /\ Top.fn \in UpdateFns /\ Leave /\ HeapInvAt(T, sub)
       /\ UNCHANGED << call, before, ret >> /\ (Top.fn = "leftmost" => alloc' = alloc)
       /\ Shape(child', el', U, sub2) /\ Cur \in sub[Top.slot]
       /\ \A t \in Slots(T) \cap Slots(U) : sub[t] \cap U \subseteq sub2[t]
  BY <1>1, <1>2, <1>3, <1>5 DEF UpdateFns
<1> QED BY ONLY HeapInv, EffectInv, <1>7, <1>8, <1>9, <1>10, <1>11, Relink

-----------------------------------------------------------------------------
(* Inserting and deleting. *)

\* What is known at the end of the way down.
LEMMA Bottoming ==
  ASSUME HeapInv, EffectInv, up, stack # << >>, Top.fn \in {"insert", "remove"},
         Top.at = "enter"
  PROVE  /\ call.op = Top.fn /\ call.arg \in Key /\ Held = Had /\ Filled
         /\ \A a \in alloc : call.arg \in ToSet(el[a].ll) => /\ el[a].hash = Hash
                                                            /\ Cur # NULL
         /\ \A a \in alloc : el[a].hash = Hash /\ Cur # NULL /\ el[Cur].hash = Hash => a = Cur
         /\ Cur # NULL => Cur \in alloc /\ DOMAIN el = Addr /\ Linked(el, Cur)
                          /\ el[Cur].ll \in Seq(OfHash(el[Cur].hash)) /\ IsInjective(el[Cur].ll)
<1>1. PICK T, sub : HeapInvAt(T, sub)
  BY DEF HeapInv
<1>2. /\ Filled /\ Shape(child, el, T, sub) /\ Stacked(stack, child, T, sub)
      /\ Updating /\ Effect /\ low \notin T /\ T = alloc \ {low} /\ Reach(T, sub)
      /\ call.op = Top.fn /\ Moving(T, sub) /\ Top.slot \in Slots(T)
  BY <1>1, WhileUpdating, Running DEF UpdateFns, HeapInvAt
<1>3. GoingDown
  BY <1>2 DEF GoingDown
<1>4. Held = Had /\ call.arg \in Key
  BY <1>2, <1>3 DEF Effect
<1>5. alloc = T
  <2>1. low = NULL
    BY <1>2, NotMoving DEF Walkers
  <2> QED BY <1>2, <2>1, HeapAssumption DEF Filled
<1>6. \A a \in alloc : el[a].hash = Hash => a \in sub[Top.slot]
  BY <1>2, <1>3, <1>5 DEF Reach
<1>7. Cur = NULL => sub[Top.slot] = {}
  BY <1>2, SlotAt DEF Cur
<1>8. \A a \in alloc : call.arg \in ToSet(el[a].ll) => el[a].hash = Hash
  BY <1>2, OwnHash DEF Hash
<1>9. Cur # NULL => Cur \in T
  BY <1>2, SlotAt DEF Cur
<1>10. \A a \in alloc : el[a].hash = Hash /\ Cur # NULL /\ el[Cur].hash = Hash => a = Cur
  BY <1>2, <1>5, <1>9, OneNode
<1>11. Cur # NULL => /\ Cur \in alloc /\ DOMAIN el = Addr /\ Linked(el, Cur)
                     /\ el[Cur].ll \in Seq(OfHash(el[Cur].hash)) /\ IsInjective(el[Cur].ll)
  BY <1>2, <1>5, <1>9 DEF Filled, EffectInv
<1> QED BY <1>2, <1>4, <1>6, <1>7, <1>8, <1>10, <1>11

\* The call has done what it is to do, and is on its way back.
LEMMA Settle ==
  ASSUME HeapInv, EffectInv, HeapInv', up, up', stack # << >>, Top.fn \in {"insert", "remove"},
         Top.at = "enter", UNCHANGED << call, before >>, stack' # << >>, ~GoingDown',
         \A f \in On(stack') : Proper(f)', \A a \in alloc' : IsInjective(el'[a].ll),
         Top.fn = "insert" => Inserted', Top.fn = "remove" => Removed'
  PROVE  EffectInv'
<1>1. call.op = Top.fn /\ call.arg \in Key
  BY Bottoming
<1>2. Effect'
  BY <1>1 DEF Effect, Ops
<1>3. Placed'
  BY <1>1, PlacedAnyhow DEF Updating
<1> QED BY <1>2, <1>3 DEF EffectInv

\* It returns from the node, or the slot, it was looking for.
LEMMA SettleLeave ==
  ASSUME HeapInv, EffectInv, HeapInv', up, up', stack # << >>, Top.fn \in {"insert", "remove"},
         Top.at = "enter", UNCHANGED << call, before >>, Leave,
         \A a \in alloc' : IsInjective(el'[a].ll),
         Top.fn = "insert" => Inserted', Top.fn = "remove" => Removed'
  PROVE  EffectInv' /\ stack' # << >>
<1>1. PICK T, sub : HeapInvAt(T, sub)
  BY DEF HeapInv
<1>2. Shape(child, el, T, sub) /\ Stacked(stack, child, T, sub) /\ Effect
  BY <1>1, WhileUpdating DEF UpdateFns
<1>3. /\ stack' # << >> /\ On(stack') = Lower /\ Top'.at # "enter"
  BY <1>2, Leaving DEF Walkers
<1>4. \A g \in Lower : Proper(g)'
  BY <1>2, LowerProper DEF Walkers
<1>5. ~GoingDown'
  BY <1>3 DEF GoingDown
<1> QED BY <1>3, <1>4, <1>5, Settle

\* There is no node of the hash, and none could be made, or none was needed.
LEMMA MissEffect ==
  ASSUME HeapInv, EffectInv, InsertNoNode \/ RemoveMiss
  PROVE  EffectInv' /\ stack' # << >>
<1>1. /\ up /\ up' /\ stack # << >> /\ Top.at = "enter" /\ Cur = NULL /\ Leave
      /\ UNCHANGED << alloc, call, before >> /\ el' = el
      /\ \/ Top.fn = "insert" /\ ret' = ENOMEM
         \/ Top.fn = "remove" /\ ret' = EEXIST
  BY DEF InsertNoNode, RemoveMiss, At, memory, rest
<1>2. HeapInv'
  BY QuietReturns
<1>3. Held = Had /\ \A a \in alloc : call.arg \notin ToSet(el[a].ll)
  BY <1>1, Bottoming
<1>4. call.arg \notin Had
  BY <1>3 DEF Held, Elements
<1>5. Held' = Had /\ Had' = Had /\ \A a \in alloc' : IsInjective(el'[a].ll)
  BY <1>1, <1>3 DEF EffectInv, Held, Had, Elements
<1>6. (Top.fn = "insert" => Inserted') /\ (Top.fn = "remove" => Removed')
  BY <1>1, <1>4, <1>5 DEF Inserted, Removed
<1> QED BY <1>1, <1>2, <1>5, <1>6, SettleLeave

\* The elements of the nodes other than n.
Others(n) == UNION {ToSet(el[a].ll) : a \in alloc \ {n}}

\* The list of node n, which was allocated now or before, has changed; the others have not.
LEMMA ListHeld ==
  ASSUME NEW n, alloc' = alloc \cup {n}, \A a \in alloc \ {n} : el'[a].ll = el[a].ll
  PROVE  /\ Held' = Others(n) \cup ToSet(el'[n].ll)
         /\ n \in alloc    => Held = Others(n) \cup ToSet(el[n].ll)
         /\ n \notin alloc => Held = Others(n)
<1>1. \A x : x \in Held' <=> \E a \in alloc' : x \in ToSet(el'[a].ll)
  BY DEF Held, Elements
<1>2. \A x : x \in Held <=> \E a \in alloc : x \in ToSet(el[a].ll)
  BY DEF Held, Elements
<1>3. \A x : x \in Others(n) <=> \E a \in alloc \ {n} : x \in ToSet(el[a].ll)
  BY DEF Others
<1>4. \A x : x \in Held' <=> x \in Others(n) \/ x \in ToSet(el'[n].ll)
  BY <1>1, <1>3
<1>5. n \in alloc => \A x : x \in Held <=> x \in Others(n) \/ x \in ToSet(el[n].ll)
  BY <1>2, <1>3
<1>6. n \notin alloc => \A x : x \in Held <=> x \in Others(n)
  BY <1>2, <1>3
<1>7. Held' = Others(n) \cup ToSet(el'[n].ll)
  BY <1>4
<1>8. n \in alloc    => Held = Others(n) \cup ToSet(el[n].ll)
  BY <1>5
<1>9. n \notin alloc => Held = Others(n)
  BY <1>6
<1> QED BY <1>7, <1>8, <1>9

\* The node of the hash holds the argument if any node does.
LEMMA HeldHere ==
  ASSUME HeapInv, EffectInv, up, stack # << >>, Top.fn \in {"insert", "remove"},
         Top.at = "enter", NEW n, n = Cur, n # NULL, el[n].hash = Hash
  PROVE  /\ n \in alloc /\ DOMAIN el = Addr /\ n \in Addr /\ Linked(el, n)
         /\ el[n].ll \in Seq(OfHash(el[n].hash)) /\ IsInjective(el[n].ll)
         /\ call.arg \in OfHash(el[n].hash)
         /\ call.arg \in Had <=> call.arg \in ToSet(el[n].ll)
         /\ \A a \in alloc \ {n} : call.arg \notin ToSet(el[a].ll)
<1>1. /\ call.arg \in Key /\ Held = Had /\ Filled
      /\ \A a \in alloc : call.arg \in ToSet(el[a].ll) => el[a].hash = Hash
      /\ \A a \in alloc : el[a].hash = Hash => a = n
      /\ n \in alloc /\ DOMAIN el = Addr /\ Linked(el, n)
      /\ el[n].ll \in Seq(OfHash(el[n].hash)) /\ IsInjective(el[n].ll)
  BY Bottoming
<1>2. \A a \in alloc \ {n} : call.arg \notin ToSet(el[a].ll)
  BY <1>1
<1>3. call.arg \in Held <=> call.arg \in ToSet(el[n].ll)
  BY <1>1, <1>2 DEF Held, Elements
<1>4. call.arg \in OfHash(el[n].hash)
  BY <1>1 DEF OfHash, Hash
<1> QED BY <1>1, <1>2, <1>3, <1>4 DEF Filled

\* avl_insert() at the node of the hash.
LEMMA InsertHereEffect ==
  ASSUME HeapInv, EffectInv, NEW nomem \in BOOLEAN, InsertHere(nomem)
  PROVE  EffectInv' /\ stack' # << >>
<1>1. PICK n, r : n = Cur /\ r = ll_insert(el[n].ll, call.arg, nomem)
  OBVIOUS
<1>2. /\ up /\ up' /\ stack # << >> /\ Top.fn = "insert" /\ Top.at = "enter" /\ Leave
      /\ n # NULL /\ el[n].hash = Hash /\ UNCHANGED << alloc, call, before >>
      /\ el' = [el EXCEPT ![n].ll = r.ll] /\ ret' = r.ret
  BY <1>1 DEF InsertHere, At, rest
<1>3. HeapInv'
  BY InsertHereKeeps
<1>4. /\ n \in alloc /\ DOMAIN el = Addr /\ n \in Addr /\ Linked(el, n)
      /\ el[n].ll \in Seq(OfHash(el[n].hash)) /\ IsInjective(el[n].ll)
      /\ call.arg \in OfHash(el[n].hash)
      /\ call.arg \in Had <=> call.arg \in ToSet(el[n].ll)
  BY <1>1, <1>2, HeldHere
<1>5. /\ IsInjective(r.ll)
      /\ \/ call.arg \in ToSet(el[n].ll) /\ r.ret = EEXIST /\ r.ll = el[n].ll
         \/ call.arg \notin ToSet(el[n].ll) /\ r.ret = ENOMEM /\ r.ll = el[n].ll
         \/ /\ call.arg \notin ToSet(el[n].ll) /\ r.ret = OK
            /\ ToSet(r.ll) = ToSet(el[n].ll) \cup {call.arg}
  <2> DEFINE K == OfHash(el[n].hash)
  <2>1. el[n].ll \in Seq(K) /\ call.arg \in K
    BY <1>4
  <2> HIDE DEF K
  <2> QED BY <1>1, <1>4, <2>1, InsertTakes
<1>6. el'[n].ll = r.ll /\ \A a \in Addr \ {n} : el'[a] = el[a]
  BY <1>2, <1>4 DEF Linked, Node
<1>7. \A a \in alloc' : IsInjective(el'[a].ll)
  <2>1. alloc \subseteq Addr
    BY DEF HeapInv, Filled
  <2> QED BY <1>2, <1>5, <1>6, <2>1 DEF EffectInv
<1>8. /\ ToSet(r.ll) = ToSet(el[n].ll) => Held' = Held
      /\ ToSet(r.ll) = ToSet(el[n].ll) \cup {call.arg} => Held' = Held \cup {call.arg}
  <2>1. alloc' = alloc \cup {n} /\ \A a \in alloc \ {n} : el'[a].ll = el[a].ll
    <3>1. alloc \subseteq Addr
      BY DEF HeapInv, Filled
    <3> QED BY <1>2, <1>4, <1>6, <3>1
  <2>2. Held' = Others(n) \cup ToSet(r.ll) /\ Held = Others(n) \cup ToSet(el[n].ll)
    BY <1>4, <1>6, <2>1, ListHeld
  <2> QED BY <2>2
<1>9. Held = Had /\ Had' = Had
  BY <1>2, Bottoming DEF Had
<1>10. Inserted'
  BY <1>2, <1>4, <1>5, <1>8, <1>9 DEF Inserted
<1> QED BY <1>2, <1>3, <1>7, <1>10, SettleLeave

\* avl_insert() where there is no node of the hash.
LEMMA InsertNodeEffect ==
  ASSUME HeapInv, EffectInv, NEW a \in Addr, NEW nomem \in BOOLEAN, InsertNode(a, nomem)
  PROVE  EffectInv' /\ stack' # << >>
<1>1. PICK r, new, e :
        /\ r = ll_insert(<< >>, call.arg, nomem)
        /\ new = [ll |-> r.ll, hash |-> Hash, filter |-> {}, height |-> 0, node_cnt |-> 0]
        /\ e = [el EXCEPT ![a] = new]
  OBVIOUS
<1>2. /\ up /\ up' /\ stack # << >> /\ Top.fn = "insert" /\ Top.at = "enter" /\ Leave
      /\ Cur = NULL /\ a \notin alloc /\ alloc' = alloc \cup {a}
      /\ UNCHANGED << call, before >> /\ el' = regen_metadata(e, child', a) /\ ret' = r.ret
  BY <1>1 DEF InsertNode, At, rest
<1>3. HeapInv'
  BY InsertNodeKeeps
<1>4. /\ call.arg \in Key /\ Held = Had /\ Filled
      /\ \A b \in alloc : call.arg \notin ToSet(el[b].ll)
  BY <1>2, Bottoming
<1>5. call.arg \notin Had
  BY <1>4 DEF Held, Elements
<1>6. new \in Node
  BY <1>1, <1>4, NewNode DEF Hash
<1>7. e[a] = new /\ DOMAIN e = Addr /\ \A b \in Addr \ {a} : e[b] = el[b]
  BY <1>1, <1>4 DEF Filled
<1>8. el'[a].ll = r.ll /\ \A b \in alloc : el'[b].ll = el[b].ll
  <2>1. \A b \in Addr : el'[b].ll = e[b].ll
    BY <1>2, <1>6, <1>7, RegenLists
  <2>2. alloc \subseteq Addr
    BY <1>4 DEF Filled
  <2> QED BY <1>1, <1>2, <1>7, <2>1, <2>2
<1>9. /\ IsInjective(r.ll)
      /\ \/ r.ret = ENOMEM /\ ToSet(r.ll) = {}
         \/ r.ret = OK /\ ToSet(r.ll) = {call.arg}
  <2>1. << >> \in Seq(Key) /\ IsInjective(<< >>) /\ ToSet(<< >>) = {}
    BY DEF IsInjective, ToSet
  <2>2. ~Contains(<< >>, call.arg)
    BY DEF Contains
  <2>3. CASE nomem
    BY <1>1, <2>1, <2>2, <2>3 DEF ll_insert
  <2>4. CASE ~nomem
    <3>1. r.ret = OK /\ r.ll = << call.arg >>
      BY <1>1, <2>2, <2>4 DEF ll_insert
    <3>2. IsInjective(<< call.arg >>) /\ ToSet(<< call.arg >>) = {call.arg}
      BY DEF IsInjective, ToSet
    <3> QED BY <3>1, <3>2
  <2> QED BY <2>3, <2>4
<1>10. \A b \in alloc' : IsInjective(el'[b].ll)
  BY <1>2, <1>8, <1>9 DEF EffectInv
<1>11. /\ ToSet(r.ll) = {} => Held' = Held
       /\ ToSet(r.ll) = {call.arg} => Held' = Held \cup {call.arg}
  <2>1. alloc' = alloc \cup {a} /\ \A b \in alloc \ {a} : el'[b].ll = el[b].ll
    BY <1>2, <1>8
  <2>2. Held' = Others(a) \cup ToSet(r.ll) /\ Held = Others(a)
    BY <1>2, <1>8, <2>1, ListHeld
  <2> QED BY <2>2
<1>12. Had' = Had
  BY <1>2 DEF Had
<1>13. Inserted'
  BY <1>2, <1>4, <1>5, <1>9, <1>11, <1>12 DEF Inserted
<1> QED BY <1>2, <1>3, <1>10, <1>13, SettleLeave

\* avl_del() at the node of the hash: the list may have become empty.
LEMMA RemoveHereEffect == HeapInv /\ EffectInv /\ RemoveHere => EffectInv' /\ stack' # << >>
<1> SUFFICES ASSUME HeapInv, EffectInv, RemoveHere PROVE EffectInv' /\ stack' # << >>
  OBVIOUS
<1>0. PICK T, sub : HeapInvAt(T, sub)
  BY DEF HeapInv
<1>1. PICK n, r : n = Cur /\ r = ll_delete(el[n].ll, call.arg)
  OBVIOUS
<1>2. /\ up /\ up' /\ stack # << >> /\ Top.fn = "remove" /\ Top.at = "enter"
      /\ n # NULL /\ el[n].hash = Hash /\ UNCHANGED << child, alloc, call, before >>
      /\ el' = [el EXCEPT ![n].ll = r.ll] /\ ret' = r.ret
      /\ \/ ll_is_empty(r.ll) /\ Goto("cut")
         \/ Leave
  BY <1>1 DEF RemoveHere, At, rest
<1>3. HeapInv'
  BY RemoveHereKeeps
<1>4. /\ n \in alloc /\ DOMAIN el = Addr /\ n \in Addr /\ Linked(el, n)
      /\ el[n].ll \in Seq(OfHash(el[n].hash)) /\ IsInjective(el[n].ll)
      /\ call.arg \in Had <=> call.arg \in ToSet(el[n].ll)
      /\ \A a \in alloc \ {n} : call.arg \notin ToSet(el[a].ll)
  BY <1>1, <1>2, HeldHere
<1>5. /\ IsInjective(r.ll) /\ ToSet(r.ll) = ToSet(el[n].ll) \ {call.arg}
      /\ r.ret = IF call.arg \in ToSet(el[n].ll) THEN OK ELSE EEXIST
  <2> DEFINE K == OfHash(el[n].hash)
  <2>1. el[n].ll \in Seq(K)
    BY <1>4
  <2> HIDE DEF K
  <2> QED BY <1>1, <1>4, <2>1, DeleteTakes
<1>6. el'[n].ll = r.ll /\ \A a \in Addr \ {n} : el'[a] = el[a]
  BY <1>2, <1>4 DEF Linked, Node
<1>7. alloc \subseteq Addr
  BY DEF HeapInv, Filled
<1>8. \A a \in alloc' : IsInjective(el'[a].ll)
  BY <1>2, <1>5, <1>6, <1>7 DEF EffectInv
<1>9. Held' = Held \ {call.arg}
  <2>1. alloc' = alloc \cup {n} /\ \A a \in alloc \ {n} : el'[a].ll = el[a].ll
    BY <1>2, <1>4, <1>6, <1>7
  <2>2. Held' = Others(n) \cup ToSet(r.ll) /\ Held = Others(n) \cup ToSet(el[n].ll)
    BY <1>4, <1>6, <2>1, ListHeld
  <2>3. call.arg \notin Others(n)
    BY <1>4 DEF Others
  <2> QED BY <1>5, <2>2, <2>3
<1>10. Held = Had /\ Had' = Had /\ call.op = "remove"
  BY <1>2, Bottoming DEF Had
<1>11. Removed'
  BY <1>2, <1>4, <1>5, <1>9, <1>10 DEF Removed
<1>12. CASE Leave
  BY <1>2, <1>3, <1>8, <1>11, <1>12, SettleLeave
<1>13. CASE ll_is_empty(r.ll) /\ Goto("cut")
  <2>1. Shape(child, el, T, sub) /\ Stacked(stack, child, T, sub) /\ Effect
    BY <1>0, <1>2, WhileUpdating DEF UpdateFns
  <2>2. PICK f : f = [Top EXCEPT !.at = "cut"]
    OBVIOUS
  <2>3. /\ stack' # << >> /\ On(stack') = {f} \cup Lower /\ Top' = f
        /\ f.fn = Top.fn /\ f.slot = Top.slot /\ f.at = "cut"
    <3>1. "cut" \in Labels
      BY DEF Labels
    <3> QED BY <1>2, <1>13, <2>1, <2>2, <3>1, GoingOn
  <2>4. \A g \in Lower : Proper(g)'
    BY <1>2, <2>1, LowerProper DEF Walkers
  <2>5. Proper(f)'
    <3>1. f.fn \in Runs(call'.op)
      BY <1>2, <1>10, <2>3 DEF Runs
    <3>2. el'[child'[f.slot]].ll = << >>
      BY <1>1, <1>2, <1>6, <1>13, <2>3 DEF Cur, ll_is_empty
    <3> QED BY <3>1, <3>2 DEF Proper
  <2>6. ~GoingDown'
    BY <2>3 DEF GoingDown
  <2> QED BY <1>2, <1>3, <1>8, <1>11, <2>3, <2>4, <2>5, <2>6, Settle
<1> QED BY <1>2, <1>12, <1>13

-----------------------------------------------------------------------------
(* Deleting all elements that satisfy a predicate. *)

\* The nodes of the tree share no element.
LEMMA Disjoint ==
  ASSUME Filled, NEW T, NEW sub, Shape(child, el, T, sub), alloc = T, NEW n \in T
  PROVE  Others(n) \cap ToSet(el[n].ll) = {}
<1> SUFFICES ASSUME NEW a \in alloc \ {n}, NEW d \in ToSet(el[a].ll), d \in ToSet(el[n].ll)
             PROVE  FALSE
  BY DEF Others
<1>1. hashf[d] = el[a].hash /\ hashf[d] = el[n].hash
  BY OwnHash
<1> QED BY <1>1, OneNode

\* The elements of node n that the predicate holds of are taken away and counted.
LEMMA ThinOut ==
  ASSUME Thinned, NEW n \in alloc, UNCHANGED << alloc, call, before >>,
         \A a \in alloc \ {n} : el'[a].ll = el[a].ll,
         Others(n) \cap ToSet(el[n].ll) = {},
         ToSet(el'[n].ll) = ToSet(el[n].ll) \ call.arg,
         IsFiniteSet(ToSet(el[n].ll) \cap call.arg),
         ret' = ret + Cardinality(ToSet(el[n].ll) \cap call.arg)
  PROVE  Thinned'
<1> DEFINE taken == ToSet(el[n].ll) \cap call.arg
           gone  == Had \ Held
<1>1. Had' = Had
  BY DEF Had
<1>2. Held' = Others(n) \cup ToSet(el'[n].ll) /\ Held = Others(n) \cup ToSet(el[n].ll)
  BY ListHeld
<1>3. Held' = Held \ taken /\ taken \subseteq Held /\ taken \subseteq call.arg
  BY <1>2
<1>4. /\ Held \subseteq Had /\ gone \subseteq call.arg /\ IsFiniteSet(gone)
      /\ ret = Cardinality(gone)
  BY DEF Thinned
<1>5. Had \ Held' = gone \cup taken /\ gone \cap taken = {}
  BY <1>3, <1>4
<1> HIDE DEF taken, gone
<1>6. IsFiniteSet(taken)
  BY DEF taken
<1>7. /\ IsFiniteSet(gone \cup taken)
      /\ Cardinality(gone \cup taken) = Cardinality(gone) + Cardinality(taken)
  <2>1. /\ IsFiniteSet(gone \cup taken)
        /\ Cardinality(gone \cup taken)
             = Cardinality(gone) + Cardinality(taken) - Cardinality(gone \cap taken)
    BY <1>4, <1>6, FS_Union
  <2>2. Cardinality(gone \cap taken) = 0
    BY <1>5, FS_EmptySet
  <2>3. Cardinality(gone) \in Nat /\ Cardinality(taken) \in Nat
    BY <1>4, <1>6, FS_CardinalityType
  <2> QED BY <2>1, <2>2, <2>3
<1>8. ret' = Cardinality(gone \cup taken)
  BY <1>4, <1>7 DEF taken
<1>9. Held' \subseteq Had /\ gone \cup taken \subseteq call.arg
  BY <1>3, <1>4
<1> QED BY <1>1, <1>5, <1>7, <1>8, <1>9 DEF Thinned

\* avl_ndel() at a node.
LEMMA NdelHereEffect == HeapInv /\ EffectInv /\ NdelHere => EffectInv' /\ stack' # << >>
<1> SUFFICES ASSUME HeapInv, EffectInv, NdelHere PROVE EffectInv' /\ stack' # << >>
  OBVIOUS
<1>0. PICK T, sub : HeapInvAt(T, sub)
  BY DEF HeapInv
<1>1. PICK n, r, e : /\ n = Cur /\ r = ll_ndel(el[n].ll, call.arg)
                     /\ e = [el EXCEPT ![n].ll = r.ll]
  OBVIOUS
<1>2. /\ up /\ stack # << >> /\ Top.fn = "ndel" /\ Top.at = "r"
      /\ UNCHANGED << child, alloc, low, call, before >> /\ ret' = ret + r.ret
      /\ \/ ll_is_empty(r.ll) /\ el' = e /\ Goto("cut")
         \/ el' = regen_metadata(e, child, n) /\ Leave
  BY <1>1 DEF NdelHere, At, rest
<1>3. /\ Filled /\ Shape(child, el, T, sub) /\ Stacked(stack, child, T, sub) /\ Effect
      /\ low \notin T /\ T = alloc \ {low} /\ Reach(T, sub) /\ call.op = "ndel" /\ Moving(T, sub)
      /\ On(stack) = {Top} \cup Lower /\ Top.slot \in Slots(T)
  BY <1>0, <1>2, WhileUpdating, Running DEF UpdateFns, HeapInvAt
<1>4. low = NULL /\ alloc = T /\ n \in T /\ n \in Addr /\ alloc \subseteq Addr
  <2>1. low = NULL
    BY <1>2, <1>3, NotMoving DEF Walkers
  <2>2. n # NULL
    BY <1>1, <1>2, AtNode DEF Walkers
  <2>3. n \in T
    BY <1>1, <1>3, <2>2, SlotAt DEF Cur
  <2> QED BY <1>3, <2>1, <2>3, HeapAssumption DEF Filled
<1>5. /\ DOMAIN el = Addr /\ Linked(el, n) /\ IsInjective(el[n].ll)
      /\ el[n].ll \in Seq(OfHash(el[n].hash))
  BY <1>2, <1>3, <1>4 DEF Filled, EffectInv
<1>6. /\ IsInjective(r.ll) /\ ToSet(r.ll) = ToSet(el[n].ll) \ call.arg
      /\ IsFiniteSet(ToSet(el[n].ll) \cap call.arg)
      /\ r.ret = Cardinality(ToSet(el[n].ll) \cap call.arg)
  <2> DEFINE K == OfHash(el[n].hash)
  <2>1. el[n].ll \in Seq(K)
    BY <1>5
  <2> HIDE DEF K
  <2> QED BY <1>1, <1>5, <2>1, NdelTakes
<1>7. r.ll \in Seq(OfHash(el[n].hash))
  BY <1>1, <1>5, ListsKeep
<1>8. /\ DOMAIN e = Addr /\ e[n].ll = r.ll /\ e[n].hash = el[n].hash /\ Linked(e, n)
      /\ \A a \in Addr \ {n} : e[a] = el[a]
  <2>1. PICK l : l = r.ll
    OBVIOUS
  <2>2. e = [el EXCEPT ![n].ll = l] /\ l \in Seq(OfHash(el[n].hash))
    BY <1>1, <1>7, <2>1
  <2>3. /\ DOMAIN e = Addr /\ e[n].ll = l /\ e[n].hash = el[n].hash /\ Linked(e, n)
        /\ \A a \in Addr \ {n} : e[a] = el[a]
    <3>1. DOMAIN el = Addr /\ n \in Addr /\ Linked(el, n)
      BY <1>4, <1>5
    <3>2. l \in Seq(OfHash(el[n].hash)) /\ e = [el EXCEPT ![n].ll = l]
      BY <2>2
    <3>3. DOMAIN e = Addr /\ \A a \in Addr \ {n} : e[a] = el[a]
      BY ONLY <3>1, <3>2, ListEdit
    <3>4. e[n].ll = l /\ e[n].hash = el[n].hash
      BY ONLY <3>1, <3>2, ListEdit
    <3>5. Linked(e, n)
      BY ONLY <3>1, <3>2, ListEdit
    <3> QED BY <3>3, <3>4, <3>5
  <2> QED BY <2>1, <2>3
<1>9. \A a \in Addr : el'[a].ll = e[a].ll /\ el'[a].hash = e[a].hash
  <2>1. e[n] \in Node
    BY <1>8 DEF Linked
  <2> QED BY <1>2, <1>8, <2>1, RegenLists
<1>10. /\ el'[n].ll = r.ll /\ \A a \in alloc \ {n} : el'[a].ll = el[a].ll
       /\ \A a \in alloc : el'[a].hash = el[a].hash
  BY <1>4, <1>8, <1>9
<1>11. Thinned'
  <2>1. Thinned
    BY <1>3 DEF Effect
  <2>2. Others(n) \cap ToSet(el[n].ll) = {}
    BY <1>3, <1>4, Disjoint
  <2> QED BY <1>2, <1>4, <1>6, <1>10, <2>1, <2>2, ThinOut
<1>12. Shape(child', el', T, sub)
  BY <1>2, <1>3, <1>4, <1>10, Rehash
<1>13. /\ stack' # << >> /\ Lower \subseteq On(stack')
       /\ \A f \in On(stack') : Proper(f)'
  <2>1. \A g \in Lower : Proper(g)'
    BY <1>2, <1>3, LowerProper DEF Walkers
  <2>2. CASE Leave
    BY <1>2, <1>3, <2>1, <2>2, Leaving DEF Walkers
  <2>3. CASE ll_is_empty(r.ll) /\ Goto("cut")
    <3>1. PICK f : f = [Top EXCEPT !.at = "cut"]
      OBVIOUS
    <3>2. /\ stack' # << >> /\ On(stack') = {f} \cup Lower
          /\ f.fn = Top.fn /\ f.slot = Top.slot /\ f.at = "cut"
      <4>1. "cut" \in Labels
        BY DEF Labels
      <4> QED BY <1>2, <1>3, <2>3, <3>1, <4>1, GoingOn
    <3>3. Proper(f)'
      <4>1. f.fn \in Runs(call'.op)
        BY <1>2, <1>3, <3>2 DEF Runs
      <4>2. el'[child'[f.slot]].ll = << >>
        BY <1>1, <1>2, <1>10, <2>3, <3>2 DEF Cur, ll_is_empty
      <4> QED BY <4>1, <4>2 DEF Proper
    <3> QED BY <2>1, <3>2, <3>3
  <2> QED BY <1>2, <2>2, <2>3
<1>14. ~GoingDown'
  BY <1>2, <1>3 DEF GoingDown
<1>15. Reach(T, sub)'
  <2>1. ToVisit(Top, child, sub) = {n}
    BY <1>1, <1>2 DEF ToVisit, Cur
  <2>2. ~Affected(n)'
    BY <1>2, <1>6, <1>10 DEF Affected
  <2>3. \A x \in alloc' : Affected(x)' => x \in alloc /\ x # n /\ Affected(x)
    BY <1>2, <1>10, <2>2 DEF Affected
  <2>4. ASSUME NEW x \in alloc', Affected(x)', NEW f \in On(stack), x \in ToVisit(f, child, sub)
        PROVE  \E g \in On(stack') : x \in ToVisit(g, child', sub)
    BY <1>2, <1>3, <1>13, <2>1, <2>3, <2>4
  <2> QED BY <1>2, <1>3, <1>14, <2>3, <2>4, ReachOn
<1>16. Effect'
  BY <1>2, <1>3, <1>11, <1>13, <1>14 DEF Effect, Ops
<1>17. Placed'
  BY <1>2, <1>3, <1>12, <1>15 DEF Placed
<1>18. \A a \in alloc' : IsInjective(el'[a].ll)
  BY <1>2, <1>6, <1>10 DEF EffectInv
<1> QED BY <1>13, <1>16, <1>17, <1>18 DEF EffectInv

-----------------------------------------------------------------------------
(* Freeing the nodes. *)

\* A step of avl_destroy() is one of a call of it.
LEMMA WhileDestroying ==
  ASSUME HeapInv, EffectInv, up, stack # << >>, Top.fn \in {"avl", "destroy"},
         Top.at = "clear" \/ Top.fn = "destroy",
         UNCHANGED << el, call, before, ret >>, alloc' \subseteq alloc,
         \A f \in On(stack') : Proper(f)',
         \A f \in On(stack') : \/ f.fn = "destroy"
                               \/ f.fn = "avl" /\ f.at = "clear"
                               \/ f.at = "return" /\ child'[ROOT] = NULL
  PROVE  EffectInv'
<1>1. PICK T, sub : HeapInvAt(T, sub)
  BY DEF HeapInv
<1>2. Top \in On(stack)
  BY <1>1, Running DEF HeapInvAt
<1>3. Effect /\ \A a \in alloc : IsInjective(el[a].ll)
  BY DEF EffectInv
<1>4. call.op = "destroy"
  <2>1. CASE Top.fn = "destroy"
    BY <1>2, <1>3, <2>1 DEF Effect, Proper, Runs, Ops
  <2>2. CASE Top.fn = "avl" /\ Top.at = "clear"
    BY <1>1, <2>2, BottomFacts DEF HeapInvAt, Owned
  <2> QED BY <2>1, <2>2
<1>5. Had' = Had
  BY DEF Had
<1>6. Destroyed'
  BY <1>3, <1>4, <1>5 DEF Effect, Destroyed
<1>7. Effect' /\ ~Updating'
  BY <1>3, <1>4, <1>6 DEF Effect, GoingDown, Updating
<1>8. \A a \in alloc' : IsInjective(el'[a].ll)
  BY <1>3
<1> QED BY <1>7, <1>8 DEF EffectInv

\* avl_destroy() at an empty slot or at a node.
LEMMA DestroyEffect ==
  ASSUME HeapInv, EffectInv, VisitNull \/ VisitLeft \/ VisitRight \/ DestroyHere,
         Top.fn = "destroy"
  PROVE  EffectInv' /\ stack' # << >>
<1>0. PICK T, sub : HeapInvAt(T, sub)
  BY DEF HeapInv
<1>1. /\ up /\ stack # << >> /\ UNCHANGED << child, el, call, before, ret >>
      /\ alloc' \subseteq alloc
      /\ \/ Leave
         \/ Top.at = "enter" /\ Cur # NULL /\ Enter("l")
         \/ Top.at = "l" /\ Enter("r")
  BY DEF VisitNull, VisitLeft, VisitRight, DestroyHere, At, memory, rest
<1>2. /\ Shape(child, el, T, sub) /\ Stacked(stack, child, T, sub) /\ Effect
      /\ On(stack) = {Top} \cup Lower
  BY <1>0, <1>1, Running DEF HeapInvAt, EffectInv
<1>3. call.op = "destroy"
  BY <1>1, <1>2 DEF Effect, Proper, Runs, Ops
<1>4. \A g \in Lower : Proper(g)'
  BY <1>1, <1>2, LowerProper DEF Walkers
<1>5. \A g \in Lower : \/ g.fn = "destroy"
                       \/ g.fn = "avl" /\ g.at = "clear"
                       \/ g.at = "return" /\ child'[ROOT] = NULL
  BY <1>1, <1>2, <1>3 DEF Effect, Destroyed
<1>6. SUFFICES stack' # << >> /\ \A f \in On(stack') \ Lower : Proper(f)' /\ f.fn = "destroy"
  BY <1>0, <1>1, <1>2, <1>4, <1>5, WhileDestroying
<1>7. CASE Leave
  BY <1>1, <1>2, <1>7, Leaving DEF Walkers
<1>8. ASSUME NEW side \in Sides, Enter(side), Cur # NULL
      PROVE  stack' # << >> /\ \A f \in On(stack') \ Lower : Proper(f)' /\ f.fn = "destroy"
  <2>1. PICK f, g : f = [Top EXCEPT !.at = side] /\ g = Frame(Top.fn, << Cur, side >>, "enter")
    OBVIOUS
  <2>2. /\ stack' # << >> /\ On(stack') = {g, f} \cup Lower
        /\ f.fn = Top.fn /\ f.at = side /\ g.fn = Top.fn /\ g.at = "enter"
    BY <1>1, <1>2, <1>8, <2>1, Entering
  <2>3. Proper(f)' /\ Proper(g)'
    BY <1>1, <1>3, <2>2 DEF Proper, Runs, Sides
  <2> QED BY <2>2, <2>3
<1>9. Top.at = "l" => Cur # NULL
  BY <1>1, AtNode DEF Walkers
<1> QED BY <1>1, <1>7, <1>8, <1>9 DEF Sides

\* The tree is forgotten.
LEMMA ClearEffect == HeapInv /\ EffectInv /\ Clear => EffectInv' /\ stack' # << >>
<1> SUFFICES ASSUME HeapInv, EffectInv, Clear PROVE EffectInv' /\ stack' # << >>
  OBVIOUS
<1>0. PICK T, sub : HeapInvAt(T, sub)
  BY DEF HeapInv
<1>1. /\ up /\ stack # << >> /\ Top.fn = "avl" /\ Top.at = "clear" /\ Goto("return")
      /\ child' = [child EXCEPT ![ROOT] = NULL]
      /\ UNCHANGED << el, alloc, call, before, ret >>
  BY DEF Clear, At, rest
<1>2. Stacked(stack, child, T, sub) /\ On(stack) = {Top} /\ Effect /\ Top.fn \in Runs(call.op)
  BY <1>0, <1>1, BottomFacts DEF HeapInvAt, EffectInv, Effect, Proper
<1>3. PICK f : f = [Top EXCEPT !.at = "return"]
  OBVIOUS
<1>4. stack' # << >> /\ On(stack') = {f} \cup Lower /\ f.fn = Top.fn /\ f.at = "return"
  <2>1. "return" \in Labels
    BY DEF Labels
  <2> QED BY <1>1, <1>2, <1>3, <2>1, GoingOn
<1>5. Lower = {}
  <2>1. stack = << Top >>
    BY <1>0, <1>1, BottomFacts
  <2>2. Tail(<< Top >>) = << >>
    OBVIOUS
  <2>3. Tail(stack) = << >>
    BY <2>1, <2>2, Zenon
  <2>4. On(<< >>) = {}
    BY DEF On
  <2> QED BY <2>3, <2>4 DEF Lower
<1>6. child'[ROOT] = NULL
  BY <1>1 DEF HeapInv, Filled, Slot
<1>7. \A g \in On(stack') : Proper(g)' /\ g.at = "return" /\ child'[ROOT] = NULL
  BY <1>1, <1>2, <1>4, <1>5, <1>6 DEF Proper
<1> QED BY <1>1, <1>4, <1>7, WhileDestroying

-----------------------------------------------------------------------------
(* Lookups, and the step that ends in a crash. *)

\* A stack of one frame.
LEMMA OneFrame == \A f : << f >> # << >> /\ On(<< f >>) = {f} /\ Head(<< f >>) = f
<1> TAKE f
<1>1. Len(<< f >>) = 1 /\ 1 .. 1 = {1} /\ << f >>[1] = f /\ Head(<< f >>) = f /\ << f >> # << >>
  OBVIOUS
<1> QED BY <1>1 DEF On

\* avl_find() changes nothing.
LEMMA FindEffect == HeapInv /\ EffectInv /\ (FindDown \/ FindEnd) => EffectInv' /\ stack' # << >>
<1> SUFFICES ASSUME HeapInv, EffectInv, FindDown \/ FindEnd PROVE EffectInv' /\ stack' # << >>
  OBVIOUS
<1>0. PICK T, sub : HeapInvAt(T, sub)
  BY DEF HeapInv
<1>1. /\ up /\ stack # << >> /\ Top.fn = "find" /\ Top.at = "enter"
      /\ UNCHANGED << child, el, alloc, low, call, before >>
  BY DEF FindDown, FindEnd, At, memory, rest
<1>2. Top \in Frames /\ call.op = "find" /\ Effect /\ \A a \in alloc : IsInjective(el[a].ll)
  BY <1>0, <1>1, Running DEF HeapInvAt, Searching, EffectInv
<1>3. PICK f : stack' = << f >> /\ f.fn \in {"find", "avl"} /\ f.at \in {"enter", "return"}
  <2>1. CASE FindDown
    <3>1. PICK t : stack' = << [Top EXCEPT !.slot = t] >>
      BY <2>1 DEF FindDown
    <3>2. /\ [Top EXCEPT !.slot = t].fn = "find"
          /\ [Top EXCEPT !.slot = t].at = "enter"
      BY <1>1, <1>2 DEF Frames
    <3> QED BY <3>1, <3>2
  <2>2. CASE FindEnd
    BY <2>2 DEF FindEnd, Frame
  <2> QED BY <2>1, <2>2
<1>4. stack' # << >> /\ On(stack') = {f}
  BY <1>3, OneFrame
<1>5. Proper(f)'
  BY <1>1, <1>2, <1>3 DEF Proper, Runs
<1>6. Held' = Held /\ Had' = Had
  BY <1>1 DEF Held, Had
<1>7. Effect' /\ ~Updating'
  BY <1>1, <1>2, <1>4, <1>5, <1>6 DEF Effect, GoingDown, Updating
<1> QED BY <1>1, <1>2, <1>4, <1>7 DEF EffectInv

\* A call that crashes is not said to do anything.
LEMMA CrashEffect == HeapInv /\ EffectInv /\ CrashInDeleteIf => EffectInv' /\ stack' # << >>
BY DEF CrashInDeleteIf, EffectInv, At

-----------------------------------------------------------------------------
(* The beginning of a call. *)

\* The elements are those the call finds.
LEMMA Fresh ==
  ASSUME NEW op, NEW arg, NEW r, NEW frames, Begin(op, arg, r, frames)
  PROVE  /\ up /\ up' /\ stack = << >> /\ stack' = frames
         /\ call'.op = op /\ call'.arg = arg /\ ret' = r
         /\ UNCHANGED << child, el, alloc, low >>
         /\ before'.el = el /\ before'.alloc = alloc
         /\ Held' = Held /\ Had' = Held
BY DEF Begin, memory, Held, Had

\* An update begins, at the root.
LEMMA UpdateFresh ==
  ASSUME HeapInv, EffectInv, NEW op \in {"insert", "remove", "ndel"}, NEW arg, NEW r,
         Begin(op, arg, r, Update(op)),
         IF op = "ndel" THEN arg \in Preds /\ r = 0 ELSE arg \in Key
  PROVE  EffectInv' /\ stack' # << >>
<1> DEFINE f == Frame(op, ROOT, "enter")
           g == Frame("avl", ROOT, "rebalance")
<1>0. PICK T, sub : HeapInvAt(T, sub)
  BY DEF HeapInv
<1>1. /\ up /\ up' /\ stack = << >> /\ stack' = << f, g >>
      /\ call'.op = op /\ call'.arg = arg /\ ret' = r
      /\ UNCHANGED << child, el, alloc, low >>
      /\ Held' = Held /\ Had' = Held
  BY Fresh DEF Update
<1>2. low = NULL /\ alloc = T /\ Shape(child, el, T, sub) /\ NULL \notin T /\ sub[ROOT] = T
  BY <1>0, <1>1, IdleFacts, HeapAssumption DEF HeapInvAt, Shape
<1>3. /\ f.fn = op /\ f.slot = ROOT /\ f.at = "enter"
      /\ g.fn = "avl" /\ g.slot = ROOT /\ g.at = "rebalance"
  BY DEF Frame
<1> HIDE DEF f, g
<1>4. << f, g >> # << >> /\ On(<< f, g >>) = {f, g} /\ Head(<< f, g >>) = f
  <2>1. Len(<< f, g >>) = 2 /\ 1 .. 2 = {1, 2} /\ << f, g >>[1] = f /\ << f, g >>[2] = g
    OBVIOUS
  <2> QED BY <2>1 DEF On
<1>5. stack' # << >> /\ On(stack') = {f, g} /\ Top' = f
  BY <1>1, <1>4 DEF Top
<1>6. Proper(f)' /\ Proper(g)'
  BY <1>1, <1>3 DEF Proper, Runs
<1>7. GoingDown' <=> op # "ndel"
  BY <1>1, <1>3, <1>5 DEF GoingDown
<1>8. op = "ndel" => Thinned'
  <2>1. Had' \ Held' = {}
    BY <1>1
  <2>2. IsFiniteSet({}) /\ Cardinality({}) = 0
    BY FS_EmptySet
  <2> QED BY <1>1, <2>1, <2>2 DEF Thinned
<1>9. Effect'
  BY <1>1, <1>5, <1>6, <1>7, <1>8 DEF Effect, Ops
<1>10. Reach(T, sub)'
  <2>1. ToVisit(f, child', sub) = IF op = "ndel" THEN T ELSE {}
    BY <1>2, <1>3 DEF ToVisit
  <2> QED BY <1>1, <1>2, <1>3, <1>5, <2>1 DEF Reach
<1>11. Placed'
  <2>1. T = alloc' \ {low'} /\ Shape(child', el', T, sub)
    BY <1>1, <1>2
  <2> QED BY <1>10, <2>1 DEF Placed
<1>12. \A a \in alloc' : IsInjective(el'[a].ll)
  BY <1>1 DEF EffectInv
<1> QED BY <1>5, <1>9, <1>11, <1>12 DEF EffectInv

\* A lookup begins.
LEMMA FindFresh == HeapInv /\ EffectInv /\ (\E d \in Key : CallFind(d)) => EffectInv' /\ stack' # << >>
<1> SUFFICES ASSUME HeapInv, EffectInv, NEW d \in Key, CallFind(d)
             PROVE  EffectInv' /\ stack' # << >>
  OBVIOUS
<1>1. PICK f : f = Frame("find", ROOT, "enter")
  OBVIOUS
<1>2. /\ up /\ up' /\ stack' = << f >> /\ call'.op = "find" /\ call'.arg = d
      /\ UNCHANGED << el, alloc >> /\ Held' = Held /\ Had' = Held
  BY <1>1, Fresh DEF CallFind
<1>3. f.fn = "find" /\ f.at = "enter"
  BY <1>1 DEF Frame
<1>4. stack' # << >> /\ On(stack') = {f}
  BY <1>2, OneFrame
<1>5. Proper(f)'
  BY <1>2, <1>3 DEF Proper, Runs
<1>6. Effect' /\ ~Updating'
  BY <1>2, <1>4, <1>5 DEF Effect, GoingDown, Updating, Ops
<1>7. \A a \in alloc' : IsInjective(el'[a].ll)
  BY <1>2 DEF EffectInv
<1> QED BY <1>4, <1>6, <1>7 DEF EffectInv

\* avl_destroy() begins; that there is no tree is an error.
LEMMA DestroyFresh == HeapInv /\ EffectInv /\ CallDestroy => EffectInv' /\ stack' # << >>
<1> SUFFICES ASSUME HeapInv, EffectInv, CallDestroy PROVE EffectInv' /\ stack' # << >>
  OBVIOUS
<1>0. PICK T, sub : HeapInvAt(T, sub)
  BY DEF HeapInv
<1>1. PICK f, g : f = Frame("destroy", ROOT, "enter") /\ g = Frame("avl", ROOT, "clear")
  OBVIOUS
<1>2. /\ up /\ up' /\ stack = << >> /\ stack' = << f, g >> /\ call'.op = "destroy"
      /\ call'.arg = NULL /\ ret' = (IF child[ROOT] = NULL THEN EEXIST ELSE OK)
      /\ UNCHANGED << child, el, alloc, low >> /\ Held' = Held /\ Had' = Held
  BY <1>1, Fresh DEF CallDestroy
<1>3. f.fn = "destroy" /\ f.at = "enter" /\ g.fn = "avl" /\ g.at = "clear"
  BY <1>1 DEF Frame
<1>4. << f, g >> # << >> /\ On(<< f, g >>) = {f, g}
  <2>1. Len(<< f, g >>) = 2 /\ 1 .. 2 = {1, 2} /\ << f, g >>[1] = f /\ << f, g >>[2] = g
    OBVIOUS
  <2> QED BY <2>1 DEF On
<1>5. stack' # << >> /\ On(stack') = {f, g}
  BY <1>2, <1>4
<1>6. Proper(f)' /\ Proper(g)'
  BY <1>2, <1>3 DEF Proper, Runs
<1>7. child[ROOT] = NULL => Held = {}
  <2>1. Shape(child, el, T, sub) /\ alloc = T
    BY <1>0, <1>2, IdleFacts DEF HeapInvAt
  <2>2. child[ROOT] = NULL => alloc = {}
    BY <2>1 DEF Shape, Slots
  <2> QED BY <2>2 DEF Held, Elements
<1>8. Destroyed'
  BY <1>2, <1>3, <1>5, <1>7 DEF Destroyed
<1>9. Effect' /\ ~Updating'
  BY <1>2, <1>5, <1>6, <1>8 DEF Effect, GoingDown, Updating, Ops
<1>10. \A a \in alloc' : IsInjective(el'[a].ll)
  BY <1>2 DEF EffectInv
<1> QED BY <1>5, <1>9, <1>10 DEF EffectInv

\* A call begins.
LEMMA CallEffect == HeapInv /\ EffectInv /\ Call => EffectInv' /\ stack' # << >>
<1> SUFFICES ASSUME HeapInv, EffectInv, Call PROVE EffectInv' /\ stack' # << >>
  OBVIOUS
<1>1. ASSUME NEW d \in Key, CallInsert(d)
      PROVE  EffectInv' /\ stack' # << >>
  BY <1>1, UpdateFresh DEF CallInsert
<1>2. ASSUME NEW d \in Key, CallDelete(d)
      PROVE  EffectInv' /\ stack' # << >>
  BY <1>2, UpdateFresh DEF CallDelete
<1>3. ASSUME NEW P \in Preds, CallDeleteIf(P)
      PROVE  EffectInv' /\ stack' # << >>
  BY <1>3, UpdateFresh DEF CallDeleteIf
<1> QED BY <1>1, <1>2, <1>3, FindFresh, DestroyFresh DEF Call

-----------------------------------------------------------------------------
(* The invariant holds. *)

\* Every step but the return from the call leaves it running, as it should be.
LEMMA StepEffect ==
  ASSUME HeapInv, EffectInv, Step, ~Return
  PROVE  EffectInv' /\ stack' # << >>
<1>1. CASE Rebalance \/ Clear
  BY <1>1, RebalanceEffect, ClearEffect
<1>2. CASE Descend \/ Unwind
  BY <1>2, DescendEffect, UnwindEffect
<1>3. CASE InsertNoNode \/ RemoveMiss
  BY <1>3, MissEffect
<1>4. CASE \E nomem \in BOOLEAN : InsertHere(nomem)
  BY <1>4, InsertHereEffect
<1>5. CASE \E nomem \in BOOLEAN, a \in Addr : InsertNode(a, nomem)
  BY <1>5, InsertNodeEffect
<1>6. CASE RemoveHere \/ NdelHere
  BY <1>6, RemoveHereEffect, NdelHereEffect
<1>7. CASE VisitNull \/ VisitLeft \/ VisitRight \/ DestroyHere
  <2>1. Top.fn \in {"ndel", "destroy", "rebalance"} /\ (Top.fn = "rebalance" => VisitRight)
    BY <1>7 DEF VisitNull, VisitLeft, VisitRight, DestroyHere, At
  <2>2. Top.fn = "ndel" => ~DestroyHere
    BY DEF DestroyHere, At
  <2> QED BY <1>7, <2>1, <2>2, NdelVisits, DestroyEffect, BalanceEffect
<1>8. CASE CutEasy \/ CrashInDeleteIf \/ Replace
  BY <1>8, CutEasyEffect, CrashEffect, ReplaceEffect
<1>9. CASE CutHard \/ LeftmostDown \/ LeftmostCut
  BY <1>9, LeftmostVisits, LeftmostCutEffect
<1>10. CASE RebalanceSkip \/ RebalanceStart \/ RightDone \/ LeftDone \/ RebalanceEnd
  BY <1>10, BalanceEffect
<1>11. CASE \E s \in Sides : RotateInner(s) \/ RotateOuter(s)
  BY <1>11, BalanceEffect
<1>12. CASE FindDown \/ FindEnd
  BY <1>12, FindEffect
<1> QED BY <1>1, <1>2, <1>3, <1>4, <1>5, <1>6, <1>7, <1>8, <1>9, <1>10, <1>11, <1>12
        DEF Step, Sides

\* Between two calls only the lists matter.
LEMMA ReturnEffect == EffectInv /\ Return => EffectInv'
<1> SUFFICES ASSUME EffectInv, Return PROVE EffectInv'
  OBVIOUS
<1>1. up /\ stack' = << >> /\ el' = el /\ alloc' = alloc
  BY DEF Return, At, memory
<1> QED BY <1>1 DEF EffectInv

\* A step that changes nothing.
LEMMA SameEffect == EffectInv /\ UNCHANGED vars => EffectInv'
<1> SUFFICES ASSUME EffectInv, UNCHANGED vars PROVE EffectInv'
  OBVIOUS
<1>1. UNCHANGED << child, el, alloc, stack, ret, low, call, before, up >>
  BY DEF vars, memory, rest
<1>2. Held' = Held /\ Had' = Had /\ (GoingDown' <=> GoingDown) /\ (Updating' <=> Updating)
  BY <1>1 DEF Held, Had, GoingDown, Top, Updating
<1>3. \A f : Proper(f)' <=> Proper(f)
  BY <1>1 DEF Proper
<1>4. Destroyed => Destroyed'
  BY <1>1, <1>2 DEF Destroyed
<1>5. Effect => Effect'
  BY <1>1, <1>2, <1>3, <1>4, EffectOn DEF Effect
<1>6. \A T, sub : Reach(T, sub) => Reach(T, sub)'
  <2>1. Hash' = Hash /\ Top' = Top /\ \A x : Affected(x)' <=> Affected(x)
    BY <1>1 DEF Hash, Top, Affected
  <2> QED BY <1>1, <1>2, <2>1 DEF Reach
<1>7. Placed => Placed'
  BY <1>1, <1>6 DEF Placed
<1> QED BY <1>1, <1>2, <1>5, <1>7 DEF EffectInv

\* At first all lists are empty.
LEMMA InitEffect == Init => EffectInv
<1> SUFFICES ASSUME Init PROVE EffectInv
  OBVIOUS
<1>1. alloc = {} /\ stack = << >>
  BY DEF Init
<1> QED BY <1>1 DEF EffectInv

\* Every call has done what it is to do, up to where it is, at every step.
LEMMA EffectInvariant == Spec => [](HeapInv /\ EffectInv)
<1>1. Init => HeapInv /\ EffectInv
  BY InitKeeps, InitEffect
<1>2. HeapInv /\ EffectInv /\ [Next]_vars => (HeapInv /\ EffectInv)'
  BY NextKeeps, CallEffect, StepEffect, ReturnEffect, SameEffect DEF Next
<1> QED BY <1>1, <1>2, PTL DEF Spec

-----------------------------------------------------------------------------
(* The steps, as a user of the tree sees them. *)

\* The elements a user sees.
Contents == IF stack = << >> THEN Held ELSE Had

SetStep == [UNCHANGED Container!vars \/ Container!Next]_(Container!vars)

\* SetSpec counts as the tree does.
LEMMA SameCardinality ==
  ASSUME NEW S
  PROVE  Container!Cardinality(S) = Cardinality(S)
BY DEF Container!Cardinality, Cardinality

\* While a call runs, when it begins and when it crashes, nothing is to be seen.
LEMMA InnerStep ==
  ASSUME HeapInv, EffectInv, [Next]_vars, ~Return
  PROVE  SetStep
<1>1. SUFFICES Contents' = Contents /\ done' = done
  BY DEF SetStep, Container!vars, Contents, Held, Had
<1>2. CASE UNCHANGED vars
  BY <1>2 DEF vars, memory, rest, Contents, Held, Had
<1>3. CASE Call
  <2>1. stack' # << >>
    BY <1>3, CallEffect
  <2>2. stack = << >> /\ done' = done /\ Had' = Held
    <3>1. PICK op, arg, r, frames : Begin(op, arg, r, frames)
      BY <1>3 DEF Call, CallInsert, CallDelete, CallDeleteIf, CallFind, CallDestroy
    <3> QED BY <3>1, Fresh DEF Begin
  <2> QED BY <2>1, <2>2 DEF Contents
<1>4. CASE Step
  <2>1. stack' # << >>
    BY <1>4, StepEffect
  <2>2. stack # << >>
    BY <1>4 DEF Step, Rebalance, Clear, Return, Descend, Unwind, InsertNoNode, InsertHere,
       InsertNode, RemoveMiss, RemoveHere, VisitNull, VisitLeft, VisitRight, NdelHere,
       DestroyHere, CutEasy, CrashInDeleteIf, CutHard, LeftmostDown, LeftmostCut, Replace,
       RebalanceSkip, RebalanceStart, RightDone, LeftDone, RebalanceEnd, RotateInner,
       RotateOuter, Looping, FindDown, FindEnd, At
  <2>3. before' = before /\ done' = done
    BY <1>4 DEF Step, Rebalance, Clear, Descend, Unwind, InsertNoNode, InsertHere,
       InsertNode, RemoveMiss, RemoveHere, VisitNull, VisitLeft, VisitRight, NdelHere,
       DestroyHere, CutEasy, CrashInDeleteIf, CutHard, LeftmostDown, LeftmostCut, Replace,
       RebalanceSkip, RebalanceStart, RightDone, LeftDone, RebalanceEnd, RotateInner,
       RotateOuter, FindDown, FindEnd, rest
  <2> QED BY <2>1, <2>2, <2>3 DEF Contents, Had
<1> QED BY <1>2, <1>3, <1>4 DEF Next

\* What holds when a call returns.
LEMMA Returning ==
  ASSUME HeapInv, EffectInv, Return
  PROVE  /\ Effect /\ ~GoingDown /\ Contents = Had /\ Contents' = Held
         /\ done' = [op |-> call.op, arg |-> call.arg, ret |-> ret]
         /\ call.op = "ndel" => \A x \in alloc : ~Affected(x)
         /\ call.op = "find" => FoundExactly
         /\ call.op = "destroy" => Held = {}
<1>0. PICK T, sub : HeapInvAt(T, sub)
  BY DEF HeapInv
<1>1. /\ up /\ stack # << >> /\ Top.fn = "avl" /\ Top.at = "return" /\ stack' = << >>
      /\ el' = el /\ alloc' = alloc
      /\ done' = [op |-> call.op, arg |-> call.arg, ret |-> ret]
  BY DEF Return, At, memory
<1>2. On(stack) = {Top} /\ alloc = T /\ Shape(child, el, T, sub) /\ Searching(T, sub)
  BY <1>0, <1>1, BottomFacts DEF HeapInvAt
<1>3. Effect /\ ~GoingDown
  BY <1>1 DEF EffectInv, GoingDown
<1>4. Contents = Had /\ Contents' = Held
  BY <1>1 DEF Contents, Held
<1>5. call.op = "ndel" => \A x \in alloc : ~Affected(x)
  BY <1>1, <1>2, Unaffected
<1>6. call.op = "find" => FoundExactly
  BY <1>1, <1>2 DEF Searching
<1>7. ASSUME call.op = "destroy"
      PROVE  Held = {}
  <2>1. child[ROOT] = NULL
    BY <1>1, <1>2, <1>3, <1>7 DEF Effect, Destroyed
  <2>2. alloc = {}
    BY <1>2, <2>1 DEF Shape, Slots
  <2> QED BY <2>2 DEF Held, Elements
<1> QED BY <1>1, <1>3, <1>4, <1>5, <1>6, <1>7

\* avl_insert().
LEMMA InsertReturns ==
  ASSUME HeapInv, EffectInv, Return, call.op = "insert"
  PROVE  SetStep
<1>1. call.arg \in Key /\ Inserted /\ Contents = Had /\ Contents' = Held
  BY Returning DEF Effect
<1>2. PICK d \in Key : d = call.arg
  BY <1>1
<1>3. done' = [op |-> "insert", arg |-> d, ret |-> ret]
  BY <1>2, Returning
<1>4. Container!Insert(d)
  BY <1>1, <1>2, <1>3 DEF Inserted, Container!Insert, Container!Return, Contents, Held, Had,
     Container!OK, Container!EEXIST, Container!ENOMEM, OK, EEXIST, ENOMEM
<1> QED BY <1>4 DEF SetStep, Container!Next

\* avl_del().
LEMMA DeleteReturns ==
  ASSUME HeapInv, EffectInv, Return, call.op = "remove"
  PROVE  SetStep
<1>1. call.arg \in Key /\ Removed /\ Contents = Had /\ Contents' = Held
  BY Returning DEF Effect
<1>2. PICK d \in Key : d = call.arg
  BY <1>1
<1>3. done' = [op |-> "remove", arg |-> d, ret |-> ret]
  BY <1>2, Returning
<1>4. Container!Delete(d)
  BY <1>1, <1>2, <1>3 DEF Removed, Container!Delete, Container!Return, Contents, Held, Had,
     Container!OK, Container!EEXIST, OK, EEXIST
<1> QED BY <1>4 DEF SetStep, Container!Next

\* avl_ndel(): no element is left that the predicate holds of.
LEMMA DeleteIfReturns ==
  ASSUME HeapInv, EffectInv, Return, call.op = "ndel"
  PROVE  SetStep
<1>1. /\ call.arg \in Preds /\ Thinned /\ Contents = Had /\ Contents' = Held
      /\ \A x \in alloc : ~Affected(x)
  BY Returning DEF Effect
<1>2. PICK P \in Preds : P = call.arg
  BY <1>1
<1>3. done' = [op |-> "ndel", arg |-> P, ret |-> ret]
  BY <1>2, Returning
<1>4. Held \cap P = {}
  BY <1>1, <1>2 DEF Held, Elements, Affected
<1>5. Held = Had \ P /\ Had \ Held = Had \cap P
  BY <1>1, <1>2, <1>4 DEF Thinned
<1>6. ret = Container!Cardinality(Had \cap P)
  BY <1>1, <1>5, SameCardinality DEF Thinned
<1>7. Container!DeleteIf(P)
  BY <1>1, <1>3, <1>5, <1>6 DEF Container!DeleteIf, Container!Return, Contents, Held, Had
<1> QED BY <1>7 DEF SetStep, Container!Next

\* avl_find().
LEMMA FindReturns ==
  ASSUME HeapInv, EffectInv, Return, call.op = "find"
  PROVE  SetStep
<1>1. call.arg \in Key /\ Held = Had /\ FoundExactly /\ Contents = Had /\ Contents' = Held
  BY Returning DEF Effect
<1>2. PICK d \in Key : d = call.arg
  BY <1>1
<1>3. done' = [op |-> "find", arg |-> d, ret |-> ret]
  BY <1>2, Returning
<1>4. (\E a \in alloc : Contains(el[a].ll, d)) <=> d \in Held
  <2>1. \A a \in alloc : el[a].ll \in Seq(OfHash(el[a].hash))
    BY DEF HeapInv, Filled
  <2>2. \A a \in alloc : Contains(el[a].ll, d) <=> d \in ToSet(el[a].ll)
    BY <2>1 DEF Contains, ToSet
  <2> QED BY <2>2 DEF Held, Elements
<1>5. Container!Find(d)
  BY <1>1, <1>2, <1>3, <1>4 DEF FoundExactly, Container!Find, Container!Return, Contents, Held, Had
<1> QED BY <1>5 DEF SetStep, Container!Next

\* avl_destroy().
LEMMA DestroyReturned ==
  ASSUME HeapInv, EffectInv, Return, call.op = "destroy"
  PROVE  SetStep
<1>1. Destroyed /\ Held = {} /\ Contents = Had /\ Contents' = Held
  BY Returning DEF Effect
<1>2. done' = [op |-> "destroy", arg |-> NULL, ret |-> ret]
  BY <1>1, Returning DEF Destroyed
<1>3. Container!Destroy
  BY <1>1, <1>2 DEF Destroyed, Container!Destroy, Container!Return, Contents, Held, Had,
     Container!OK, Container!EEXIST, OK, EEXIST
<1> QED BY <1>3 DEF SetStep, Container!Next

-----------------------------------------------------------------------------
(* The theorem. *)

\* The tree in memory is a set: each call of avl_insert, avl_del, avl_ndel, avl_find and
\* avl_destroy that returns does to the elements in the lists of the nodes, and returns,
\* what SetSpec says, whichever allocations fail, and nothing else is ever to be seen.
THEOREM Implements == Spec => ImplementsSet
<1>1. Init => Container!Init
  <2> SUFFICES ASSUME Init PROVE Container!Init
    OBVIOUS
  <2>1. stack = << >> /\ Elements(el, alloc) = {} /\ done = [op |-> "new", arg |-> NULL, ret |-> OK]
    BY DEF Init, Elements
  <2> QED BY <2>1 DEF Container!Init, Container!OK, OK
<1>2. HeapInv /\ EffectInv /\ [Next]_vars => SetStep
  <2> SUFFICES ASSUME HeapInv, EffectInv, [Next]_vars, Return PROVE SetStep
    BY InnerStep
  <2>1. call.op \in Ops
    BY Returning DEF Effect
  <2> QED BY <2>1, InsertReturns, DeleteReturns, DeleteIfReturns, FindReturns, DestroyReturned
          DEF Ops
<1> QED BY <1>1, <1>2, EffectInvariant, PTL DEF Spec, ImplementsSet, SetStep
=============================================================================
