---------------------------- MODULE MCLinkedList ----------------------------
EXTENDS LinkedListProofs, TLC

CONSTANTS m1, m2, m3, k1, k2, k3, o1, o1b, o2, o2b, o3

MCCell  == {m1, m2, m3}
MCKey   == {k1, k2, k3}
MCObj   == {o1, o1b, o2, o2b, o3}
MCkeyof == o1 :> k1 @@ o1b :> k1 @@ o2 :> k2 @@ o2b :> k2 @@ o3 :> k3
MCPreds == {{k1, k2}, {k3}, MCKey}
MCFaults == {{}, {k2}}

\* What the next steps do not depend on: a cell's fields once it is freed, unless
\* the list is being destroyed, the locals of a call that returned, and done.
Cells  == IF pc \in Destroying THEN Cell ELSE alloc
Fields == << [c \in Cells \cup {HEAD} |-> nxt[c]], [c \in Cells |-> data[c]] >>
Locals == << it, ahead, arg, pred, bad, cnt, seen, before >>
View   == << Fields, alloc, live, cfg, pc, IF pc \in {"idle", "gone"} THEN << >> ELSE Locals >>

\* What is reached from the head in i steps.
Reach[i \in Nat] ==
  IF i = 0 THEN HEAD ELSE IF Reach[i - 1] = NULL THEN NULL ELSE nxt[Reach[i - 1]]

\* RefinementInv for TLC: the chain is looked up, and no longer than there are cells.
BoundedWalk ==
  \E n \in 0 .. Cardinality(Cell) :
    LET s == [i \in 0 .. (n + 1) |-> Reach[i]]
    IN  Chain(nxt, n, s) /\ \E p \in 1 .. (n + 1) : Place(n, s, p)
BoundedListInv == TypeOK /\ Filled /\ NoDuplicates /\ OwnsItsData /\ BoundedWalk /\ Since
=============================================================================
