----------------------------- MODULE MCAvlHeap -----------------------------
(* The instance of AvlHeapTree, and of the inductive invariants of its proofs, for *)
(* TLC: the tree and its subtrees, which HeapInv says exist, are computed.         *)
EXTENDS AvlHeapTree, AvlHeapProofs

CONSTANTS a1, a2, a3, a4, a5, a6, k1, k2, k3, k4, k5, k6, k7

MCAddr  == {a1, a2, a3, a4, a5, a6}
MCKey   == {k1, k2, k3, k4, k5, k6, k7}
MChashf == k1 :> 3 @@ k2 :> 9 @@ k3 :> 17 @@ k4 :> 17 @@ k5 :> 20 @@ k6 :> 31 @@ k7 :> 40

\* One address for the node of each hash: which of the free ones calloc() returns
\* makes no difference to a pointer program.
MChome == 3 :> {a1} @@ 9 :> {a2} @@ 17 :> {a3} @@ 20 :> {a4} @@ 31 :> {a5} @@ 40 :> {a6}

\* The list of one of the nodes may be left empty by an insertion.
MCNoCell == {k4}

MCPreds == {{k1, k2}, {k1, k4, k6}, {k3, k4, k5, k7}}

\* A freed node and the locals of a call that returned are read by no later step,
\* and done only reports the last call.
Locals == << call, ret, low, stack, TreeBefore >>
View   == << [s \in {ROOT} \cup (alloc \X {"l", "r"}) |-> child[s]], [a \in alloc |-> el[a]],
             up, IF stack = << >> THEN << >> ELSE Locals >>

\* x86 masks the shift count of an int to the width of an int.
MaskedShift ==
  [k \in INT_BITS .. (BLOOM_BITS - 1) |->
     LET m == k % INT_BITS
     IN  IF m = INT_BITS - 1 THEN m .. (BLOOM_BITS - 1) ELSE {m}]

\* The nodes below slot t.
RECURSIVE NodesBelow(_)
NodesBelow(t) ==
  IF child[t] = NULL THEN {}
  ELSE {child[t]} \cup UNION {NodesBelow(<< child[t], s >>) : s \in Sides}

\* The nodes avl_destroy() has freed still are in the slots.
TreeNodesNow == IF Dying THEN NodesBelow(ROOT) ELSE alloc \ {low}

\* HeapInv and EffectInv with the tree as it is: at every step the nodes make up one search
\* tree, every frame on the stack of the running call works below the field its caller
\* passed on, on what the caller relies on it to have finished, and the elements are
\* those the call should have left so far.
HeapInvNow ==
  LET T   == TreeNodesNow
      sub == [t \in Slots(TreeNodesNow) |-> NodesBelow(t)]
  IN  /\ Filled /\ HeapInvAt(T, sub)
      /\ up => \A a \in alloc : IsInjective(el[a].ll)
      /\ up /\ stack # << >> => Effect /\ (call.op # "destroy" => Reach(T, sub))
=============================================================================
