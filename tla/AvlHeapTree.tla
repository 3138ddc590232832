----------------------------- MODULE AvlHeapTree -----------------------------
(***************************************************************************)
(* The tree in memory implements the tree of values: what the pointers,    *)
(* step by step, make of a tree is what the functions of AvlFns say, up to *)
(* the last height and filter.                                             *)
(***************************************************************************)
EXTENDS AvlHeap

CONSTANT Faults    \* for AvlTree; nothing is selected here

\* The tree under node a, as AvlFns writes it; c and e are values of child and el.
RECURSIVE Tree(_, _, _)
Tree(c, e, a) ==
  IF a = NULL THEN NULL
  ELSE [ll |-> e[a].ll, hash |-> e[a].hash, filter |-> e[a].filter,
        height |-> e[a].height, node_cnt |-> e[a].node_cnt,
        l |-> Tree(c, e, c[<< a, "l" >>]), r |-> Tree(c, e, c[<< a, "r" >>])]

TreeNow    == Tree(child, el, child[ROOT])
TreeBefore == Tree(before.child, before.el, before.child[ROOT])

\* Every call has the result and leaves the tree that AvlTree says, and until it
\* returns nothing has happened; a crash is where AvlTree crashes.
Abstract ==
  INSTANCE AvlTree WITH root  <- IF stack = << >> THEN TreeNow ELSE TreeBefore,
                        NoMem <- {"none", "node", "cell"}

\* This is Abstract!Spec, with the stuttering steps looked at first.
ImplementsTree ==
  /\ Abstract!Init
  /\ [][UNCHANGED Abstract!vars \/ Abstract!Next]_(Abstract!vars)
=============================================================================
