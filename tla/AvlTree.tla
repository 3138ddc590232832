------------------------------- MODULE AvlTree -------------------------------
(***************************************************************************)
(* One tree under every sequence of calls of the interface of avl/avl.h,   *)
(* with every allocation free to fail.                                     *)
(***************************************************************************)
EXTENDS AvlFns, TreeViews

CONSTANTS Preds,   \* the predicates users pass, as sets of elements
          Faults,  \* the sets of elements that make a procf() fail
          NoMem    \* the allocation of a call that fails: "node", "cell" or "none"

ASSUME CallAssumption == /\ Preds \subseteq SUBSET Key /\ Faults \subseteq SUBSET Key
                         /\ NoMem \subseteq {"none", "node", "cell"}

VARIABLES root,   \* struct avl
          done,   \* the last call: [op, arg, ret]
          up      \* FALSE once the process has crashed

vars == << root, done, up >>

Return(op, arg, ret) == done' = [op |-> op, arg |-> arg, ret |-> ret]

Init == /\ root = NULL
        /\ done = [op |-> "new", arg |-> NULL, ret |-> OK]
        /\ up = TRUE

Insert(d, nomem) ==
  LET ins == avl_insert(root, d, nomem)
  IN  /\ up
      /\ root' = ins.root
      /\ Return("insert", d, ins.ret)
      /\ UNCHANGED up

Delete(d) ==
  LET del == avl_del(root, d)
  IN  /\ up
      /\ root' = del.root
      /\ Return("remove", d, del.ret)
      /\ UNCHANGED up

DeleteIf(P) ==
  LET del == avl_ndel(root, P)
  IN  /\ up
      /\ ~del.crash
      /\ root' = del.root
      /\ Return("ndel", P, del.ret)
      /\ UNCHANGED up

\* The same call when it dereferences the null pointer: the process is gone.
CrashInDeleteIf(P) ==
  /\ up
  /\ avl_ndel(root, P).crash
  /\ up' = FALSE
  /\ UNCHANGED << root, done >>

Find(d) ==
  /\ up
  /\ Return("find", d, avl_find(root, d))
  /\ UNCHANGED << root, up >>

Count ==
  /\ up
  /\ Return("cardinality", NULL, avl_cardinality(root))
  /\ UNCHANGED << root, up >>

Select(P, Bad) ==
  /\ up
  /\ Return("select", << P, Bad >>, avl_select(root, P, Bad))
  /\ UNCHANGED << root, up >>

Destroy ==
  /\ up
  /\ root' = avl_destroy(root).root
  /\ Return("destroy", NULL, avl_destroy(root).ret)
  /\ UNCHANGED up

Next ==
  \/ \E d \in Key : \/ \E nomem \in NoMem : Insert(d, nomem)
                    \/ Delete(d)
                    \/ Find(d)
  \/ \E P \in Preds : \/ DeleteIf(P) \/ CrashInDeleteIf(P)
                      \/ \E Bad \in Faults : Select(P, Bad)
  \/ Count
  \/ Destroy

Spec == Init /\ [][Next]_vars

-----------------------------------------------------------------------------
(* Properties. *)

\* The fields of every node have the types of struct avl_el.
TypeOK ==
  /\ up \in BOOLEAN
  /\ DOMAIN done = {"op", "arg", "ret"}
  /\ \A t \in Subtrees(root) :
       /\ t.hash \in Range(hashf) /\ t.ll \in Seq(Key) /\ t.filter \subseteq Bits
       /\ t.height \in Nat \ {0} /\ t.node_cnt \in Nat \ {0}
       /\ DOMAIN t = {"ll", "hash", "filter", "height", "node_cnt", "l", "r"}

\* However the tree was rotated and cut, it is a search tree on the hashes, and
\* each list holds only elements of its node's hash, none of them twice.
SearchTree ==
  \A t \in Subtrees(root) :
    /\ \A h \in Hashes(t.l) : h < t.hash
    /\ \A h \in Hashes(t.r) : h > t.hash
    /\ \A i \in DOMAIN t.ll : hashf[t.ll[i]] = t.hash
    /\ IsInjective(t.ll)

\* The buffered metadata after any history of rotations and deletions: the
\* count, which rebalancing is steered by, and the filter, which lookups are cut
\* short by, are exact.
MetadataExact ==
  \A t \in Subtrees(root) :
    /\ t.node_cnt = Nodes(t)
    /\ t.filter = UNION {bloom_from_hash(h) : h \in Hashes(t)}

\* The stored height may be stale, as rebalance_subtree does not regenerate it
\* after the children, and the next calls compute others from it: yet it is never
\* too low, so that the early return never takes a degenerate tree for a balanced
\* one, and never more than one too high, so that the staleness does not add up and
\* 1 << (height - 1) stays as far from overflow as the depth of the tree is.
HeightAlmostExact ==
  \A t \in Subtrees(root) : t.height \in {Levels(t), Levels(t) + 1}

\* The least number of nodes of a tree of h levels in which neither side of
\* a node has more than 2n + 1 nodes, n being the nodes of the other side.
MinNodes[h \in Nat] ==
  IF h = 0 THEN 0
  ELSE 1 + MinNodes[h - 1] + (IF h = 1 THEN 0 ELSE MinNodes[h - 1] \div 2)

\* Lookups are logarithmic: after every call, whatever it skipped as "already
\* balanced", the tree is no deeper than weight balance allows for its size.
LogarithmicDepth == Nodes(root) >= MinNodes[Levels(root)]

\* The subtrees of t down to those of the least depth possible for their size.
RECURSIVE Deep(_)
Deep(t) == IF t = NULL \/ Nodes(t) >= 2^(Levels(t) - 1) THEN {}
           ELSE {t} \cup Deep(t.l) \cup Deep(t.r)

\* The shape rebalance_subtree leaves, in spite of stale heights: from the root
\* down, a node has weight-balanced sides, until a subtree is reached that is of
\* the least depth possible for its size.
Rebalanced ==
  \A t \in Deep(root) : /\ Nodes(t.r) <= 2 * Nodes(t.l) + 1
                        /\ Nodes(t.l) <= 2 * Nodes(t.r) + 1

\* A node without elements is only ever left behind by an insertion that ran out
\* of memory, under the hash it was called with.
HollowOnlyFromENOMEM ==
  [][ Hollow(root') \subseteq
        Hollow(root) \cup
        (IF done'.op = "insert" /\ done'.ret = ENOMEM THEN {hashf[done'.arg]} ELSE {}) ]_vars

\* The tree keeps the promises of a set, result codes included: nothing lost by
\* a rotation, no lookup cut short by a filter, no duplicate, no wrong count.
Container == INSTANCE SetSpec WITH contents <- Elements(root)
ImplementsSet == Container!Spec
=============================================================================
