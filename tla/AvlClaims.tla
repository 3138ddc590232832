------------------------------ MODULE AvlClaims ------------------------------
(***************************************************************************)
(* What comments say of the tree and the code does not do.                 *)
(* Each is checked by a run that expects TLC to find it violated.          *)
(***************************************************************************)
EXTENDS AvlTree

\* avl/avl.h, avl_ndel: "the number of removed elements" is returned, for every
\* predicate and every tree.
NdelReturns == up

\* avl/common.h: find_closest_lower and find_closest_greater return the node of
\* the highest hash not above, and of the lowest hash not below, the one given.
ClosestNode ==
  \A h \in Range(hashf) :
    LET below == {g \in Hashes(root) : g <= h}
        above == {g \in Hashes(root) : g >= h}
        low   == find_closest_lower(root, h)
        high  == find_closest_greater(root, h)
    IN  /\ IF below = {} THEN low = NULL ELSE low # NULL /\ low.hash = Max(below)
        /\ IF above = {} THEN high = NULL ELSE high # NULL /\ high.hash = Min(above)
=============================================================================
