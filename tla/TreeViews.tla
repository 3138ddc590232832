------------------------------ MODULE TreeViews ------------------------------
(***************************************************************************)
(* What a tree of AvlFns holds and looks like: used to state properties,   *)
(* never computed by the code.                                             *)
(***************************************************************************)
EXTENDS AvlFns

RECURSIVE Subtrees(_)
Subtrees(t) == IF t = NULL THEN {} ELSE {t} \cup Subtrees(t.l) \cup Subtrees(t.r)

Hashes(t)   == {s.hash : s \in Subtrees(t)}
Elements(t) == UNION {ToSet(s.ll) : s \in Subtrees(t)}
Hollow(t)   == {s.hash : s \in {u \in Subtrees(t) : u.ll = << >>}}

RECURSIVE Nodes(_)
Nodes(t) == IF t = NULL THEN 0 ELSE 1 + Nodes(t.l) + Nodes(t.r)

RECURSIVE Levels(_)
Levels(t) == IF t = NULL THEN 0 ELSE 1 + Max({Levels(t.l), Levels(t.r)})
=============================================================================
