------------------------------ MODULE MCHtPair ------------------------------
(* Two tables for TLC: 4-bit hashes, 8-bit filters made with 4-bit ints.   *)
EXTENDS HtPair, MCTrees

CONSTANTS k1, k2, k3, k4, k5, ta, tb

MCKey == {k1, k2, k3, k4, k5}

\* Two hashes collide; three share a bucket in a table of two, of which two do
\* in one of four.
FourKeys == {k1, k2, k3, k4}
Collide  == k1 :> 8 @@ k2 :> 11 @@ k3 :> 11 @@ k4 :> 13
FewPreds == {{k1, k3}, {k2, k4}}

\* All five in one bucket of a table of two.
Packed == k1 :> 8 @@ k2 :> 9 @@ k3 :> 11 @@ k4 :> 13 @@ k5 :> 15

MCTable   == {ta, tb}
OneAndTwo == ta :> 1 @@ tb :> 2
BothOne   == ta :> 1 @@ tb :> 1

SomePreds == {{k1, k3}, {k2, k4, k5}}
=============================================================================
