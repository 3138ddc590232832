------------------------------ MODULE MCAvlTree ------------------------------
(* The instance of AvlTree for TLC: 8-bit filters made with 4-bit ints.    *)
EXTENDS AvlClaims

CONSTANTS k1, k2, k3, k4, k5, k6, k7, k8, k9, k10, k11

\* Seven keys in six nodes: k1 and k2 collide; the hashes differ in their first
\* bloom variant, in their second, or in both.
MCKey   == {k1, k2, k3, k4, k5, k6, k7}
MChashf == k1 :> 3 @@ k2 :> 3 @@ k3 :> 9 @@ k4 :> 17 @@ k5 :> 20 @@ k6 :> 31 @@ k7 :> 40

\* Eleven nodes, to look at shapes only.
WideKey   == MCKey \cup {k8, k9, k10, k11}
Widehashf == k1 :> 1 @@ k2 :> 2 @@ k3 :> 3 @@ k4 :> 4 @@ k5 :> 5 @@ k6 :> 6 @@
             k7 :> 7 @@ k8 :> 8 @@ k9 :> 9 @@ k10 :> 10 @@ k11 :> 11

SomePreds  == {{}, {k1}, {k2, k3}, {k1, k4, k6}, {k3, k4, k5, k7}, MCKey}
SomeFaults == {{}, {k2}, {k3, k5}}

\* done only reports the last call: no later step depends on it.
View == << root, up >>

\* x86 masks the shift count of an int to the width of an int.
MaskedShift ==
  [k \in INT_BITS .. (BLOOM_BITS - 1) |->
     LET m == k % INT_BITS
     IN  IF m = INT_BITS - 1 THEN m .. (BLOOM_BITS - 1) ELSE {m}]
=============================================================================
