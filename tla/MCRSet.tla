------------------------------- MODULE MCRSet -------------------------------
(* Two sets for TLC: 3-bit hashes, tables of two buckets, 8-bit filters    *)
(* made with 4-bit ints.                                                   *)
EXTENDS RSet, MCTrees

CONSTANTS k1, k2, k3, h1, h2, c1, c2

MCKey    == {k1, k2, k3}
MChashf  == k1 :> 5 @@ k2 :> 6 @@ k3 :> 1
MCHandle == {h1, h2}
MCCfg    == {c1, c2}

SomePreds  == {{k1, k3}, MCKey}
SomeFaults == {{}, {k2, k3}}

\* done only reports the last call: no later step depends on it.
View == << sets, up >>
=============================================================================
