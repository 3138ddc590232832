---------------------------- MODULE MCBloomCommon ----------------------------
(* Words of eight bits; the filters of all sets of up to three of five hashes. *)
EXTENDS BloomCommon, FiniteSets, TLC

MCHashes   == {1, 23, 88, 140, 300}
MCHashSets == {H \in SUBSET MCHashes : Cardinality(H) <= 3}

\* x86 masks the shift count of an int to the width of an int.
MaskedShift ==
  [k \in INT_BITS .. (BLOOM_BITS - 1) |->
     LET m == k % INT_BITS
     IN  IF m = INT_BITS - 1 THEN m .. (BLOOM_BITS - 1) ELSE {m}]
=============================================================================
