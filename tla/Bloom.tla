-------------------------------- MODULE Bloom --------------------------------
(***************************************************************************)
(* The bloom filters of src/libreset/bloom.c.  A filter, a size_t in the   *)
(* code, is the set of the positions of its 1 bits, so that `a | b' is     *)
(* a \cup b and `a & ~b' is a \ b.                                         *)
(*                                                                         *)
(* The code writes `result |= 1 << (hash % BLOOM_BITS)', where 1 is an int *)
(* of INT_BITS < BLOOM_BITS bits.  A shift by INT_BITS - 1 reaches the     *)
(* sign bit and is sign-extended by the |=.  A wider shift is undefined:   *)
(* WideShift[k] is the set of bits the build at hand yields for 1 << k     *)
(* (x86 masks the count; a vectorised loop shifts to 0).                   *)
(***************************************************************************)
EXTENDS Integers

CONSTANTS BLOOM_BITS,     \* width of a filter
          INT_BITS,       \* width of an int
          HASH_VARIANTS,  \* number of bits derived from one hash
          WideShift       \* result of 1 << k for k in INT_BITS..BLOOM_BITS-1

Bits == 0 .. (BLOOM_BITS - 1)

ASSUME BloomAssumption ==
  /\ BLOOM_BITS \in Nat \ {0}
  /\ INT_BITS \in 1 .. BLOOM_BITS
  /\ HASH_VARIANTS \in Nat \ {0}
  /\ WideShift \in [INT_BITS .. (BLOOM_BITS - 1) -> SUBSET Bits]

\* The bits of the int expression 1 << k, converted to a bloom.
ShiftOne(k) ==
  IF k < INT_BITS - 1      THEN {k}
  ELSE IF k = INT_BITS - 1 THEN k .. (BLOOM_BITS - 1)
                           ELSE WideShift[k]

\* The i-th variant of the hash: each is the one before, divided by BLOOM_BITS.
bloom_from_hash(hash) ==
  LET variant[i \in Nat] == IF i = 0 THEN hash ELSE variant[i - 1] \div BLOOM_BITS
  IN  UNION {ShiftOne(variant[i] % BLOOM_BITS) : i \in 0 .. (HASH_VARIANTS - 1)}

\* A bug: the two arguments swapped.
bloom_may_contain__swapped(element, set) == set \ element = {}

\* (element & ~set) == 0
bloom_may_contain(element, set) == element \ set = {}
=============================================================================
