----------------------------- MODULE BloomCommon -----------------------------
(***************************************************************************)
(* bloom_may_have_common() of src/libreset/bloom.c: the loop that is to    *)
(* count the bits two filters have in common, by adding neighbouring ints  *)
(* of twice the width each time, and the masks of erasure_mask() it does   *)
(* so with.  A word is the set of the positions of its 1 bits.             *)
(*                                                                         *)
(* erasure_mask() shifts by 2 * width, which is the full width of a word   *)
(* in the last iteration.  C leaves that undefined: a build shifts by the  *)
(* count modulo the width, or shifts everything out.                       *)
(***************************************************************************)
EXTENDS Bloom, PowersOfTwo

CONSTANTS HashSets,   \* the sets of hashes whose filters are compared
          NULL

ASSUME WordAssumption == /\ \E n \in 0 .. BLOOM_BITS : CONSTPOW_TWO[n] = BLOOM_BITS
                         /\ \A H \in HashSets : H \subseteq Nat

VARIABLES ha, hb,    \* the hashes the filters a and b were made of
          section, width, mask,
          ret        \* the result, or NULL while the loop runs

vars == << ha, hb, section, width, mask, ret >>

\* A filter as the tree builds it.
Filter(H) == UNION {bloom_from_hash(h) : h \in H}

\* The number that the lowest n bits of a word make, for every n.
Worth(S) ==
  LET sum[n \in Nat] == IF n = 0 THEN 0
                        ELSE sum[n - 1] + (IF n - 1 \in S THEN CONSTPOW_TWO[n - 1] ELSE 0)
  IN  sum

\* The number of a set of bits, and the bits of a number.
Number(S) == Worth(S)[BLOOM_BITS]
BitsOf(n) == {i \in Bits : (n \div CONSTPOW_TWO[i]) % 2 = 1}

ShiftRight(S, n) == {i \in Bits : i + n \in S}

\* wide: what the build makes of a shift by the full width.
ShiftLeft(S, n, wide) ==
  IF n < BLOOM_BITS THEN {i \in Bits : i - n \in S}
  ELSE IF wide = "modulo" THEN S ELSE {}

\* How often erasure_mask() repeats its pattern.
Repeats(w) == BLOOM_BITS \div (2 * w)

\* A bug: the pattern is repeated at the distance of one int.
erasure_mask__dense(w, wide) ==
  LET ints[n \in 0 .. Repeats(w)] ==
        IF n = 0 THEN w .. (2 * w - 1)
        ELSE ints[n - 1] \cup ShiftLeft(ints[n - 1], w, wide)
  IN  ints[Repeats(w)]

erasure_mask(w, wide) ==
  LET ints[n \in 0 .. Repeats(w)] ==
        IF n = 0 THEN w .. (2 * w - 1)
        ELSE ints[n - 1] \cup ShiftLeft(ints[n - 1], 2 * w, wide)
  IN  ints[Repeats(w)]

Init == /\ ha \in HashSets /\ hb \in HashSets
        /\ section = Filter(ha) \cap Filter(hb)
        /\ width = 1 /\ mask = {}
        /\ ret = NULL

\* A bug: the upper ints are added without being masked.
AddPairs__unmasked(wide) ==
  /\ ret = NULL /\ width < BLOOM_BITS
  /\ mask' = erasure_mask(width, wide)
  /\ section' = BitsOf(Number(ShiftRight(section, width)) + Number(section \cap mask'))
  /\ width' = 2 * width
  /\ UNCHANGED << ha, hb, ret >>

\* A bug: the width stays.
AddPairs__forever(wide) ==
  /\ ret = NULL /\ width < BLOOM_BITS
  /\ mask' = erasure_mask(width, wide)
  /\ section' = BitsOf(Number(ShiftRight(section, width) \cap mask')
                         + Number(section \cap mask'))
  /\ UNCHANGED << ha, hb, width, ret >>

\* A bug: the width is incremented.
AddPairs__increment(wide) ==
  /\ ret = NULL /\ width < BLOOM_BITS
  /\ mask' = erasure_mask(width, wide)
  /\ section' = BitsOf(Number(ShiftRight(section, width) \cap mask')
                         + Number(section \cap mask'))
  /\ width' = width + 1
  /\ UNCHANGED << ha, hb, ret >>

\* One iteration of the loop.  What does not fit into a word is lost.
AddPairs(wide) ==
  /\ ret = NULL /\ width < BLOOM_BITS
  /\ mask' = erasure_mask(width, wide)
  /\ section' = BitsOf(Number(ShiftRight(section, width) \cap mask')
                         + Number(section \cap mask'))
  /\ width' = 2 * width
  /\ UNCHANGED << ha, hb, ret >>

Return ==
  /\ ret = NULL /\ width >= BLOOM_BITS
  /\ ret' = IF Number(section) < HASH_VARIANTS THEN 1 ELSE 0
  /\ UNCHANGED << ha, hb, section, width, mask >>

Next == Return \/ \E wide \in {"modulo", "zero"} : AddPairs(wide)

\* The function runs on the thread that called it.
Spec == Init /\ [][Next]_vars /\ WF_vars(Next)

-----------------------------------------------------------------------------
(* Properties. *)

\* section and mask are words, width a power of two, the result a truth value.
TypeOK ==
  /\ ha \in HashSets /\ hb \in HashSets
  /\ section \subseteq Bits /\ mask \subseteq Bits
  /\ \E n \in 0 .. BLOOM_BITS : CONSTPOW_TWO[n] = width
  /\ ret \in {0, 1, NULL}

\* The mask covers every other int of its width, exactly, whatever the build makes
\* of the shift by the full width of a word.
MaskIsEveryOther ==
  width > 1 =>
    LET w == width \div 2
    IN  mask = {i \in Bits : (i \div w) % 2 = 1}

\* The int of w bits at position pos of a word.
IntAt(S, pos, w) == Number(ShiftRight(S, pos) \cap 0 .. (w - 1))

\* "Clearing half of them to prevent overflows": no sum of two neighbours carries
\* into the next one, and none is lost at the end of the word.
SumsDoNotOverflow ==
  [][ width' > width =>
        \A pos \in {i \in Bits : i % (2 * width) = width} :
          IntAt(section', pos, 2 * width)
            = IntAt(section, pos, width) + IntAt(section, pos + width, width) ]_vars

\* The loop ends.
Returns == <>(ret # NULL)

-----------------------------------------------------------------------------
(* A claim of a comment that the code does not keep. *)

\* bloom.h, bloom_may_have_common: "0 if the sets represented are exclusively
\* disjunctive, 1 otherwise".
CommonIsNoticed == ret # NULL /\ ha \cap hb # {} => ret = 1
=============================================================================
