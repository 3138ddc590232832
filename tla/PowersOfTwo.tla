----------------------------- MODULE PowersOfTwo -----------------------------
(* CONSTPOW_TWO() of src/libreset/util/macros.h. *)
EXTENDS Integers

\* 1 << n
CONSTPOW_TWO[n \in Nat] == IF n = 0 THEN 1 ELSE 2 * CONSTPOW_TWO[n - 1]
=============================================================================
