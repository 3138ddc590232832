--------------------------------- MODULE Ll ---------------------------------
(***************************************************************************)
(* The linked lists of src/libreset/ll, as operations on sequences: what   *)
(* one call returns and what it leaves in the list.  A list element is the *)
(* value the user stored; cmpf() holds of two values iff they are the same *)
(* key.  The cells, the links between them and the ownership of the data   *)
(* are the subject of LinkedList.                                          *)
(***************************************************************************)
EXTENDS Integers, Sequences, SequencesExt

CONSTANT NULL          \* the null pointer, as a list, a node or a result

\* Result codes of the library (errno.h values, negated as the code does).
OK     == 0
EEXIST == -17
ENOMEM == -12

ll_find(ll, d) == IF Contains(ll, d) THEN d ELSE NULL

\* nomem: the calloc() of the new cell fails, if it is reached.
ll_insert(ll, d, nomem) ==
  IF Contains(ll, d) THEN [ret |-> EEXIST, ll |-> ll]
  ELSE IF nomem      THEN [ret |-> ENOMEM, ll |-> ll]
                     ELSE [ret |-> OK, ll |-> Append(ll, d)]

\* Unlinks the first element that compares equal.
ll_delete(ll, d) ==
  IF Contains(ll, d) THEN [ret |-> OK, ll |-> RemoveFirst(ll, d)]
                     ELSE [ret |-> EEXIST, ll |-> ll]

\* P: the elements pred() holds of.  kept[i] is what is left of the first i elements.
ll_ndel(ll, P) ==
  LET kept[i \in Nat] == IF i = 0           THEN << >>
                         ELSE IF ll[i] \in P THEN kept[i - 1]
                                            ELSE Append(kept[i - 1], ll[i])
  IN  [ret |-> Len(ll) - Len(kept[Len(ll)]), ll |-> kept[Len(ll)]]

ll_is_empty(ll) == ll = << >>

ll_count(ll) == Len(ll)

ll_is_subset(lla, llb) == \A i \in DOMAIN lla : ll_find(llb, lla[i]) # NULL

\* Bad: the elements for which procf() returns an error.  seen is the sequence
\* of elements procf() was called with: the walk ends at the first error.
ll_select(ll, P, Bad) ==
  LET picked == SelectSeq(ll, LAMBDA d : d \in P)
      errors == {i \in DOMAIN picked : picked[i] \in Bad}
      last   == IF errors = {} THEN Len(picked) ELSE Min(errors)
  IN  [ret  |-> IF errors = {} THEN OK ELSE EEXIST,
       seen |-> SubSeq(picked, 1, last)]
=============================================================================
