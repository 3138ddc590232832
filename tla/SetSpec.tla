------------------------------- MODULE SetSpec -------------------------------
(***************************************************************************)
(* What one set container of the library promises its caller, whatever     *)
(* holds the elements (a list, a tree or a table of trees): the contents   *)
(* and, in done, the last call with its argument and its result.           *)
(* Sources: the interface comments of set.h, avl/avl.h and ll/ll.h and the *)
(* return statements of the functions they declare.                        *)
(***************************************************************************)
EXTENDS Integers, Sequences, SequencesExt

CONSTANTS Key, NULL,
          Preds,   \* the predicates users pass, as sets of elements
          Faults   \* the sets of elements that make a procf() fail

VARIABLES contents,   \* the elements of the container
          done        \* [op, arg, ret] of the last call

vars == << contents, done >>

OK     == 0
EEXIST == -17
ENOMEM == -12

\* The operation is compared first: arguments of different operations differ in type.
Return(op, arg, ret) ==
  /\ done'.op = op
  /\ done' = [op |-> op, arg |-> arg, ret |-> ret]

Init == contents = {} /\ done = [op |-> "new", arg |-> NULL, ret |-> OK]

\* Never a duplicate; a failed allocation leaves the contents alone.
Insert(d) ==
  \/ /\ d \notin contents
     /\ contents' = contents \cup {d}
     /\ Return("insert", d, OK)
  \/ /\ UNCHANGED contents
     /\ Return("insert", d, IF d \in contents THEN EEXIST ELSE ENOMEM)

Delete(d) ==
  /\ contents' = contents \ {d}
  /\ Return("remove", d, IF d \in contents THEN OK ELSE EEXIST)

DeleteIf(P) ==
  /\ contents' = contents \ P
  /\ Return("ndel", P, Cardinality(contents \cap P))

Find(d) ==
  /\ Return("find", d, IF d \in contents THEN d ELSE NULL)
  /\ UNCHANGED contents

Count ==
  /\ Return("cardinality", NULL, Cardinality(contents))
  /\ UNCHANGED contents

\* procf() is called for each selected element once, in any order, until it
\* fails for the first time; seen is the sequence of those calls.
Select(P, Bad) ==
  LET seen   == done'.ret.seen
      failed == seen # << >> /\ seen[Len(seen)] \in Bad
  IN  /\ Return("select", << P, Bad >>,
                [ret |-> IF failed THEN EEXIST ELSE OK, seen |-> seen])
      /\ IsInjective(seen)
      /\ ToSet(seen) \subseteq contents \cap P
      /\ \A i \in 1 .. (Len(seen) - 1) : seen[i] \notin Bad
      /\ failed \/ contents \cap P \subseteq ToSet(seen)
      /\ UNCHANGED contents

\* The container is emptied; EEXIST says that there was nothing to destroy.
Destroy ==
  /\ contents' = {}
  /\ \/ Return("destroy", NULL, OK)
     \/ contents = {} /\ Return("destroy", NULL, EEXIST)

Next ==
  \/ \E d \in Key : Insert(d) \/ Delete(d) \/ Find(d)
  \/ \E P \in Preds : DeleteIf(P) \/ \E Bad \in Faults : Select(P, Bad)
  \/ Count \/ Destroy

Spec == Init /\ [][Next]_vars
=============================================================================
