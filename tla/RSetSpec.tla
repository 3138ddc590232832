------------------------------ MODULE RSetSpec ------------------------------
(***************************************************************************)
(* The interface of set.h as its user sees it: the sets that exist, each   *)
(* with its configuration and its elements, and the last call with its     *)
(* result.  An allocation may always fail, and then nothing changes.       *)
(***************************************************************************)
EXTENDS Integers, Sequences, SequencesExt

CONSTANTS Handle,   \* the user's variables of type struct r_set *
          Key, Cfg, NULL,
          Preds,    \* the predicates users pass, as sets of elements
          Faults    \* the sets of elements that make a procf() fail

VARIABLES sets,     \* [Handle -> NULL or [cfg, elems]]
          done      \* [op, arg, ret] of the last call

vars == << sets, done >>

OK     == 0
EEXIST == -17
ENOMEM == -12

\* The operation is compared first: arguments of different operations differ in type.
Return(op, arg, ret) ==
  /\ done'.op = op
  /\ done' = [op |-> op, arg |-> arg, ret |-> ret]

Init == /\ sets = [h \in Handle |-> NULL]
        /\ done = [op |-> "start", arg |-> NULL, ret |-> OK]

New(h, c) ==
  /\ sets[h] = NULL
  /\ \/ /\ sets' = [sets EXCEPT ![h] = [cfg |-> c, elems |-> {}]]
        /\ Return("new", << h, c >>, h)
     \/ /\ UNCHANGED sets
        /\ Return("new", << h, c >>, NULL)

Destroy(h) ==
  /\ sets' = [sets EXCEPT ![h] = NULL]
  /\ Return("destroy", h, IF sets[h] = NULL THEN EEXIST ELSE OK)

\* Only the set of the call changes, and by d alone.
Insert(h, d) ==
  /\ sets[h] # NULL
  /\ \/ /\ d \notin sets[h].elems
        /\ sets' = [sets EXCEPT ![h].elems = @ \cup {d}]
        /\ Return("insert", << h, d >>, OK)
     \/ /\ UNCHANGED sets
        /\ Return("insert", << h, d >>,
                  IF d \in sets[h].elems THEN EEXIST ELSE ENOMEM)

Delete(h, d) ==
  /\ sets[h] # NULL
  /\ sets' = [sets EXCEPT ![h].elems = @ \ {d}]
  /\ Return("remove", << h, d >>, IF d \in sets[h].elems THEN OK ELSE EEXIST)

Find(h, d) ==
  /\ sets[h] # NULL
  /\ Return("contains", << h, d >>, IF d \in sets[h].elems THEN d ELSE NULL)
  /\ UNCHANGED sets

Count(h) ==
  /\ sets[h] # NULL
  /\ Return("cardinality", h, Cardinality(sets[h].elems))
  /\ UNCHANGED sets

\* procf() is called for each selected element once, in any order, until it
\* fails for the first time; seen is the sequence of those calls.
Select(h, P, Bad) ==
  LET chosen == sets[h].elems \cap P
      seen   == done'.ret.seen
      failed == seen # << >> /\ seen[Len(seen)] \in Bad
  IN  /\ sets[h] # NULL
      /\ Return("select", << h, P, Bad >>,
                [ret |-> IF failed THEN EEXIST ELSE OK, seen |-> seen])
      /\ IsInjective(seen)
      /\ ToSet(seen) \subseteq chosen
      /\ \A i \in 1 .. (Len(seen) - 1) : seen[i] \notin Bad
      /\ failed \/ chosen \subseteq ToSet(seen)
      /\ UNCHANGED sets

\* "Another set to insert those values": the elements of h selected by P go into g
\* until one cannot.  The result tells whether they all got there, and if not, why.
\* mild: an element that is there already does not count as one that cannot.
SelectInto(h, g, P, mild) ==
  LET chosen == sets[h].elems \cap P
      there  == sets[g].elems
      Result(copied) ==
        (IF chosen = copied \/ (mild /\ chosen \subseteq copied \cup there) THEN {OK} ELSE {})
          \cup (IF ~mild /\ chosen \cap there # {} THEN {EEXIST} ELSE {})
          \cup (IF chosen \subseteq copied \cup there THEN {} ELSE {ENOMEM})
  IN  /\ sets[h] # NULL /\ sets[g] # NULL
      /\ done'.op = "select into" /\ done'.arg = << h, g, P, mild >>
      /\ \E copied \in SUBSET (chosen \ there) : \E r \in Result(copied) :
           /\ Return("select into", << h, g, P, mild >>, r)
           /\ sets' = [sets EXCEPT ![g].elems = @ \cup copied]

\* Sets that do not exist, differ in configuration or in contents are never
\* equal.  That others always are is more than the code keeps.
Equal(g, h) ==
  /\ \/ Return("equal", << g, h >>, 0) /\ g # h
     \/ /\ g = h \/ (sets[g] # NULL /\ sets[g] = sets[h])
        /\ Return("equal", << g, h >>, 1)
  /\ UNCHANGED sets

Next ==
  \E h \in Handle :
    \/ \E c \in Cfg : New(h, c)
    \/ Destroy(h)
    \/ \E d \in Key : Insert(h, d) \/ Delete(h, d) \/ Find(h, d)
    \/ Count(h)
    \/ \E P \in Preds, Bad \in Faults : Select(h, P, Bad)
    \/ \E g \in Handle, P \in Preds, mild \in BOOLEAN : SelectInto(h, g, P, mild)
    \/ \E g \in Handle : Equal(g, h)

Spec == Init /\ [][Next]_vars
=============================================================================
