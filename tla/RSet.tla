-------------------------------- MODULE RSet --------------------------------
(***************************************************************************)
(* The library's interface, src/libreset/set.c: several sets, each a       *)
(* hashtable of trees, under every sequence of calls, with every           *)
(* allocation free to fail, as long as an int can count each.              *)
(***************************************************************************)
EXTENDS HtFns

CONSTANTS Handle,         \* the user's variables of type struct r_set *
          Cfg,            \* the values of the configurations users pass
          HT_INIT_POWER,  \* ht_init_power of r_set_new (3 in the code)
          Preds,          \* the predicates users pass, as sets of elements
          Faults,         \* the sets of elements that make a procf() fail
          NoMem           \* the allocation of an insertion that may fail

ASSUME CallAssumption ==
  /\ HT_INIT_POWER \in TableSizes
  /\ Preds \subseteq SUBSET Key /\ Faults \subseteq SUBSET Key
  /\ NoMem \subseteq {"none", "node", "cell"}

\* struct r_set
SetObject ==
  [ht  : [sizeexp : {HT_INIT_POWER},
          buckets : {NULL} \cup [0 .. (CONSTPOW_TWO[HT_INIT_POWER] - 1) -> Tree]],
   cfg : Cfg]

\* A pointer to something is not NULL.
ASSUME NullAssumption ==
  /\ NULL \notin SetObject
  /\ NULL \notin [0 .. (CONSTPOW_TWO[HT_INIT_POWER] - 1) -> Tree]
  /\ NULL \notin [cfg : Cfg, elems : SUBSET Key]

VARIABLES sets,   \* [Handle -> NULL or struct r_set]
          done,   \* the last call: [op, arg, ret]
          up      \* FALSE once the process has crashed

vars == << sets, done, up >>

Return(op, arg, ret) == done' = [op |-> op, arg |-> arg, ret |-> ret]

Init == /\ sets = [h \in Handle |-> NULL]
        /\ done = [op |-> "start", arg |-> NULL, ret |-> OK]
        /\ up = TRUE

\* A set whose buckets can be accessed.
Usable(h) == up /\ sets[h] # NULL /\ sets[h].ht.buckets # NULL

\* A bug: the configuration is not stored.
r_set_new__cfg(h, c, fail) ==
  /\ up
  /\ sets[h] = NULL
  /\ IF fail = "set"
     THEN Return("new", << h, c >>, NULL) /\ UNCHANGED sets
     ELSE /\ sets' = [sets EXCEPT ![h] =
                        [ht |-> ht_init(HT_INIT_POWER, fail = "buckets"), cfg |-> NULL]]
          /\ Return("new", << h, c >>, h)
  /\ UNCHANGED up

\* fail: the calloc() that fails, of the set or of its buckets.  The second
\* goes unnoticed, since ht_init always returns its argument.
r_set_new(h, c, fail) ==
  /\ up
  /\ sets[h] = NULL
  /\ IF fail = "set"
     THEN Return("new", << h, c >>, NULL) /\ UNCHANGED sets
     ELSE /\ sets' = [sets EXCEPT ![h] =
                        [ht |-> ht_init(HT_INIT_POWER, fail = "buckets"), cfg |-> c]]
          /\ Return("new", << h, c >>, h)
  /\ UNCHANGED up

r_set_destroy(h) ==
  /\ up
  /\ IF sets[h] = NULL
     THEN Return("destroy", h, EEXIST) /\ UNCHANGED sets
     ELSE /\ Usable(h)
          /\ sets' = [sets EXCEPT ![h] = NULL]
          /\ Return("destroy", h, ht_destroy(sets[h].ht).ret)
  /\ UNCHANGED up

r_set_insert(h, d, nomem) ==
  /\ Usable(h) /\ HasRoom(sets[h].ht, {d})
  /\ LET ins == ht_insert(sets[h].ht, d, nomem)
     IN  /\ sets' = [sets EXCEPT ![h].ht = ins.ht]
         /\ Return("insert", << h, d >>, ins.ret)
  /\ UNCHANGED up

r_set_remove(h, d) ==
  /\ Usable(h)
  /\ LET del == ht_del(sets[h].ht, d)
     IN  /\ sets' = [sets EXCEPT ![h].ht = del.ht]
         /\ Return("remove", << h, d >>, del.ret)
  /\ UNCHANGED up

r_set_contains(h, d) ==
  /\ Usable(h)
  /\ Return("contains", << h, d >>, ht_find(sets[h].ht, d))
  /\ UNCHANGED << sets, up >>

r_set_cardinality(h) ==
  /\ Usable(h)
  /\ Return("cardinality", h, ht_cardinality(sets[h].ht))
  /\ UNCHANGED << sets, up >>

r_set_select(h, P, Bad) ==
  /\ Usable(h)
  /\ Return("select", << h, P, Bad >>, ht_select(sets[h].ht, P, Bad))
  /\ UNCHANGED << sets, up >>

\* A procf() that inserts what it is given into a table, until it fails.  mild: it
\* takes an element that is there already for a success.  The list cell of oom, if
\* there is to be one, cannot be allocated.
InsertAll(ht, elems, mild, oom) ==
  LET copy[j \in 0 .. Len(elems)] ==
        IF j = 0 THEN [ret |-> OK, ht |-> ht]
        ELSE LET sofar == copy[j - 1]
                 ins   == ht_insert(sofar.ht, elems[j], IF elems[j] = oom THEN "cell" ELSE "none")
             IN  IF sofar.ret < 0 THEN sofar
                 ELSE [ins EXCEPT !.ret = IF mild /\ @ = EEXIST THEN OK ELSE @]
  IN  copy[Len(elems)]

\* r_set_select() from h with such a procf(), dest being g.  If it inserts into the
\* set that is walked it fails for the first element, so that the walk is not one of
\* a table that changes.
SelectInto(h, g, P, mild, oom) ==
  LET order == ht_select(sets[h].ht, P, {}).seen
      res   == InsertAll(sets[g].ht, order, mild, oom)
  IN  /\ Usable(h) /\ Usable(g) /\ HasRoom(sets[g].ht, Content(sets[h].ht) \cap P)
      /\ mild => g # h
      /\ sets' = [sets EXCEPT ![g].ht = res.ht]
      /\ Return("select into", << h, g, P, mild >>, res.ret)
      /\ UNCHANGED up

\* The tables of two sets are only looked at if the sets exist and have equal
\* configurations.
Comparable(g, h) ==
  g # h /\ sets[g] # NULL /\ sets[h] # NULL /\ sets[g].cfg = sets[h].cfg

\* A bug: the configurations are not compared.
r_set_equal__cfg(g, h) ==
  /\ up
  /\ g # h /\ sets[g] # NULL /\ sets[h] # NULL => Usable(g) /\ Usable(h)
  /\ Return("equal", << g, h >>,
            IF g = h \/ (/\ sets[g] # NULL /\ sets[h] # NULL
                         /\ ht_equal(sets[g].ht, sets[h].ht)) THEN 1 ELSE 0)
  /\ UNCHANGED << sets, up >>

r_set_equal(g, h) ==
  /\ up
  /\ Comparable(g, h) => Usable(g) /\ Usable(h)
  /\ Return("equal", << g, h >>,
            IF g = h \/ (Comparable(g, h) /\ ht_equal(sets[g].ht, sets[h].ht))
            THEN 1 ELSE 0)
  /\ UNCHANGED << sets, up >>

\* Any call that reaches the buckets of a set that has none.
Crash(h) ==
  /\ up
  /\ sets[h] # NULL
  /\ ~Usable(h)
  /\ up' = FALSE
  /\ UNCHANGED << sets, done >>

Next ==
  \E h \in Handle :
    \/ \E c \in Cfg, fail \in {"none", "set", "buckets"} : r_set_new(h, c, fail)
    \/ r_set_destroy(h)
    \/ \E d \in Key : \/ \E nomem \in NoMem : r_set_insert(h, d, nomem)
                      \/ r_set_remove(h, d)
                      \/ r_set_contains(h, d)
    \/ r_set_cardinality(h)
    \/ \E P \in Preds, Bad \in Faults : r_set_select(h, P, Bad)
    \/ \E g \in Handle, P \in Preds, mild \in BOOLEAN, oom \in Key \cup {NULL} :
         SelectInto(h, g, P, mild, oom)
    \/ \E g \in Handle : r_set_equal(g, h)
    \/ Crash(h)

Spec == Init /\ [][Next]_vars

-----------------------------------------------------------------------------
(* Properties. *)

Contents(ht) == IF ht.buckets = NULL THEN {} ELSE Content(ht)

\* Every set has a configuration and a table of the initial size, full of trees.
TypeOK == sets \in [Handle -> {NULL} \cup SetObject]

\* Seen through the interface of set.h, every set is a mathematical set: no call
\* on one set shows in another, none loses, repeats or invents an element, every
\* result code is true, and no two different sets are found equal.
AbstractSets ==
  [h \in Handle |-> IF sets[h] = NULL THEN NULL
                    ELSE [cfg |-> sets[h].cfg, elems |-> Contents(sets[h].ht)]]
Interface == INSTANCE RSetSpec WITH sets <- AbstractSets
ImplementsSets == Interface!Spec

-----------------------------------------------------------------------------
(* Claims of comments that the code does not keep. *)

\* set.h, r_set_new: the result is "a pointer to the set object or NULL on
\* failure", so a set that was returned can be used.
NewSetsAreUsable == \A h \in Handle : up /\ sets[h] # NULL => Usable(h)
=============================================================================
