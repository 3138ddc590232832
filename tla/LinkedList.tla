----------------------------- MODULE LinkedList -----------------------------
(***************************************************************************)
(* The linked list of src/libreset/ll as it lies in memory: cells, the     *)
(* next pointers between them and the data they point to, with one step    *)
(* for each iteration of a loop.  It shows which memory a call touches,    *)
(* who owns the data, and that the sequence operations of Ll are what the  *)
(* pointers compute.                                                       *)
(*                                                                         *)
(* ll_insert, ll_delete and ll_ndel walk with a struct ll_element **: it is *)
(* then the slot that is looked at, HEAD (&ll->head) or a cell (its next   *)
(* field).  The other functions walk with a pointer to the cell itself.    *)
(***************************************************************************)
EXTENDS Integers, Sequences, FiniteSets

CONSTANTS Cell,     \* addresses calloc() may return
          HEAD,     \* the slot &ll->head
          NULL,
          Key,      \* classes of objects that are equal under cmpf()
          Obj,      \* the user's objects and their copies
          keyof,    \* [Obj -> Key]
          Preds,    \* the predicates users pass, as sets of keys
          Faults    \* the sets of keys that make a procf() fail

ASSUME MemoryAssumption == NULL \notin Cell /\ HEAD \notin Cell /\ HEAD # NULL
ASSUME ObjAssumption    == keyof \in [Obj -> Key] /\ NULL \notin Obj
ASSUME PredAssumption   == Preds \subseteq SUBSET Key /\ Faults \subseteq SUBSET Key

OK     == 0
EEXIST == -17
ENOMEM == -12

VARIABLES nxt,      \* [Cell \cup {HEAD} -> Cell \cup {NULL}]
          data,     \* [Cell -> Obj \cup {NULL}]
          alloc,    \* the cells allocated and not freed
          live,     \* the objects the list owns
          cfg,      \* which of copyf and freef the configuration has
          pc,       \* the call being executed, "idle", or "gone" once destroyed
          it,       \* the slot or cell the call looks at
          ahead,    \* the cell after it, which ll_destroy keeps while it frees
          arg,      \* the object the call was given
          pred, bad,\* the predicate it was given; where its procf() fails
          cnt,      \* the local counter of ll_ndel and ll_count
          seen,     \* the keys procf() was called with
          before,   \* the keys in the list when the call began
          done      \* [op, arg, ret] of the last call

memory == << nxt, data, alloc, live >>
call   == << arg, pred, bad, before, cfg, ahead >>
vars   == << memory, call, pc, it, cnt, seen, done >>

SlotCalls == {"insert", "remove", "ndel"}
CellCalls == {"find", "cardinality", "select", "destroy"}
ByObject  == {"insert", "remove", "find"}

\* ll_destroy looks at a cell, or is about to free it, or has freed them all.
Destroying == {"destroy", "free", "gone"}

Keys == {keyof[data[c]] : c \in alloc}

Init ==
  /\ nxt = [c \in Cell \cup {HEAD} |-> NULL]
  /\ data = [c \in Cell |-> NULL]
  /\ alloc = {} /\ live = {}
  /\ cfg \in [copyf : BOOLEAN, freef : BOOLEAN]
  /\ pc = "idle" /\ it = HEAD /\ ahead = NULL /\ arg = NULL /\ pred = {} /\ bad = {}
  /\ cnt = 0 /\ seen = << >> /\ before = {}
  /\ done = [op |-> "new", arg |-> NULL, ret |-> OK]

-----------------------------------------------------------------------------
(* A call begins. *)

Begin(op) ==
  /\ pc = "idle"
  /\ pc' = op
  /\ it' = IF op \in SlotCalls THEN HEAD ELSE nxt[HEAD]
  /\ cnt' = 0 /\ seen' = << >> /\ before' = Keys
  /\ UNCHANGED << memory, cfg, ahead, done >>

CallByObject(op, d) == Begin(op) /\ arg' = d /\ pred' = {} /\ bad' = {}
CallNdel(P)         == Begin("ndel") /\ arg' = NULL /\ pred' = P /\ bad' = {}
CallSelect(P, B)    == Begin("select") /\ arg' = NULL /\ pred' = P /\ bad' = B
CallCount           == Begin("cardinality") /\ arg' = NULL /\ pred' = {} /\ bad' = {}
CallDestroy         == Begin("destroy") /\ arg' = NULL /\ pred' = {} /\ bad' = {}

Return(a, r) == pc' = "idle" /\ done' = [op |-> pc, arg |-> a, ret |-> r]

-----------------------------------------------------------------------------
(* The steps of the loops. *)

\* The cell the call looks at, or NULL at the end of the list.
Cur     == IF pc \in SlotCalls THEN nxt[it] ELSE it
CurKey  == keyof[data[Cur]]

\* `it = &(*it)->next' in a walk over slots, `it = it->next' in one over cells.
Forward == it' = nxt[it]

\* A bug: freef() is not called.
FreeCur__leak == alloc' = alloc \ {Cur} /\ live' = live

\* freef(data) if there is one, and free() of the current cell.
FreeCur ==
  /\ alloc' = alloc \ {Cur}
  /\ live' = IF cfg.freef THEN live \ {data[Cur]} ELSE live

\* A bug: the comparison is forgotten.
Skip__any ==
  /\ pc \in ByObject
  /\ Cur # NULL
  /\ Forward
  /\ UNCHANGED << memory, call, pc, cnt, seen, done >>

\* The loops of ll_insert, ll_delete and ll_find: cmpf() does not hold.
Skip ==
  /\ pc \in ByObject
  /\ Cur # NULL /\ CurKey # keyof[arg]
  /\ Forward
  /\ UNCHANGED << memory, call, pc, cnt, seen, done >>

InsertExists ==
  /\ pc = "insert"
  /\ Cur # NULL /\ CurKey = keyof[arg]
  /\ Return(keyof[arg], EEXIST)
  /\ UNCHANGED << memory, call, it, cnt, seen >>

InsertNoMem ==
  /\ pc = "insert"
  /\ Cur = NULL
  /\ Return(keyof[arg], ENOMEM)
  /\ UNCHANGED << memory, call, it, cnt, seen >>

\* A bug: the new cell is hung into the head, whatever is there.
InsertNew__head(c, o) ==
  /\ pc = "insert"
  /\ Cur = NULL
  /\ c \notin alloc
  /\ IF cfg.copyf THEN o \notin live \cup {arg} /\ keyof[o] = keyof[arg] ELSE o = arg
  /\ data' = [data EXCEPT ![c] = o]
  /\ nxt' = [nxt EXCEPT ![c] = NULL, ![HEAD] = c]
  /\ alloc' = alloc \cup {c}
  /\ live' = IF cfg.copyf \/ cfg.freef THEN live \cup {o} ELSE live
  /\ Return(keyof[arg], OK)
  /\ UNCHANGED << call, it, cnt, seen >>

\* A bug: the list takes what was in the cell before the object is stored.
InsertNew__early(c, o) ==
  /\ pc = "insert"
  /\ Cur = NULL
  /\ c \notin alloc
  /\ IF cfg.copyf THEN o \notin live \cup {arg} /\ keyof[o] = keyof[arg] ELSE o = arg
  /\ data' = [data EXCEPT ![c] = o]
  /\ nxt' = [nxt EXCEPT ![c] = NULL, ![it] = c]
  /\ alloc' = alloc \cup {c}
  /\ live' = IF cfg.copyf \/ cfg.freef THEN live \cup {data[c]} ELSE live
  /\ Return(keyof[arg], OK)
  /\ UNCHANGED << call, it, cnt, seen >>

\* c: the new cell; o: the object it is to hold, a new one if there is a copyf.
InsertNew(c, o) ==
  /\ pc = "insert"
  /\ Cur = NULL
  /\ c \notin alloc
  /\ IF cfg.copyf THEN o \notin live \cup {arg} /\ keyof[o] = keyof[arg] ELSE o = arg
  /\ data' = [data EXCEPT ![c] = o]
  /\ nxt' = [nxt EXCEPT ![c] = NULL, ![it] = c]
  /\ alloc' = alloc \cup {c}
  /\ live' = IF cfg.copyf \/ cfg.freef THEN live \cup {o} ELSE live
  /\ Return(keyof[arg], OK)
  /\ UNCHANGED << call, it, cnt, seen >>

FindHit ==
  /\ pc = "find"
  /\ Cur # NULL /\ CurKey = keyof[arg]
  /\ Return(keyof[arg], CurKey)
  /\ UNCHANGED << memory, call, it, cnt, seen >>

FindMiss ==
  /\ pc = "find"
  /\ Cur = NULL
  /\ Return(keyof[arg], NULL)
  /\ UNCHANGED << memory, call, it, cnt, seen >>

DeleteHit ==
  /\ pc = "remove"
  /\ Cur # NULL /\ CurKey = keyof[arg]
  /\ nxt' = [nxt EXCEPT ![it] = nxt[Cur]]
  /\ FreeCur
  /\ Return(keyof[arg], OK)
  /\ UNCHANGED << data, call, it, cnt, seen >>

DeleteMiss ==
  /\ pc = "remove"
  /\ Cur = NULL
  /\ Return(keyof[arg], EEXIST)
  /\ UNCHANGED << memory, call, it, cnt, seen >>

\* A bug: `continue' without going forward.
NdelKeep__stays ==
  /\ pc = "ndel"
  /\ Cur # NULL /\ CurKey \notin pred
  /\ UNCHANGED vars

NdelKeep ==
  /\ pc = "ndel"
  /\ Cur # NULL /\ CurKey \notin pred
  /\ Forward
  /\ UNCHANGED << memory, call, pc, cnt, seen, done >>

\* A bug: the walk goes on from the cell just freed.
NdelRemove__forward ==
  /\ pc = "ndel"
  /\ Cur # NULL /\ CurKey \in pred
  /\ nxt' = [nxt EXCEPT ![it] = nxt[Cur]]
  /\ FreeCur
  /\ Forward
  /\ cnt' = cnt + 1
  /\ UNCHANGED << data, call, pc, seen, done >>

\* A bug: the removal is not counted.
NdelRemove__uncounted ==
  /\ pc = "ndel"
  /\ Cur # NULL /\ CurKey \in pred
  /\ nxt' = [nxt EXCEPT ![it] = nxt[Cur]]
  /\ FreeCur
  /\ UNCHANGED << data, call, pc, it, cnt, seen, done >>

\* The slot stays: it now holds the next cell.
NdelRemove ==
  /\ pc = "ndel"
  /\ Cur # NULL /\ CurKey \in pred
  /\ nxt' = [nxt EXCEPT ![it] = nxt[Cur]]
  /\ FreeCur
  /\ cnt' = cnt + 1
  /\ UNCHANGED << data, call, pc, it, seen, done >>

NdelEnd ==
  /\ pc = "ndel"
  /\ Cur = NULL
  /\ Return(pred, cnt)
  /\ UNCHANGED << memory, call, it, cnt, seen >>

CountStep ==
  /\ pc = "cardinality"
  /\ Cur # NULL
  /\ Forward
  /\ cnt' = cnt + 1
  /\ UNCHANGED << memory, call, pc, seen, done >>

CountEnd ==
  /\ pc = "cardinality"
  /\ Cur = NULL
  /\ Return(NULL, cnt)
  /\ UNCHANGED << memory, call, it, cnt, seen >>

SelectStep ==
  /\ pc = "select"
  /\ Cur # NULL /\ CurKey \notin pred \cap bad
  /\ Forward
  /\ seen' = IF CurKey \in pred THEN Append(seen, CurKey) ELSE seen
  /\ UNCHANGED << memory, call, pc, cnt, done >>

SelectFail ==
  /\ pc = "select"
  /\ Cur # NULL /\ CurKey \in pred \cap bad
  /\ seen' = Append(seen, CurKey)
  /\ Return(<< pred, bad >>, [ret |-> EEXIST, seen |-> Append(seen, CurKey)])
  /\ UNCHANGED << memory, call, it, cnt >>

SelectEnd ==
  /\ pc = "select"
  /\ Cur = NULL
  /\ Return(<< pred, bad >>, [ret |-> OK, seen |-> seen])
  /\ UNCHANGED << memory, call, it, cnt, seen >>

\* A bug: next is read after the cell was freed.
DestroyNext__late ==
  /\ pc = "destroy"
  /\ Cur # NULL
  /\ FreeCur
  /\ ahead' = nxt[it]
  /\ pc' = "free"
  /\ UNCHANGED << nxt, data, arg, pred, bad, before, cfg, it, cnt, seen, done >>

\* The next pointer is read as long as the cell is there.
DestroyNext ==
  /\ pc = "destroy"
  /\ Cur # NULL
  /\ ahead' = nxt[it]
  /\ pc' = "free"
  /\ UNCHANGED << memory, arg, pred, bad, before, cfg, it, cnt, seen, done >>

\* freef(), free() and `iter = next'.
DestroyFree ==
  /\ pc = "free"
  /\ FreeCur
  /\ it' = ahead
  /\ pc' = "destroy"
  /\ UNCHANGED << nxt, data, call, cnt, seen, done >>

\* ll->head still points to the first cell: the list must not be used again.
DestroyEnd ==
  /\ pc = "destroy"
  /\ Cur = NULL
  /\ pc' = "gone"
  /\ done' = [op |-> "destroy", arg |-> NULL, ret |-> OK]
  /\ UNCHANGED << memory, call, it, cnt, seen >>

-----------------------------------------------------------------------------
Call ==
  \/ \E op \in ByObject, d \in Obj : CallByObject(op, d)
  \/ \E P \in Preds : CallNdel(P) \/ \E B \in Faults : CallSelect(P, B)
  \/ CallCount
  \/ CallDestroy

\* The steps the running call takes by itself.
Step ==
  \/ Skip
  \/ InsertExists \/ InsertNoMem \/ (\E c \in Cell, o \in Obj : InsertNew(c, o))
  \/ FindHit \/ FindMiss
  \/ DeleteHit \/ DeleteMiss
  \/ NdelKeep \/ NdelRemove \/ NdelEnd
  \/ CountStep \/ CountEnd
  \/ SelectStep \/ SelectFail \/ SelectEnd
  \/ DestroyNext \/ DestroyFree \/ DestroyEnd

Next == Call \/ Step

Spec == Init /\ [][Next]_vars

\* The thread that made a call runs.
FairSpec == Spec /\ WF_vars(Step)

-----------------------------------------------------------------------------
(* Properties. *)

\* Pointers point to cells, cells to objects, and a call is one of those of ll.h.
TypeOK ==
  /\ nxt \in [Cell \cup {HEAD} -> Cell \cup {NULL}]
  /\ data \in [Cell -> Obj \cup {NULL}]
  /\ alloc \subseteq Cell /\ live \subseteq Obj
  /\ cfg \in [copyf : BOOLEAN, freef : BOOLEAN]
  /\ pc \in SlotCalls \cup CellCalls \cup {"idle", "free", "gone"}
  /\ it \in Cell \cup {HEAD, NULL} /\ ahead \in Cell \cup {NULL}
  /\ arg \in Obj \cup {NULL} /\ pred \subseteq Key /\ bad \subseteq Key
  /\ cnt \in Nat /\ seen \in Seq(Key) /\ before \subseteq Key

\* No call reads, writes or frees freed memory: the slot it holds and the cell it
\* looks at are allocated, also after cells were unlinked or freed under way.
NoUseAfterFree ==
  /\ pc \in SlotCalls => it \in alloc \cup {HEAD}
  /\ pc \in SlotCalls \cup CellCalls => Cur \in alloc \cup {NULL}
  /\ pc = "free" => it \in alloc /\ ahead \in alloc \cup {NULL}
  /\ pc \notin Destroying =>
       \A c \in alloc \cup {HEAD} : nxt[c] \in alloc \cup {NULL}

\* Two allocated cells never hold equal elements, however insertions and removals
\* were ordered.
NoDuplicates ==
  \A c, d \in alloc : keyof[data[c]] = keyof[data[d]] => c = d

\* With a freef the list owns exactly the objects its cells hold: each is freed
\* once, none is leaked, and none is freed while a cell still holds it.
OwnsItsData ==
  cfg.freef => live = {data[c] : c \in alloc}

\* No cell is leaked: those allocated are those the list holds, and none is left
\* when the list is gone.
NoLeak ==
  /\ pc = "gone" => alloc = {}
  /\ pc \notin Destroying =>
       \A c \in alloc : \E b \in alloc \cup {HEAD} : nxt[b] = c

\* Every call returns.
CallsReturn == pc \in SlotCalls \cup CellCalls \cup {"free"} ~> pc \in {"idle", "gone"}

\* Seen at the moments calls return, the list is the set SetSpec describes.
Container ==
  INSTANCE SetSpec WITH contents <- IF pc \in {"idle", "gone"} THEN Keys ELSE before
ImplementsSet == Container!Spec
=============================================================================
