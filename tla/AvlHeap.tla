------------------------------- MODULE AvlHeap -------------------------------
(***************************************************************************)
(* The search tree of src/libreset/avl as it lies in memory: nodes, the    *)
(* pointers between them, and the calls that follow and change them, one   *)
(* step for each visit of a node, each rotation and each node cut loose.   *)
(*                                                                         *)
(* A struct avl_el ** is the slot it points to: ROOT, which is &avl->root, *)
(* or << a, "l" >> and << a, "r" >>, the child fields of node a.           *)
(*                                                                         *)
(* The recursion is on a stack, the running function first.  A frame is    *)
(* the function, the slot it was given and where it stands: "enter" at     *)
(* first, then "l" or "r" after it called itself for that child, or a      *)
(* label of its own.  The frame "avl" is the interface function below.     *)
(*                                                                         *)
(* rebalance_subtree() keeps its root in a local variable and returns it   *)
(* to its caller, which stores it; here every rotation stores it, as       *)
(* nothing reads the slot in between.  The lists of the nodes are those of *)
(* Ll; LinkedList has their memory.                                        *)
(***************************************************************************)
EXTENDS Ll, Bloom

CONSTANTS Addr,     \* addresses of nodes
          home,     \* the addresses calloc() may return for a node of a hash
          Key,      \* the values the user may store
          hashf,    \* [Key -> hash]
          Preds,    \* the predicates users pass, as sets of elements
          NoNode,   \* the values for which the allocation of a node may fail
          NoCell    \* the values for which that of a list cell may fail

ROOT == << NULL, "root" >>
Slot == (Addr \X {"l", "r"}) \cup {ROOT}

ASSUME HeapAssumption ==
  /\ NULL \notin Addr
  /\ hashf \in [Key -> Nat]
  /\ \A d \in Key : home[hashf[d]] \subseteq Addr
  /\ Preds \subseteq SUBSET Key
  /\ NoNode \subseteq Key /\ NoCell \subseteq Key

VARIABLES child,    \* [Slot -> Addr \cup {NULL}]
          el,       \* [Addr -> the other fields of struct avl_el]
          alloc,    \* the nodes allocated and not freed
          stack,    \* the frames of the running call
          call,     \* [op, arg] of that call
          before,   \* the memory when it began; no step reads it
          ret,      \* its retval so far
          low,      \* what isolate_leftmost() returns
          done,     \* the last call: [op, arg, ret]
          up        \* FALSE once the process has crashed

memory == << child, el, alloc >>
rest   == << call, before, done, up >>
vars   == << memory, stack, ret, low, rest >>

Frame(fn, slot, at) == [fn |-> fn, slot |-> slot, at |-> at]

Top == Head(stack)

\* The node in the slot the running function was given, and its children.
Cur     == child[Top.slot]
Kid(s)  == child[<< Cur, s >>]
Opp(s)  == IF s = "l" THEN "r" ELSE "l"
Hash    == hashf[call.arg]

\* One of the functions is running and stands at the label.
At(fns, label) == up /\ stack # << >> /\ Top.fn \in fns /\ Top.at = label

Goto(label) == stack' = << [Top EXCEPT !.at = label] >> \o Tail(stack)
Enter(side) == stack' = << Frame(Top.fn, << Cur, side >>, "enter"),
                           [Top EXCEPT !.at = side] >> \o Tail(stack)
Leave       == stack' = Tail(stack)

-----------------------------------------------------------------------------
(* Metadata and rotations; c and e are the values of child and el. *)

\* bloom_from_hash(), tabulated.
HashFilter == [h \in Range(hashf) |-> bloom_from_hash(h)]

avl_height(e, a)   == IF a = NULL THEN 0 ELSE e[a].height
avl_node_cnt(e, a) == IF a = NULL THEN 0 ELSE e[a].node_cnt

regen_metadata(e, c, a) ==
  LET kids == {c[<< a, "l" >>], c[<< a, "r" >>]} \ {NULL}
  IN  [e EXCEPT ![a].height   = 1 + Max({0} \cup {e[k].height : k \in kids}),
                ![a].node_cnt = 1 + avl_node_cnt(e, c[<< a, "l" >>])
                                  + avl_node_cnt(e, c[<< a, "r" >>]),
                ![a].filter   = HashFilter[e[a].hash]
                                  \cup UNION {e[k].filter : k \in kids}]

\* A bug: the node that goes down keeps its
\* metadata.
Rotate__top(slot, s) ==
  LET n == child[slot]
      m == child[<< n, s >>]
      c == [child EXCEPT ![<< n, s >>]      = child[<< m, Opp(s) >>],
                         ![<< m, Opp(s) >>] = n,
                         ![slot]            = m]
  IN  IF m = NULL THEN UNCHANGED << child, el >>
      ELSE child' = c /\ el' = regen_metadata(el, c, m)

\* A bug: the inner grandchild changes sides.
Rotate__sides(slot, s) ==
  LET n == child[slot]
      m == child[<< n, s >>]
      c == [child EXCEPT ![<< n, s >>]           = child[<< n, Opp(s) >>],
                         ![<< n, Opp(s) >>]      = child[<< m, Opp(s) >>],
                         ![<< m, Opp(s) >>]      = n,
                         ![slot]                 = m]
  IN  IF m = NULL THEN UNCHANGED << child, el >>
      ELSE /\ child' = c
           /\ el' = regen_metadata(regen_metadata(el, c, n), c, m)

\* The child of side s comes up: rotate_left for "r", rotate_right for "l".
\* Without such a child nothing happens.
Rotate(slot, s) ==
  LET n == child[slot]
      m == child[<< n, s >>]
      c == [child EXCEPT ![<< n, s >>]      = child[<< m, Opp(s) >>],
                         ![<< m, Opp(s) >>] = n,
                         ![slot]            = m]
  IN  IF m = NULL THEN UNCHANGED << child, el >>
      ELSE /\ child' = c
           /\ el' = regen_metadata(regen_metadata(el, c, n), c, m)

-----------------------------------------------------------------------------
(* A call begins and returns. *)

Begin(op, arg, r, frames) ==
  /\ up /\ stack = << >>
  /\ stack' = frames
  /\ call' = [op |-> op, arg |-> arg]
  /\ before' = [child |-> child, el |-> el, alloc |-> alloc]
  /\ ret' = r
  /\ UNCHANGED << memory, low, done, up >>

\* A recursive update, after which the tree is rebalanced.
Update(fn) == << Frame(fn, ROOT, "enter"), Frame("avl", ROOT, "rebalance") >>

CallInsert(d)   == Begin("insert", d, OK, Update("insert"))
CallDelete(d)   == Begin("remove", d, OK, Update("remove"))
CallDeleteIf(P) == Begin("ndel", P, 0, Update("ndel"))
CallFind(d)     == Begin("find", d, NULL, << Frame("find", ROOT, "enter") >>)
CallDestroy     == Begin("destroy", NULL, IF child[ROOT] = NULL THEN EEXIST ELSE OK,
                         << Frame("destroy", ROOT, "enter"), Frame("avl", ROOT, "clear") >>)

Rebalance ==
  /\ At({"avl"}, "rebalance")
  /\ stack' = << Frame("rebalance", ROOT, "enter"), Frame("avl", ROOT, "return") >>
  /\ UNCHANGED << memory, ret, low, rest >>

\* avl->root = NULL, after the nodes were freed.
Clear ==
  /\ At({"avl"}, "clear")
  /\ child' = [child EXCEPT ![ROOT] = NULL]
  /\ Goto("return")
  /\ UNCHANGED << el, alloc, ret, low, rest >>

Return ==
  /\ At({"avl"}, "return")
  /\ stack' = << >>
  /\ done' = [op |-> call.op, arg |-> call.arg, ret |-> ret]
  /\ UNCHANGED << memory, call, before, ret, low, up >>

-----------------------------------------------------------------------------
(* Going down to a hash and up again. *)

Descend ==
  /\ At({"insert", "remove"}, "enter")
  /\ Cur # NULL /\ el[Cur].hash # Hash
  /\ Enter(IF Hash < el[Cur].hash THEN "l" ELSE "r")
  /\ UNCHANGED << memory, ret, low, rest >>

\* A bug: the metadata is regenerated at the bottom only.
Unwind__stale ==
  /\ \E s \in {"l", "r"} : At({"insert", "remove", "leftmost"}, s)
  /\ Leave
  /\ UNCHANGED << memory, ret, low, rest >>

\* On the way back each node's metadata is regenerated; so does
\* isolate_leftmost() on its way.
Unwind ==
  /\ \E s \in {"l", "r"} : At({"insert", "remove", "leftmost"}, s)
  /\ el' = regen_metadata(el, child, Cur)
  /\ Leave
  /\ UNCHANGED << child, alloc, ret, low, rest >>

InsertNoNode ==
  /\ At({"insert"}, "enter")
  /\ Cur = NULL /\ call.arg \in NoNode
  /\ ret' = ENOMEM
  /\ Leave
  /\ UNCHANGED << memory, low, rest >>

\* A bug: the metadata of the new node is left as calloc() made it.
InsertNode__blank(a, nomem) ==
  LET ins == ll_insert(<< >>, call.arg, nomem)
      c   == [child EXCEPT ![Top.slot] = a, ![<< a, "l" >>] = NULL, ![<< a, "r" >>] = NULL]
      new == [ll |-> ins.ll, hash |-> Hash, filter |-> {}, height |-> 0, node_cnt |-> 0]
  IN  /\ At({"insert"}, "enter")
      /\ Cur = NULL /\ (nomem => call.arg \in NoCell)
      /\ a \in home[Hash] \ alloc
      /\ alloc' = alloc \cup {a}
      /\ child' = c
      /\ el' = [el EXCEPT ![a] = new]
      /\ ret' = ins.ret
      /\ Leave
      /\ UNCHANGED << low, rest >>

\* The node is linked into the tree whether or not its list got the element.
InsertNode(a, nomem) ==
  LET ins == ll_insert(<< >>, call.arg, nomem)
      c   == [child EXCEPT ![Top.slot] = a, ![<< a, "l" >>] = NULL, ![<< a, "r" >>] = NULL]
      new == [ll |-> ins.ll, hash |-> Hash, filter |-> {}, height |-> 0, node_cnt |-> 0]
  IN  /\ At({"insert"}, "enter")
      /\ Cur = NULL /\ (nomem => call.arg \in NoCell)
      /\ a \in home[Hash] \ alloc
      /\ alloc' = alloc \cup {a}
      /\ child' = c
      /\ el' = regen_metadata([el EXCEPT ![a] = new], c, a)
      /\ ret' = ins.ret
      /\ Leave
      /\ UNCHANGED << low, rest >>

InsertHere(nomem) ==
  /\ At({"insert"}, "enter")
  /\ nomem => call.arg \in NoCell
  /\ Cur # NULL /\ el[Cur].hash = Hash
  /\ LET ins == ll_insert(el[Cur].ll, call.arg, nomem)
     IN  el' = [el EXCEPT ![Cur].ll = ins.ll] /\ ret' = ins.ret
  /\ Leave
  /\ UNCHANGED << child, alloc, low, rest >>

RemoveMiss ==
  /\ At({"remove"}, "enter")
  /\ Cur = NULL
  /\ ret' = EEXIST
  /\ Leave
  /\ UNCHANGED << memory, low, rest >>

RemoveHere ==
  /\ At({"remove"}, "enter")
  /\ Cur # NULL /\ el[Cur].hash = Hash
  /\ LET del == ll_delete(el[Cur].ll, call.arg)
     IN  /\ el' = [el EXCEPT ![Cur].ll = del.ll]
         /\ ret' = del.ret
         /\ IF ll_is_empty(del.ll) THEN Goto("cut") ELSE Leave
  /\ UNCHANGED << child, alloc, low, rest >>

-----------------------------------------------------------------------------
(* Visiting every node: both children first, then the node itself. *)

VisitNull ==
  /\ At({"ndel", "destroy"}, "enter")
  /\ Cur = NULL
  /\ Leave
  /\ UNCHANGED << memory, ret, low, rest >>

VisitLeft ==
  /\ At({"ndel", "destroy"}, "enter")
  /\ Cur # NULL
  /\ Enter("l")
  /\ UNCHANGED << memory, ret, low, rest >>

VisitRight ==
  /\ At({"ndel", "destroy", "rebalance"}, "l")
  /\ Enter("r")
  /\ UNCHANGED << memory, ret, low, rest >>

\* A bug: the elements of the last node only are counted.
NdelHere__last ==
  /\ At({"ndel"}, "r")
  /\ LET del == ll_ndel(el[Cur].ll, call.arg)
         e   == [el EXCEPT ![Cur].ll = del.ll]
     IN  /\ ret' = del.ret
         /\ IF ll_is_empty(del.ll) THEN el' = e /\ Goto("cut")
            ELSE el' = regen_metadata(e, child, Cur) /\ Leave
  /\ UNCHANGED << child, alloc, low, rest >>

NdelHere ==
  /\ At({"ndel"}, "r")
  /\ LET del == ll_ndel(el[Cur].ll, call.arg)
         e   == [el EXCEPT ![Cur].ll = del.ll]
     IN  /\ ret' = ret + del.ret
         /\ IF ll_is_empty(del.ll) THEN el' = e /\ Goto("cut")
            ELSE el' = regen_metadata(e, child, Cur) /\ Leave
  /\ UNCHANGED << child, alloc, low, rest >>

\* ll_destroy() and free().
DestroyHere ==
  /\ At({"destroy"}, "r")
  /\ alloc' = alloc \ {Cur}
  /\ Leave
  /\ UNCHANGED << child, el, ret, low, rest >>

-----------------------------------------------------------------------------
(* isolate_root_node() and free() of a node whose list is empty. *)

\* What takes the place of a node with at most one child.
OnlyKid == IF Kid("l") = NULL THEN Kid("r") ELSE Kid("l")

\* A bug: the node is not freed.
CutEasy__leak ==
  LET c == [child EXCEPT ![Top.slot] = OnlyKid]
  IN  /\ At({"remove", "ndel"}, "cut")
      /\ NULL \in {Kid("l"), Kid("r")}
      /\ Top.fn = "ndel" => OnlyKid # NULL
      /\ child' = c
      /\ el' = IF OnlyKid = NULL THEN el ELSE regen_metadata(el, c, OnlyKid)
      /\ Leave
      /\ UNCHANGED << alloc, ret, low, rest >>

CutEasy ==
  LET c == [child EXCEPT ![Top.slot] = OnlyKid]
  IN  /\ At({"remove", "ndel"}, "cut")
      /\ NULL \in {Kid("l"), Kid("r")}
      /\ Top.fn = "ndel" => OnlyKid # NULL
      /\ child' = c
      /\ el' = IF OnlyKid = NULL THEN el ELSE regen_metadata(el, c, OnlyKid)
      /\ alloc' = alloc \ {Cur}
      /\ Leave
      /\ UNCHANGED << ret, low, rest >>

\* avl_ndel() has emptied a leaf: the node is freed, and regen_metadata() is
\* given the null pointer that is left.
CrashInDeleteIf ==
  /\ At({"ndel"}, "cut")
  /\ Kid("l") = NULL /\ Kid("r") = NULL
  /\ child' = [child EXCEPT ![Top.slot] = NULL]
  /\ alloc' = alloc \ {Cur}
  /\ up' = FALSE
  /\ UNCHANGED << el, stack, call, before, ret, low, done >>

CutHard ==
  /\ At({"remove", "ndel"}, "cut")
  /\ Kid("l") # NULL /\ Kid("r") # NULL
  /\ stack' = << Frame("leftmost", << Cur, "r" >>, "enter"),
                 [Top EXCEPT !.at = "replace"] >> \o Tail(stack)
  /\ UNCHANGED << memory, ret, low, rest >>

LeftmostDown ==
  /\ At({"leftmost"}, "enter")
  /\ Kid("l") # NULL
  /\ Enter("l")
  /\ UNCHANGED << memory, ret, low, rest >>

\* A bug: the node is found but stays where it is.
LeftmostCut__kept ==
  /\ At({"leftmost"}, "enter")
  /\ Kid("l") = NULL
  /\ low' = Cur
  /\ Leave
  /\ UNCHANGED << memory, ret, rest >>

LeftmostCut ==
  /\ At({"leftmost"}, "enter")
  /\ Kid("l") = NULL
  /\ low' = Cur
  /\ child' = [child EXCEPT ![Top.slot] = Kid("r")]
  /\ Leave
  /\ UNCHANGED << el, alloc, ret, rest >>

\* A bug: the slot of the removed node is not redirected.
Replace__lost ==
  LET c == [child EXCEPT ![<< low, "l" >>] = Kid("l"), ![<< low, "r" >>] = Kid("r")]
  IN  /\ At({"remove", "ndel"}, "replace")
      /\ child' = c
      /\ el' = regen_metadata(el, c, low)
      /\ alloc' = alloc \ {Cur}
      /\ low' = NULL
      /\ Leave
      /\ UNCHANGED << ret, rest >>

Replace ==
  LET c == [child EXCEPT ![<< low, "l" >>] = Kid("l"), ![<< low, "r" >>] = Kid("r"),
                         ![Top.slot] = low]
  IN  /\ At({"remove", "ndel"}, "replace")
      /\ child' = c
      /\ el' = regen_metadata(el, c, low)
      /\ alloc' = alloc \ {Cur}
      /\ low' = NULL
      /\ Leave
      /\ UNCHANGED << ret, rest >>

-----------------------------------------------------------------------------
(* rebalance_subtree(): the loops for a heavy right side, for a heavy left *)
(* side, then the children.                                                *)

AlreadyBalanced == avl_node_cnt(el, Cur) > 2^(avl_height(el, Cur) - 1) - 1

Heavy(s) == avl_node_cnt(el, Kid(s)) > 2 * avl_node_cnt(el, Kid(Opp(s))) + 1

\* The outer grandchild of side s is too small to be left there alone.
OuterLow(s) ==
  avl_node_cnt(el, child[<< Kid(s), s >>]) <= avl_node_cnt(el, Kid(Opp(s)))

RebalanceSkip ==
  /\ At({"rebalance"}, "enter")
  /\ Cur # NULL => AlreadyBalanced
  /\ Leave
  /\ UNCHANGED << memory, ret, low, rest >>

RebalanceStart ==
  /\ At({"rebalance"}, "enter")
  /\ Cur # NULL /\ ~AlreadyBalanced
  /\ Goto("right_heavy")
  /\ UNCHANGED << memory, ret, low, rest >>

Looping(s) == At({"rebalance"}, IF s = "r" THEN "right_heavy" ELSE "left_heavy")

\* A bug: the heavy child is rotated to the side it is heavy on.
RotateInner__same(s) ==
  /\ Looping(s)
  /\ Heavy(s) /\ OuterLow(s)
  /\ Rotate(<< Cur, s >>, s)
  /\ UNCHANGED << alloc, stack, ret, low, rest >>

RotateInner(s) ==
  /\ Looping(s)
  /\ Heavy(s) /\ OuterLow(s)
  /\ Rotate(<< Cur, s >>, Opp(s))
  /\ UNCHANGED << alloc, stack, ret, low, rest >>

RotateOuter(s) ==
  /\ Looping(s)
  /\ Heavy(s) /\ ~OuterLow(s)
  /\ Rotate(Top.slot, s)
  /\ UNCHANGED << alloc, stack, ret, low, rest >>

RightDone ==
  /\ Looping("r") /\ ~Heavy("r")
  /\ Goto("left_heavy")
  /\ UNCHANGED << memory, ret, low, rest >>

LeftDone ==
  /\ Looping("l") /\ ~Heavy("l")
  /\ Enter("l")
  /\ UNCHANGED << memory, ret, low, rest >>

RebalanceEnd ==
  /\ At({"rebalance"}, "r")
  /\ Leave
  /\ UNCHANGED << memory, ret, low, rest >>

-----------------------------------------------------------------------------
(* find_node(): one step of the walk, and its end. *)

MayBeBelow == bloom_may_contain(HashFilter[Hash], el[Cur].filter)

FindDown ==
  /\ At({"find"}, "enter")
  /\ Cur # NULL /\ el[Cur].hash # Hash /\ MayBeBelow
  /\ stack' = << [Top EXCEPT !.slot = << Cur, IF el[Cur].hash > Hash THEN "l" ELSE "r" >>] >>
  /\ UNCHANGED << memory, ret, low, rest >>

FindEnd ==
  /\ At({"find"}, "enter")
  /\ Cur # NULL => el[Cur].hash = Hash \/ ~MayBeBelow
  /\ LET hit == Cur # NULL /\ el[Cur].hash = Hash
     IN  ret' = IF hit THEN ll_find(el[Cur].ll, call.arg) ELSE NULL
  /\ stack' = << Frame("avl", ROOT, "return") >>
  /\ UNCHANGED << memory, low, rest >>

-----------------------------------------------------------------------------
Init ==
  /\ child \in [Slot -> {NULL}]
  /\ el \in [Addr -> {[ll |-> << >>, hash |-> 0, filter |-> {}, height |-> 0, node_cnt |-> 0]}]
  /\ alloc = {} /\ stack = << >>
  /\ call = [op |-> "new", arg |-> NULL] /\ ret = OK /\ low = NULL
  /\ before = [child |-> child, el |-> el, alloc |-> alloc]
  /\ done = [op |-> "new", arg |-> NULL, ret |-> OK]
  /\ up = TRUE

Call ==
  \/ \E d \in Key : CallInsert(d) \/ CallDelete(d) \/ CallFind(d)
  \/ \E P \in Preds : CallDeleteIf(P)
  \/ CallDestroy

\* The steps the running call takes by itself.
Step ==
  \/ Rebalance \/ Clear \/ Return
  \/ Descend \/ Unwind
  \/ InsertNoNode
  \/ \E nomem \in BOOLEAN : InsertHere(nomem) \/ \E a \in Addr : InsertNode(a, nomem)
  \/ RemoveMiss \/ RemoveHere
  \/ VisitNull \/ VisitLeft \/ VisitRight \/ NdelHere \/ DestroyHere
  \/ CutEasy \/ CrashInDeleteIf \/ CutHard \/ LeftmostDown \/ LeftmostCut \/ Replace
  \/ RebalanceSkip \/ RebalanceStart \/ RightDone \/ LeftDone \/ RebalanceEnd
  \/ \E s \in {"l", "r"} : RotateInner(s) \/ RotateOuter(s)
  \/ FindDown \/ FindEnd

Next == Call \/ Step

Spec == Init /\ [][Next]_vars

\* The thread that made a call runs.
FairSpec == Spec /\ WF_vars(Step)

-----------------------------------------------------------------------------
(* Properties. *)

Node == [ll : Seq(Key), hash : Nat, filter : SUBSET Bits, height : Nat, node_cnt : Nat]
Fns  == {"avl", "insert", "remove", "ndel", "find", "destroy", "leftmost", "rebalance"}
Labels == {"enter", "l", "r", "cut", "replace", "left_heavy", "right_heavy",
           "rebalance", "clear", "return"}

\* Slots hold nodes, a node in a tree has metadata, and frames are those of the
\* functions of avl/.
TypeOK ==
  /\ child \in [Slot -> Addr \cup {NULL}]
  /\ \A a \in alloc : el[a] \in Node /\ el[a].height > 0 /\ el[a].node_cnt > 0
  /\ DOMAIN el = Addr /\ alloc \subseteq Addr /\ low \in Addr \cup {NULL}
  /\ stack \in Seq([fn : Fns, slot : Slot, at : Labels])
  /\ up \in BOOLEAN

Destroying == stack # << >> /\ call.op = "destroy"

\* No function holds, follows or returns a pointer to a freed node: neither a slot
\* in one, kept over a recursion that unlinked nodes, nor the node in the slot.
NoUseAfterFree ==
  up =>
    /\ \A i \in DOMAIN stack :
         stack[i].fn # "avl" => /\ stack[i].slot[1] \in alloc \cup {NULL}
                                /\ child[stack[i].slot] \in alloc \cup {NULL}
    /\ low \in alloc \cup {NULL}
    /\ ~Destroying => child[ROOT] \in alloc \cup {NULL}
    /\ ~Destroying => \A a \in alloc, s \in {"l", "r"} : child[<< a, s >>] \in alloc \cup {NULL}

\* The slots of the tree: those of the node that is being moved do not count.
TreeSlots == {ROOT} \cup ((alloc \ {low}) \X {"l", "r"})

\* At every step of every call, each node hangs in exactly one slot, and the node
\* being moved in none: no rotation and no removal shares or loses a subtree.
OneSlotEach ==
  ~Destroying =>
    /\ \A a \in alloc \ {low} : \E s \in TreeSlots : child[s] = a
    /\ \A s, t \in TreeSlots : child[s] = child[t] /\ child[s] # NULL => s = t
    /\ low # NULL => \A s \in TreeSlots : child[s] # low

\* A set of nodes that is closed under going down.
Closed(S) == \A s \in S \X {"l", "r"} : child[s] \in S \cup {NULL}

\* Between two calls the nodes allocated are those the tree reaches: none is leaked,
\* whichever way it was unlinked, and none is left after avl_destroy().
NoLeak ==
  up /\ stack = << >> =>
    \A S \in SUBSET alloc : child[ROOT] \in S \cup {NULL} /\ Closed(S) => S = alloc

\* At every step of every call, what hangs on the left of a node has lower hashes and
\* what hangs on the right has higher ones: no rotation and no replacement of a node
\* by the leftmost below it puts a node where a search does not look for it.
Sorted ==
  ~Destroying =>
    \A a \in alloc \ {low} :
      /\ \E S \in SUBSET {b \in alloc : el[b].hash < el[a].hash} :
           Closed(S) /\ child[<< a, "l" >>] \in S \cup {NULL}
      /\ \E S \in SUBSET {b \in alloc : el[b].hash > el[a].hash} :
           Closed(S) /\ child[<< a, "r" >>] \in S \cup {NULL}

\* The nodes whose metadata the running recursion is about to regenerate.
Pending ==
  {child[stack[i].slot] :
     i \in {j \in DOMAIN stack : /\ stack[j].fn \in {"insert", "remove", "ndel", "leftmost"}
                                /\ stack[j].at # "enter"}}

\* The buffered count, which rebalancing is steered by, and the buffered filter, which
\* lookups are cut short by, agree with those of the children, in every node that the
\* running call will not come back to, and so in all of them between two calls.
MetadataExact ==
  up /\ ~Destroying =>
    \A a \in alloc \ ({low} \cup Pending) :
      LET fresh == regen_metadata(el, child, a)[a]
      IN  el[a].node_cnt = fresh.node_cnt /\ el[a].filter = fresh.filter

\* No lookup is cut short by a filter or goes the wrong way: avl_find() finds what
\* some node holds, and nothing else.
FindIsExact ==
  call.op = "find" /\ At({"avl"}, "return") =>
    ret = IF \E a \in alloc : Contains(el[a].ll, call.arg) THEN call.arg ELSE NULL

\* The elements in the lists of the nodes A; e is a value of el.
Elements(e, A) == UNION {ToSet(e[a].ll) : a \in A}

\* A call takes effect when it returns; one that crashes never does.
Container ==
  INSTANCE SetSpec WITH contents <- IF stack = << >> THEN Elements(el, alloc)
                                    ELSE Elements(before.el, before.alloc),
                        Faults   <- {}

\* The nodes, the pointers and the lists in them are a set: each call returns what it
\* would for a set, and leaves the elements a set would have, whatever was rotated,
\* moved, cut out or could not be allocated on the way.  This is Container!Spec, with the
\* stuttering steps looked at first.
ImplementsSet ==
  Container!Init /\ [][UNCHANGED Container!vars \/ Container!Next]_(Container!vars)

\* Every call returns, unless it crashes: the rotations come to an end.
CallsReturn == stack # << >> ~> stack = << >> \/ ~up
=============================================================================
