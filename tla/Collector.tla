----------------------------- MODULE Collector ------------------------------
(***************************************************************************)
(* The mark-and-sweep collector loop by loop: eval_gc_alloc, gc_obj_mark   *)
(* and eval_collect_garbage in src/eval.c, and the two arenas that hold    *)
(* the data of the objects.                                                *)
(*                                                                         *)
(* An object (GC_Object) has its data - the items of a list, the table of  *)
(* a dict, the characters of a string - in the memory of an arena, and     *)
(* keeps a pointer to the Arena struct, gc.from or gc.to, from which that  *)
(* data is to grow.  The structs swap their memories after a collection,   *)
(* the pointers stay.                                                      *)
(***************************************************************************)
EXTENDS Integers, Sequences, FiniteSets

CONSTANTS Obj, GC_INIT_THRESHOLD, GC_GROWTH_FACTOR, GC_MIN_GROWTH, ClientScalars, MaxRoots, MaxItems

ASSUME CollectorAssumption ==
  /\ IsFiniteSet(Obj) /\ Obj \cap {"none", "num", "bool"} = {}
  /\ GC_INIT_THRESHOLD \in Nat \ {0} /\ GC_MIN_GROWTH \in Nat \ {0}
  /\ GC_GROWTH_FACTOR \in Nat \ {0, 1}
  /\ ClientScalars \subseteq {"none", "num", "bool"}
  /\ MaxRoots \in Nat /\ MaxItems \in Nat

VARIABLES
  objs,        \* gc.objs, in the order of the array
  freed,       \* objects freed by a sweep
  items,       \* what an object holds
  threshold,   \* gc.threshold
  roots, ret,  \* the client: ctx->stack, ctx->state = EVAL_CTX_RET
  marked,      \* objects with their marked field set
  str,         \* objects of kind VAL_STR
  data,        \* where an object's data lies: a memory, "null", or "lost"
  arena,       \* the Arena struct an object's data is to grow from
  memory,      \* the memory each Arena struct owns
  pc,          \* where eval_gc_alloc is; "run": the client runs
  at,          \* index of the loop that is running
  visiting,    \* the recursion of gc_obj_mark: objects and the next item of each
  new,         \* the object that is being allocated, as a set of one; or {}
  before       \* history: objs, freed and threshold when the allocation began

clientVars == <<roots, ret>>
dataVars   == <<str, data, arena, memory>>
loopVars   == <<pc, at, visiting, new>>
vars == <<objs, freed, items, threshold, clientVars, marked, dataVars, loopVars, before>>

Objs == {objs[i] : i \in 1 .. Len(objs)}

Abstract ==
  INSTANCE RootedHeap WITH
    objs      <- IF pc = "run" THEN Objs ELSE before.objs,
    freed     <- IF pc = "run" THEN freed ELSE before.freed,
    threshold <- IF pc = "run" THEN threshold ELSE before.threshold

Kids(o) == {items[o][i] : i \in 1 .. Len(items[o])} \cap Obj
Holds(o) == items[o] # <<>> \/ o \in str

Nothing == [objs |-> {}, freed |-> {}, threshold |-> 0]

Heap == UNCHANGED <<objs, freed, threshold, before>>

-----------------------------------------------------------------------------
(* The client, between two allocations.                                    *)

(* da_reserve, ht_add: the data may have room or may have to grow from the *)
(* arena the object points to.                                             *)
Grow(o) ==
  \/ data[o] # "null" /\ UNCHANGED data
  \/ data' = [data EXCEPT ![o] = memory[arena[o]]]

ChangeItems ==
  /\ pc = "run"
  /\ \E o \in Abstract!Known \cap Obj :
       \/ o \in str /\ UNCHANGED items /\ Grow(o)
       \/ o \notin str /\ Len(items[o]) < MaxItems /\ Grow(o)
          /\ \E v \in Abstract!Known : Abstract!Store(o, v)
       \/ \E i \in 1 .. Len(items[o]) : Abstract!Take(o, i) /\ UNCHANGED data
  /\ Heap /\ UNCHANGED <<clientVars, marked, str, arena, memory, loopVars>>

ChangeRoots ==
  /\ pc = "run"
  /\ \/ \E v \in Abstract!Known : Len(roots) < MaxRoots /\ roots' = Append(roots, v)
     \/ roots # <<>> /\ roots' = SubSeq(roots, 1, Len(roots) - 1)
  /\ Heap /\ UNCHANGED <<items, ret, marked, dataVars, loopVars>>

Return ==
  /\ pc = "run" /\ ret' = ~ret
  /\ Heap /\ UNCHANGED <<items, roots, marked, dataVars, loopVars>>

-----------------------------------------------------------------------------
(* eval_gc_alloc.                                                          *)

Unused == Obj \ (Objs \cup freed)

(* The object is malloc'ed and made to grow from gc.from; then the test. *)
GcAlloc(o, isStr) ==
  /\ pc = "run" /\ o \in Unused /\ Len(roots) < MaxRoots
  /\ LET limit == IF threshold = 0 THEN GC_INIT_THRESHOLD ELSE threshold
     IN  /\ threshold' = limit
         /\ pc' = IF Len(objs) < limit THEN "add" ELSE IF ret THEN "grow" ELSE "unmark"
  /\ new' = {o} /\ before' = [objs |-> Objs, freed |-> freed, threshold |-> threshold]
  /\ str' = IF isStr THEN str \cup {o} ELSE str
  /\ arena' = [arena EXCEPT ![o] = "from"]
  /\ UNCHANGED <<objs, freed, items, clientVars, marked, data, memory, at, visiting>>

(* The threshold after a collection, or after one that was put off *)
Raise ==
  /\ pc = "grow" /\ pc' = "add"
  /\ threshold' = LET n  == Len(objs)
                      v1 == n * GC_GROWTH_FACTOR
                      v2 == n + GC_MIN_GROWTH
                  IN  IF n = 0 THEN GC_INIT_THRESHOLD ELSE IF v1 > v2 THEN v1 ELSE v2
  /\ UNCHANGED <<objs, freed, items, clientVars, marked, dataVars, at, visiting, new, before>>

(* The new object is tracked, rooted, and given the characters of a string. *)
Add ==
  /\ pc = "add" /\ pc' = "run"
  /\ \E o \in new :
       /\ objs' = Append(objs, o)
       /\ roots' = Append(roots, o)
       /\ data' = IF o \in str THEN [data EXCEPT ![o] = memory["from"]] ELSE data
  /\ new' = {} /\ before' = Nothing /\ at' = 1
  /\ UNCHANGED <<freed, items, threshold, ret, marked, str, arena, memory, visiting>>

-----------------------------------------------------------------------------
(* eval_collect_garbage.                                                   *)

Goto(l) == pc' = l /\ at' = 1
InHeap  == UNCHANGED <<objs, freed, items, threshold, clientVars, new, before>>

Unmark ==
  /\ pc = "unmark" /\ Goto("mark")
  /\ marked' = marked \ Objs
  /\ InHeap /\ UNCHANGED <<dataVars, visiting>>

(* gc_obj_mark(v), called with rest as the activations below it *)
Visit(v, rest) ==
  IF v \in Obj \ marked
  THEN marked' = marked \cup {v} /\ visiting' = Append(rest, [obj |-> v, i |-> 1])
  ELSE UNCHANGED marked /\ visiting' = rest

(* The scalar roots of the client are variables.  The scalar of a TEMP, which *)
(* the code would follow (eval.c:826-828), is "scalar_temp" in EpslEval.      *)
MarkRoot ==
  /\ pc = "mark" /\ visiting = <<>> /\ at <= Len(roots)
  /\ Visit(roots[at], <<>>)
  /\ at' = at + 1
  /\ InHeap /\ UNCHANGED <<dataVars, pc>>

(* slip: the last item is left out *)
MarkItemShort ==
  /\ pc = "mark" /\ visiting # <<>>
  /\ LET top  == visiting[Len(visiting)]
         rest == SubSeq(visiting, 1, Len(visiting) - 1)
     IN  IF top.i < Len(items[top.obj])
         THEN Visit(items[top.obj][top.i], Append(rest, [top EXCEPT !.i = @ + 1]))
         ELSE visiting' = rest /\ UNCHANGED marked
  /\ InHeap /\ UNCHANGED <<dataVars, pc, at>>

MarkItem ==
  /\ pc = "mark" /\ visiting # <<>>
  /\ LET top  == visiting[Len(visiting)]
         rest == SubSeq(visiting, 1, Len(visiting) - 1)
     IN  IF top.i <= Len(items[top.obj])
         THEN Visit(items[top.obj][top.i], Append(rest, [top EXCEPT !.i = @ + 1]))
         ELSE visiting' = rest /\ UNCHANGED marked
  /\ InHeap /\ UNCHANGED <<dataVars, pc, at>>

Marked ==
  /\ pc = "mark" /\ visiting = <<>> /\ at > Len(roots)
  /\ Goto("copy")
  /\ InHeap /\ UNCHANGED <<marked, dataVars, visiting>>

(* A marked object is copied to gc.to, which it points to from now on; an  *)
(* empty container has nothing to copy.                                    *)
Copy ==
  /\ pc = "copy" /\ at <= Len(objs) /\ at' = at + 1
  /\ LET o == objs[at]
     IN  IF o \in marked
         THEN /\ arena' = [arena EXCEPT ![o] = "to"]
              /\ data' = [data EXCEPT ![o] = IF Holds(o) THEN memory["to"] ELSE "null"]
         ELSE UNCHANGED <<arena, data>>
  /\ InHeap /\ UNCHANGED <<marked, str, memory, pc, visiting>>

Copied ==
  /\ pc = "copy" /\ at > Len(objs)
  /\ Goto("free")
  /\ InHeap /\ UNCHANGED <<marked, dataVars, visiting>>

(* da_remove_unordered; the index goes back by one and is used again. *)
RemoveUnordered(i) ==
  objs' = SubSeq([objs EXCEPT ![i] = objs[Len(objs)]], 1, Len(objs) - 1)

(* slips: the index moves on, the count stays *)
FreeMovesOn ==
  /\ pc = "free" /\ at <= Len(objs) /\ at' = at + 1
  /\ IF objs[at] \in marked THEN UNCHANGED <<objs, freed>>
     ELSE RemoveUnordered(at) /\ freed' = freed \cup {objs[at]}
  /\ UNCHANGED <<items, threshold, clientVars, new, before, marked, dataVars, pc, visiting>>

FreeStays ==
  /\ pc = "free" /\ at <= Len(objs)
  /\ IF objs[at] \in marked THEN at' = at + 1 /\ UNCHANGED <<objs, freed>>
     ELSE UNCHANGED <<objs, at>> /\ freed' = freed \cup {objs[at]}
  /\ UNCHANGED <<items, threshold, clientVars, new, before, marked, dataVars, pc, visiting>>

Free ==
  /\ pc = "free" /\ at <= Len(objs)
  /\ IF objs[at] \in marked THEN at' = at + 1 /\ UNCHANGED <<objs, freed>>
     ELSE RemoveUnordered(at) /\ freed' = freed \cup {objs[at]} /\ UNCHANGED at
  /\ UNCHANGED <<items, threshold, clientVars, new, before, marked, dataVars, pc, visiting>>

(* arena_reset(&gc.from): what lies in its memory is lost; then the swap *)
Lose(m) == data' = [o \in Obj |-> IF data[o] = m THEN "lost" ELSE data[o]]

(* slip: the arena that has just been filled is reset *)
SwapFirst ==
  /\ pc = "free" /\ at > Len(objs) /\ Goto("grow")
  /\ Lose(memory["to"])
  /\ memory' = [from |-> memory["to"], to |-> memory["from"]]
  /\ InHeap /\ UNCHANGED <<marked, str, arena, visiting>>

ResetAndSwap ==
  /\ pc = "free" /\ at > Len(objs) /\ Goto("grow")
  /\ Lose(memory["from"])
  /\ memory' = [from |-> memory["to"], to |-> memory["from"]]
  /\ InHeap /\ UNCHANGED <<marked, str, arena, visiting>>

-----------------------------------------------------------------------------

Init ==
  /\ objs = <<>> /\ freed = {} /\ threshold = 0
  /\ items = [o \in Obj |-> <<>>] /\ roots = <<>> /\ ret = FALSE
  /\ marked = {} /\ str = {}
  /\ data = [o \in Obj |-> "null"] /\ arena = [o \in Obj |-> "from"]
  /\ memory = [from |-> "A", to |-> "B"]
  /\ pc = "run" /\ at = 1 /\ visiting = <<>> /\ new = {} /\ before = Nothing

Client  == ChangeItems \/ ChangeRoots \/ Return \/ \E o \in Obj, s \in BOOLEAN : GcAlloc(o, s)
Collect == Unmark \/ MarkRoot \/ MarkItem \/ Marked \/ Copy \/ Copied \/ Free \/ ResetAndSwap
Next    == Client \/ Collect \/ Raise \/ Add

(* The collector runs to its end once it is called; the client need not    *)
(* call it.                                                                *)
Spec == Init /\ [][Next]_vars /\ WF_vars(Collect \/ Raise \/ Add)

-----------------------------------------------------------------------------

TypeOK ==
  /\ objs \in Seq(Obj) /\ freed \subseteq Obj
  /\ Len(objs) = Cardinality(Objs) /\ Objs \cap freed = {}
  /\ marked \subseteq Obj /\ str \subseteq Obj
  /\ data \in [Obj -> {"null", "A", "B", "lost"}] /\ arena \in [Obj -> {"from", "to"}]
  /\ memory \in {[from |-> "A", to |-> "B"], [from |-> "B", to |-> "A"]}
  /\ pc \in {"run", "unmark", "mark", "copy", "free", "grow", "add"} /\ at \in Nat \ {0}
  /\ visiting \in Seq([obj : Obj, i : Nat \ {0}])

(* The loops do what the client is promised: an allocation frees the       *)
(* objects the roots do not reach, and no other (src/eval.c:742-881).      *)
Promise == Abstract!Promise

(* The data of a tracked object is never in a memory that has been reset,  *)
(* through any sequence of collections, growth from either arena and       *)
(* swaps: an object that survives a collection is moved out of gc.from,    *)
(* also when it has grown out of gc.to since the last one.                 *)
DataSurvives ==
  \A o \in Objs : data[o] # "lost" /\ (Holds(o) => data[o] # "null")

(* A marked object has its items marked unless an activation is at it: at  *)
(* no time does a fully visited object point to an unmarked one.           *)
NothingForgotten ==
  pc \in {"mark", "copy", "free"} =>
    \A o \in marked :
      \/ Kids(o) \subseteq marked
      \/ \E j \in 1 .. Len(visiting) :
           /\ visiting[j].obj = o
           /\ \A i \in 1 .. visiting[j].i - 1 : items[o][i] \in Obj => items[o][i] \in marked

(* Every allocation returns, since each of its steps leaves less to do: of *)
(* the loops still ahead, or else of the turns of the one that runs.  The   *)
(* marking follows cycles, but where it marks nothing it comes to the next  *)
(* root, out of an activation or to the next item of one; the sweep steps   *)
(* its index back, but the array is shorter then (src/eval.c:788-881).      *)
Ahead == [run |-> 0, add |-> 1, grow |-> 2, free |-> 3, copy |-> 4, mark |-> 5, unmark |-> 6]
TopLeft ==
  IF visiting = <<>> THEN 0
  ELSE LET top == visiting[Len(visiting)] IN Len(items[top.obj]) + 1 - top.i
Turns ==
  IF pc = "mark"
  THEN <<Cardinality(Obj \ marked), Len(roots) + 1 - at, Len(visiting), TopLeft>>
  ELSE <<Len(objs) + 1 - at, 0, 0, 0>>
Shorter(s, t) == \E k \in 1 .. 4 : s[k] < t[k] /\ \A j \in 1 .. k - 1 : s[j] = t[j]
AllocReturns ==
  [][pc # "run" => \/ Ahead[pc'] < Ahead[pc]
                   \/ pc' = pc /\ Turns' \in [1 .. 4 -> Nat] /\ Shorter(Turns', Turns)]_vars
=============================================================================
