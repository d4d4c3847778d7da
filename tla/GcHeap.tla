------------------------------- MODULE GcHeap -------------------------------
(***************************************************************************)
(* The object heap of an evaluation context (GarbageCollector in           *)
(* include/eval.h, eval_gc_alloc and eval_collect_garbage in src/eval.c).  *)
(*                                                                         *)
(* A collection is one step here: it keeps exactly the objects reachable   *)
(* from the roots it is given.  Collector.tla models the mark and sweep    *)
(* loops one by one and is shown to implement this step.                   *)
(*                                                                         *)
(* An object is an element of Obj.  malloc may give a freed address out    *)
(* again; here an identity is used once, so that a value naming a freed    *)
(* object can be told from one naming a live object.                       *)
(***************************************************************************)
EXTENDS Naturals, Sequences, FiniteSets

CONSTANTS
  Obj,                 \* identities of GC_Objects
  GC_INIT_THRESHOLD,   \* 256 in the code
  GC_GROWTH_FACTOR,    \* 2 in the code
  GC_MIN_GROWTH        \* 64 in the code

Scalar == {"none", "num", "bool"}   \* kinds of the values without an object
Val    == Obj \cup Scalar

ASSUME ObjAssumption == IsFiniteSet(Obj) /\ Obj \cap Scalar = {}
ASSUME ThresholdAssumption ==
  /\ GC_INIT_THRESHOLD \in Nat \ {0}
  /\ GC_GROWTH_FACTOR  \in Nat \ {0, 1}
  /\ GC_MIN_GROWTH     \in Nat \ {0}

VARIABLES
  objs,        \* gc.objs: the objects the collector tracks
  freed,       \* objects a sweep has freed
  items,       \* the values an object holds (list items; keys and values of a dict)
  threshold    \* gc.threshold; 0 until the first allocation

heapVars == <<objs, freed, items, threshold>>

Unused == Obj \ (objs \cup freed)

(* What gc_obj_mark visits from the objects R: the least set that holds R  *)
(* and, with an object, the objects among its items.                       *)
Kids(o)   == {items[o][i] : i \in 1 .. Len(items[o])} \cap Obj
Closed(S) == \A o \in S : Kids(o) \subseteq S
Reach(R)  == {o \in Obj : \A S \in SUBSET Obj : (R \subseteq S /\ Closed(S)) => o \in S}

Threshold == IF threshold = 0 THEN GC_INIT_THRESHOLD ELSE threshold
Full      == Cardinality(objs) >= Threshold

(* slip: no growth *)
GrownNot(c) == c

Grown(c) == LET v1 == c * GC_GROWTH_FACTOR
                v2 == c + GC_MIN_GROWTH
            IN  IF v1 > v2 THEN v1 ELSE v2

(* slip: a swept object stays in gc.objs *)
AllocKeepsFreed(o, roots, mayCollect) ==
  LET kept == IF Full /\ mayCollect THEN objs \cap Reach(roots) ELSE objs
  IN  /\ o \in Unused
      /\ objs'  = objs \cup {o}
      /\ freed' = freed \cup (objs \ kept)
      /\ threshold' = IF ~Full THEN Threshold
                      ELSE IF kept = {} THEN GC_INIT_THRESHOLD
                      ELSE Grown(Cardinality(kept))

(* eval_gc_alloc: at the threshold collect (unless a return is being       *)
(* unwound), then move the threshold; the new object is tracked last, so   *)
(* the collection cannot see it.                                           *)
Alloc(o, roots, mayCollect) ==
  LET kept == IF Full /\ mayCollect THEN objs \cap Reach(roots) ELSE objs
  IN  /\ o \in Unused
      /\ objs'  = kept \cup {o}
      /\ freed' = freed \cup (objs \ kept)
      /\ threshold' = IF ~Full THEN Threshold
                      ELSE IF kept = {} THEN GC_INIT_THRESHOLD
                      ELSE Grown(Cardinality(kept))

HeapInit ==
  /\ objs = {} /\ freed = {} /\ threshold = 0
  /\ items = [o \in Obj |-> <<>>]

HeapTypeOK ==
  /\ objs \subseteq Obj
  /\ freed \subseteq Obj
  /\ objs \cap freed = {}
  /\ items \in [Obj -> Seq(Val)]
  /\ threshold \in Nat
=============================================================================
