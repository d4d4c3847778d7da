----------------------------- MODULE RootedHeap -----------------------------
(***************************************************************************)
(* What the collector promises a client that roots what it holds: the      *)
(* collection of eval_gc_alloc as one step.                                *)
(*                                                                         *)
(* The client stands for the rest of eval.c: it allocates, roots and       *)
(* unroots, adds to and takes from containers, and names only objects it   *)
(* can reach from its roots.                                               *)
(***************************************************************************)
EXTENDS GcHeap

CONSTANTS
  ClientScalars,  \* the scalars the client uses
  MaxRoots,       \* bound: symbols the client has at a time
  MaxItems        \* bound: items of one object

VARIABLES
  roots,       \* the values of the symbols on ctx->stack
  ret          \* ctx->state = EVAL_CTX_RET

client == <<roots, ret>>

RootSet == {roots[i] : i \in 1 .. Len(roots)} \cap Obj
Known   == Reach(RootSet) \cup ClientScalars

(* eval_new_heap_val *)
New(o) ==
  /\ Alloc(o, RootSet, ~ret)
  /\ roots' = Append(roots, o)
  /\ UNCHANGED <<items, ret>>

(* append() and the literals; remove() *)
Store(o, v) == items' = [items EXCEPT ![o] = Append(@, v)]
Take(o, i)  == items' = [items EXCEPT ![o] = SubSeq(@, 1, i - 1) \o SubSeq(@, i + 1, Len(@))]

ChangeItems ==
  /\ \E o \in Known \cap Obj :
       \/ \E v \in Known : Len(items[o]) < MaxItems /\ Store(o, v)
       \/ \E i \in 1 .. Len(items[o]) : Take(o, i)
  /\ UNCHANGED <<objs, freed, threshold, roots, ret>>

ChangeRoots ==
  /\ \/ \E v \in Known : Len(roots) < MaxRoots /\ roots' = Append(roots, v)
     \/ roots # <<>> /\ roots' = SubSeq(roots, 1, Len(roots) - 1)
  /\ UNCHANGED <<heapVars, ret>>

Return == ret' = ~ret /\ UNCHANGED <<heapVars, roots>>

Client == ChangeItems \/ ChangeRoots \/ Return

Init == HeapInit /\ roots = <<>> /\ ret = FALSE
Next == Client \/ \E o \in Obj : New(o)

Promise == Init /\ [][Next]_<<heapVars, client>>
=============================================================================
