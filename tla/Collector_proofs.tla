-------------------------- MODULE Collector_proofs --------------------------
(***************************************************************************)
(* The collector keeps what the roots reach and its data, frees the rest,  *)
(* is one step of RootedHeap to its client, and comes to its end - for any *)
(* number of objects, roots and items.                                     *)
(***************************************************************************)
EXTENDS Collector, SequenceTheorems, FiniteSetTheorems, TLAPS

Value   == Obj \cup {"none", "num", "bool"}
Roots   == {roots[i] : i \in 1 .. Len(roots)} \cap Obj
Reached == Abstract!Reach(Abstract!RootSet)

Types ==
  /\ objs \in Seq(Obj) /\ freed \subseteq Obj /\ items \in [Obj -> Seq(Value)]
  /\ threshold \in Nat /\ roots \in Seq(Value) /\ ret \in BOOLEAN
  /\ marked \subseteq Obj /\ str \subseteq Obj /\ new \subseteq Obj
  /\ data \in [Obj -> {"null", "A", "B", "lost"}] /\ arena \in [Obj -> {"from", "to"}]
  /\ memory \in {[from |-> "A", to |-> "B"], [from |-> "B", to |-> "A"]}
  /\ pc \in {"run", "unmark", "mark", "copy", "free", "grow", "add"} /\ at \in Nat \ {0}
  /\ visiting \in Seq([obj : Obj, i : Nat \ {0}])

\* gc.objs names every object once, and no object that is freed or not added yet.
Distinct == \A i, j \in 1 .. Len(objs) : objs[i] = objs[j] => i = j
Separate ==
  /\ Objs \cap freed = {} /\ new \cap (Objs \cup freed) = {}
  /\ pc = "run" <=> new = {}
  /\ \A o, p \in new : o = p
  /\ \A o \in Obj \ (Objs \cup freed) : items[o] = <<>> /\ data[o] = "null"

\* What can be reached is tracked; in the sweep that is so of what is marked.
Safe ==
  /\ Roots \subseteq Objs /\ marked \subseteq Objs
  /\ pc # "free" => \A o \in Objs : Kids(o) \subseteq Objs

\* The marking has come to item i of an object, to root at, and no further
\* than the roots reach.
Traced(o) == \E j \in 1 .. Len(visiting) :
  /\ visiting[j].obj = o
  /\ \A i \in 1 .. visiting[j].i - 1 : items[o][i] \in Obj => items[o][i] \in marked
Marking ==
  /\ pc # "mark" => visiting = <<>>
  /\ pc \in {"mark", "copy", "free"} =>
       /\ \A o \in marked : Kids(o) \subseteq marked \/ Traced(o)
       /\ \A j \in 1 .. Len(visiting) : visiting[j].obj \in marked
       /\ marked \subseteq Reached
  /\ pc = "mark" => \A i \in 1 .. Len(roots) : i < at /\ roots[i] \in Obj => roots[i] \in marked
  /\ pc \in {"copy", "free"} => Roots \subseteq marked

\* The data of what is copied, and then of all that is marked, lies out of
\* the memory that will be reset; what the sweep has passed is marked.
Moving ==
  /\ pc = "copy" => \A i \in 1 .. Len(objs) :
       i < at /\ objs[i] \in marked => data[objs[i]] # memory["from"]
  /\ pc = "free" => /\ \A o \in marked : data[o] # memory["from"]
                    /\ \A i \in 1 .. Len(objs) : i < at => objs[i] \in marked

IInv == Types /\ Distinct /\ Separate /\ Safe /\ Marking /\ Moving /\ DataSurvives

\* What eval_gc_alloc has done so far of what it is to do.
Limit    == IF before.threshold = 0 THEN GC_INIT_THRESHOLD ELSE before.threshold
WasFull  == Cardinality(before.objs) >= Limit
Survives == IF WasFull /\ ~ret THEN before.objs \cap Reached ELSE before.objs
Raised   == IF ~WasFull THEN Limit
            ELSE IF Survives = {} THEN GC_INIT_THRESHOLD
            ELSE Abstract!Grown(Cardinality(Survives))
Progress ==
  pc # "run" =>
    /\ before.objs \subseteq Obj
    /\ freed = before.freed \cup (before.objs \ Objs)
    /\ Objs \subseteq before.objs
    /\ new \cap (before.objs \cup before.freed) = {}
    /\ pc \in {"unmark", "mark", "copy"} => Objs = before.objs
    /\ pc \in {"unmark", "mark", "copy", "free"} => ~ret
    /\ pc # "add" => WasFull
    /\ pc \in {"grow", "add"} => Objs = Survives
    /\ pc = "add" => threshold = Raised

-----------------------------------------------------------------------------
(* What is reached, and sequences.                                         *)

(* Reached is the least set that holds the roots and is closed under Kids. *)
LEMMA ReachedFacts ==
  /\ Reached \subseteq Obj /\ Roots \subseteq Reached
  /\ \A o \in Reached : Kids(o) \subseteq Reached
  /\ \A S \in SUBSET Obj :
       Roots \subseteq S /\ (\A o \in S : Kids(o) \subseteq S) => Reached \subseteq S
<1>1. /\ Abstract!RootSet = Roots /\ Roots \subseteq Obj
      /\ \A o : Abstract!Kids(o) = Kids(o) /\ Kids(o) \subseteq Obj
  BY DEF Abstract!RootSet, Roots, Abstract!Kids, Kids
<1>2. \A S : Abstract!Closed(S) <=> \A o \in S : Kids(o) \subseteq S
  BY <1>1 DEF Abstract!Closed
<1>3. Reached = {o \in Obj : \A S \in SUBSET Obj :
                    (Roots \subseteq S /\ \A p \in S : Kids(p) \subseteq S) => o \in S}
  BY <1>1, <1>2 DEF Reached, Abstract!Reach
<1>4. ASSUME NEW o \in Reached, NEW k \in Kids(o) PROVE k \in Reached
  <2>1. k \in Obj
    BY <1>1, <1>4
  <2>2. ASSUME NEW S \in SUBSET Obj, Roots \subseteq S, \A p \in S : Kids(p) \subseteq S
        PROVE  k \in S
    BY <1>3, <1>4, <2>2
  <2> QED
    BY <1>3, <2>1, <2>2
<1> QED
  BY <1>1, <1>3, <1>4

(* It depends on nothing but the roots and the items. *)
LEMMA ReachedSame ==
  ASSUME UNCHANGED <<items, roots>>
  PROVE  Reached' = Reached /\ Roots' = Roots /\ \A o : Kids(o)' = Kids(o)
BY DEF Reached, Roots, Kids, Abstract!Reach, Abstract!RootSet, Abstract!Closed, Abstract!Kids

(* The client knows only objects that are tracked. *)
LEMMA KnownTracked ==
  ASSUME Safe, pc = "run"
  PROVE  Abstract!Known \cap Obj \subseteq Objs
<1>1. Abstract!Known = Reached \cup ClientScalars
  BY DEF Abstract!Known, Reached
<1>2. ClientScalars \cap Obj = {}
  BY CollectorAssumption
<1>3. Objs \cap Obj \in SUBSET Obj /\ Roots \subseteq Objs \cap Obj
      /\ \A o \in Objs \cap Obj : Kids(o) \subseteq Objs \cap Obj
  BY DEF Safe, Roots, Kids
<1>4. Reached \subseteq Objs \cap Obj
  BY <1>3, ReachedFacts
<1> QED
  BY <1>1, <1>2, <1>4

LEMMA AppendFacts ==
  ASSUME NEW S, NEW s \in Seq(S), NEW e \in S
  PROVE  /\ Append(s, e) \in Seq(S) /\ Len(Append(s, e)) = Len(s) + 1
         /\ Append(s, e)[Len(s) + 1] = e
         /\ \A i \in 1 .. Len(s) : Append(s, e)[i] = s[i]
         /\ \A i \in 1 .. Len(s) + 1 : i \in 1 .. Len(s) \/ i = Len(s) + 1
BY AppendProperties

LEMMA FrontFacts ==
  ASSUME NEW S, NEW s \in Seq(S), s # <<>>
  PROVE  LET f == SubSeq(s, 1, Len(s) - 1)
         IN  /\ f \in Seq(S) /\ Len(f) = Len(s) - 1 /\ Len(s) \in Nat \ {0}
             /\ \A i \in 1 .. Len(s) - 1 : f[i] = s[i]
<1> DEFINE n == Len(s) - 1
<1>1. Len(s) \in Nat \ {0} /\ n \in Int /\ \A i \in 1 .. n : s[i] \in S
  BY EmptySeq, ElementOfSeq
<1> HIDE DEF n
<1>2. /\ SubSeq(s, 1, n) \in Seq(S) /\ Len(SubSeq(s, 1, n)) = IF 1 <= n THEN n - 1 + 1 ELSE 0
      /\ \A i \in 1 .. n - 1 + 1 : SubSeq(s, 1, n)[i] = s[1 + i - 1]
  BY <1>1, SubSeqProperties
<1>3. n \in Nat
  BY <1>1 DEF n
<1>4. Len(SubSeq(s, 1, n)) = n /\ \A i \in 1 .. n : SubSeq(s, 1, n)[i] = s[i]
  BY <1>2, <1>3
<1> QED
  BY <1>1, <1>2, <1>4 DEF n

(* Taking an item away leaves items that were there. *)
LEMMA TakeFacts ==
  ASSUME NEW S, NEW s \in Seq(S), NEW i \in 1 .. Len(s)
  PROVE  LET t == SubSeq(s, 1, i - 1) \o SubSeq(s, i + 1, Len(s))
         IN  t \in Seq(S) /\ \A j \in 1 .. Len(t) : \E k \in 1 .. Len(s) : t[j] = s[k]
<1>1. Len(s) \in Nat /\ i \in Nat /\ \A j \in 1 .. Len(s) : s[j] \in S
  BY LenProperties, ElementOfSeq
<1> DEFINE a == SubSeq(s, 1, i - 1)
           b == SubSeq(s, i + 1, Len(s))
<1>2. a \in Seq(S) /\ Len(a) = i - 1 /\ \A j \in 1 .. i - 1 : a[j] = s[j]
  BY <1>1, SubSeqProperties
<1>3. b \in Seq(S) /\ Len(b) = Len(s) - i /\ \A j \in 1 .. Len(s) - i : b[j] = s[i + j]
  <2>1. \A j \in i + 1 .. Len(s) : s[j] \in S
    BY <1>1
  <2>2. /\ b \in Seq(S) /\ Len(b) = IF i + 1 <= Len(s) THEN Len(s) - (i + 1) + 1 ELSE 0
        /\ \A j \in 1 .. Len(s) - (i + 1) + 1 : b[j] = s[(i + 1) + j - 1]
    BY <1>1, <2>1, SubSeqProperties
  <2> QED
    BY <1>1, <2>2
<1> HIDE DEF a, b
<1>4. /\ a \o b \in Seq(S) /\ Len(a \o b) = Len(a) + Len(b)
      /\ \A j \in 1 .. Len(a) + Len(b) : (a \o b)[j] = IF j <= Len(a) THEN a[j] ELSE b[j - Len(a)]
  BY <1>2, <1>3, ConcatProperties
<1>5. ASSUME NEW j \in 1 .. Len(a \o b) PROVE \E k \in 1 .. Len(s) : (a \o b)[j] = s[k]
  <2>1. CASE j <= i - 1
    BY <1>1, <1>2, <1>3, <1>4, <2>1
  <2>2. CASE j > i - 1
    <3>1. j - (i - 1) \in 1 .. Len(s) - i /\ (a \o b)[j] = b[j - (i - 1)]
      BY <1>1, <1>2, <1>3, <1>4, <2>2
    <3>2. (a \o b)[j] = s[j + 1] /\ j + 1 \in 1 .. Len(s)
      BY <1>1, <1>2, <1>3, <1>4, <3>1
    <3> QED
      BY <3>2
  <2> QED
    BY <1>1, <2>1, <2>2
<1> QED
  BY <1>4, <1>5 DEF a, b

-----------------------------------------------------------------------------
(* The loops of eval_collect_garbage.                                      *)

Activation == [obj : Obj, i : Nat \ {0}]

LEMMA HeapStays ==
  ASSUME IInv, InHeap
  PROVE  /\ Objs' = Objs /\ Roots' = Roots /\ Reached' = Reached /\ Distinct'
         /\ \A o : Kids(o)' = Kids(o)
BY ReachedSame DEF InHeap, IInv, Distinct, Objs, clientVars

(* Nothing but the roots is left marked, and none of them is yet. *)
LEMMA UnmarkStep ==
  ASSUME IInv, Unmark
  PROVE  IInv'
<1>1. InHeap /\ pc = "unmark" /\ pc' = "mark" /\ at' = 1 /\ marked' = {}
      /\ UNCHANGED <<dataVars, visiting>>
  BY DEF Unmark, Goto, IInv, Safe
<1>2. visiting = <<>> /\ visiting' = <<>>
  BY <1>1 DEF IInv, Marking
<1>3. Types' /\ Separate' /\ Safe' /\ DataSurvives'
  BY <1>1, HeapStays DEF IInv, Types, Separate, Safe, DataSurvives, Holds, InHeap, dataVars, clientVars
<1>4. Marking' /\ Moving'
  BY <1>1, <1>2, HeapStays DEF Marking, Moving
<1> QED
  BY <1>1, <1>3, <1>4, HeapStays DEF IInv

(* gc_obj_mark(v) keeps what is known of the marks, when rest and what is  *)
(* marked with v are complete.                                             *)
LEMMA VisitStep ==
  ASSUME IInv, InHeap, pc = "mark",
         NEW v \in Value, v \in Obj => v \in Reached,
         NEW rest \in Seq(Activation), Visit(v, rest),
         \A j \in 1 .. Len(rest) : rest[j].obj \in marked,
         \A o \in marked : \/ Kids(o) \subseteq marked
                           \/ \E j \in 1 .. Len(rest) :
                                /\ rest[j].obj = o
                                /\ \A i \in 1 .. rest[j].i - 1 :
                                     items[o][i] \in Obj => items[o][i] \in marked \cup {v}
  PROVE  /\ marked \subseteq marked' /\ marked' \subseteq Obj /\ (v \in Obj => v \in marked')
         /\ visiting' \in Seq(Activation) /\ marked' \subseteq Reached /\ marked' \subseteq Objs
         /\ \A j \in 1 .. Len(visiting') : visiting'[j].obj \in marked'
         /\ \A o \in marked' : Kids(o) \subseteq marked' \/ Traced(o)'
<1>1. items' = items /\ marked \subseteq Reached /\ marked \subseteq Objs /\ marked \subseteq Obj
      /\ Roots \subseteq Objs /\ (\A o \in Objs : Kids(o) \subseteq Objs) /\ Objs \subseteq Obj
  <2>1. \A i \in 1 .. Len(objs) : objs[i] \in Obj
    BY ElementOfSeq DEF IInv, Types
  <2>2. Objs \subseteq Obj
    BY <2>1 DEF Objs
  <2>3. items' = items /\ marked \subseteq Obj
    BY DEF InHeap, IInv, Types
  <2>4. marked \subseteq Reached
    BY DEF IInv, Marking
  <2> QED
    BY <2>2, <2>3, <2>4 DEF IInv, Safe
<1>2. Reached \subseteq Objs
  BY <1>1, ReachedFacts
<1>3. CASE v \in Obj \ marked
  <2> DEFINE a == [obj |-> v, i |-> 1]
  <2>1. /\ marked' = marked \cup {v} /\ visiting' = Append(rest, a)
        /\ a \in Activation
    BY <1>3 DEF Visit, Activation
  <2>2. /\ visiting' \in Seq(Activation) /\ Len(visiting') = Len(rest) + 1
        /\ visiting'[Len(rest) + 1] = a
        /\ \A j \in 1 .. Len(rest) : visiting'[j] = rest[j]
        /\ \A j \in 1 .. Len(rest) + 1 : j \in 1 .. Len(rest) \/ j = Len(rest) + 1
    BY <2>1, AppendFacts
  <2>3. Len(rest) \in Nat
    BY LenProperties
  <2>4. \A j \in 1 .. Len(visiting') : visiting'[j].obj \in marked'
    BY <2>1, <2>2
  <2>5. Traced(v)'
    <3>1. Len(rest) + 1 \in 1 .. Len(visiting') /\ visiting'[Len(rest) + 1].i = 1
          /\ visiting'[Len(rest) + 1].obj = v
      BY <2>2, <2>3
    <3>2. \A i \in 1 .. visiting'[Len(rest) + 1].i - 1 : FALSE
      BY <3>1
    <3> QED
      BY <3>1, <3>2 DEF Traced
  <2>6. ASSUME NEW o \in marked, ~(Kids(o) \subseteq marked) PROVE Traced(o)'
    <3>1. PICK j \in 1 .. Len(rest) :
            /\ rest[j].obj = o
            /\ \A i \in 1 .. rest[j].i - 1 : items[o][i] \in Obj => items[o][i] \in marked \cup {v}
      BY <2>6
    <3>2. j \in 1 .. Len(visiting') /\ visiting'[j] = rest[j]
      BY <2>2, <2>3
    <3> QED
      BY <1>1, <2>1, <3>1, <3>2 DEF Traced
  <2> HIDE DEF a
  <2>7. \A o \in marked' : Kids(o) \subseteq marked' \/ Traced(o)'
    BY <2>1, <2>5, <2>6
  <2> QED
    BY <1>1, <1>2, <1>3, <2>1, <2>2, <2>4, <2>7
<1>4. CASE v \notin Obj \ marked
  <2>1. marked' = marked /\ visiting' = rest
    BY <1>4 DEF Visit
  <2>2. ASSUME NEW o \in marked, ~(Kids(o) \subseteq marked) PROVE Traced(o)'
    BY <1>1, <1>4, <2>1, <2>2 DEF Traced
  <2> QED
    BY <1>1, <1>2, <1>4, <2>1, <2>2
<1> QED
  BY <1>3, <1>4

(* What is left to show of a step of the marking. *)
LEMMA MarkGoal ==
  ASSUME IInv, InHeap, pc = "mark", UNCHANGED <<dataVars, pc>>,
         marked \subseteq marked', marked' \subseteq Obj, marked' \subseteq Reached,
         marked' \subseteq Objs, visiting' \in Seq(Activation), at' \in Nat \ {0},
         \A j \in 1 .. Len(visiting') : visiting'[j].obj \in marked',
         \A o \in marked' : Kids(o) \subseteq marked' \/ Traced(o)',
         \A i \in 1 .. Len(roots) : i < at' /\ roots[i] \in Obj => roots[i] \in marked'
  PROVE  IInv'
<1>1. Types'
  BY DEF IInv, Types, InHeap, dataVars, clientVars, Activation
<1>3. Separate' /\ DataSurvives'
  BY HeapStays DEF IInv, Separate, DataSurvives, Holds, InHeap, dataVars
<1>4. Safe'
  BY HeapStays DEF IInv, Safe
<1>2. Marking' /\ Moving'
  BY HeapStays DEF Marking, Moving, InHeap, clientVars
<1> QED
  BY <1>1, <1>2, <1>3, <1>4, HeapStays DEF IInv

LEMMA MarkRootStep ==
  ASSUME IInv, MarkRoot
  PROVE  IInv'
<1>1. /\ InHeap /\ pc = "mark" /\ visiting = <<>> /\ at \in 1 .. Len(roots)
      /\ Visit(roots[at], <<>>) /\ at' = at + 1 /\ UNCHANGED <<dataVars, pc>>
      /\ at \in Nat \ {0} /\ roots \in Seq(Value)
  BY DEF MarkRoot, IInv, Types
<1>2. roots[at] \in Value /\ (roots[at] \in Obj => roots[at] \in Reached)
  BY <1>1, ElementOfSeq, ReachedFacts DEF Roots
<1>3. <<>> \in Seq(Activation) /\ Len(<<>>) = 0 /\ \A j \in 1 .. 0 : FALSE
  BY EmptySeq
<1>4. \A o \in marked : Kids(o) \subseteq marked
  BY <1>1, <1>3 DEF IInv, Marking, Traced
<1>5. /\ marked \subseteq marked' /\ marked' \subseteq Obj
      /\ roots[at] \in Obj => roots[at] \in marked'
      /\ visiting' \in Seq(Activation) /\ marked' \subseteq Reached /\ marked' \subseteq Objs
      /\ \A j \in 1 .. Len(visiting') : visiting'[j].obj \in marked'
      /\ \A o \in marked' : Kids(o) \subseteq marked' \/ Traced(o)'
  <2>1. \A j \in 1 .. Len(<<>>) : <<>>[j].obj \in marked
    BY <1>3
  <2> QED
    BY <1>1, <1>2, <1>3, <1>4, <2>1, VisitStep
<1>6. \A i \in 1 .. Len(roots) : i < at' /\ roots[i] \in Obj => roots[i] \in marked'
  <2> SUFFICES ASSUME NEW i \in 1 .. Len(roots), i < at + 1, roots[i] \in Obj
               PROVE  roots[i] \in marked'
    BY <1>1
  <2>1. i < at \/ i = at
    BY <1>1
  <2> QED
    BY <1>1, <1>5, <2>1 DEF IInv, Marking
<1> QED
  BY <1>1, <1>5, <1>6, MarkGoal

LEMMA MarkItemStep ==
  ASSUME IInv, MarkItem
  PROVE  IInv'
<1> DEFINE n    == Len(visiting)
           top  == visiting[n]
           rest == SubSeq(visiting, 1, n - 1)
           more == [top EXCEPT !.i = @ + 1]
<1>1. /\ InHeap /\ pc = "mark" /\ visiting # <<>> /\ UNCHANGED <<dataVars, pc, at>>
      /\ IF top.i <= Len(items[top.obj])
         THEN Visit(items[top.obj][top.i], Append(rest, more))
         ELSE visiting' = rest /\ UNCHANGED marked
  BY DEF MarkItem
<1>2. /\ visiting \in Seq(Activation) /\ items \in [Obj -> Seq(Value)] /\ at \in Nat \ {0}
      /\ \A o \in marked : Kids(o) \subseteq marked \/ Traced(o)
      /\ \A j \in 1 .. n : visiting[j].obj \in marked
      /\ marked \subseteq Reached /\ marked \subseteq Objs /\ marked \subseteq Obj
      /\ \A i \in 1 .. Len(roots) : i < at /\ roots[i] \in Obj => roots[i] \in marked
  BY <1>1 DEF IInv, Types, Marking, Safe, Activation
<1>3. /\ n \in Nat \ {0} /\ rest \in Seq(Activation) /\ Len(rest) = n - 1
      /\ \A j \in 1 .. n - 1 : rest[j] = visiting[j]
  BY <1>1, <1>2, FrontFacts
<1>4. /\ top \in Activation /\ top.obj \in marked /\ top.obj \in Obj /\ top.i \in Nat \ {0}
      /\ items[top.obj] \in Seq(Value) /\ Len(items[top.obj]) \in Nat
  <2>1. top \in Activation /\ n \in 1 .. n
    BY <1>2, <1>3, ElementOfSeq
  <2>2. top.obj \in Obj /\ top.i \in Nat \ {0} /\ top.obj \in marked
    BY <1>2, <2>1 DEF Activation
  <2> HIDE DEF top
  <2>3. items[top.obj] \in Seq(Value)
    BY <1>2, <2>2
  <2> QED
    BY <2>1, <2>2, <2>3, LenProperties
<1> HIDE DEF rest, top, n
<1>5. \A i \in 1 .. n : i \in 1 .. n - 1 \/ i = n
  BY <1>3
<1>6. CASE top.i <= Len(items[top.obj])
  <2> DEFINE v == items[top.obj][top.i]
             s == Append(rest, more)
  <2>1. v \in Value /\ (v \in Obj => v \in Kids(top.obj))
    BY <1>4, <1>6, ElementOfSeq DEF Kids
  <2>2. v \in Obj => v \in Reached
    BY <1>2, <1>4, <2>1, ReachedFacts
  <2>3. more \in Activation /\ more.obj = top.obj /\ more.i = top.i + 1
    BY <1>4 DEF Activation
  <2> HIDE DEF more
  <2>4. /\ s \in Seq(Activation) /\ Len(s) = n /\ s[n] = more
        /\ \A j \in 1 .. n - 1 : s[j] = visiting[j]
    BY <1>3, <2>3, AppendFacts
  <2> HIDE DEF s
  <2>5. \A j \in 1 .. Len(s) : s[j].obj \in marked
    BY <1>2, <1>4, <1>5, <2>3, <2>4, <1>3
  <2>6. ASSUME NEW o \in marked, ~(Kids(o) \subseteq marked)
        PROVE  \E j \in 1 .. Len(s) :
                 /\ s[j].obj = o
                 /\ \A i \in 1 .. s[j].i - 1 :
                      items[o][i] \in Obj => items[o][i] \in marked \cup {v}
    <3>1. PICK j \in 1 .. n :
            /\ visiting[j].obj = o
            /\ \A i \in 1 .. visiting[j].i - 1 : items[o][i] \in Obj => items[o][i] \in marked
      BY <1>2, <2>6 DEF Traced, n
    <3>2. CASE j \in 1 .. n - 1
      BY <2>4, <3>1, <3>2
    <3>3. CASE j = n
      <4>1. top.obj = o /\ \A i \in 1 .. top.i - 1 : items[o][i] \in Obj => items[o][i] \in marked
        BY <3>1, <3>3 DEF top
      <4>2. \A i \in 1 .. s[n].i - 1 : i \in 1 .. top.i - 1 \/ i = top.i
        BY <1>4, <2>3, <2>4
      <4>3. s[n].obj = o
            /\ \A i \in 1 .. s[n].i - 1 : items[o][i] \in Obj => items[o][i] \in marked \cup {v}
        BY <2>3, <2>4, <4>1, <4>2
      <4> QED
        BY <2>4, <3>1, <3>3, <4>3
    <3> QED
      BY <1>5, <3>1, <3>2, <3>3
  <2>7. Visit(v, s)
    BY <1>1, <1>6 DEF s, v
  <2> HIDE DEF v
  <2>8. /\ marked \subseteq marked' /\ marked' \subseteq Obj
        /\ visiting' \in Seq(Activation) /\ marked' \subseteq Reached /\ marked' \subseteq Objs
        /\ \A j \in 1 .. Len(visiting') : visiting'[j].obj \in marked'
        /\ \A o \in marked' : Kids(o) \subseteq marked' \/ Traced(o)'
    BY <1>1, <2>1, <2>2, <2>4, <2>5, <2>6, <2>7, VisitStep
  <2> QED
    BY <1>1, <1>2, <2>8, MarkGoal
<1>7. CASE ~(top.i <= Len(items[top.obj]))
  <2>1. visiting' = rest /\ marked' = marked /\ items' = items
    BY <1>1, <1>7 DEF InHeap
  <2>2. \A j \in 1 .. Len(visiting') : visiting'[j].obj \in marked'
    BY <1>2, <1>3, <1>5, <2>1
  <2>3. ASSUME NEW o \in marked, ~(Kids(o) \subseteq marked) PROVE Traced(o)'
    <3>1. PICK j \in 1 .. n :
            /\ visiting[j].obj = o
            /\ \A i \in 1 .. visiting[j].i - 1 : items[o][i] \in Obj => items[o][i] \in marked
      BY <1>2, <2>3 DEF Traced, n
    <3>2. j # n
      <4> SUFFICES ASSUME j = n PROVE FALSE
        OBVIOUS
      <4>1. top.obj = o /\ \A i \in 1 .. top.i - 1 : items[o][i] \in Obj => items[o][i] \in marked
        BY <3>1 DEF top
      <4>2. \A i \in 1 .. Len(items[o]) : i \in 1 .. top.i - 1
        BY <1>4, <1>7, <4>1
      <4> QED
        BY <2>3, <4>1, <4>2 DEF Kids
    <3>3. j \in 1 .. Len(visiting') /\ visiting'[j] = visiting[j]
      BY <1>3, <1>5, <2>1, <3>2
    <3> QED
      BY <2>1, <3>1, <3>3 DEF Traced
  <2> QED
    BY <1>1, <1>2, <1>3, <2>1, <2>2, <2>3, MarkGoal
<1> QED
  BY <1>6, <1>7

(* The marking is over: all that the roots reach is marked. *)
LEMMA MarkedStep ==
  ASSUME IInv, Marked
  PROVE  IInv'
<1>1. /\ InHeap /\ pc = "mark" /\ pc' = "copy" /\ at' = 1 /\ visiting = <<>> /\ at > Len(roots)
      /\ UNCHANGED <<marked, dataVars, visiting>>
  BY DEF Marked, Goto
<1>2. Types' /\ Separate' /\ DataSurvives'
  BY <1>1, HeapStays DEF IInv, Types, Separate, DataSurvives, Holds, InHeap, dataVars, clientVars
<1>3. Safe' /\ Moving'
  BY <1>1, HeapStays DEF IInv, Safe, Moving
<1>4. Roots \subseteq marked
  <2>1. Len(roots) \in Nat /\ at \in Nat
    BY LenProperties DEF IInv, Types
  <2>2. \A i \in 1 .. Len(roots) : roots[i] \in Obj => roots[i] \in marked
    BY <1>1, <2>1 DEF IInv, Marking
  <2> QED
    BY <2>2 DEF Roots
<1>5. \A o \in marked : Kids(o) \subseteq marked \/ Traced(o)'
  BY <1>1 DEF IInv, Marking, Traced, InHeap
<1>6. Marking'
  BY <1>1, <1>4, <1>5, HeapStays DEF IInv, Marking
<1> QED
  BY <1>1, <1>2, <1>3, <1>6, HeapStays DEF IInv

(* What the marking has left behind. *)
LEMMA AfterMarking ==
  ASSUME IInv, pc \in {"copy", "free"}
  PROVE  /\ visiting = <<>> /\ Roots \subseteq marked /\ marked \subseteq Objs
         /\ \A o \in marked : Kids(o) \subseteq marked
         /\ marked = Reached
<1>1. /\ visiting = <<>> /\ Roots \subseteq marked /\ marked \subseteq Objs
      /\ marked \subseteq Reached /\ marked \in SUBSET Obj
      /\ \A o \in marked : Kids(o) \subseteq marked \/ Traced(o)
  BY DEF IInv, Marking, Safe, Types
<1>2. \A o : ~Traced(o)
  <2>1. Len(visiting) = 0
    BY <1>1, EmptySeq
  <2> QED
    BY <2>1 DEF Traced
<1> QED
  BY <1>1, <1>2, ReachedFacts

(* A copy leaves the object with data in gc.to, or with none to lose. *)
LEMMA CopyStep ==
  ASSUME IInv, Copy
  PROVE  IInv'
<1> DEFINE o == objs[at]
<1>1. /\ InHeap /\ pc = "copy" /\ at \in 1 .. Len(objs) /\ at' = at + 1
      /\ UNCHANGED <<marked, str, memory, pc, visiting>>
      /\ IF o \in marked
         THEN /\ arena' = [arena EXCEPT ![o] = "to"]
              /\ data' = [data EXCEPT ![o] = IF Holds(o) THEN memory["to"] ELSE "null"]
         ELSE UNCHANGED <<arena, data>>
      /\ at \in Nat \ {0} /\ objs \in Seq(Obj)
  BY DEF Copy, IInv, Types
<1>2. /\ o \in Obj /\ o \in Objs
      /\ memory["to"] \in {"A", "B"} /\ memory["from"] \in {"A", "B"}
      /\ memory["to"] # memory["from"]
      /\ data \in [Obj -> {"null", "A", "B", "lost"}] /\ arena \in [Obj -> {"from", "to"}]
  BY <1>1, ElementOfSeq DEF IInv, Types, Objs
<1>3. /\ \A p \in Obj : p # o \/ o \notin marked => data'[p] = data[p]
      /\ o \in marked => data'[o] = IF Holds(o) THEN memory["to"] ELSE "null"
      /\ data' \in [Obj -> {"null", "A", "B", "lost"}] /\ arena' \in [Obj -> {"from", "to"}]
  BY <1>1, <1>2
<1> HIDE DEF o
<1>4. Types'
  BY <1>1, <1>3 DEF IInv, Types, InHeap, clientVars
<1>5. Separate'
  BY <1>1, <1>2, <1>3, HeapStays DEF IInv, Separate, InHeap
<1>6. Safe' /\ Marking'
  <2>1. \A p : Traced(p)' <=> Traced(p)
    BY <1>1 DEF Traced, InHeap
  <2> QED
    BY <1>1, <2>1, HeapStays DEF IInv, Safe, Marking
<1>7. DataSurvives'
  <2>1. Objs \subseteq Obj /\ \A p : Holds(p)' <=> Holds(p)
    BY <1>1, ElementOfSeq DEF Objs, Holds, InHeap
  <2> QED
    BY <1>1, <1>2, <1>3, <2>1, HeapStays DEF IInv, DataSurvives
<1>8. Moving'
  <2> SUFFICES ASSUME NEW i \in 1 .. Len(objs), i < at + 1, objs[i] \in marked
               PROVE  data'[objs[i]] # memory["from"]
    BY <1>1 DEF Moving, InHeap
  <2>1. objs[i] \in Obj
    BY <1>1, ElementOfSeq
  <2>2. CASE objs[i] = o
    BY <1>2, <1>3, <2>2
  <2>3. CASE objs[i] # o
    <3>1. i < at
      BY <1>1, <2>3 DEF o
    <3>2. data'[objs[i]] = data[objs[i]]
      BY <1>3, <2>1, <2>3
    <3> QED
      BY <1>1, <3>1, <3>2 DEF IInv, Moving
  <2> QED
    BY <2>2, <2>3
<1> QED
  BY <1>1, <1>4, <1>5, <1>6, <1>7, <1>8, HeapStays DEF IInv

LEMMA CopiedStep ==
  ASSUME IInv, Copied
  PROVE  IInv'
<1>1. /\ InHeap /\ pc = "copy" /\ pc' = "free" /\ at' = 1 /\ at > Len(objs)
      /\ UNCHANGED <<marked, dataVars, visiting>>
  BY DEF Copied, Goto
<1>2. Types' /\ Separate' /\ DataSurvives'
  BY <1>1, HeapStays, SMTT(30) DEF IInv, Types, Separate, DataSurvives, Holds, InHeap, dataVars, clientVars
<1>3. Safe'
  BY <1>1, HeapStays DEF IInv, Safe
<1>4. Marking'
  BY <1>1, AfterMarking, HeapStays DEF IInv, Marking
<1>5. Moving'
  <2>1. Len(objs) \in Nat /\ at \in Nat
    BY LenProperties DEF IInv, Types
  <2>2. \A i \in 1 .. Len(objs) : objs[i] \in marked => data[objs[i]] # memory["from"]
    BY <1>1, <2>1 DEF IInv, Moving
  <2>3. \A p \in marked : data[p] # memory["from"]
    BY <2>2 DEF IInv, Safe, Objs
  <2>4. \A i \in 1 .. Len(objs) : ~(i < 1)
    BY <2>1
  <2> QED
    BY <1>1, <2>3, <2>4 DEF Moving, InHeap, dataVars
<1> QED
  BY <1>1, <1>2, <1>3, <1>4, <1>5, HeapStays DEF IInv

(* The last object takes the place of the one that is removed. *)
LEMMA RemoveFacts ==
  ASSUME objs \in Seq(Obj), Distinct, NEW i \in 1 .. Len(objs), RemoveUnordered(i)
  PROVE  /\ objs' \in Seq(Obj) /\ Distinct' /\ Objs' = Objs \ {objs[i]}
         /\ Len(objs') = Len(objs) - 1
         /\ \A j \in 1 .. Len(objs) - 1 : j # i => objs'[j] = objs[j]
<1> DEFINE n == Len(objs)
           e == [objs EXCEPT ![i] = objs[n]]
<1>1. n \in Nat \ {0} /\ i \in 1 .. n /\ objs[n] \in Obj /\ objs # <<>>
  <2>1. n \in Nat /\ n \in 1 .. n
    BY LenProperties
  <2> QED
    BY <2>1, ElementOfSeq, EmptySeq
<1>2. /\ e \in Seq(Obj) /\ Len(e) = n
      /\ \A j \in 1 .. n : e[j] = IF j = i THEN objs[n] ELSE objs[j]
  BY <1>1, ExceptSeq
<1> HIDE DEF e
<1>3. /\ objs' \in Seq(Obj) /\ Len(objs') = n - 1
      /\ \A j \in 1 .. n - 1 : objs'[j] = e[j]
  <2>1. objs' = SubSeq(e, 1, Len(e) - 1)
    BY <1>2 DEF RemoveUnordered, e
  <2>2. e # <<>>
    BY <1>1, <1>2, EmptySeq
  <2> QED
    BY <1>2, <2>1, <2>2, FrontFacts
<1>4. \A j \in 1 .. n - 1 : objs'[j] = IF j = i THEN objs[n] ELSE objs[j]
  BY <1>1, <1>2, <1>3
<1>5. \A j, k \in 1 .. n : objs[j] = objs[k] => j = k
  BY DEF Distinct
<1>6. Distinct'
  <2> SUFFICES ASSUME NEW j \in 1 .. n - 1, NEW k \in 1 .. n - 1, objs'[j] = objs'[k]
               PROVE  j = k
    BY <1>3 DEF Distinct
  <2> QED
    BY <1>1, <1>4, <1>5
<1>7. Objs' \subseteq Objs \ {objs[i]}
  <2> SUFFICES ASSUME NEW j \in 1 .. n - 1 PROVE objs'[j] \in Objs \ {objs[i]}
    BY <1>3 DEF Objs
  <2>1. PICK k \in 1 .. n : objs'[j] = objs[k] /\ k # i
    <3>1. CASE j = i
      BY <1>1, <1>4, <3>1
    <3>2. CASE j # i
      BY <1>1, <1>4, <3>2
    <3> QED
      BY <3>1, <3>2
  <2> QED
    BY <1>5, <2>1 DEF Objs
<1>8. Objs \ {objs[i]} \subseteq Objs'
  <2> SUFFICES ASSUME NEW k \in 1 .. n, k # i PROVE objs[k] \in Objs'
    BY DEF Objs
  <2>1. CASE k = n
    <3>1. i \in 1 .. n - 1 /\ objs'[i] = objs[n]
      BY <1>1, <1>4, <2>1
    <3> QED
      BY <1>3, <2>1, <3>1 DEF Objs
  <2>2. CASE k # n
    <3>1. k \in 1 .. n - 1 /\ objs'[k] = objs[k]
      BY <1>1, <1>4, <2>2
    <3> QED
      BY <1>3, <3>1 DEF Objs
  <2> QED
    BY <2>1, <2>2
<1> QED
  BY <1>3, <1>4, <1>6, <1>7, <1>8

LEMMA FreeStep ==
  ASSUME IInv, Free
  PROVE  IInv'
<1>1. /\ pc = "free" /\ at \in 1 .. Len(objs) /\ at \in Nat \ {0}
      /\ UNCHANGED <<items, threshold, roots, ret, new, before, marked, dataVars, pc, visiting>>
      /\ objs \in Seq(Obj) /\ Len(objs) \in Nat /\ objs[at] \in Obj /\ objs[at] \in Objs
  <2>1. /\ pc = "free" /\ at \in 1 .. Len(objs) /\ at \in Nat \ {0}
        /\ UNCHANGED <<items, threshold, roots, ret, new, before, marked, dataVars, pc, visiting>>
        /\ objs \in Seq(Obj) /\ Len(objs) \in Nat
    BY LenProperties DEF Free, IInv, Types, clientVars
  <2> QED
    BY <2>1, ElementOfSeq DEF Objs
<1>2. /\ Roots' = Roots /\ Reached' = Reached /\ (\A o : Kids(o)' = Kids(o))
      /\ \A o : Traced(o)' <=> Traced(o)
      /\ \A o : Holds(o)' <=> Holds(o)
  BY <1>1, ReachedSame DEF Traced, Holds, dataVars
<1>3. /\ Roots \subseteq marked /\ marked \subseteq Objs /\ visiting = <<>>
      /\ \A i \in 1 .. Len(objs) : i < at => objs[i] \in marked
  BY <1>1, AfterMarking DEF IInv, Moving
<1>4. CASE objs[at] \in marked
  <2>1. at' = at + 1 /\ UNCHANGED <<objs, freed>> /\ Objs' = Objs
    BY <1>1, <1>4 DEF Free, Objs
  <2>2. Types' /\ Distinct' /\ Separate'
    BY <1>1, <2>1 DEF IInv, Types, Distinct, Separate, dataVars
  <2>3. Safe' /\ Marking' /\ DataSurvives'
    BY <1>1, <1>2, <2>1 DEF IInv, Safe, Marking, DataSurvives, dataVars
  <2>4. \A i \in 1 .. Len(objs) : i < at + 1 => i < at \/ i = at
    BY <1>1
  <2>5. Moving'
    BY <1>1, <1>3, <1>4, <2>1, <2>4 DEF IInv, Moving, dataVars
  <2> QED
    BY <2>2, <2>3, <2>5 DEF IInv
<1>5. CASE objs[at] \notin marked
  <2>1. RemoveUnordered(at) /\ freed' = freed \cup {objs[at]} /\ at' = at
    BY <1>1, <1>5 DEF Free
  <2>2. /\ objs' \in Seq(Obj) /\ Distinct' /\ Objs' = Objs \ {objs[at]}
        /\ Len(objs') = Len(objs) - 1
        /\ \A j \in 1 .. Len(objs) - 1 : j # at => objs'[j] = objs[j]
    BY <1>1, <2>1, RemoveFacts DEF IInv
  <2>3. Types'
    BY <1>1, <2>1, <2>2 DEF IInv, Types, dataVars
  <2>4. Separate'
    BY <1>1, <2>1, <2>2 DEF IInv, Separate, dataVars
  <2>5. Safe' /\ Marking' /\ DataSurvives'
    BY <1>1, <1>2, <1>3, <1>5, <2>1, <2>2 DEF IInv, Safe, Marking, DataSurvives, dataVars
  <2>6. \A i \in 1 .. Len(objs) - 1 : i < at => objs'[i] \in marked
    BY <1>1, <1>3, <2>2
  <2>7. Moving'
    BY <1>1, <2>1, <2>2, <2>6 DEF IInv, Moving, dataVars
  <2> QED
    BY <2>2, <2>3, <2>4, <2>5, <2>7 DEF IInv
<1> QED
  BY <1>4, <1>5

(* What is left is marked and lies in gc.to: nothing of it is reset. *)
LEMMA ResetStep ==
  ASSUME IInv, ResetAndSwap
  PROVE  IInv'
<1>1. /\ InHeap /\ pc = "free" /\ pc' = "grow" /\ at' = 1 /\ at > Len(objs)
      /\ UNCHANGED <<marked, str, arena, visiting>>
      /\ data' = [o \in Obj |-> IF data[o] = memory["from"] THEN "lost" ELSE data[o]]
      /\ memory' = [from |-> memory["to"], to |-> memory["from"]]
  BY DEF ResetAndSwap, Goto, Lose
<1>2. /\ Roots \subseteq marked /\ marked \subseteq Objs /\ visiting = <<>>
      /\ (\A o \in marked : Kids(o) \subseteq marked) /\ marked \subseteq Obj
  BY <1>1, AfterMarking DEF IInv, Types
<1>3. Objs = marked
  <2>1. Len(objs) \in Nat /\ at \in Nat
    BY LenProperties DEF IInv, Types
  <2> QED
    BY <1>1, <1>2, <2>1 DEF IInv, Moving, Objs
<1>4. \A o \in Obj : data[o] # memory["from"] => data'[o] = data[o]
  BY <1>1
<1>5. memory["from"] # "null"
  BY DEF IInv, Types
<1>6. Types'
  BY <1>1 DEF IInv, Types, InHeap, clientVars
<1>7. Separate'
  BY <1>1, <1>4, <1>5, HeapStays DEF IInv, Separate, InHeap
<1>8. Safe' /\ Marking' /\ Moving'
  BY <1>1, <1>2, <1>3, HeapStays DEF Safe, Marking, Moving
<1>9. DataSurvives'
  <2>1. \A o : Holds(o)' <=> Holds(o)
    BY <1>1 DEF Holds, InHeap
  <2>2. \A o \in Objs : data'[o] = data[o]
    BY <1>1, <1>2, <1>3, <1>4 DEF IInv, Moving
  <2> QED
    BY <2>1, <2>2, HeapStays, <1>1 DEF IInv, DataSurvives
<1> QED
  BY <1>1, <1>6, <1>7, <1>8, <1>9, HeapStays DEF IInv

-----------------------------------------------------------------------------
(* eval_gc_alloc around the collection, and the client.                    *)

LEMMA RaiseStep ==
  ASSUME IInv, Raise
  PROVE  IInv'
<1>1. /\ pc = "grow" /\ pc' = "add"
      /\ UNCHANGED <<objs, freed, items, roots, ret, marked, dataVars, at, visiting, new>>
  BY DEF Raise, clientVars
<1>2. threshold' \in Nat
  <2>1. Len(objs) \in Nat
    BY LenProperties DEF IInv, Types
  <2> QED
    BY <2>1, CollectorAssumption DEF Raise
<1>3. /\ Objs' = Objs /\ Roots' = Roots /\ (\A o : Kids(o)' = Kids(o))
      /\ \A o : Holds(o)' <=> Holds(o)
  BY <1>1, ReachedSame DEF Objs, Holds, dataVars
<1>4. Types' /\ Distinct'
  BY <1>1, <1>2 DEF IInv, Types, Distinct, dataVars
<1>5. Separate' /\ Safe' /\ Marking' /\ Moving' /\ DataSurvives'
  BY <1>1, <1>3 DEF IInv, Separate, Safe, Marking, Moving, DataSurvives, dataVars
<1> QED
  BY <1>4, <1>5 DEF IInv

LEMMA GcAllocStep ==
  ASSUME IInv, NEW o \in Obj, NEW s \in BOOLEAN, GcAlloc(o, s)
  PROVE  IInv'
<1>1. /\ pc = "run" /\ pc' \in {"add", "grow", "unmark"} /\ o \in Unused /\ new' = {o}
      /\ str' = IF s THEN str \cup {o} ELSE str
      /\ arena' = [arena EXCEPT ![o] = "from"]
      /\ UNCHANGED <<objs, freed, items, roots, ret, marked, data, memory, at, visiting>>
  BY DEF GcAlloc, clientVars
<1>2. threshold' \in Nat
  BY CollectorAssumption DEF GcAlloc, IInv, Types
<1>3. /\ Objs' = Objs /\ Roots' = Roots /\ (\A p : Kids(p)' = Kids(p))
      /\ \A p \in Objs : Holds(p)' <=> Holds(p)
  BY <1>1, ReachedSame DEF Objs, Holds, Unused
<1>4. Types' /\ Distinct'
  BY <1>1, <1>2 DEF IInv, Types, Distinct
<1>5. Separate'
  BY <1>1, <1>3 DEF IInv, Separate, Unused
<1>6. Safe' /\ Marking' /\ Moving' /\ DataSurvives'
  BY <1>1, <1>3 DEF IInv, Safe, Marking, Moving, DataSurvives
<1> QED
  BY <1>4, <1>5, <1>6 DEF IInv

(* A symbol more names nothing that is not tracked. *)
LEMMA RootsAppended ==
  ASSUME roots \in Seq(Value), NEW v \in Value, roots' = Append(roots, v)
  PROVE  roots' \in Seq(Value) /\ Roots' \subseteq Roots \cup ({v} \cap Obj)
<1>1. /\ roots' \in Seq(Value) /\ Len(roots') = Len(roots) + 1
      /\ roots'[Len(roots) + 1] = v
      /\ \A i \in 1 .. Len(roots) : roots'[i] = roots[i]
      /\ \A i \in 1 .. Len(roots) + 1 : i \in 1 .. Len(roots) \/ i = Len(roots) + 1
  BY AppendFacts
<1>2. \A i \in 1 .. Len(roots') : roots'[i] = v \/ \E j \in 1 .. Len(roots) : roots'[i] = roots[j]
  BY <1>1
<1> QED
  BY <1>1, <1>2 DEF Roots

LEMMA AddStep ==
  ASSUME IInv, Add
  PROVE  IInv'
<1>1. PICK o \in new :
        /\ objs' = Append(objs, o) /\ roots' = Append(roots, o)
        /\ data' = IF o \in str THEN [data EXCEPT ![o] = memory["from"]] ELSE data
  BY DEF Add
<1>2. /\ pc = "add" /\ pc' = "run" /\ new' = {} /\ at' = 1
      /\ UNCHANGED <<freed, items, threshold, ret, marked, str, arena, memory, visiting>>
  BY DEF Add
<1>3. /\ o \in Obj /\ o \notin Objs /\ o \notin freed /\ items[o] = <<>> /\ data[o] = "null"
      /\ objs \in Seq(Obj) /\ roots \in Seq(Value) /\ o \in Value
  BY DEF IInv, Types, Separate, Value
<1>4. /\ objs' \in Seq(Obj) /\ Len(objs') = Len(objs) + 1 /\ objs'[Len(objs) + 1] = o
      /\ \A i \in 1 .. Len(objs) : objs'[i] = objs[i]
      /\ \A i \in 1 .. Len(objs) + 1 : i \in 1 .. Len(objs) \/ i = Len(objs) + 1
      /\ Len(objs) \in Nat
  BY <1>1, <1>3, AppendFacts, LenProperties
<1>5. Objs' = Objs \cup {o}
  <2>1. \A i \in 1 .. Len(objs) : i \in 1 .. Len(objs')
    BY <1>4
  <2>2. Len(objs) + 1 \in 1 .. Len(objs')
    BY <1>4
  <2> QED
    BY <1>4, <2>1, <2>2 DEF Objs
<1>6. Distinct'
  <2> SUFFICES ASSUME NEW i \in 1 .. Len(objs) + 1, NEW j \in 1 .. Len(objs) + 1, objs'[i] = objs'[j]
               PROVE  i = j
    BY <1>4 DEF Distinct
  <2>1. \A k \in 1 .. Len(objs) : objs'[k] # o
    BY <1>3, <1>4 DEF Objs
  <2> QED
    BY <1>4, <2>1 DEF IInv, Distinct
<1>7. /\ data' \in [Obj -> {"null", "A", "B", "lost"}]
      /\ \A p \in Obj : p # o => data'[p] = data[p]
      /\ o \in str => data'[o] \in {"A", "B"}
      /\ o \notin str => data'[o] = "null"
  BY <1>1, <1>3 DEF IInv, Types
<1>8. Types'
  BY <1>1, <1>2, <1>3, <1>4, <1>7, RootsAppended DEF IInv, Types
<1>9. Separate'
  BY <1>2, <1>3, <1>5, <1>7 DEF IInv, Separate
<1>10. (\A p : Kids(p)' = Kids(p)) /\ Kids(o) = {} /\ \A p : Holds(p)' <=> Holds(p)
  <2>1. \A i \in 1 .. Len(items[o]) : FALSE
    BY <1>3, EmptySeq
  <2> QED
    BY <1>2, <2>1 DEF Kids, Holds
<1>11. Safe'
  BY <1>1, <1>2, <1>3, <1>5, <1>10, RootsAppended DEF IInv, Safe
<1>12. Marking' /\ Moving'
  BY <1>2 DEF IInv, Marking, Moving
<1>13. DataSurvives'
  <2>1. Objs \subseteq Obj
    BY <1>3, ElementOfSeq DEF Objs
  <2>2. Holds(o) => o \in str
    BY <1>3 DEF Holds
  <2> QED
    BY <1>3, <1>5, <1>7, <1>10, <2>1, <2>2 DEF IInv, DataSurvives
<1> QED
  BY <1>6, <1>8, <1>9, <1>11, <1>12, <1>13 DEF IInv

LEMMA ChangeRootsStep ==
  ASSUME IInv, ChangeRoots
  PROVE  IInv'
<1>1. /\ pc = "run" /\ pc' = "run"
      /\ UNCHANGED <<objs, freed, threshold, items, ret, marked, dataVars, at, visiting, new>>
      /\ roots \in Seq(Value)
  BY DEF ChangeRoots, Heap, loopVars, IInv, Types
<1>2. roots' \in Seq(Value) /\ Roots' \subseteq Objs
  <2>1. CASE \E v \in Abstract!Known : roots' = Append(roots, v)
    <3>1. PICK v \in Abstract!Known : roots' = Append(roots, v)
      BY <2>1
    <3>2. {v} \cap Obj \subseteq Objs
      BY <1>1, KnownTracked DEF IInv
    <3>3. v \in Value
      BY CollectorAssumption, ReachedFacts DEF Abstract!Known, Reached, Value
    <3> QED
      BY <1>1, <3>1, <3>2, <3>3, RootsAppended DEF IInv, Safe
  <2>2. CASE roots # <<>> /\ roots' = SubSeq(roots, 1, Len(roots) - 1)
    <3>1. /\ roots' \in Seq(Value) /\ Len(roots') = Len(roots) - 1 /\ Len(roots) \in Nat
          /\ \A i \in 1 .. Len(roots) - 1 : roots'[i] = roots[i]
      BY <1>1, <2>2, FrontFacts
    <3>2. \A i \in 1 .. Len(roots') : i \in 1 .. Len(roots) /\ roots'[i] = roots[i]
      BY <3>1
    <3>3. Roots' \subseteq Roots
      BY <3>2 DEF Roots
    <3> QED
      BY <3>1, <3>3 DEF IInv, Safe
  <2> QED
    BY <2>1, <2>2 DEF ChangeRoots
<1>3. Objs' = Objs /\ (\A p : Kids(p)' = Kids(p)) /\ \A p : Holds(p)' <=> Holds(p)
  BY <1>1 DEF Objs, Kids, Holds, dataVars
<1>4. Types' /\ Distinct' /\ Separate'
  BY <1>1, <1>2, <1>3 DEF IInv, Types, Distinct, Separate, dataVars
<1>5. Safe' /\ Marking' /\ Moving' /\ DataSurvives'
  BY <1>1, <1>2, <1>3 DEF IInv, Safe, Marking, Moving, DataSurvives, dataVars
<1> QED
  BY <1>4, <1>5 DEF IInv

LEMMA ReturnStep ==
  ASSUME IInv, Return
  PROVE  IInv'
<1>1. /\ pc = "run" /\ pc' = "run" /\ ret' \in BOOLEAN
      /\ UNCHANGED <<objs, freed, threshold, items, roots, marked, dataVars, at, visiting, new>>
  BY DEF Return, Heap, loopVars, IInv, Types
<1>2. /\ Objs' = Objs /\ Roots' = Roots /\ (\A p : Kids(p)' = Kids(p))
      /\ \A p : Holds(p)' <=> Holds(p)
  BY <1>1, ReachedSame DEF Objs, Holds, dataVars
<1>3. Types' /\ Distinct' /\ Separate'
  BY <1>1, <1>2 DEF IInv, Types, Distinct, Separate, dataVars
<1>4. Safe' /\ Marking' /\ Moving' /\ DataSurvives'
  BY <1>1, <1>2 DEF IInv, Safe, Marking, Moving, DataSurvives, dataVars
<1> QED
  BY <1>3, <1>4 DEF IInv

(* Data that has room or grows is data afterwards. *)
LEMMA GrowFacts ==
  ASSUME IInv, NEW o \in Obj, Grow(o)
  PROVE  /\ data' \in [Obj -> {"null", "A", "B", "lost"}]
         /\ \A p \in Obj : p # o => data'[p] = data[p]
         /\ data'[o] # "null" /\ (data[o] # "lost" => data'[o] # "lost")
<1>1. memory[arena[o]] \in {"A", "B"}
  BY DEF IInv, Types
<1> QED
  BY <1>1, ZenonT(30) DEF Grow, IInv, Types

LEMMA ChangeItemsStep ==
  ASSUME IInv, ChangeItems
  PROVE  IInv'
<1>1. /\ pc = "run" /\ pc' = "run"
      /\ UNCHANGED <<objs, freed, threshold, roots, ret, marked, str, arena, memory, at, visiting, new>>
      /\ items \in [Obj -> Seq(Value)] /\ data \in [Obj -> {"null", "A", "B", "lost"}]
  BY DEF ChangeItems, Heap, loopVars, clientVars, IInv, Types
<1>2. PICK o \in Abstract!Known \cap Obj :
        \/ o \in str /\ UNCHANGED items /\ Grow(o)
        \/ Grow(o) /\ \E v \in Abstract!Known : Abstract!Store(o, v)
        \/ \E i \in 1 .. Len(items[o]) : Abstract!Take(o, i) /\ UNCHANGED data
  BY DEF ChangeItems
<1>3. /\ o \in Obj /\ o \in Objs /\ items[o] \in Seq(Value)
      /\ data[o] # "lost" /\ (Holds(o) => data[o] # "null") /\ Kids(o) \subseteq Objs
  BY <1>1, <1>2, KnownTracked DEF IInv, DataSurvives, Safe
<1> DEFINE Goal == /\ items' \in [Obj -> Seq(Value)] /\ data' \in [Obj -> {"null", "A", "B", "lost"}]
                   /\ \A p \in Obj : p # o => items'[p] = items[p] /\ data'[p] = data[p]
                   /\ Kids(o)' \subseteq Objs
                   /\ data'[o] # "lost" /\ (Holds(o)' => data'[o] # "null")
<1>4. ASSUME o \in str, UNCHANGED items, Grow(o) PROVE Goal
  BY <1>1, <1>3, <1>4, GrowFacts DEF Kids
<1>5. ASSUME NEW v \in Abstract!Known, Grow(o), Abstract!Store(o, v) PROVE Goal
  <2>1. {v} \cap Obj \subseteq Objs /\ v \in Value
    BY <1>1, <1>5, KnownTracked, CollectorAssumption, ReachedFacts, ZenonT(30)
       DEF IInv, Abstract!Known, Reached, Value
  <2>2. items' = [items EXCEPT ![o] = Append(items[o], v)]
    BY <1>5 DEF Abstract!Store
  <2>3. /\ Append(items[o], v) \in Seq(Value)
        /\ \A i \in 1 .. Len(Append(items[o], v)) :
             \/ Append(items[o], v)[i] = v
             \/ \E j \in 1 .. Len(items[o]) : Append(items[o], v)[i] = items[o][j]
    BY <1>3, <2>1, AppendFacts
  <2>4. /\ items' \in [Obj -> Seq(Value)] /\ items'[o] = Append(items[o], v)
        /\ \A p \in Obj : p # o => items'[p] = items[p]
    BY <1>1, <1>3, <2>2, <2>3
  <2>5. Kids(o)' \subseteq Kids(o) \cup ({v} \cap Obj)
    BY <2>3, <2>4 DEF Kids
  <2> QED
    BY <1>3, <1>5, <2>1, <2>4, <2>5, GrowFacts
<1>6. ASSUME NEW i \in 1 .. Len(items[o]), Abstract!Take(o, i), UNCHANGED data PROVE Goal
  <2> DEFINE t == SubSeq(items[o], 1, i - 1) \o SubSeq(items[o], i + 1, Len(items[o]))
  <2>1. t \in Seq(Value) /\ \A j \in 1 .. Len(t) : \E k \in 1 .. Len(items[o]) : t[j] = items[o][k]
    BY <1>3, TakeFacts
  <2>2. items' = [items EXCEPT ![o] = t]
    BY <1>6 DEF Abstract!Take
  <2> HIDE DEF t
  <2>3. /\ items' \in [Obj -> Seq(Value)] /\ items'[o] = t
        /\ \A p \in Obj : p # o => items'[p] = items[p]
    BY <1>1, <1>3, <2>1, <2>2
  <2>4. Kids(o)' \subseteq Kids(o)
    BY <2>1, <2>3 DEF Kids
  <2>5. Holds(o)
    <3>1. Len(items[o]) \in Nat /\ Len(<<>>) = 0
      BY <1>3, LenProperties, EmptySeq
    <3>2. items[o] # <<>>
      BY <1>6, <3>1
    <3> QED
      BY <3>2 DEF Holds
  <2> QED
    BY <1>1, <1>3, <1>6, <2>3, <2>4, <2>5
<1>7. Goal
  BY <1>2, <1>4, <1>5, <1>6
<1>8. Objs' = Objs /\ Roots' = Roots /\ Objs \subseteq Obj
  BY <1>1, ElementOfSeq DEF Objs, Roots, IInv, Types
<1>9. \A p \in Obj : p # o => Kids(p)' = Kids(p) /\ (Holds(p)' <=> Holds(p))
  BY <1>1, <1>7 DEF Kids, Holds
<1> HIDE DEF Goal
<1>10. Types' /\ Distinct'
  BY <1>1, <1>7 DEF IInv, Types, Distinct, Goal
<1>11. Separate'
  BY <1>1, <1>3, <1>7, <1>8 DEF IInv, Separate, Goal
<1>12. Safe' /\ DataSurvives'
  BY <1>1, <1>7, <1>8, <1>9, ZenonT(30) DEF IInv, Safe, DataSurvives, Goal
<1>13. Marking' /\ Moving'
  BY <1>1 DEF IInv, Marking, Moving
<1> QED
  BY <1>10, <1>11, <1>12, <1>13 DEF IInv

-----------------------------------------------------------------------------

LEMMA Initially == Init => IInv
<1> SUFFICES ASSUME Init PROVE IInv
  OBVIOUS
<1>1. /\ \A S : <<>> \in Seq(S)
      /\ Len(<<>>) = 0 /\ \A i \in 1 .. 0 : FALSE
  BY EmptySeq
<1>2. Types
  <2>1. /\ <<>> \in Seq(Obj) /\ <<>> \in Seq(Value) /\ <<>> \in Seq([obj : Obj, i : Nat \ {0}])
    BY <1>1
  <2>2. /\ items \in [Obj -> Seq(Value)] /\ data \in [Obj -> {"null", "A", "B", "lost"}]
        /\ arena \in [Obj -> {"from", "to"}]
    BY <2>1 DEF Init
  <2>3. /\ objs \in Seq(Obj) /\ roots \in Seq(Value) /\ visiting \in Seq([obj : Obj, i : Nat \ {0}])
    BY <2>1 DEF Init
  <2>4. /\ freed = {} /\ threshold = 0 /\ marked = {} /\ str = {} /\ new = {}
        /\ pc = "run" /\ at = 1
    BY DEF Init
  <2>6. ret \in BOOLEAN
    BY DEF Init
  <2>5. memory = [from |-> "A", to |-> "B"]
    BY DEF Init
  <2> QED
    BY <2>2, <2>3, <2>4, <2>5, <2>6 DEF Types
<1>3. Objs = {} /\ Roots = {}
  BY <1>1 DEF Init, Objs, Roots
<1>4. Distinct /\ Separate /\ Safe /\ Marking /\ Moving /\ DataSurvives
  BY <1>1, <1>3 DEF Init, Distinct, Separate, Safe, Marking, Moving, DataSurvives
<1> QED
  BY <1>2, <1>4 DEF IInv

LEMMA Inductive == IInv /\ [Next]_vars => IInv'
<1> SUFFICES ASSUME IInv, [Next]_vars PROVE IInv'
  OBVIOUS
<1>1. CASE Client
  BY <1>1, ChangeItemsStep, ChangeRootsStep, ReturnStep, GcAllocStep DEF Client
<1>2. CASE Collect
  BY <1>2, UnmarkStep, MarkRootStep, MarkItemStep, MarkedStep, CopyStep, CopiedStep, FreeStep,
     ResetStep DEF Collect
<1>3. CASE UNCHANGED vars
  <2>1. /\ UNCHANGED <<objs, freed, items, threshold, roots, ret, marked, str, data, arena, memory,
                       pc, at, visiting, new>>
    BY <1>3 DEF vars, clientVars, dataVars, loopVars
  <2>2. /\ Objs' = Objs /\ Roots' = Roots /\ Reached' = Reached
        /\ \A o : Kids(o)' = Kids(o) /\ (Holds(o)' <=> Holds(o)) /\ (Traced(o)' <=> Traced(o))
    BY <2>1, ReachedSame DEF Objs, Holds, Traced
  <2>3. Types' /\ Distinct' /\ Separate'
    BY <2>1, <2>2 DEF IInv, Types, Distinct, Separate
  <2>4. Safe' /\ Marking' /\ Moving' /\ DataSurvives'
    BY <2>1, <2>2 DEF IInv, Safe, Marking, Moving, DataSurvives
  <2> QED
    BY <2>3, <2>4 DEF IInv
<1> QED
  BY <1>1, <1>2, <1>3, RaiseStep, AddStep DEF Next

LEMMA Invariant == Spec => []IInv
BY Initially, Inductive, PTL DEF Spec

(* No tracked object ever points into an arena that has been reset, however *)
(* collections, growth from either arena and swaps alternate (the copy loop *)
(* and arena_reset at the end of eval_collect_garbage).                     *)
THEOREM DataIsKept == Spec => []DataSurvives
<1>1. IInv => DataSurvives
  BY DEF IInv
<1> QED
  BY <1>1, Invariant, PTL

(* gc_obj_mark leaves no object behind: also in the midst of its recursion, *)
(* through cycles, what an object it has finished points to is marked.      *)
THEOREM MarkingIsComplete == Spec => []NothingForgotten
<1>1. IInv => NothingForgotten
  BY DEF IInv, Marking, Traced, NothingForgotten
<1> QED
  BY <1>1, Invariant, PTL

-----------------------------------------------------------------------------
(* The refinement: an allocation is one step of RootedHeap, taken at Add.  *)

(* gc.objs holds as many objects as it has items. *)
LEMMA Counted ==
  ASSUME Types, Distinct
  PROVE  IsFiniteSet(Objs) /\ Cardinality(Objs) = Len(objs)
<1>1. objs \in [1 .. Len(objs) -> Objs] /\ Len(objs) \in Nat
  BY LenProperties DEF Types, Objs
<1>2. objs \in Bijection(1 .. Len(objs), Objs)
  BY <1>1 DEF Distinct, Objs, Bijection, Injection, Surjection, IsInjective
<1>3. ExistsBijection(1 .. Len(objs), Objs)
  BY <1>2 DEF ExistsBijection
<1> QED
  BY <1>1, <1>3, FS_CountingElements, FS_NatBijection

LEMMA ProgressGcAlloc ==
  ASSUME IInv, NEW o \in Obj, NEW s \in BOOLEAN, GcAlloc(o, s)
  PROVE  Progress'
<1>1. /\ pc = "run" /\ o \in Unused /\ new' = {o} /\ UNCHANGED <<objs, freed, ret>>
      /\ before' = [objs |-> Objs, freed |-> freed, threshold |-> threshold]
      /\ threshold' = IF threshold = 0 THEN GC_INIT_THRESHOLD ELSE threshold
      /\ pc' = IF Len(objs) < threshold' THEN "add" ELSE IF ret THEN "grow" ELSE "unmark"
  BY DEF GcAlloc, clientVars
<1>2. Objs' = Objs /\ Objs \subseteq Obj /\ Limit' = threshold' /\ ret' = ret
  BY <1>1, ElementOfSeq DEF Objs, Limit, IInv, Types
<1>3. Len(objs) \in Nat /\ threshold' \in Nat /\ Cardinality(Objs) = Len(objs)
  BY <1>1, Counted, LenProperties, CollectorAssumption DEF IInv, Types
<1>4. WasFull' <=> ~(Len(objs) < threshold')
  BY <1>1, <1>2, <1>3 DEF WasFull
<1>5. Survives' = IF WasFull' /\ ~ret THEN Objs \cap Reached' ELSE Objs
  BY <1>1 DEF Survives
<1>6. pc' = "add" => ~WasFull' /\ threshold' = Raised'
  BY <1>1, <1>2, <1>4 DEF Raised
<1> QED
  BY <1>1, <1>2, <1>4, <1>5, <1>6 DEF Progress, Unused

(* What the loops do to the heap, when it is not the sweep. *)
LEMMA ProgressSame ==
  ASSUME Progress, InHeap, pc # "run",
         \/ pc \in {"unmark", "mark"} /\ pc' \in {"mark", "copy"}
         \/ pc = "copy" /\ pc' \in {"copy", "free"}
  PROVE  Progress'
<1>1. Objs' = Objs /\ Survives' = Survives /\ WasFull' = WasFull /\ ret' = ret
  BY ReachedSame DEF InHeap, clientVars, Objs, Survives, WasFull, Limit
<1> QED
  BY <1>1 DEF Progress, InHeap, clientVars

LEMMA ProgressFree ==
  ASSUME IInv, Progress, Free
  PROVE  Progress'
<1>1. /\ pc = "free" /\ at \in 1 .. Len(objs) /\ objs \in Seq(Obj) /\ objs[at] \in Objs
      /\ UNCHANGED <<items, threshold, roots, ret, new, before, pc>>
  BY LenProperties DEF Free, IInv, Types, clientVars, Objs
<1>2. WasFull' = WasFull
  BY <1>1 DEF WasFull, Limit
<1>3. CASE objs[at] \in marked
  <2>1. UNCHANGED <<objs, freed>> /\ Objs' = Objs
    BY <1>1, <1>3 DEF Free, Objs
  <2> QED
    BY <1>1, <1>2, <2>1 DEF Progress
<1>4. CASE objs[at] \notin marked
  <2>1. RemoveUnordered(at) /\ freed' = freed \cup {objs[at]}
    BY <1>1, <1>4 DEF Free
  <2>2. Objs' = Objs \ {objs[at]}
    BY <1>1, <2>1, RemoveFacts DEF IInv
  <2> QED
    BY <1>1, <1>2, <2>1, <2>2 DEF Progress
<1> QED
  BY <1>3, <1>4

(* The sweep has kept what the roots reach, and freed the rest. *)
LEMMA ProgressReset ==
  ASSUME IInv, Progress, ResetAndSwap
  PROVE  Progress'
<1>1. InHeap /\ pc = "free" /\ pc' = "grow" /\ at > Len(objs)
  BY DEF ResetAndSwap, Goto
<1>2. /\ Objs' = Objs /\ Survives' = Survives /\ WasFull' = WasFull
      /\ UNCHANGED <<freed, ret, new, before>>
  BY <1>1, ReachedSame DEF InHeap, clientVars, Objs, Survives, WasFull, Limit
<1>3. Objs = Reached
  <2>1. Len(objs) \in Nat /\ at \in Nat
    BY LenProperties DEF IInv, Types
  <2>2. Objs \subseteq marked
    BY <1>1, <2>1 DEF IInv, Moving, Objs
  <2> QED
    BY <1>1, <2>2, AfterMarking
<1>4. Objs = Survives
  BY <1>1, <1>3 DEF Progress, Survives
<1> QED
  BY <1>1, <1>2, <1>4 DEF Progress

LEMMA ProgressRaise ==
  ASSUME IInv, Progress, Raise
  PROVE  Progress'
<1>1. /\ pc = "grow" /\ pc' = "add"
      /\ UNCHANGED <<objs, freed, items, roots, ret, new, before>>
  BY DEF Raise, clientVars
<1>2. /\ Objs' = Objs /\ Survives' = Survives /\ WasFull' = WasFull /\ Limit' = Limit
  BY <1>1, ReachedSame DEF Objs, Survives, WasFull, Limit
<1>3. /\ Objs = Survives /\ WasFull /\ IsFiniteSet(Objs) /\ Cardinality(Objs) = Len(objs)
  BY <1>1, Counted DEF Progress, IInv
<1>4. Len(objs) = 0 <=> Survives = {}
  BY <1>3, FS_EmptySet
<1>5. threshold' = Raised
  BY <1>3, <1>4 DEF Raise, Raised, Abstract!Grown
<1>6. Raised' = Raised
  BY <1>2 DEF Raised, Abstract!Grown
<1> QED
  BY <1>1, <1>2, <1>3, <1>5, <1>6 DEF Progress

LEMMA ProgressInductive == IInv /\ Progress /\ [Next]_vars => Progress'
<1> SUFFICES ASSUME IInv, Progress, [Next]_vars PROVE Progress'
  OBVIOUS
<1>1. CASE Client
  BY <1>1, ProgressGcAlloc DEF Client, ChangeItems, ChangeRoots, Return, Heap, loopVars, Progress
<1>2. CASE Unmark \/ MarkRoot \/ MarkItem \/ Marked \/ Copy \/ Copied
  BY <1>2, ProgressSame DEF Unmark, MarkRoot, MarkItem, Marked, Copy, Copied, Goto
<1>3. CASE Free \/ ResetAndSwap \/ Raise
  BY <1>3, ProgressFree, ProgressReset, ProgressRaise
<1>4. CASE Add
  BY <1>4 DEF Add, Progress
<1>5. CASE UNCHANGED vars
  <2>1. UNCHANGED <<objs, freed, items, threshold, roots, ret, pc, new, before>>
    BY <1>5 DEF vars, clientVars, dataVars, loopVars
  <2>2. /\ Objs' = Objs /\ Survives' = Survives /\ WasFull' = WasFull /\ Raised' = Raised
    BY <2>1, ReachedSame DEF Objs, Survives, WasFull, Limit, Raised, Abstract!Grown
  <2> QED
    BY <2>1, <2>2 DEF Progress
<1> QED
  BY <1>1, <1>2, <1>3, <1>4, <1>5 DEF Next, Collect

(* What the client does between allocations it does in RootedHeap. *)
LEMMA ClientMaps ==
  ASSUME IInv, ChangeItems \/ ChangeRoots \/ Return
  PROVE  Abstract!Client \/ UNCHANGED <<Abstract!heapVars, Abstract!client>>
<1>1. /\ pc = "run" /\ pc' = "run" /\ UNCHANGED <<objs, freed, threshold>> /\ Objs' = Objs
  BY DEF ChangeItems, ChangeRoots, Return, Heap, loopVars, Objs
<1>2. CASE ChangeItems
  <2>1. UNCHANGED <<roots, ret>>
    BY <1>2 DEF ChangeItems, clientVars
  <2>2. CASE UNCHANGED items
    BY <1>1, <2>1, <2>2 DEF Abstract!heapVars, Abstract!client
  <2>3. CASE items' # items
    <3>1. \E o \in Abstract!Known \cap Obj :
            \/ \E v \in Abstract!Known : Len(items[o]) < MaxItems /\ Abstract!Store(o, v)
            \/ \E i \in 1 .. Len(items[o]) : Abstract!Take(o, i)
      BY <1>2, <2>3 DEF ChangeItems
    <3> QED
      BY <1>1, <2>1, <3>1 DEF Abstract!Client, Abstract!ChangeItems
  <2> QED
    BY <2>2, <2>3
<1>3. CASE ChangeRoots
  <2>1. UNCHANGED <<items, ret>>
    BY <1>3 DEF ChangeRoots
  <2>2. \/ \E v \in Abstract!Known : Len(roots) < MaxRoots /\ roots' = Append(roots, v)
        \/ roots # <<>> /\ roots' = SubSeq(roots, 1, Len(roots) - 1)
    BY <1>3 DEF ChangeRoots
  <2> QED
    BY <1>1, <2>1, <2>2 DEF Abstract!Client, Abstract!ChangeRoots, Abstract!heapVars
<1>4. CASE Return
  <2>1. ret' = ~ret /\ UNCHANGED <<items, roots>>
    BY <1>4 DEF Return
  <2> QED
    BY <1>1, <2>1 DEF Abstract!Client, Abstract!Return, Abstract!heapVars
<1> QED
  BY <1>2, <1>3, <1>4

(* The client sees nothing of an allocation that runs. *)
LEMMA LoopMaps ==
  ASSUME Collect \/ Raise \/ \E o \in Obj, s \in BOOLEAN : GcAlloc(o, s)
  PROVE  UNCHANGED <<Abstract!heapVars, Abstract!client>>
<1>1. UNCHANGED <<items, roots, ret>> /\ pc' # "run"
  BY DEF Collect, Unmark, MarkRoot, MarkItem, Marked, Copy, Copied, Free, ResetAndSwap, Raise,
         GcAlloc, InHeap, clientVars, Goto
<1>2. CASE pc # "run" /\ before' = before
  BY <1>1, <1>2 DEF Abstract!heapVars, Abstract!client
<1>3. CASE pc = "run" /\ before' = [objs |-> Objs, freed |-> freed, threshold |-> threshold]
  BY <1>1, <1>3 DEF Abstract!heapVars, Abstract!client
<1> QED
  BY <1>2, <1>3 DEF Collect, Unmark, MarkRoot, MarkItem, Marked, Copy, Copied, Free, ResetAndSwap,
     Raise, GcAlloc, InHeap

(* RootedHeap counts as Collector does. *)
LEMMA SameCount == \A S : Abstract!Cardinality(S) = Cardinality(S)
BY DEF Abstract!Cardinality, Cardinality

(* When the object is added, what has happened since the call is Alloc. *)
LEMMA AddMaps ==
  ASSUME IInv, Progress, Add
  PROVE  \E o \in Obj : Abstract!New(o)
<1>1. PICK o \in new : objs' = Append(objs, o) /\ roots' = Append(roots, o)
  BY DEF Add
<1>2. pc = "add" /\ pc' = "run" /\ UNCHANGED <<freed, items, threshold, ret>>
  BY DEF Add
<1>3. o \in Obj /\ objs \in Seq(Obj)
  BY DEF IInv, Types
<1>4. Objs' = Objs \cup {o}
  <2>1. /\ Len(objs') = Len(objs) + 1 /\ objs'[Len(objs) + 1] = o /\ Len(objs) \in Nat
        /\ \A i \in 1 .. Len(objs) : objs'[i] = objs[i]
        /\ \A i \in 1 .. Len(objs) + 1 : i \in 1 .. Len(objs) \/ i = Len(objs) + 1
    BY <1>1, <1>3, AppendFacts, LenProperties
  <2>2. Len(objs) + 1 \in 1 .. Len(objs') /\ \A i \in 1 .. Len(objs) : i \in 1 .. Len(objs')
    BY <2>1
  <2> QED
    BY <2>1, <2>2 DEF Objs
<1>5. /\ Objs = Survives /\ threshold = Raised
      /\ freed = before.freed \cup (before.objs \ Objs)
      /\ o \notin before.objs \cup before.freed
  BY <1>2 DEF Progress
<1>6. /\ Abstract!Full <=> WasFull
      /\ Abstract!Threshold = Limit
      /\ Abstract!Unused = Obj \ (before.objs \cup before.freed)
  <2>1. Abstract!Threshold = Limit
    BY <1>2 DEF Abstract!Threshold, Limit
  <2>2. Abstract!Full <=> WasFull
    BY <1>2, <2>1, SameCount DEF Abstract!Full, WasFull
  <2> QED
    BY <1>2, <2>1, <2>2 DEF Abstract!Unused
<1>7. Abstract!Alloc(o, Abstract!RootSet, ~ret)
  <2>1. Survives = IF Abstract!Full /\ ~ret THEN before.objs \cap Abstract!Reach(Abstract!RootSet)
                   ELSE before.objs
    BY <1>6 DEF Survives, Reached
  <2>2. Raised = IF ~Abstract!Full THEN Abstract!Threshold
                 ELSE IF Survives = {} THEN GC_INIT_THRESHOLD
                 ELSE Abstract!Grown(Cardinality(Survives))
    BY <1>6 DEF Raised
  <2>3. o \in Abstract!Unused
    BY <1>3, <1>5, <1>6
  <2>4. Objs' = Survives \cup {o} /\ freed' = before.freed \cup (before.objs \ Survives)
    BY <1>2, <1>4, <1>5
  <2>5. threshold' = Raised
    BY <1>2, <1>5
  <2> QED
    BY <1>2, <2>1, <2>2, <2>3, <2>4, <2>5, SameCount DEF Abstract!Alloc
<1>8. Abstract!New(o)
  BY <1>1, <1>2, <1>7 DEF Abstract!New
<1> QED
  BY <1>3, <1>8

(* The mark, copy and sweep loops keep what RootedHeap promises: whatever   *)
(* the client does before and after, an allocation frees exactly the        *)
(* objects that its roots do not reach, or none while a return is unwound,  *)
(* and moves the threshold accordingly (src/eval.c:742-881).                *)
THEOREM KeepsPromise == Spec => Promise
<1>1. Init => Abstract!Init
  <2> SUFFICES ASSUME Init PROVE Abstract!Init
    OBVIOUS
  <2>1. Objs = {}
    <3>1. Len(<<>>) = 0 /\ \A i \in 1 .. 0 : FALSE
      BY EmptySeq
    <3> QED
      BY <3>1 DEF Init, Objs
  <2> QED
    BY <2>1 DEF Init, Abstract!Init, Abstract!HeapInit
<1>2. Init => Progress
  BY DEF Init, Progress
<1>3. IInv /\ Progress /\ [Next]_vars => [Abstract!Next]_<<Abstract!heapVars, Abstract!client>>
  <2> SUFFICES ASSUME IInv, Progress, [Next]_vars
               PROVE  Abstract!Next \/ UNCHANGED <<Abstract!heapVars, Abstract!client>>
    OBVIOUS
  <2>1. CASE Client
    BY <2>1, ClientMaps, LoopMaps DEF Client, Abstract!Next
  <2>2. CASE Collect \/ Raise
    BY <2>2, LoopMaps
  <2>3. CASE Add
    BY <2>3, AddMaps DEF Abstract!Next
  <2>4. CASE UNCHANGED vars
    BY <2>4 DEF vars, clientVars, dataVars, loopVars, Objs, Abstract!heapVars, Abstract!client
  <2> QED
    BY <2>1, <2>2, <2>3, <2>4 DEF Next
<1> QED
  BY <1>1, <1>2, <1>3, ProgressInductive, Invariant, PTL DEF Spec, Promise, Abstract!Promise

-----------------------------------------------------------------------------
(* What the loops have left to do.                                         *)

\* No loop of the marking has gone further than one past its end.
Within(s) == \A j \in 1 .. Len(s) : s[j].i <= Len(items[s[j].obj]) + 1
Bounded   == pc = "mark" => at <= Len(roots) + 1 /\ Within(visiting)

(* Four numbers are what Turns is to be. *)
LEMMA Four ==
  ASSUME NEW a \in Nat, NEW b \in Nat, NEW c \in Nat, NEW d \in Nat
  PROVE  <<a, b, c, d>> \in [1 .. 4 -> Nat]
OBVIOUS

(* Fewer of the first, or as many and fewer of the next. *)
LEMMA FewerFirst ==
  ASSUME NEW a, NEW b, NEW c, NEW d, NEW e \in Nat, NEW f, NEW g, NEW h, a \in Nat, a < e
  PROVE  Shorter(<<a, b, c, d>>, <<e, f, g, h>>)
BY DEF Shorter

LEMMA FewerSecond ==
  ASSUME NEW a, NEW b \in Nat, NEW c, NEW d, NEW f \in Nat, NEW g, NEW h, b < f
  PROVE  Shorter(<<a, b, c, d>>, <<a, f, g, h>>)
<1> DEFINE s == <<a, b, c, d>>
           t == <<a, f, g, h>>
<1>1. 2 \in 1 .. 4 /\ s[2] < t[2] /\ \A j \in 1 .. 2 - 1 : s[j] = t[j]
  OBVIOUS
<1> QED
  BY <1>1 DEF Shorter

LEMMA FewerThird ==
  ASSUME NEW a, NEW b, NEW c \in Nat, NEW d, NEW g \in Nat, NEW h, c < g
  PROVE  Shorter(<<a, b, c, d>>, <<a, b, g, h>>)
<1> DEFINE s == <<a, b, c, d>>
           t == <<a, b, g, h>>
<1>1. 3 \in 1 .. 4 /\ s[3] < t[3] /\ \A j \in 1 .. 3 - 1 : s[j] = t[j]
  OBVIOUS
<1> QED
  BY <1>1 DEF Shorter

LEMMA FewerFourth ==
  ASSUME NEW a, NEW b, NEW c, NEW d \in Nat, NEW h \in Nat, d < h
  PROVE  Shorter(<<a, b, c, d>>, <<a, b, c, h>>)
<1> DEFINE s == <<a, b, c, d>>
           t == <<a, b, c, h>>
<1>1. 4 \in 1 .. 4 /\ s[4] < t[4] /\ \A j \in 1 .. 4 - 1 : s[j] = t[j]
  OBVIOUS
<1> QED
  BY <1>1 DEF Shorter

(* gc_obj_mark marks one more object, or it returns at once. *)
LEMMA VisitLeft ==
  ASSUME items' = items, NEW v, NEW rest \in Seq(Activation), Within(rest), Visit(v, rest),
         marked \subseteq Obj, items \in [Obj -> Seq(Value)]
  PROVE  /\ Within(visiting)' /\ visiting' \in Seq(Activation)
         /\ \/ v \in Obj \ marked /\ marked' = marked \cup {v}
            \/ marked' = marked /\ visiting' = rest
<1>1. CASE v \in Obj \ marked
  <2> DEFINE a == [obj |-> v, i |-> 1]
  <2>1. /\ marked' = marked \cup {v} /\ visiting' = Append(rest, a)
        /\ a \in Activation /\ a.obj = v /\ a.i = 1
    BY <1>1 DEF Visit, Activation
  <2> HIDE DEF a
  <2>2. /\ visiting' \in Seq(Activation) /\ Len(visiting') = Len(rest) + 1
        /\ visiting'[Len(rest) + 1] = a
        /\ \A j \in 1 .. Len(rest) : visiting'[j] = rest[j]
        /\ \A j \in 1 .. Len(rest) + 1 : j \in 1 .. Len(rest) \/ j = Len(rest) + 1
    BY <2>1, AppendFacts
  <2>3. items[v] \in Seq(Value)
    BY <1>1
  <2>4. Len(items[v]) \in Nat
    BY <2>3, LenProperties
  <2>5. 1 <= Len(items[v]) + 1
    BY <2>4
  <2>6. ASSUME NEW j \in 1 .. Len(visiting') PROVE visiting'[j].i <= Len(items[visiting'[j].obj]) + 1
    <3>1. CASE j \in 1 .. Len(rest)
      BY <2>2, <3>1 DEF Within
    <3>2. CASE j = Len(rest) + 1
      BY <2>1, <2>2, <2>5, <3>2
    <3> QED
      BY <2>2, <2>6, <3>1, <3>2
  <2>7. Within(visiting)'
    BY <2>6 DEF Within
  <2> QED
    BY <1>1, <2>1, <2>2, <2>7
<1>2. CASE v \notin Obj \ marked
  <2>1. marked' = marked /\ visiting' = rest
    BY <1>2 DEF Visit
  <2>2. Within(visiting)'
    BY <2>1 DEF Within
  <2> QED
    BY <2>1, <2>2
<1> QED
  BY <1>1, <1>2

(* What is left unmarked is finite, and less when one more is marked. *)
LEMMA Unmarked ==
  ASSUME marked \subseteq Obj
  PROVE  /\ Cardinality(Obj \ marked) \in Nat
         /\ \A v \in Obj \ marked : Cardinality(Obj \ (marked \cup {v})) = Cardinality(Obj \ marked) - 1
<1>1. IsFiniteSet(Obj \ marked)
  BY CollectorAssumption, FS_Subset
<1>2. ASSUME NEW v \in Obj \ marked
      PROVE  Cardinality(Obj \ (marked \cup {v})) = Cardinality(Obj \ marked) - 1
  <2>1. Obj \ (marked \cup {v}) = (Obj \ marked) \ {v}
    OBVIOUS
  <2> QED
    BY <1>1, <2>1, FS_RemoveElement
<1> QED
  BY <1>1, <1>2, FS_CardinalityType

(* The activation on top has no less than no item left. *)
LEMMA TopLeftNat ==
  ASSUME items \in [Obj -> Seq(Value)], NEW s \in Seq(Activation), Within(s)
  PROVE  (IF s = <<>> THEN 0
          ELSE LET top == s[Len(s)] IN Len(items[top.obj]) + 1 - top.i) \in Nat
<1>1. CASE s # <<>>
  <2>1. Len(s) \in 1 .. Len(s) /\ s[Len(s)] \in Activation
    <3>1. Len(s) \in Nat \ {0}
      BY <1>1, FrontFacts
    <3>2. Len(s) \in 1 .. Len(s)
      BY <3>1
    <3> QED
      BY <3>2, ElementOfSeq
  <2> DEFINE top == s[Len(s)]
  <2>2. top.obj \in Obj /\ top.i \in Nat \ {0} /\ top.i <= Len(items[top.obj]) + 1
    BY <2>1 DEF Within, Activation
  <2> HIDE DEF top
  <2>3. items[top.obj] \in Seq(Value)
    BY <2>2
  <2>4. Len(items[top.obj]) \in Nat
    BY <2>3, LenProperties
  <2>5. Len(items[top.obj]) + 1 - top.i \in Nat
    BY <2>2, <2>4
  <2> QED
    BY <1>1, <2>5 DEF top
<1> QED
  BY <1>1

(* A step of the marking that marks an object leaves fewer to mark. *)
LEMMA MarksOne ==
  ASSUME IInv, pc = "mark", UNCHANGED <<items, roots, pc>>, Bounded',
         visiting' \in Seq(Activation), at' \in Nat,
         NEW v \in Obj \ marked, marked' = marked \cup {v}
  PROVE  Turns' \in [1 .. 4 -> Nat] /\ Shorter(Turns', Turns)
<1>1. items \in [Obj -> Seq(Value)] /\ roots \in Seq(Value) /\ marked \subseteq Obj
  BY DEF IInv, Types
<1>2. Len(roots) \in Nat
  BY <1>1, LenProperties
<1>3. TopLeft' \in Nat
  BY <1>1, TopLeftNat DEF TopLeft, Bounded, Within
<1>4. Len(visiting') \in Nat /\ Len(roots') + 1 - at' \in Nat
  BY <1>2, LenProperties DEF Bounded
<1>5. /\ Cardinality(Obj \ marked) \in Nat /\ Cardinality(Obj \ marked') \in Nat
      /\ Cardinality(Obj \ marked') < Cardinality(Obj \ marked)
  <2>1. marked' \subseteq Obj
    BY <1>1
  <2>2. IsFiniteSet(Obj \ marked')
    BY CollectorAssumption, FS_Subset
  <2>3. Cardinality(Obj \ marked') \in Nat
    BY <2>2, FS_CardinalityType
  <2>4. Cardinality(Obj \ marked) \in Nat /\ Cardinality(Obj \ marked') = Cardinality(Obj \ marked) - 1
    BY <1>1, Unmarked
  <2> QED
    BY <2>3, <2>4
<1>6. /\ Turns  = <<Cardinality(Obj \ marked), Len(roots) + 1 - at, Len(visiting), TopLeft>>
      /\ Turns' = <<Cardinality(Obj \ marked'), Len(roots') + 1 - at', Len(visiting'), TopLeft'>>
  BY DEF Turns
<1>7. Turns' \in [1 .. 4 -> Nat]
  BY <1>3, <1>4, <1>5, <1>6, Four
<1>8. Shorter(Turns', Turns)
  BY <1>5, <1>6, FewerFirst
<1> QED
  BY <1>7, <1>8

(* Every call of gc_obj_mark from a root marks the root or returns, and the *)
(* loop comes to the next one.                                              *)
LEMMA MarkRootLeft ==
  ASSUME IInv, Bounded, MarkRoot
  PROVE  Bounded' /\ Turns' \in [1 .. 4 -> Nat] /\ Shorter(Turns', Turns)
<1>1. /\ pc = "mark" /\ visiting = <<>> /\ at \in 1 .. Len(roots) /\ at' = at + 1
      /\ Visit(roots[at], <<>>) /\ UNCHANGED <<items, roots, pc>>
      /\ at \in Nat /\ Len(roots) \in Nat /\ marked \subseteq Obj
      /\ items \in [Obj -> Seq(Value)]
  BY LenProperties DEF MarkRoot, InHeap, clientVars, IInv, Types
<1>2. <<>> \in Seq(Activation) /\ Within(<<>>)
  BY EmptySeq DEF Within
<1>3. /\ Within(visiting)' /\ visiting' \in Seq(Activation)
      /\ \/ roots[at] \in Obj \ marked /\ marked' = marked \cup {roots[at]}
         \/ marked' = marked /\ visiting' = <<>>
  BY <1>1, <1>2, VisitLeft
<1>4. Bounded'
  BY <1>1, <1>3 DEF Bounded
<1>5. CASE roots[at] \in Obj \ marked /\ marked' = marked \cup {roots[at]}
  BY <1>1, <1>3, <1>4, <1>5, MarksOne
<1>6. CASE marked' = marked /\ visiting' = <<>>
  <2>1. TopLeft = 0 /\ TopLeft' = 0 /\ Len(visiting) = 0 /\ Len(visiting') = 0
    BY <1>1, <1>6, EmptySeq DEF TopLeft
  <2> DEFINE c == Cardinality(Obj \ marked)
             r == Len(roots) + 1 - at
  <2>2. c \in Nat /\ r \in Nat /\ r - 1 \in Nat /\ r - 1 < r /\ Len(roots') + 1 - at' = r - 1
    BY <1>1, Unmarked
  <2>3. Turns = <<c, r, 0, 0>>
    BY <1>1, <2>1 DEF Turns
  <2>4. Turns' = <<c, r - 1, 0, 0>>
    BY <1>1, <1>6, <2>1, <2>2 DEF Turns
  <2> HIDE DEF c, r
  <2>5. Turns' \in [1 .. 4 -> Nat]
    BY <2>2, <2>4, Four
  <2>6. Shorter(Turns', Turns)
    BY <2>2, <2>3, <2>4, FewerSecond
  <2> QED
    BY <1>4, <2>5, <2>6
<1> QED
  BY <1>3, <1>5, <1>6

(* An item that is marked already, or is no object, is one item less of the *)
(* activation on top; without items left there is one activation less.     *)
LEMMA MarkItemLeft ==
  ASSUME IInv, Bounded, MarkItem
  PROVE  Bounded' /\ Turns' \in [1 .. 4 -> Nat] /\ Shorter(Turns', Turns)
<1> DEFINE n    == Len(visiting)
           top  == visiting[n]
           rest == SubSeq(visiting, 1, n - 1)
           more == [top EXCEPT !.i = @ + 1]
           c    == Cardinality(Obj \ marked)
           r    == Len(roots) + 1 - at
<1>1. /\ pc = "mark" /\ visiting # <<>> /\ UNCHANGED <<items, roots, pc, at>>
      /\ IF top.i <= Len(items[top.obj])
         THEN Visit(items[top.obj][top.i], Append(rest, more))
         ELSE visiting' = rest /\ UNCHANGED marked
  BY DEF MarkItem, InHeap, clientVars
<1>2. /\ visiting \in Seq(Activation) /\ items \in [Obj -> Seq(Value)] /\ at \in Nat
      /\ roots \in Seq(Value) /\ marked \subseteq Obj
      /\ at <= Len(roots) + 1 /\ Within(visiting)
  BY <1>1 DEF IInv, Types, Activation, Bounded
<1>3. /\ n \in Nat \ {0} /\ rest \in Seq(Activation) /\ Len(rest) = n - 1
      /\ \A j \in 1 .. n - 1 : rest[j] = visiting[j]
  BY <1>1, <1>2, FrontFacts
<1>4. /\ top \in Activation /\ top.obj \in Obj /\ top.i \in Nat \ {0}
      /\ Len(items[top.obj]) \in Nat
  <2>1. top \in Activation
    <3>1. n \in 1 .. n
      BY <1>3
    <3> QED
      BY <1>2, <3>1, ElementOfSeq
  <2>2. top.obj \in Obj /\ top.i \in Nat \ {0}
    BY <2>1 DEF Activation
  <2> HIDE DEF top
  <2>3. items[top.obj] \in Seq(Value)
    BY <1>2, <2>2
  <2> QED
    BY <2>1, <2>2, <2>3, LenProperties
<1>5. more \in Activation /\ more.obj = top.obj /\ more.i = top.i + 1
  BY <1>4 DEF Activation
<1>6. TopLeft = Len(items[top.obj]) + 1 - top.i
  BY <1>1 DEF TopLeft
<1>7. Within(rest)
  BY <1>2, <1>3 DEF Within
<1>8. c \in Nat /\ r \in Nat
  BY <1>2, Unmarked, LenProperties
<1>9. Turns = <<c, r, n, TopLeft>> /\ (marked' = marked => Turns' = <<c, r, Len(visiting'), TopLeft'>>)
  BY <1>1 DEF Turns
<1>10. TopLeft \in Nat
  BY <1>2, TopLeftNat DEF TopLeft
<1> HIDE DEF n, top, rest, more, c, r
<1>11. CASE ~(top.i <= Len(items[top.obj]))
  <2>1. visiting' = rest /\ marked' = marked
    BY <1>1, <1>11
  <2>2. Bounded'
    BY <1>1, <1>2, <1>7, <2>1 DEF Bounded, Within
  <2>3. TopLeft' \in Nat
    BY <1>1, <1>2, <1>3, <1>7, <2>1, TopLeftNat DEF TopLeft
  <2>4. Turns' = <<c, r, n - 1, TopLeft'>> /\ n - 1 \in Nat /\ n - 1 < n /\ n \in Nat
    BY <1>3, <1>9, <2>1
  <2>5. Turns' \in [1 .. 4 -> Nat]
    BY <1>8, <2>3, <2>4, Four
  <2>6. Shorter(Turns', Turns)
    BY <1>9, <2>4, FewerThird
  <2> QED
    BY <2>2, <2>5, <2>6
<1>12. CASE top.i <= Len(items[top.obj])
  <2> DEFINE v == items[top.obj][top.i]
             s == Append(rest, more)
  <2>1. Visit(v, s)
    BY <1>1, <1>12
  <2>2. /\ s \in Seq(Activation) /\ Len(s) = n /\ s[n] = more
        /\ \A j \in 1 .. n - 1 : s[j] = rest[j]
        /\ \A j \in 1 .. n : j \in 1 .. n - 1 \/ j = n
    BY <1>3, <1>5, AppendFacts
  <2> HIDE DEF s, v
  <2>3. Within(s)
    <3>1. more.i <= Len(items[more.obj]) + 1
      BY <1>4, <1>5, <1>12
    <3> QED
      BY <1>3, <1>7, <2>2, <3>1 DEF Within
  <2>4. /\ Within(visiting)' /\ visiting' \in Seq(Activation)
        /\ \/ v \in Obj \ marked /\ marked' = marked \cup {v}
           \/ marked' = marked /\ visiting' = s
    BY <1>1, <1>2, <2>1, <2>2, <2>3, VisitLeft
  <2>5. Bounded'
    BY <1>1, <1>2, <2>4 DEF Bounded
  <2>6. CASE v \in Obj \ marked /\ marked' = marked \cup {v}
    BY <1>1, <1>2, <2>4, <2>5, <2>6, MarksOne
  <2>7. CASE marked' = marked /\ visiting' = s
    <3>1. s # <<>>
      BY <1>3, <2>2, EmptySeq
    <3>2. TopLeft' = Len(items[more.obj]) + 1 - more.i
      BY <1>1, <2>2, <2>7, <3>1 DEF TopLeft
    <3>3. TopLeft' \in Nat /\ TopLeft' < TopLeft
      BY <1>4, <1>5, <1>6, <1>12, <3>2
    <3>4. Turns' = <<c, r, n, TopLeft'>>
      BY <1>9, <2>2, <2>7
    <3>5. Turns' \in [1 .. 4 -> Nat]
      BY <1>3, <1>8, <3>3, <3>4, Four
    <3>6. Shorter(Turns', Turns)
      BY <1>9, <1>10, <3>3, <3>4, FewerFourth
    <3> QED
      BY <2>5, <3>5, <3>6
  <2> QED
    BY <2>4, <2>6, <2>7
<1> QED
  BY <1>11, <1>12

(* The copy takes the next object; the sweep too, or the array is shorter. *)
LEMMA SweepLeft ==
  ASSUME IInv, Copy \/ Free
  PROVE  pc' = pc /\ pc # "mark" /\ Turns' \in [1 .. 4 -> Nat] /\ Shorter(Turns', Turns)
<1> DEFINE l == Len(objs) + 1 - at
<1>1. /\ pc \in {"copy", "free"} /\ pc' = pc /\ at \in 1 .. Len(objs)
      /\ at \in Nat /\ Len(objs) \in Nat /\ objs \in Seq(Obj) /\ Distinct
  BY LenProperties DEF Copy, Free, IInv, Types
<1>2. Len(objs') + 1 - at' = l - 1
  <2>1. CASE at' = at + 1 /\ objs' = objs
    BY <1>1, <2>1
  <2>2. CASE at' = at /\ RemoveUnordered(at)
    <3>1. Len(objs') = Len(objs) - 1
      BY <1>1, <2>2, RemoveFacts
    <3> QED
      BY <1>1, <2>2, <3>1
  <2> QED
    BY <2>1, <2>2 DEF Copy, Free, InHeap
<1>3. l \in Nat /\ l - 1 \in Nat /\ l - 1 < l /\ 0 \in Nat
  BY <1>1
<1>4. Turns = <<l, 0, 0, 0>> /\ Turns' = <<l - 1, 0, 0, 0>>
  BY <1>1, <1>2 DEF Turns
<1> HIDE DEF l
<1>5. Turns' \in [1 .. 4 -> Nat]
  BY <1>3, <1>4, Four
<1>6. Shorter(Turns', Turns)
  BY <1>3, <1>4, FewerFirst
<1> QED
  BY <1>1, <1>5, <1>6

(* Out of a loop only the ones that follow it are left. *)
LEMMA LoopLeft ==
  ASSUME Unmark \/ Marked \/ Copied \/ ResetAndSwap \/ Raise \/ Add
  PROVE  pc # "run" /\ Ahead[pc'] < Ahead[pc]
BY DEF Unmark, Marked, Copied, ResetAndSwap, Raise, Add, Goto, Ahead

LEMMA BoundedStep == IInv /\ Bounded /\ [Next]_vars => Bounded'
<1> SUFFICES ASSUME IInv, Bounded, [Next]_vars PROVE Bounded'
  OBVIOUS
<1>1. CASE Client
  BY <1>1 DEF Client, ChangeItems, ChangeRoots, Return, GcAlloc, Heap, loopVars, Bounded
<1>2. CASE Unmark
  <2>1. visiting = <<>> /\ visiting' = <<>> /\ at' = 1 /\ roots' = roots
    BY <1>2 DEF Unmark, Goto, InHeap, clientVars, IInv, Marking
  <2>2. Within(visiting)'
    BY <2>1, EmptySeq DEF Within
  <2>3. Len(roots') \in Nat
    BY <2>1, LenProperties DEF IInv, Types
  <2> QED
    BY <2>1, <2>2, <2>3 DEF Bounded
<1>3. CASE MarkRoot \/ MarkItem
  BY <1>3, MarkRootLeft, MarkItemLeft
<1>4. CASE Copy \/ Free
  BY <1>4, SweepLeft DEF Bounded
<1>5. CASE Marked \/ Copied \/ ResetAndSwap \/ Raise \/ Add
  BY <1>5 DEF Marked, Copied, ResetAndSwap, Raise, Add, Goto, Bounded
<1>6. CASE UNCHANGED vars
  BY <1>6 DEF vars, clientVars, loopVars, Bounded, Within
<1> QED
  BY <1>1, <1>2, <1>3, <1>4, <1>5, <1>6 DEF Next, Collect

(* Every allocation ends: no step of the collector, through cycles, shared  *)
(* items and the index that the sweep steps back, leaves it as much to do   *)
(* as there was (gc_obj_mark and the loops of eval_collect_garbage).        *)
THEOREM EveryAllocationEnds == Spec => AllocReturns
<1> DEFINE Less == pc # "run" => \/ Ahead[pc'] < Ahead[pc]
                                 \/ pc' = pc /\ Turns' \in [1 .. 4 -> Nat] /\ Shorter(Turns', Turns)
<1>1. Init => Bounded
  BY DEF Init, Bounded
<1>2. IInv /\ Bounded /\ [Next]_vars => [Less]_vars
  <2> SUFFICES ASSUME IInv, Bounded, Next PROVE Less
    OBVIOUS
  <2>1. CASE Client
    BY <2>1 DEF Client, ChangeItems, ChangeRoots, Return, GcAlloc
  <2>2. CASE MarkRoot \/ MarkItem
    <3>1. pc' = pc
      BY <2>2 DEF MarkRoot, MarkItem
    <3> QED
      BY <2>2, <3>1, MarkRootLeft, MarkItemLeft
  <2>3. CASE Copy \/ Free
    BY <2>3, SweepLeft
  <2>4. CASE Unmark \/ Marked \/ Copied \/ ResetAndSwap \/ Raise \/ Add
    BY <2>4, LoopLeft
  <2> QED
    BY <2>1, <2>2, <2>3, <2>4 DEF Next, Collect
<1>3. [][Less]_vars => AllocReturns
  BY PTL DEF AllocReturns
<1> QED
  BY <1>1, <1>2, <1>3, BoundedStep, Invariant, PTL DEF Spec
=============================================================================
