------------------------ MODULE EvalFragments_proofs ------------------------
(***************************************************************************)
(* What eval keeps to in a fragment of the language, and breaks outside of *)
(* it: it reaches no freed object, and it leaves no name behind.           *)
(***************************************************************************)
EXTENDS EpslEval_proofs

(***************************************************************************)
(* No step of the evaluator reaches a freed object while the program stays *)
(* in the fragment of the language in which the code keeps to that: calls  *)
(* of functions without parameters that return objects, lists and dicts,   *)
(* operators, names that are defined and never assigned, all the statements.*)
(*                                                                         *)
(* A value need not have a TEMP of its own: an item of a list, or the value*)
(* of a variable, lives as long as that list or variable can be reached.   *)
(* So the invariant is about reachability: what a C local variable of an   *)
(* activation names can be reached from the part of the eval stack that no *)
(* activation above it may cut.                                            *)
(***************************************************************************)

(* Without assignment, C functions, parameters and functions that return   *)
(* scalars.  Each of them breaks the property: see the README.             *)
Nullary == Forms \cap {"assign", "lib", "param", "variadic", "scalar_result"} = {}

(***************************************************************************)
(* Reachability, of items it and a stack st given as arguments, because a  *)
(* step compares what was reachable before with what is after it.          *)
(***************************************************************************)
RootsIn(st, h) == {st[j].v : j \in {i \in 1 .. h : st[i].kind \in {"VAR", "TEMP"}}} \cap Obj
KidsIn(it, o)  == {it[o][i] : i \in 1 .. Len(it[o])} \cap Obj
Live(it, R)    == {o \in Obj : \A S \in SUBSET Obj :
                     (R \subseteq S /\ \A p \in S : KidsIn(it, p) \subseteq S) => o \in S}

\* The value v can be reached from the first h symbols, and so can all that the
\* activation f holds.  The list of a foreach has to do without the loop variable.
Anchored(it, st, v, h) == v \in Scalar \/ v \in Live(it, RootsIn(st, h))
Guarded(it, st, f, h)  == \A j \in 1 .. Len(f.hold) : Anchored(it, st, f.hold[j].v, h - Loop(f))

(***************************************************************************)
(* The inductive invariant, of a run that has met no error.                *)
(***************************************************************************)
\* The activations the fragment has none of, and those of a statement
Missing  == {"reg", "any", "asg_r", "asg_c", "asg_k"}
Clauses  == Inner \ {"body"}
Building == {"list", "dict_k", "dict_v"}

\* A statement is evaluated directly by a body; an activation about to run a function
\* is the innermost, and the stack has not grown since it looked the function up.
Sort(f)     == f.k \notin Missing /\ (f.k \in {"arg", "call"} => f.own = 0)
Above(f, g) == f.k # "arg" /\ (g.k \in Clauses => f.k = "body")
Kinded ==
  /\ \A j \in 1 .. Len(stack) : stack[j].kind = "REG" => stack[j].id = Lib
  /\ \A i \in 1 .. Depth : Sort(frames[i])
  /\ \A i \in 1 .. Depth - 1 : Above(frames[i], frames[i + 1])
  /\ frames # <<>> /\ Top.k = "arg" => val = Pending /\ Top.buf = cap

\* The tracked objects hold tracked objects, and so do the roots.
Steady  == /\ \A o \in objs : KidsIn(items, o) \subseteq objs
           /\ \A o \in Unused : items[o] = <<>>
Rooting == RootsIn(stack, Len(stack)) \subseteq objs

Locals == \A i \in 1 .. Depth : Guarded(items, stack, frames[i], Ceiling(i))

\* What a literal is building cannot be reached from the symbols below it: an entry
\* that is overwritten is no other activation's.
Own(it, st, f) == f.k \in Building => f.hold[1].v \notin Live(it, RootsIn(st, f.base))
Private        == \A i \in 1 .. Depth : Own(items, stack, frames[i])

\* A result in flight is tracked, and reachable unless it is on its way from a
\* statement to its body, between which nothing is allocated.
Flight == frames # <<>> /\ val # Pending =>
            /\ val.v \in objs \cup Scalar
            /\ state # "RET" \/ Top.k = "call" => Anchored(items, stack, val.v, Len(stack))
            /\ state = "RET" /\ val.v \in Scalar => Calls = {}

\* Only a return that ends the program leaves a TEMP of a scalar.
NoScalarTemp == ScalarTemps # {} => Calls = {} /\ state = "RET"

Clean == wild = "no" /\ ~err
Alive == Kinded /\ Steady /\ Rooting /\ Locals /\ Private /\ Flight /\ NoScalarTemp
AInv  == UInv /\ Nullary /\ NoWildAccess /\ (Clean => Alive)

\* A running step, and what it has to establish
Going == UInv /\ Nullary /\ Alive /\ Running /\ ~err
AGoal == NoWildAccess' /\ (Clean' => Alive')

-----------------------------------------------------------------------------
(* Reachability.                                                           *)

Richer(it, it2, L) == \A o \in L : KidsIn(it, o) \subseteq KidsIn(it2, o)

LEMMA LiveFacts ==
  ASSUME NEW it, NEW R, R \subseteq Obj
  PROVE  /\ R \subseteq Live(it, R) /\ Live(it, R) \subseteq Obj
         /\ \A o \in Live(it, R) : KidsIn(it, o) \subseteq Live(it, R)
<1>1. R \subseteq Live(it, R) /\ Live(it, R) \subseteq Obj
  BY DEF Live
<1>2. ASSUME NEW o \in Live(it, R), NEW p \in KidsIn(it, o) PROVE p \in Live(it, R)
  <2>1. p \in Obj
    BY <1>2 DEF KidsIn
  <2>2. ASSUME NEW S \in SUBSET Obj, R \subseteq S, \A q \in S : KidsIn(it, q) \subseteq S
        PROVE  p \in S
    BY <1>2, <2>2 DEF Live
  <2> QED
    BY <2>1, <2>2 DEF Live
<1> QED
  BY <1>1, <1>2

LEMMA LiveLeast ==
  ASSUME NEW it, NEW R, NEW S, S \subseteq Obj, R \subseteq S,
         \A o \in S : KidsIn(it, o) \subseteq S
  PROVE  Live(it, R) \subseteq S
  BY DEF Live

LEMMA LiveGrows ==
  ASSUME NEW it, NEW it2, NEW R, NEW R2, R2 \subseteq Obj, R \subseteq R2,
         Richer(it, it2, Live(it, R))
  PROVE  Live(it, R) \subseteq Live(it2, R2)
<1> DEFINE L == Live(it, R)
           S == Live(it2, R2)
<1>1. R \subseteq L /\ L \subseteq Obj /\ \A o \in L : KidsIn(it, o) \subseteq L
  BY LiveFacts
<1>2. S \subseteq Obj /\ R \subseteq S /\ \A o \in S : KidsIn(it2, o) \subseteq S
  BY LiveFacts
<1>3. Richer(it, it2, L)
  OBVIOUS
<1> HIDE DEF L, S
<1>4. \A o \in S \cap L : KidsIn(it, o) \subseteq S \cap L
  BY <1>1, <1>2, <1>3 DEF Richer
<1>5. Live(it, R) \subseteq S \cap L
  BY <1>1, <1>2, <1>4, LiveLeast
<1> QED
  BY <1>5 DEF S

LEMMA LiveWidens ==
  ASSUME NEW it, NEW st, NEW g \in Int, NEW h \in Int, g <= h
  PROVE  Live(it, RootsIn(st, g)) \subseteq Live(it, RootsIn(st, h))
<1>1. RootsIn(st, g) \subseteq RootsIn(st, h)
  <2>1. \A j \in 1 .. g : j \in 1 .. h
    OBVIOUS
  <2> QED
    BY <2>1 DEF RootsIn
<1>2. RootsIn(st, h) \subseteq Obj
  BY DEF RootsIn
<1>3. Richer(it, it, Live(it, RootsIn(st, g)))
  BY DEF Richer
<1> QED
  BY <1>1, <1>2, <1>3, LiveGrows

(* An object can be reached whatever becomes of its own items. *)
LEMMA LiveItself ==
  ASSUME NEW it, NEW it2, NEW R, R \subseteq Obj, NEW o \in Live(it, R),
         \A p \in Obj \ {o} : KidsIn(it2, p) = KidsIn(it, p)
  PROVE  o \in Live(it2, R)
<1> DEFINE S == Live(it2, R)
<1>1. S \subseteq Obj /\ R \subseteq S /\ \A p \in S : KidsIn(it2, p) \subseteq S
  BY LiveFacts
<1> HIDE DEF S
<1>2. SUFFICES ASSUME o \notin S PROVE FALSE
  BY DEF S
<1>3. \A p \in S : KidsIn(it, p) \subseteq S
  BY <1>1, <1>2
<1>4. Live(it, R) \subseteq S
  BY <1>1, <1>3, LiveLeast
<1> QED
  BY <1>2, <1>4

(* What was reachable stays so when the stack keeps the symbols it hangs on*)
(* and objects lose no items.                                              *)
LEMMA StaysAnchored ==
  ASSUME NEW it, NEW it2, NEW st, NEW st2, NEW v, NEW g \in Int, NEW h \in Int,
         Richer(it, it2, Live(it, RootsIn(st, g))), g <= h, \A j \in 1 .. g : st2[j] = st[j],
         Anchored(it, st, v, g)
  PROVE  Anchored(it2, st2, v, h)
<1>1. RootsIn(st, g) \subseteq RootsIn(st2, h)
  <2>1. ASSUME NEW o \in RootsIn(st, g) PROVE o \in RootsIn(st2, h)
    <3>1. PICK j \in 1 .. g : st[j].kind \in {"VAR", "TEMP"} /\ o = st[j].v /\ o \in Obj
      BY <2>1 DEF RootsIn
    <3>2. j \in 1 .. h /\ st2[j] = st[j]
      BY <3>1
    <3> QED
      BY <3>1, <3>2 DEF RootsIn
  <2> QED
    BY <2>1
<1>2. RootsIn(st2, h) \subseteq Obj
  BY DEF RootsIn
<1> QED
  BY <1>1, <1>2, LiveGrows DEF Anchored

LEMMA StaysGuarded ==
  ASSUME NEW it, NEW it2, NEW st, NEW st2, NEW f, NEW g \in Int, NEW h \in Int,
         Richer(it, it2, Live(it, RootsIn(st, g))), g <= h, \A j \in 1 .. g : st2[j] = st[j],
         Guarded(it, st, f, g)
  PROVE  Guarded(it2, st2, f, h)
<1>1. Loop(f) \in {0, 1}
  BY DEF Loop
<1>2. SUFFICES ASSUME NEW j \in 1 .. Len(f.hold)
               PROVE  Anchored(it2, st2, f.hold[j].v, h - Loop(f))
  BY DEF Guarded
<1>3. /\ Anchored(it, st, f.hold[j].v, g - Loop(f))
      /\ g - Loop(f) \in Int /\ h - Loop(f) \in Int /\ g - Loop(f) <= h - Loop(f)
      /\ \A i \in 1 .. g - Loop(f) : st2[i] = st[i]
  BY <1>1 DEF Guarded
<1>4. Richer(it, it2, Live(it, RootsIn(st, g - Loop(f))))
  <2>1. g - Loop(f) \in Int /\ g - Loop(f) <= g
    BY <1>1
  <2>2. Live(it, RootsIn(st, g - Loop(f))) \subseteq Live(it, RootsIn(st, g))
    BY <2>1, LiveWidens
  <2> QED
    BY <2>2 DEF Richer
<1> QED
  BY <1>3, <1>4, StaysAnchored


-----------------------------------------------------------------------------
(* The activations and what they hold.                                     *)

\* Objects only gain items; what can be reached from below the innermost activation
\* keeps the ones it has.
Gains   == Richer(items, items', Obj)
Settles == \A o \in Live(items, RootsIn(stack, Top.base)) : KidsIn(items', o) = KidsIn(items, o)

\* The stack keeps its first h symbols.
Keeps(h) == /\ h \in 0 .. Len(stack) /\ h <= Len(stack')
            /\ \A j \in 1 .. h : stack'[j] = stack[j]

LEMMA GoingFacts ==
  ASSUME Going
  PROVE  /\ IInv /\ UInv /\ Running /\ Kinded /\ Steady /\ Rooting /\ Locals /\ Private /\ Flight /\ NoScalarTemp
         /\ frames \in Seq(Frame) /\ frames # <<>> /\ Depth \in Nat \ {0} /\ Depth = Len(frames)
         /\ \A i \in 1 .. Depth : frames[i] \in Frame /\ frames[i].base \in Nat
         /\ Top = frames[Depth] /\ Top \in Frame /\ Top.base \in Nat /\ Top.base <= Len(stack)
         /\ stack \in Seq(Symbol) /\ Len(stack) \in Nat
         /\ \A j \in 1 .. Len(stack) : stack[j] \in Symbol
<1>1. IInv /\ UInv /\ Running /\ Kinded /\ Steady /\ Rooting /\ Locals /\ Private /\ Flight /\ NoScalarTemp
  BY DEF Going, Alive, UInv
<1>2. /\ frames \in Seq(Frame) /\ frames # <<>> /\ Depth \in Nat \ {0} /\ Depth = Len(frames)
      /\ Top = frames[Depth] /\ Top \in Frame
  BY <1>1, Here
<1>3. /\ Top.base \in Nat /\ Top.own \in Nat /\ Top.base + Top.own <= Len(stack)
      /\ stack \in Seq(Symbol) /\ Len(stack) \in Nat
  BY <1>1, TypedFacts
<1>4. \A i \in 1 .. Depth : frames[i] \in Frame
  BY <1>2, ElementOfSeq
<1>5. \A i \in 1 .. Depth : frames[i].base \in Nat
  BY <1>4 DEF Frame
<1>6. \A j \in 1 .. Len(stack) : stack[j] \in Symbol
  BY <1>3, ElementOfSeq
<1>7. Top.base <= Len(stack)
  BY <1>3
<1> QED
  BY <1>1, <1>2, <1>3, <1>4, <1>5, <1>6, <1>7

LEMMA DepthFacts ==
  ASSUME Going
  PROVE  /\ Depth \in Nat \ {0} /\ Top = frames[Depth] /\ Len(stack) \in Nat
         /\ \A i \in 1 .. Depth : frames[i].base \in Nat
  BY GoingFacts

LEMMA BaseBelow ==
  ASSUME Going, NEW i \in 1 .. Depth
  PROVE  frames[i].base \in Nat /\ frames[i].base <= Top.base
<1>1. CASE i = Depth
  BY <1>1, GoingFacts
<1>2. CASE i # Depth
  <2>1. Depth \in i + 1 .. Depth
    BY <1>2, DepthFacts
  <2>2. frames[i].base + frames[i].own <= frames[Depth].base
    BY <2>1, GoingFacts DEF IInv, StackDiscipline
  <2>3. frames[i].base \in Nat /\ frames[i].own \in Nat /\ frames[Depth].base \in Nat
    BY GoingFacts DEF Frame
  <2> QED
    BY <2>2, <2>3, DepthFacts
<1> QED
  BY <1>1, <1>2

(* The activations below the innermost keep what they hold. *)
LEMMA LowerGuarded ==
  ASSUME Going, Settles, NEW h, Keeps(h), h >= Top.base,
         NEW i \in 1 .. Depth - 1, NEW k \in Int, k >= frames[i + 1].base
  PROVE  Guarded(items', stack', frames[i], k)
<1> DEFINE b == frames[i + 1].base
<1>1. i \in 1 .. Depth /\ i + 1 \in 1 .. Depth /\ i # Depth
  BY DepthFacts
<1>2. b \in Nat /\ b <= Top.base /\ Top.base \in Nat
  BY <1>1, BaseBelow, GoingFacts
<1>3. Guarded(items, stack, frames[i], b)
  BY <1>1, GoingFacts DEF Locals, Ceiling
<1>4. b \in Int /\ b <= k /\ \A j \in 1 .. b : stack'[j] = stack[j]
  BY <1>2, GoingFacts DEF Keeps
<1> HIDE DEF b
<1>5. Richer(items, items', Live(items, RootsIn(stack, b)))
  <2>1. Live(items, RootsIn(stack, b)) \subseteq Live(items, RootsIn(stack, Top.base))
    BY <1>2, LiveWidens
  <2> QED
    BY <2>1 DEF Settles, Richer
<1> QED
  BY <1>3, <1>4, <1>5, StaysGuarded

(* What a literal is building stays its own. *)
LEMMA OwnKept ==
  ASSUME Going, Settles, NEW h, Keeps(h), h >= Top.base, NEW i \in 1 .. Depth
  PROVE  Own(items', stack', frames[i])
<1> DEFINE b == frames[i].base
           L == Live(items, RootsIn(stack, b))
<1>1. b \in Nat /\ b <= Top.base /\ Top.base \in Nat
  BY BaseBelow, GoingFacts
<1>2. \A j \in 1 .. b : stack'[j] = stack[j]
  BY <1>1, GoingFacts DEF Keeps
<1>3. Own(items, stack, frames[i])
  BY GoingFacts DEF Private
<1> HIDE DEF b
<1>4. RootsIn(stack', b) = RootsIn(stack, b)
  BY <1>2 DEF RootsIn
<1>5. RootsIn(stack, b) \subseteq L /\ L \subseteq Obj /\ \A o \in L : KidsIn(items, o) \subseteq L
  BY LiveFacts DEF RootsIn
<1>6. L \subseteq Live(items, RootsIn(stack, Top.base))
  BY <1>1, LiveWidens
<1> HIDE DEF L
<1>7. \A o \in L : KidsIn(items', o) \subseteq L
  BY <1>5, <1>6 DEF Settles
<1>8. Live(items', RootsIn(stack', b)) \subseteq L
  BY <1>4, <1>5, <1>7, LiveLeast
<1> QED
  BY <1>3, <1>8 DEF Own, L, b

(* The innermost one does as long as no symbol is popped. *)
LEMMA TopGuarded ==
  ASSUME Going, Gains, Keeps(Len(stack)), NEW k \in Int, k >= Len(stack)
  PROVE  Guarded(items', stack', Top, k)
<1>1. Depth \in 1 .. Depth /\ Ceiling(Depth) = Len(stack)
  BY GoingFacts DEF Ceiling
<1>2. Guarded(items, stack, Top, Len(stack)) /\ Len(stack) \in Int
  BY <1>1, GoingFacts DEF Locals
<1>3. \A j \in 1 .. Len(stack) : stack'[j] = stack[j]
  BY DEF Keeps
<1>4. Richer(items, items', Live(items, RootsIn(stack, Len(stack))))
  BY LiveFacts DEF Gains, Richer, RootsIn
<1> QED
  BY <1>2, <1>3, <1>4, StaysGuarded

(* A value that an activation or the step before hands on *)
LEMMA HeldAnchored ==
  ASSUME Going, Top.k # "each_b", NEW j \in 1 .. Len(Top.hold)
  PROVE  Anchored(items, stack, Top.hold[j].v, Len(stack))
<1>1. Depth \in 1 .. Depth /\ Ceiling(Depth) = Len(stack) /\ Loop(Top) = 0
  BY GoingFacts DEF Ceiling, Loop
<1>2. Guarded(items, stack, Top, Len(stack)) /\ Len(stack) - 0 = Len(stack)
  BY <1>1, GoingFacts DEF Locals
<1> QED
  BY <1>1, <1>2 DEF Guarded

LEMMA LocalsLeaf ==
  ASSUME Going, Gains, Settles, Keeps(Len(stack)), frames' = frames, Len(stack') \in Nat
  PROVE  Locals'
<1>1. Depth' = Depth /\ Len(stack') >= Len(stack) /\ Len(stack) \in Int /\ Len(stack') \in Int
  BY GoingFacts DEF Depth, Keeps
<1>2. ASSUME NEW i \in 1 .. Depth PROVE Guarded(items', stack', frames[i], Ceiling(i)')
  <2>1. CASE i = Depth
    BY <2>1, <1>1, TopGuarded, GoingFacts DEF Ceiling
  <2>2. CASE i # Depth
    <3>1. i \in 1 .. Depth - 1 /\ Ceiling(i)' = frames[i + 1].base /\ i + 1 \in 1 .. Depth
      BY <2>2, <1>1, GoingFacts DEF Ceiling
    <3>2. frames[i + 1].base \in Int
      BY <3>1, GoingFacts
    <3> QED
      BY <3>1, <3>2, LowerGuarded, GoingFacts
  <2> QED
    BY <2>1, <2>2
<1> QED
  BY <1>1, <1>2 DEF Locals

LEMMA LocalsEnter ==
  ASSUME Going, Gains, Settles, Keeps(Len(stack)), Len(stack') \in Nat,
         NEW f \in Frame, frames' = Append(frames, f), f.base = Len(stack),
         Guarded(items', stack', f, Len(stack'))
  PROVE  Locals'
<1>1. /\ Depth' = Depth + 1 /\ frames'[Depth + 1] = f
      /\ \A i \in 1 .. Depth : frames'[i] = frames[i]
  BY GoingFacts, EnterFacts DEF Depth
<1>2. ASSUME NEW i \in 1 .. Depth + 1 PROVE Guarded(items', stack', frames'[i], Ceiling(i)')
  <2>1. CASE i = Depth + 1
    BY <2>1, <1>1 DEF Ceiling
  <2>2. CASE i = Depth
    <3>1. i \in 1 .. Depth /\ i # Depth + 1 /\ i + 1 = Depth + 1
      BY <2>2, GoingFacts
    <3>2. Ceiling(i)' = Len(stack) /\ frames'[i] = Top
      BY <2>2, <3>1, <1>1, GoingFacts DEF Ceiling
    <3>3. Guarded(items', stack', Top, Len(stack))
      BY TopGuarded, GoingFacts
    <3> QED
      BY <3>2, <3>3
  <2>3. CASE i # Depth + 1 /\ i # Depth
    <3>1. i \in 1 .. Depth - 1 /\ i + 1 \in 1 .. Depth /\ i \in 1 .. Depth
      BY <2>3, DepthFacts
    <3>2. Ceiling(i)' = frames[i + 1].base /\ frames'[i] = frames[i]
      BY <2>3, <3>1, <1>1, DepthFacts DEF Ceiling
    <3>3. Len(stack) \in 0 .. Len(stack) /\ Len(stack) >= Top.base /\ frames[i + 1].base \in Int
      BY <3>1, GoingFacts
    <3>4. Guarded(items', stack', frames[i], frames[i + 1].base)
      BY <3>1, <3>3, LowerGuarded
    <3> QED
      BY <3>2, <3>4
  <2> QED
    BY <2>1, <2>2, <2>3
<1> QED
  BY <1>1, <1>2 DEF Locals

LEMMA LocalsResume ==
  ASSUME Going, Settles, NEW h, Keeps(h), h >= Top.base, Len(stack') \in Nat,
         NEW f \in Frame, frames' = Append(Below, f), f.base \in Nat, f.base >= Top.base,
         Guarded(items', stack', f, Len(stack'))
  PROVE  Locals'
<1>1. /\ Depth' = Depth /\ frames'[Depth] = f
      /\ \A i \in 1 .. Depth - 1 : frames'[i] = frames[i]
  BY GoingFacts, ResumeFacts
<1>2. ASSUME NEW i \in 1 .. Depth PROVE Guarded(items', stack', frames'[i], Ceiling(i)')
  <2>1. CASE i = Depth
    BY <2>1, <1>1 DEF Ceiling
  <2>2. CASE i # Depth
    <3>1. i \in 1 .. Depth - 1 /\ i + 1 \in 1 .. Depth
      BY <2>2, DepthFacts
    <3>4. Ceiling(i)' = frames'[i + 1].base
      BY <2>2, <1>1 DEF Ceiling
    <3>2. frames'[i + 1].base \in Int /\ frames'[i + 1].base >= frames[i + 1].base
      <4>1. CASE i + 1 = Depth
        <5>1. frames'[i + 1] = f /\ frames[i + 1] = Top
          BY <4>1, <1>1, DepthFacts
        <5> QED
          BY <5>1
      <4>2. CASE i + 1 # Depth
        <5>1. i + 1 \in 1 .. Depth - 1
          BY <3>1, <4>2, DepthFacts
        <5>2. frames'[i + 1] = frames[i + 1] /\ frames[i + 1].base \in Nat
          BY <3>1, <5>1, <1>1, DepthFacts
        <5> QED
          BY <5>2
      <4> QED
        BY <4>1, <4>2
    <3>3. frames'[i] = frames[i]
      BY <3>1, <1>1
    <3> QED
      BY <3>1, <3>2, <3>3, <3>4, LowerGuarded
  <2> QED
    BY <2>1, <2>2
<1> QED
  BY <1>1, <1>2 DEF Locals

LEMMA LocalsContinue ==
  ASSUME Going, Gains, Settles, Keeps(Len(stack)), Len(stack') \in Nat,
         NEW f \in Frame, NEW g \in Frame, frames' = Append(Append(Below, f), g),
         f.base = Top.base, f.hold = Top.hold, Loop(Top) = 0, Len(stack') >= Len(stack) + Loop(f),
         g.base = Len(stack'), g.hold = <<>>
  PROVE  Locals'
<1>1. /\ Depth' = Depth + 1 /\ frames'[Depth] = f /\ frames'[Depth + 1] = g
      /\ \A i \in 1 .. Depth - 1 : frames'[i] = frames[i]
  BY GoingFacts, ContinueFacts
<1>2. Guarded(items', stack', f, Len(stack'))
  <2>1. Loop(f) \in {0, 1} /\ Len(stack) \in Int /\ Len(stack') - Loop(f) \in Int
        /\ Len(stack') - Loop(f) >= Len(stack)
    BY GoingFacts DEF Loop
  <2>2. Guarded(items', stack', Top, Len(stack') - Loop(f))
    BY <2>1, TopGuarded
  <2>3. Len(stack') - Loop(f) - 0 = Len(stack') - Loop(f)
    BY <2>1
  <2> QED
    BY <2>2, <2>3 DEF Guarded
<1>3. ASSUME NEW i \in 1 .. Depth + 1 PROVE Guarded(items', stack', frames'[i], Ceiling(i)')
  <2>1. CASE i = Depth + 1
    <3>1. Len(g.hold) = 0
      OBVIOUS
    <3> QED
      BY <2>1, <3>1, <1>1 DEF Guarded
  <2>2. CASE i = Depth
    <3>1. i # Depth + 1 /\ i + 1 = Depth + 1
      BY <2>2, GoingFacts
    <3>2. Ceiling(i)' = Len(stack') /\ frames'[i] = f
      BY <2>2, <3>1, <1>1 DEF Ceiling
    <3> QED
      BY <3>2, <1>2
  <2>3. CASE i # Depth + 1 /\ i # Depth
    <3>1. i \in 1 .. Depth - 1 /\ i + 1 \in 1 .. Depth
      BY <2>3, GoingFacts
    <3>2. /\ Ceiling(i)' = frames'[i + 1].base /\ frames'[i] = frames[i]
          /\ frames'[i + 1].base = frames[i + 1].base /\ frames[i + 1].base \in Int
      <4>1. Ceiling(i)' = frames'[i + 1].base /\ frames'[i] = frames[i]
        BY <2>3, <3>1, <1>1, DepthFacts DEF Ceiling
      <4>4. frames[i + 1].base \in Int
        BY <3>1, DepthFacts
      <4>2. CASE i + 1 = Depth
        BY <4>1, <4>2, <4>4, <1>1, DepthFacts
      <4>3. CASE i + 1 # Depth
        <5>1. i + 1 \in 1 .. Depth - 1
          BY <3>1, <4>3, DepthFacts
        <5> QED
          BY <4>1, <4>4, <5>1, <1>1
      <4> QED
        BY <4>2, <4>3
    <3> QED
      BY <3>1, <3>2, LowerGuarded, GoingFacts
  <2> QED
    BY <2>1, <2>2, <2>3
<1> QED
  BY <1>1, <1>3 DEF Locals

LEMMA LocalsLeave ==
  ASSUME Going, Settles, NEW h, Keeps(h), h >= Top.base, Len(stack') \in Nat,
         frames' = Below
  PROVE  Locals'
<1>1. Depth' = Depth - 1 /\ \A i \in 1 .. Depth - 1 : frames'[i] = frames[i]
  BY GoingFacts, LeaveFacts
<1>2. ASSUME NEW i \in 1 .. Depth - 1 PROVE Guarded(items', stack', frames'[i], Ceiling(i)')
  <2>1. CASE i = Depth - 1
    <3>1. Ceiling(i)' = Len(stack') /\ frames'[i] = frames[i] /\ i + 1 = Depth
      BY <2>1, <1>1, GoingFacts DEF Ceiling
    <3>2. Len(stack') \in Int /\ Len(stack') >= frames[i + 1].base
      BY <3>1, GoingFacts DEF Keeps
    <3> QED
      BY <3>1, <3>2, LowerGuarded
  <2>2. CASE i # Depth - 1
    <3>1. i + 1 \in 1 .. Depth - 1 /\ i \in 1 .. Depth - 1 /\ i + 1 \in 1 .. Depth
      BY <2>2, GoingFacts
    <3>2. Ceiling(i)' = frames[i + 1].base /\ frames'[i] = frames[i] /\ frames[i + 1].base \in Int
      BY <2>2, <3>1, <1>1, GoingFacts DEF Ceiling
    <3> QED
      BY <3>1, <3>2, LowerGuarded, GoingFacts
  <2> QED
    BY <2>1, <2>2
<1> QED
  BY <1>1, <1>2 DEF Locals

-----------------------------------------------------------------------------
(* What each kind of step has to show.                                     *)

\* A symbol that a step pushes; the stack that keeps its first h symbols
Sound(s) == /\ s.kind # "REG"
            /\ s.kind \in {"VAR", "TEMP"} => s.v \in objs' \cup Scalar
            /\ s.kind = "TEMP" /\ s.v \in Scalar => state = "RET" /\ Calls = {}
Onto(h)  == Keeps(h) /\ Len(stack') \in Nat /\ \A j \in h + 1 .. Len(stack') : Sound(stack'[j])

\* A collection spares what can be reached, and what lies below is left alone.
HeapMoved == /\ Settles /\ Steady' /\ objs' \subseteq Obj
             /\ Live(items, RootsIn(stack, Len(stack))) \subseteq objs'
HeapKept  == Gains /\ HeapMoved

LEMMA OntoSplits ==
  ASSUME Going, NEW h, Onto(h), NEW j \in 1 .. Len(stack')
  PROVE  (j \in 1 .. Len(stack) /\ stack'[j] = stack[j]) \/ Sound(stack'[j])
<1>1. h \in Nat /\ h <= Len(stack) /\ Len(stack) \in Nat /\ Len(stack') \in Nat
  BY DepthFacts DEF Onto, Keeps
<1>2. CASE j <= h
  <2>1. j \in 1 .. h /\ j \in 1 .. Len(stack)
    BY <1>1, <1>2
  <2> QED
    BY <2>1 DEF Onto, Keeps
<1>3. CASE ~(j <= h)
  <2>1. j \in h + 1 .. Len(stack')
    BY <1>1, <1>3
  <2> QED
    BY <2>1 DEF Onto
<1> QED
  BY <1>2, <1>3

LEMMA RootingKept ==
  ASSUME Going, HeapMoved, NEW h, Onto(h)
  PROVE  /\ Rooting'
         /\ \A j \in 1 .. Len(stack') : stack'[j].kind = "REG" => stack'[j].id = Lib
<1>1. RootsIn(stack, Len(stack)) \subseteq objs'
  BY LiveFacts DEF RootsIn, HeapMoved
<1>2. ASSUME NEW o \in RootsIn(stack', Len(stack')) PROVE o \in objs'
  <2>1. PICK j \in 1 .. Len(stack') : stack'[j].kind \in {"VAR", "TEMP"} /\ o = stack'[j].v /\ o \in Obj
    BY <1>2 DEF RootsIn
  <2>2. CASE j \in 1 .. Len(stack) /\ stack'[j] = stack[j]
    <3>1. o \in RootsIn(stack, Len(stack))
      BY <2>1, <2>2 DEF RootsIn
    <3> QED
      BY <1>1, <3>1
  <2>3. CASE Sound(stack'[j])
    BY <2>1, <2>3, ObjAssumption DEF Sound
  <2> QED
    BY <2>1, <2>2, <2>3, OntoSplits
<1>3. ASSUME NEW j \in 1 .. Len(stack'), stack'[j].kind = "REG" PROVE stack'[j].id = Lib
  <2>1. j \in 1 .. Len(stack) /\ stack'[j] = stack[j]
    BY <1>3, OntoSplits DEF Sound
  <2>2. stack[j].kind = "REG"
    BY <1>3, <2>1
  <2> QED
    BY <2>1, <2>2, GoingFacts DEF Kinded
<1> QED
  BY <1>2, <1>3 DEF Rooting

LEMMA NoScalarKept ==
  ASSUME Going, NEW h, Onto(h), state = "RET" /\ Calls = {} => state' = "RET" /\ Calls' = {}
  PROVE  NoScalarTemp'
<1>1. SUFFICES ASSUME NEW j \in 1 .. Len(stack'), stack'[j].kind = "TEMP", stack'[j].v \in Scalar
               PROVE  state = "RET" /\ Calls = {}
  BY DEF NoScalarTemp, ScalarTemps
<1>2. CASE j \in 1 .. Len(stack) /\ stack'[j] = stack[j]
  <2>1. j \in ScalarTemps
    BY <1>1, <1>2 DEF ScalarTemps
  <2> QED
    BY <2>1, GoingFacts DEF NoScalarTemp
<1>3. CASE Sound(stack'[j])
  BY <1>1, <1>3 DEF Sound
<1> QED
  BY <1>2, <1>3, OntoSplits

(* What is reachable is tracked. *)
LEMMA Tracked ==
  ASSUME NEW os, NEW it, NEW st, NEW h, NEW v, os \subseteq Obj,
         \A o \in os : KidsIn(it, o) \subseteq os, RootsIn(st, h) \subseteq os,
         Anchored(it, st, v, h)
  PROVE  v \in os \cup Scalar
<1>1. Live(it, RootsIn(st, h)) \subseteq os
  BY LiveLeast
<1> QED
  BY <1>1 DEF Anchored

LEMMA TrackedAfter ==
  ASSUME Going, HeapMoved, Rooting', NEW v, Anchored(items', stack', v, Len(stack'))
  PROVE  v \in objs' \cup Scalar
<1>1. objs' \subseteq Obj /\ \A o \in objs' : KidsIn(items', o) \subseteq objs'
  BY DEF HeapMoved, Steady
<1>2. RootsIn(stack', Len(stack')) \subseteq objs'
  BY DEF Rooting
<1> QED
  BY <1>1, <1>2, Tracked

(* A sub-tree without one of its own is evaluated. *)
LEMMA LeafA ==
  ASSUME Going, NoWildAccess', HeapKept, Onto(Len(stack)), frames' = frames,
         state # "RET", Top.k # "arg",
         val' # Pending, Anchored(items', stack', val'.v, Len(stack')),
         wild' = "no" /\ state' = "RET" => Calls = {}
  PROVE  AGoal
<1>1. Depth' = Depth /\ Top' = Top /\ Calls' = Calls
  BY DEF Depth, Top, Calls
<1>2. Rooting' /\ \A j \in 1 .. Len(stack') : stack'[j].kind = "REG" => stack'[j].id = Lib
  BY RootingKept DEF HeapKept
<1>3. Kinded'
  <2>1. /\ \A i \in 1 .. Depth' : Sort(frames'[i])
        /\ \A i \in 1 .. Depth' - 1 : Above(frames'[i], frames'[i + 1])
    BY <1>1, GoingFacts DEF Kinded
  <2> QED
    BY <1>1, <1>2, <2>1 DEF Kinded
<1>4. Locals'
  BY LocalsLeaf DEF HeapKept, HeapMoved, Onto
<1>8. Private'
  <2>1. Keeps(Len(stack)) /\ Len(stack) >= Top.base
    BY GoingFacts DEF Onto
  <2> QED
    BY <1>1, <2>1, OwnKept DEF Private, HeapKept, HeapMoved
<1>5. val'.v \in objs' \cup Scalar
  BY <1>2, TrackedAfter DEF HeapKept
<1>6. wild' = "no" => Flight'
  BY <1>1, <1>5 DEF Flight
<1>7. NoScalarTemp'
  BY NoScalarKept
<1> QED
  BY <1>2, <1>3, <1>4, <1>6, <1>7, <1>8 DEF AGoal, Alive, Clean, HeapKept, HeapMoved

(* A sub-tree is entered. *)
LEMMA EnterA ==
  ASSUME Going, NoWildAccess', HeapKept, Onto(Len(stack)),
         state # "RET", Top.k # "arg",
         NEW f \in Frame, Enter(f), f.base = Len(stack), Sort(f),
         f.k \in Clauses => Top.k = "body", f.k = "arg" => f.buf = cap',
         Guarded(items', stack', f, Len(stack')), Own(items', stack', f)
  PROVE  AGoal
<1>1. frames' = Append(frames, f) /\ val' = Pending
  BY DEF Enter
<1>2. /\ Depth' = Depth + 1 /\ frames'[Depth + 1] = f /\ Depth \in Nat \ {0}
      /\ \A i \in 1 .. Depth : frames'[i] = frames[i]
  BY <1>1, GoingFacts, EnterFacts DEF Depth
<1>3. Rooting' /\ \A j \in 1 .. Len(stack') : stack'[j].kind = "REG" => stack'[j].id = Lib
  BY RootingKept DEF HeapKept
<1>4. ASSUME NEW i \in 1 .. Depth + 1 PROVE Sort(frames'[i])
  <2>1. i = Depth + 1 \/ i \in 1 .. Depth
    BY <1>2
  <2> QED
    BY <1>2, <2>1, GoingFacts DEF Kinded
<1>5. ASSUME NEW i \in 1 .. Depth PROVE Above(frames'[i], frames'[i + 1])
  <2>1. CASE i = Depth
    <3>1. frames'[i] = Top /\ frames'[i + 1] = f
      BY <1>2, <2>1, DepthFacts
    <3> QED
      BY <3>1 DEF Above
  <2>2. CASE i # Depth
    <3>1. i \in 1 .. Depth - 1 /\ i + 1 \in 1 .. Depth
      BY <1>2, <2>2
    <3>2. Above(frames[i], frames[i + 1])
      BY <3>1, GoingFacts DEF Kinded
    <3> QED
      BY <1>2, <3>1, <3>2
  <2> QED
    BY <2>1, <2>2
<1>6. Kinded'
  <2>1. Depth' - 1 = Depth /\ Top' = f
    BY <1>2 DEF Top
  <2> QED
    BY <1>1, <1>2, <1>3, <1>4, <1>5, <2>1 DEF Kinded
<1>7. Locals'
  BY <1>1, LocalsEnter DEF HeapKept, HeapMoved, Onto
<1>9. Private'
  <2>1. Keeps(Len(stack)) /\ Len(stack) >= Top.base
    BY GoingFacts DEF Onto
  <2>2. \A i \in 1 .. Depth : Own(items', stack', frames'[i])
    BY <1>2, <2>1, OwnKept DEF HeapKept, HeapMoved
  <2>3. \A i \in 1 .. Depth' : i \in 1 .. Depth \/ i = Depth + 1
    BY <1>2
  <2> QED
    BY <1>2, <2>2, <2>3 DEF Private
<1>8. Flight' /\ NoScalarTemp'
  BY <1>1, NoScalarKept DEF Flight
<1> QED
  BY <1>3, <1>6, <1>7, <1>8, <1>9 DEF AGoal, Alive, HeapKept, HeapMoved

(* The activation goes on. *)
LEMMA ResumeA ==
  ASSUME Going, NoWildAccess', HeapMoved, NEW h, Onto(h), h >= Top.base, state # "RET",
         NEW f \in Frame, Resume(f), f.base >= Top.base,
         f.k \notin Missing \cup {"arg", "call"}, f.k \in Clauses => Top.k \in Clauses,
         f.k \in Building => Top.k \in Building /\ f.base = Top.base /\ f.hold[1].v = Top.hold[1].v,
         Guarded(items', stack', f, Len(stack'))
  PROVE  AGoal
<1>1. frames' = Append(Below, f) /\ val' = Pending
  BY DEF Resume
<1>2. /\ Depth' = Depth /\ frames'[Depth] = f /\ Depth \in Nat \ {0}
      /\ \A i \in 1 .. Depth - 1 : frames'[i] = frames[i]
  BY <1>1, GoingFacts, ResumeFacts
<1>3. Rooting' /\ \A j \in 1 .. Len(stack') : stack'[j].kind = "REG" => stack'[j].id = Lib
  BY RootingKept
<1>4. ASSUME NEW i \in 1 .. Depth PROVE Sort(frames'[i])
  <2>1. i = Depth \/ i \in 1 .. Depth - 1
    BY <1>2
  <2> QED
    BY <1>2, <2>1, GoingFacts DEF Kinded, Sort
<1>5. ASSUME NEW i \in 1 .. Depth - 1 PROVE Above(frames'[i], frames'[i + 1])
  <2>1. Above(frames[i], frames[i + 1])
    BY GoingFacts DEF Kinded
  <2>2. CASE i + 1 = Depth
    <3>1. frames'[i] = frames[i] /\ frames'[i + 1] = f /\ frames[i + 1] = Top
      BY <1>2, <2>2, DepthFacts
    <3> QED
      BY <2>1, <3>1 DEF Above
  <2>3. CASE i + 1 # Depth
    <3>1. i + 1 \in 1 .. Depth - 1
      BY <1>2, <2>3
    <3> QED
      BY <1>2, <2>1, <3>1
  <2> QED
    BY <2>2, <2>3
<1>6. Kinded'
  <2>1. Top' = f
    BY <1>2 DEF Top
  <2> QED
    BY <1>1, <1>2, <1>3, <1>4, <1>5, <2>1 DEF Kinded
<1>7. Locals'
  <2>1. f.base \in Nat
    BY DEF Frame
  <2> QED
    BY <1>1, <2>1, LocalsResume DEF HeapMoved, Onto
<1>9. Private'
  <2>1. Keeps(h) /\ Settles
    BY DEF Onto, HeapMoved
  <2>2. \A i \in 1 .. Depth : Own(items', stack', frames[i])
    BY <2>1, OwnKept
  <2>3. Own(items', stack', Top)
    BY <1>2, <2>2, DepthFacts
  <2>4. Own(items', stack', f)
    BY <2>3 DEF Own
  <2>5. \A i \in 1 .. Depth : i = Depth \/ i \in 1 .. Depth - 1
    BY <1>2
  <2> QED
    BY <1>2, <2>2, <2>4, <2>5 DEF Private
<1>8. Flight' /\ NoScalarTemp'
  BY <1>1, NoScalarKept DEF Flight
<1> QED
  BY <1>3, <1>6, <1>7, <1>8, <1>9 DEF AGoal, Alive, HeapMoved


(* A body runs above the activation. *)
LEMMA ContinueA ==
  ASSUME Going, NoWildAccess', HeapKept, Onto(Len(stack)), state # "RET",
         NEW f \in Frame, NEW g \in Frame, Continue(f, g),
         f.base = Top.base, f.hold = Top.hold, Loop(Top) = 0, Len(stack') >= Len(stack) + Loop(f),
         Sort(f), f.k \notin Building, f.k # "arg", f.k \in Clauses => Top.k \in Clauses,
         g.base = Len(stack'), g.hold = <<>>, g.k = "body"
  PROVE  AGoal
<1>1. frames' = Append(Append(Below, f), g) /\ val' = Pending
  BY DEF Continue
<1>2. /\ Depth' = Depth + 1 /\ Depth \in Nat \ {0}
      /\ frames'[Depth] = f /\ frames'[Depth + 1] = g
      /\ \A i \in 1 .. Depth - 1 : frames'[i] = frames[i]
  BY <1>1, GoingFacts, ContinueFacts
<1>3. Rooting' /\ \A j \in 1 .. Len(stack') : stack'[j].kind = "REG" => stack'[j].id = Lib
  BY RootingKept DEF HeapKept
<1>4. ASSUME NEW i \in 1 .. Depth + 1 PROVE Sort(frames'[i])
  <2>1. CASE i = Depth + 1
    BY <1>2, <2>1 DEF Sort, Missing
  <2>2. CASE i = Depth
    BY <1>2, <2>2
  <2>3. CASE i # Depth + 1 /\ i # Depth
    <3>1. i \in 1 .. Depth /\ i \in 1 .. Depth - 1
      BY <1>2, <2>3
    <3> QED
      BY <1>2, <3>1, GoingFacts DEF Kinded
  <2> QED
    BY <2>1, <2>2, <2>3
<1>5. ASSUME NEW i \in 1 .. Depth PROVE Above(frames'[i], frames'[i + 1])
  <2>1. CASE i = Depth
    BY <1>2, <2>1 DEF Above, Clauses
  <2>2. CASE i # Depth
    <3>1. i \in 1 .. Depth - 1
      BY <1>2, <2>2
    <3>2. Above(frames[i], frames[i + 1])
      BY <3>1, GoingFacts DEF Kinded
    <3>3. CASE i + 1 = Depth
      <4>1. frames'[i] = frames[i] /\ frames'[i + 1] = f /\ frames[i + 1] = Top
        BY <1>2, <3>1, <3>3, DepthFacts
      <4> QED
        BY <3>2, <4>1 DEF Above
    <3>4. CASE i + 1 # Depth
      <4>1. i + 1 \in 1 .. Depth - 1
        BY <1>2, <3>1, <3>4
      <4> QED
        BY <1>2, <3>1, <3>2, <4>1
    <3> QED
      BY <3>3, <3>4
  <2> QED
    BY <2>1, <2>2
<1>6. Kinded'
  <2>1. Depth' - 1 = Depth /\ Top' = g
    BY <1>2 DEF Top
  <2> QED
    BY <1>2, <1>3, <1>4, <1>5, <2>1 DEF Kinded
<1>7. Locals'
  BY <1>1, LocalsContinue DEF HeapKept, HeapMoved, Onto
<1>9. Private'
  <2>1. Keeps(Len(stack)) /\ Len(stack) >= Top.base
    BY GoingFacts DEF Onto
  <2>2. \A i \in 1 .. Depth : Own(items', stack', frames[i])
    BY <2>1, OwnKept DEF HeapKept, HeapMoved
  <2>3. Own(items', stack', f) /\ Own(items', stack', g)
    BY DEF Own, Building
  <2>4. \A i \in 1 .. Depth' : i = Depth + 1 \/ i = Depth \/ i \in 1 .. Depth - 1
    BY <1>2
  <2> QED
    BY <1>2, <2>2, <2>3, <2>4 DEF Private
<1>8. Flight' /\ NoScalarTemp'
  BY <1>1, NoScalarKept DEF Flight
<1> QED
  BY <1>3, <1>6, <1>7, <1>8, <1>9 DEF AGoal, Alive, HeapKept, HeapMoved

(* The activation ends. *)
LEMMA LeaveA ==
  ASSUME Going, NoWildAccess', HeapKept, NEW h, Onto(h), h >= Top.base,
         frames' = Below, val' # Pending, val'.v \in objs' \cup Scalar,
         state' # "RET" \/ Top.k \notin Clauses => Anchored(items', stack', val'.v, Len(stack')),
         wild' = "no" /\ state' = "RET" /\ val'.v \in Scalar => Calls = {},
         state = "RET" /\ Calls = {} => state' = "RET"
  PROVE  AGoal
<1>1. /\ Depth' = Depth - 1 /\ Depth \in Nat \ {0}
      /\ \A i \in 1 .. Depth - 1 : frames'[i] = frames[i]
  BY GoingFacts, LeaveFacts
<1>2. Calls = {} => Calls' = {}
  <2>1. \A i \in 1 .. Depth - 1 : i \in 1 .. Depth
    BY <1>1
  <2> QED
    BY <1>1, <2>1 DEF Calls
<1>3. Rooting' /\ \A j \in 1 .. Len(stack') : stack'[j].kind = "REG" => stack'[j].id = Lib
  BY RootingKept DEF HeapKept
<1>4. \A i \in 1 .. Depth - 1 : Sort(frames'[i])
  <2>1. \A i \in 1 .. Depth - 1 : i \in 1 .. Depth
    BY <1>1
  <2> QED
    BY <1>1, <2>1, GoingFacts DEF Kinded
<1>5. ASSUME NEW i \in 1 .. Depth - 1 - 1 PROVE Above(frames'[i], frames'[i + 1])
  <2>1. i \in 1 .. Depth - 1 /\ i + 1 \in 1 .. Depth - 1
    BY <1>1
  <2> QED
    BY <1>1, <2>1, GoingFacts DEF Kinded
<1>6. ASSUME frames' # <<>>
      PROVE  Top' = frames[Depth - 1] /\ Above(Top', Top)
  <2>1. Depth - 1 \in 1 .. Depth - 1 /\ Depth - 1 + 1 = Depth
    <3>1. frames' \in Seq(Frame) /\ Len(frames') = Depth - 1
      BY GoingFacts, <1>1, LeaveFacts DEF Depth
    <3> QED
      BY <3>1, <1>1, <1>6, EmptySeq
  <2>2. Top' = frames[Depth - 1]
    BY <1>1, <2>1 DEF Top
  <2>3. Above(frames[Depth - 1], frames[Depth])
    BY <2>1, GoingFacts DEF Kinded
  <2> QED
    BY <2>2, <2>3, DepthFacts
<1>7. Kinded'
  BY <1>1, <1>3, <1>4, <1>5, <1>6 DEF Kinded, Above
<1>8. Locals'
  BY LocalsLeave DEF HeapKept, HeapMoved, Onto
<1>11. Private'
  <2>1. Keeps(h) /\ Settles
    BY DEF Onto, HeapKept, HeapMoved
  <2>2. \A i \in 1 .. Depth : Own(items', stack', frames[i])
    BY <2>1, OwnKept
  <2>3. \A i \in 1 .. Depth' : i \in 1 .. Depth /\ i \in 1 .. Depth - 1
    BY <1>1
  <2> QED
    BY <1>1, <2>2, <2>3 DEF Private
<1>9. wild' = "no" => Flight'
  <2>1. ASSUME frames' # <<>>, Top'.k = "call" PROVE Top.k \notin Clauses
    BY <1>6, <2>1 DEF Above
  <2> QED
    BY <1>2, <2>1 DEF Flight
<1>10. NoScalarTemp'
  BY <1>2, NoScalarKept
<1> QED
  BY <1>3, <1>7, <1>8, <1>9, <1>10, <1>11 DEF AGoal, Alive, Clean, HeapKept, HeapMoved


-----------------------------------------------------------------------------
(* What the parts of the actions do to the stack and the heap.             *)

LEMMA StackSame ==
  ASSUME Going, Still
  PROVE  Onto(Len(stack)) /\ Len(stack') = Len(stack) /\ stack' = stack
<1>1. stack' = stack /\ Len(stack) \in Nat
  BY DepthFacts DEF Still
<1> QED
  BY <1>1 DEF Onto, Keeps

LEMMA StackPushed ==
  ASSUME Going, NEW sym, Push(sym), Sound(sym)
  PROVE  /\ Onto(Len(stack)) /\ Len(stack') = Len(stack) + 1
         /\ stack'[Len(stack) + 1] = sym
<1>1. stack' = Append(stack, sym) /\ stack \in Seq(Symbol) /\ Len(stack) \in Nat
  BY GoingFacts DEF Push, SetStack
<1>2. /\ Len(stack') = Len(stack) + 1 /\ stack'[Len(stack) + 1] = sym
      /\ \A i \in 1 .. Len(stack) : stack'[i] = stack[i]
  BY <1>1, Appended
<1>3. Keeps(Len(stack))
  BY <1>1, <1>2 DEF Keeps
<1>4. \A j \in Len(stack) + 1 .. Len(stack') : j = Len(stack) + 1
  BY <1>1, <1>2
<1> QED
  BY <1>1, <1>2, <1>3, <1>4 DEF Onto

LEMMA StackCut ==
  ASSUME Going, NEW n \in 0 .. Len(stack), stack' = Prefix(n)
  PROVE  Onto(n) /\ Len(stack') = n
<1>1. stack \in Seq(Symbol) /\ Len(stack) \in Nat /\ n \in Nat
  BY GoingFacts
<1>2. Len(stack') = n /\ \A i \in 1 .. n : stack'[i] = stack[i]
  BY <1>1, GoingFacts, SubSeqProperties DEF Prefix
<1>3. \A j \in n + 1 .. Len(stack') : FALSE
  BY <1>1, <1>2
<1> QED
  BY <1>1, <1>2, <1>3 DEF Onto, Keeps

LEMMA HeapTyped ==
  ASSUME Going
  PROVE  /\ objs \subseteq Obj /\ freed \subseteq Obj /\ objs \cap freed = {}
         /\ items \in [Obj -> Seq(Val)]
         /\ Live(items, RootsIn(stack, Len(stack))) \subseteq objs
         /\ Reach(Roots) = Live(items, RootsIn(stack, Len(stack)))
<1>1. objs \subseteq Obj /\ freed \subseteq Obj /\ objs \cap freed = {} /\ items \in [Obj -> Seq(Val)]
  BY GoingFacts DEF IInv, TypeOK, HeapTypeOK
<1>2. Live(items, RootsIn(stack, Len(stack))) \subseteq objs
  BY <1>1, GoingFacts, LiveLeast DEF Steady, Rooting
<1>3. \A R : Reach(R) = Live(items, R)
  BY DEF Reach, Live, Closed, Kids, KidsIn
<1>4. Roots = RootsIn(stack, Len(stack))
  BY DEF Roots, RootsIn
<1> QED
  BY <1>1, <1>2, <1>3, <1>4

LEMMA HeapSame ==
  ASSUME Going, UNCHANGED heapVars
  PROVE  HeapKept
<1>1. items' = items /\ objs' = objs /\ freed' = freed
  BY DEF heapVars
<1>2. Steady'
  BY <1>1, GoingFacts DEF Steady, Unused
<1>3. Gains /\ Settles
  BY <1>1 DEF Gains, Settles, Richer
<1> QED
  BY <1>1, <1>2, <1>3, HeapTyped DEF HeapKept, HeapMoved

(* Whatever tracked values the literal that is being built has now *)
LEMMA HeapWritten ==
  ASSUME Going, NEW o \in objs, o \notin Live(items, RootsIn(stack, Top.base)),
         \A p \in Obj \ {o} : items'[p] = items[p],
         KidsIn(items', o) \subseteq objs, UNCHANGED <<objs, freed>>
  PROVE  HeapMoved
<1>1. objs \subseteq Obj /\ Live(items, RootsIn(stack, Top.base)) \subseteq Obj
  BY HeapTyped, LiveFacts DEF RootsIn
<1>2. \A p \in Obj \ {o} : KidsIn(items', p) = KidsIn(items, p)
  BY DEF KidsIn
<1>3. Settles
  BY <1>1, <1>2 DEF Settles
<1>4. Steady'
  <2>1. \A p \in objs : KidsIn(items', p) \subseteq objs
    BY <1>1, <1>2, GoingFacts DEF Steady
  <2>2. \A p \in Unused : items'[p] = <<>>
    BY <1>1, GoingFacts DEF Steady, Unused
  <2> QED
    BY <2>1, <2>2 DEF Steady, Unused
<1> QED
  BY <1>1, <1>3, <1>4, HeapTyped DEF HeapMoved

LEMMA HeapInserted ==
  ASSUME Going, NEW o \in objs, o \notin Live(items, RootsIn(stack, Top.base)),
         NEW v \in objs \cup Scalar, Insert(o, v), UNCHANGED <<objs, freed>>
  PROVE  HeapKept
<1>1. /\ objs \subseteq Obj /\ o \in Obj /\ items \in [Obj -> Seq(Val)] /\ items[o] \in Seq(Val)
  BY HeapTyped
<1>2. /\ items'[o] = Append(items[o], v)
      /\ \A p \in Obj \ {o} : items'[p] = items[p]
  BY <1>1 DEF Insert
<1>3. /\ Len(items'[o]) = Len(items[o]) + 1 /\ items'[o][Len(items[o]) + 1] = v
      /\ \A i \in 1 .. Len(items[o]) : items'[o][i] = items[o][i]
      /\ Len(items[o]) \in Nat
  BY <1>1, <1>2, Appended
<1>4. KidsIn(items, o) \subseteq KidsIn(items', o)
  <2>1. \A i \in 1 .. Len(items[o]) : i \in 1 .. Len(items'[o])
    BY <1>3
  <2> QED
    BY <1>3, <2>1 DEF KidsIn
<1>5. KidsIn(items', o) \subseteq KidsIn(items, o) \cup objs
  <2>1. \A i \in 1 .. Len(items'[o]) : i \in 1 .. Len(items[o]) \/ i = Len(items[o]) + 1
    BY <1>3
  <2>2. ASSUME NEW i \in 1 .. Len(items'[o]), items'[o][i] \in Obj
        PROVE  items'[o][i] \in KidsIn(items, o) \cup objs
    <3>1. CASE i \in 1 .. Len(items[o])
      BY <1>3, <2>2, <3>1 DEF KidsIn
    <3>2. CASE i = Len(items[o]) + 1
      BY <1>3, <2>2, <3>2, ObjAssumption
    <3> QED
      BY <2>1, <3>1, <3>2
  <2> QED
    BY <2>2 DEF KidsIn
<1>6. \A p \in Obj \ {o} : KidsIn(items', p) = KidsIn(items, p)
  BY <1>2 DEF KidsIn
<1>7. Gains
  BY <1>4, <1>6 DEF Gains, Richer
<1>8. KidsIn(items', o) \subseteq objs
  BY <1>5, GoingFacts DEF Steady
<1>9. HeapMoved
  BY <1>2, <1>8, HeapWritten
<1> QED
  BY <1>7, <1>9 DEF HeapKept

(* An allocation, with what the new object is filled with *)
Fills(o) == /\ \A p \in Obj \ {o} : items'[p] = items[p]
            /\ KidsIn(items', o) \subseteq Live(items, RootsIn(stack, Len(stack)))

LEMMA Allocated ==
  ASSUME Going, NEW o \in Obj, NewHeapVal(o), state # "RET"
  PROVE  \E kept : /\ Live(items, RootsIn(stack, Len(stack))) \subseteq kept
                   /\ kept \subseteq objs /\ \A p \in kept : KidsIn(items, p) \subseteq kept
                   /\ o \in Unused /\ objs' = kept \cup {o} /\ freed' = freed \cup (objs \ kept)
<1> DEFINE L == Live(items, RootsIn(stack, Len(stack)))
           kept == IF Full THEN objs \cap L ELSE objs
<1>1. o \in Unused /\ objs' = kept \cup {o} /\ freed' = freed \cup (objs \ kept)
  BY HeapTyped DEF NewHeapVal, Alloc
<1>2. L \subseteq kept /\ kept \subseteq objs
  BY HeapTyped
<1>3. kept = L \/ kept = objs
  BY HeapTyped
<1>4. \A p \in kept : KidsIn(items, p) \subseteq kept
  <2>1. \A p \in L : KidsIn(items, p) \subseteq L
    BY LiveFacts DEF RootsIn
  <2>2. \A p \in objs : KidsIn(items, p) \subseteq objs
    BY GoingFacts DEF Steady
  <2> QED
    BY <1>3, <2>1, <2>2
<1> QED
  BY <1>1, <1>2, <1>4

LEMMA HeapAllocated ==
  ASSUME Going, NEW o \in Obj, NewHeapVal(o), state # "RET", Fills(o)
  PROVE  /\ HeapKept /\ o \in objs' /\ Onto(Len(stack)) /\ Len(stack') = Len(stack) + 1
         /\ Anchored(items', stack', o, Len(stack'))
         /\ o \notin Live(items', RootsIn(stack', Len(stack)))
<1> DEFINE L == Live(items, RootsIn(stack, Len(stack)))
<1>1. PICK kept : /\ L \subseteq kept
                  /\ kept \subseteq objs /\ \A p \in kept : KidsIn(items, p) \subseteq kept
                  /\ o \in Unused /\ objs' = kept \cup {o} /\ freed' = freed \cup (objs \ kept)
  BY Allocated
<1>2. objs \subseteq Obj /\ items[o] = <<>> /\ o \notin objs
  BY <1>1, HeapTyped, GoingFacts DEF Steady, Unused
<1>3. KidsIn(items, o) = {} /\ KidsIn(items', o) \subseteq L
  <2>1. Len(items[o]) = 0
    BY <1>2
  <2> QED
    BY <2>1 DEF KidsIn, Fills
<1>4. \A p \in Obj \ {o} : KidsIn(items', p) = KidsIn(items, p)
  BY DEF KidsIn, Fills
<1> HIDE DEF L
<1>5. Gains
  BY <1>3, <1>4 DEF Gains, Richer
<1>6. Steady'
  <2>1. \A p \in objs' : KidsIn(items', p) \subseteq objs'
    BY <1>1, <1>2, <1>3, <1>4
  <2>2. \A p \in Unused' : p \in Unused /\ p # o
    BY <1>1, <1>2 DEF Unused
  <2>3. \A p \in Unused' : items'[p] = <<>>
    <3>1. \A p \in Unused : p \in Obj /\ items[p] = <<>>
      BY GoingFacts DEF Steady, Unused
    <3> QED
      BY <2>2, <3>1 DEF Fills
  <2> QED
    BY <2>1, <2>3 DEF Steady
<1>12. Settles
  <2>1. Live(items, RootsIn(stack, Top.base)) \subseteq Live(items, RootsIn(stack, Len(stack)))
    BY GoingFacts, LiveWidens
  <2>2. o \notin L
    BY <1>1, <1>2
  <2> QED
    BY <1>1, <1>2, <1>4, <2>1, <2>2 DEF Settles, L
<1>7. HeapKept
  BY <1>1, <1>2, <1>5, <1>6, <1>12 DEF HeapKept, HeapMoved, L
<1>8. Sound(Temp(o))
  BY <1>1, ObjAssumption DEF Sound, Temp
<1>9. Onto(Len(stack)) /\ Len(stack') = Len(stack) + 1 /\ stack'[Len(stack) + 1] = Temp(o)
  BY <1>8, StackPushed DEF NewHeapVal
<1>10. o \in RootsIn(stack', Len(stack'))
  <2>1. Len(stack) + 1 \in 1 .. Len(stack')
    BY <1>9, DepthFacts
  <2>2. stack'[Len(stack) + 1].kind = "TEMP" /\ stack'[Len(stack) + 1].v = o
    BY <1>9 DEF Temp
  <2> QED
    BY <2>1, <2>2 DEF RootsIn
<1>11. Anchored(items', stack', o, Len(stack'))
  BY <1>10, LiveFacts DEF Anchored, RootsIn
<1>13. o \notin Live(items', RootsIn(stack', Len(stack)))
  <2>1. RootsIn(stack', Len(stack)) = RootsIn(stack, Len(stack))
    <3>1. \A j \in 1 .. Len(stack) : stack'[j] = stack[j]
      BY <1>9 DEF Onto, Keeps
    <3> QED
      BY <3>1 DEF RootsIn
  <2>2. o \notin L /\ L \subseteq Obj
    BY <1>1, <1>2
  <2>3. RootsIn(stack, Len(stack)) \subseteq L /\ \A p \in L : KidsIn(items, p) \subseteq L
    BY LiveFacts DEF L, RootsIn
  <2>4. \A p \in L : KidsIn(items', p) \subseteq L
    BY <1>4, <2>2, <2>3
  <2>5. Live(items', RootsIn(stack, Len(stack))) \subseteq L
    BY <2>2, <2>3, <2>4, LiveLeast
  <2> QED
    BY <2>1, <2>2, <2>5
<1> QED
  BY <1>1, <1>7, <1>9, <1>11, <1>13

LEMMA NoFault ==
  ASSUME Going, NEW o \in Obj, NewHeapVal(o), state # "RET",
         NEW V, \A v \in V : Anchored(items, stack, v, Len(stack))
  PROVE  Fault(V) = "no"
<1> DEFINE L == Live(items, RootsIn(stack, Len(stack)))
<1>1. PICK kept : L \subseteq kept /\ kept \subseteq objs /\ freed' = freed \cup (objs \ kept)
  BY Allocated
<1>2. L \subseteq objs /\ objs \cap freed = {} /\ freed \subseteq Obj /\ objs \subseteq Obj /\ Reach(Roots) = L
  BY HeapTyped
<1>3. ScalarTemps = {}
  BY GoingFacts DEF NoScalarTemp
<1>4. V \subseteq Scalar \cup L
  BY DEF Anchored
<1> HIDE DEF L
<1>5. V \cap freed' = {}
  BY <1>1, <1>2, <1>4, ObjAssumption
<1> QED
  BY <1>2, <1>3, <1>5 DEF Fault, MarkFault

(* Reading through tracked objects meets only tracked objects. *)
LEMMA NoReadFault ==
  ASSUME Going, NEW V, V \subseteq objs \cup Scalar, Reads(V)
  PROVE  wild' = "no"
<1>1. objs \subseteq Obj /\ objs \cap freed = {} /\ V \cap Obj \subseteq objs
  BY HeapTyped, ObjAssumption
<1>2. Live(items, V \cap Obj) \subseteq objs
  BY <1>1, GoingFacts, LiveLeast DEF Steady
<1>3. Reach(V \cap Obj) = Live(items, V \cap Obj)
  BY DEF Reach, Live, Closed, Kids, KidsIn
<1> QED
  BY <1>1, <1>2, <1>3 DEF Reads


-----------------------------------------------------------------------------
(* What the actions hand on.                                               *)

LEMMA KeptAnchored ==
  ASSUME Going, HeapKept, Onto(Len(stack)), NEW v, Anchored(items, stack, v, Len(stack))
  PROVE  /\ Anchored(items', stack', v, Len(stack'))
         /\ v \in objs \cup Scalar /\ v \in objs' \cup Scalar
<1>1. /\ Len(stack) \in Int /\ Len(stack') \in Int /\ Len(stack) <= Len(stack')
      /\ \A j \in 1 .. Len(stack) : stack'[j] = stack[j]
  BY DepthFacts DEF Onto, Keeps
<1>3. Richer(items, items', Live(items, RootsIn(stack, Len(stack))))
  BY LiveFacts DEF HeapKept, Gains, Richer, RootsIn
<1>2. Anchored(items', stack', v, Len(stack'))
  BY <1>1, <1>3, StaysAnchored
<1> QED
  BY <1>2, HeapTyped DEF HeapKept, HeapMoved, Anchored

(* An item of an object that can be reached *)
LEMMA ItemAnchored ==
  ASSUME Going, NEW o \in Obj, Anchored(items, stack, o, Len(stack)), NEW e \in Items(o)
  PROVE  Anchored(items, stack, e, Len(stack))
<1>1. o \in Live(items, RootsIn(stack, Len(stack)))
  BY ObjAssumption DEF Anchored
<1>2. KidsIn(items, o) \subseteq Live(items, RootsIn(stack, Len(stack)))
  BY <1>1, LiveFacts DEF RootsIn
<1>3. e \in Val
  <2>1. items[o] \in Seq(Val)
    BY HeapTyped
  <2> QED
    BY <2>1, ElementOfSeq DEF Items
<1>4. e \in Obj => e \in KidsIn(items, o)
  BY DEF Items, KidsIn
<1> QED
  BY <1>2, <1>3, <1>4 DEF Anchored, Val

(* What an activation has been given *)
LEMMA GivenFacts ==
  ASSUME Going, val # Pending
  PROVE  /\ val \in Slot /\ val.v \in objs \cup Scalar
         /\ Top.k # "arg" /\ Top.k \notin Missing
         /\ state # "RET" => Anchored(items, stack, val.v, Len(stack))
<1>1. Depth \in 1 .. Depth
  BY DepthFacts
<1> QED
  BY <1>1, GoingFacts, TypedFacts DEF Flight, Kinded, Sort

LEMMA AskedFacts ==
  ASSUME Going, Asked
  PROVE  state = "NONE" /\ Top.k \notin Missing /\ Len(stack) \in 0 .. Len(stack)
<1>1. Depth \in 1 .. Depth
  BY DepthFacts
<1> QED
  BY <1>1, Asking, GoingFacts DEF Kinded, Sort

LEMMA StopsOnError ==
  ASSUME Going, err', wild' = wild
  PROVE  AGoal
  BY DEF Going, Running, AGoal, NoWildAccess, Clean

LEMMA Unhurt ==
  ASSUME Going, wild' \in {"no", wild, "not_list", "outside", "assert"}
  PROVE  NoWildAccess'
  BY DEF Going, Running, NoWildAccess

(* A new frame, and the innermost one changed *)
IsFrame(f, k, base, own, hold) ==
  f \in Frame /\ f.k = k /\ f.base = base /\ f.own = own /\ f.hold = hold

LEMMA WithKind ==
  ASSUME Going, NEW k \in Kinds
  PROVE  IsFrame([Top EXCEPT !.k = k], k, Top.base, Top.own, Top.hold)
<1>1. Top \in [k : Kinds, base : Nat, own : Nat, n : Nat, buf : Nat, hold : Seq(Slot)]
  BY GoingFacts DEF Frame
<1> QED
  BY <1>1 DEF Frame, IsFrame

LEMMA WithOwn ==
  ASSUME Going, NEW k \in Kinds, NEW own \in Nat
  PROVE  IsFrame([Top EXCEPT !.k = k, !.own = own], k, Top.base, own, Top.hold)
<1>1. Top \in [k : Kinds, base : Nat, own : Nat, n : Nat, buf : Nat, hold : Seq(Slot)]
  BY GoingFacts DEF Frame
<1> QED
  BY <1>1 DEF Frame, IsFrame

LEMMA WithNext ==
  ASSUME Going, NEW k \in Kinds, NEW own \in Nat, NEW n \in Nat
  PROVE  IsFrame([Top EXCEPT !.k = k, !.own = own, !.n = n], k, Top.base, own, Top.hold)
<1>1. Top \in [k : Kinds, base : Nat, own : Nat, n : Nat, buf : Nat, hold : Seq(Slot)]
  BY GoingFacts DEF Frame
<1> QED
  BY <1>1 DEF Frame, IsFrame

LEMMA WithHold ==
  ASSUME Going, NEW k \in Kinds, NEW hold \in Seq(Slot)
  PROVE  IsFrame([Top EXCEPT !.k = k, !.hold = hold], k, Top.base, Top.own, hold)
<1>1. Top \in [k : Kinds, base : Nat, own : Nat, n : Nat, buf : Nat, hold : Seq(Slot)]
  BY GoingFacts DEF Frame
<1> QED
  BY <1>1 DEF Frame, IsFrame

LEMMA NewFacts ==
  ASSUME Going, NEW k \in Kinds, NEW h \in Nat
  PROVE  IsFrame(NewAt(k, h), k, h, 0, <<>>) /\ NewAt(k, h).buf = cap
<1>1. cap \in Nat
  BY GoingFacts, TypedFacts
<1> QED
  BY <1>1 DEF NewAt, Frame, IsFrame

LEMMA NewWithHold ==
  ASSUME Going, NEW k \in Kinds, NEW h \in Nat, NEW hold \in Seq(Slot)
  PROVE  IsFrame([NewAt(k, h) EXCEPT !.hold = hold], k, h, 0, hold)
<1>1. cap \in Nat
  BY GoingFacts, TypedFacts
<1> QED
  BY <1>1 DEF NewAt, Frame, IsFrame

(* A sub-tree is entered, and nothing else happens. *)
LEMMA EnterStillA ==
  ASSUME Going, state # "RET", Top.k # "arg", Still, UNCHANGED heapVars, wild' = wild,
         NEW k \in Kinds \ (Missing \cup Building \cup {"each_b"}), Enter(New(k)), k \in Clauses => Top.k = "body"
  PROVE  AGoal
<1> DEFINE f == New(k)
<1>1. f \in Frame /\ f.k = k /\ f.base = Len(stack) /\ f.own = 0 /\ f.hold = <<>> /\ f.buf = cap
  BY NewFacts, DepthFacts DEF New, IsFrame
<1>2. Enter(f)
  OBVIOUS
<1> HIDE DEF f
<1>3. HeapKept /\ Onto(Len(stack)) /\ NoWildAccess' /\ cap' = cap
  BY HeapSame, StackSame, Unhurt DEF Still
<1>4. Sort(f)
  BY <1>1 DEF Sort
<1>5. Guarded(items', stack', f, Len(stack'))
  <2>1. Len(f.hold) = 0
    BY <1>1
  <2> QED
    BY <2>1 DEF Guarded
<1>6. Own(items', stack', f)
  BY <1>1 DEF Own
<1> QED
  BY <1>1, <1>2, <1>3, <1>4, <1>5, <1>6, EnterA

(* The activation ends without a value. *)
LEMMA LeaveScalarA ==
  ASSUME Going, UNCHANGED heapVars, NoWildAccess', NEW n, Onto(n), n >= Top.base,
         NEW s \in Scalar, Leave(Unrooted(s)), state # "RET", state' # "RET"
  PROVE  AGoal
<1>1. frames' = Below /\ val'.v = s /\ val' # Pending
  BY StackAssumption DEF Leave, Unrooted, Slot, Val
<1>2. Anchored(items', stack', s, Len(stack'))
  BY DEF Anchored
<1> QED
  BY <1>1, <1>2, HeapSame, LeaveA

(* The activation goes on with what it holds. *)
LEMMA ResumeTopA ==
  ASSUME Going, NoWildAccess', HeapKept, Still, state # "RET",
         NEW f \in Frame, Resume(f), f.base = Top.base, f.hold = Top.hold,
         Top.k # "each_b", f.k # "each_b",
         f.k \notin Missing \cup {"arg", "call"}, f.k \in Clauses => Top.k \in Clauses,
         f.k \in Building => Top.k \in Building
  PROVE  AGoal
<1>1. Onto(Len(stack)) /\ Len(stack') = Len(stack) /\ Keeps(Len(stack))
  BY StackSame DEF Onto
<1>2. Guarded(items', stack', Top, Len(stack)) /\ Len(stack) >= Top.base /\ f.base >= Top.base
  BY <1>1, GoingFacts, TopGuarded DEF HeapKept, HeapMoved
<1>3. Guarded(items', stack', f, Len(stack'))
  BY <1>1, <1>2 DEF Guarded, Loop
<1> QED
  BY <1>1, <1>2, <1>3, ResumeA DEF HeapKept

(* It goes on with the value it was given. *)
LEMMA ResumeValA ==
  ASSUME Going, val # Pending, UNCHANGED heapVars, NoWildAccess', Still, state # "RET",
         NEW k \in Kinds \ (Missing \cup Building \cup {"arg", "call", "each_b"}), k \in Clauses => Top.k \in Clauses,
         Resume([Top EXCEPT !.k = k, !.hold = <<val>>])
  PROVE  AGoal
<1> DEFINE f == [Top EXCEPT !.k = k, !.hold = <<val>>]
<1>1. val \in Slot /\ Anchored(items, stack, val.v, Len(stack))
  BY GivenFacts
<1>2. <<val>> \in Seq(Slot)
  BY <1>1
<1>3. f \in Frame /\ f.k = k /\ f.base = Top.base /\ f.hold = <<val>>
  BY <1>2, WithHold DEF IsFrame
<1>4. Resume(f)
  OBVIOUS
<1> HIDE DEF f
<1>5. HeapKept /\ Onto(Len(stack)) /\ Len(stack) >= Top.base /\ f.base >= Top.base
  BY <1>3, HeapSame, StackSame, GoingFacts
<1>6. Guarded(items', stack', f, Len(stack'))
  <2>1. Anchored(items', stack', val.v, Len(stack'))
    BY <1>1, <1>5, KeptAnchored
  <2>2. Len(stack') \in Nat /\ Loop(f) = 0 /\ Len(stack') - 0 = Len(stack')
    BY <1>3, <1>5 DEF Onto, Loop
  <2>3. \A j \in 1 .. Len(f.hold) : f.hold[j] = val
    BY <1>3
  <2> QED
    BY <2>1, <2>2, <2>3 DEF Guarded
<1> QED
  BY <1>3, <1>4, <1>5, <1>6, ResumeA DEF HeapKept


-----------------------------------------------------------------------------
(* The actions.                                                            *)

(* A new object without items *)
LEMMA FillsNone ==
  ASSUME Going, NEW o \in Obj, NewHeapVal(o), items' = items
  PROVE  Fills(o)
<1>1. o \in Unused
  BY DEF NewHeapVal, Alloc
<1>2. Len(items[o]) = 0
  BY <1>1, GoingFacts DEF Steady
<1>3. KidsIn(items', o) = {}
  BY <1>2 DEF KidsIn
<1> QED
  BY <1>3 DEF Fills

(* The value of a variable *)
LEMMA VariableAnchored ==
  ASSUME Going, NEW id, IsA(id, "VAR")
  PROVE  Anchored(items, stack, stack[Newest(id)].v, Len(stack))
<1> DEFINE j == Newest(id)
<1>1. j \in 1 .. Len(stack) /\ stack[j] \in Symbol /\ stack[j].kind = "VAR"
  BY GoingFacts, NewestIsHit DEF IsA
<1>2. stack[j].v \in Val
  BY <1>1 DEF Symbol
<1> HIDE DEF j
<1>3. stack[j].v \in Obj => stack[j].v \in RootsIn(stack, Len(stack))
  BY <1>1 DEF RootsIn
<1>4. stack[j].v \in Obj => stack[j].v \in Live(items, RootsIn(stack, Len(stack)))
  BY <1>3, LiveFacts DEF RootsIn
<1> QED
  BY <1>2, <1>4 DEF Anchored, Val, j

(* No name of the program is a C function's. *)
LEMMA NoRegistered ==
  ASSUME Going, NEW id \in Ids
  PROVE  ~IsA(id, "REG")
<1>1. SUFFICES ASSUME IsA(id, "REG") PROVE FALSE
  OBVIOUS
<1>2. Hits(id) # {} /\ stack[Newest(id)].kind = "REG"
  BY <1>1 DEF IsA
<1>3. Newest(id) \in Hits(id) /\ Newest(id) \in 1 .. Len(stack)
  BY <1>2, GoingFacts, NewestIsHit
<1>4. stack[Newest(id)].id = Lib
  BY <1>2, <1>3, GoingFacts DEF Kinded
<1>5. stack[Newest(id)].id = id
  BY <1>3 DEF Hits
<1> QED
  BY <1>4, <1>5, StackAssumption

LEMMA ExpressionA ==
  ASSUME Going, Expression
  PROVE  AGoal
<1>1. Hole
  BY DEF Expression, ExprScalar, ExprVar, ExprStr, ExprContainer, ExprList, ExprDict,
         ExprBin, ExprAssign, ExprUn, ExprOp, ExprCall, Starts
<1>2. Asked /\ state = "NONE" /\ state # "RET" /\ wild = "no" /\ Len(stack) \in Nat
  BY <1>1, AskedFacts, DepthFacts DEF Hole, Asked, Running
<1>3. Top.k # "arg"
  BY <1>1 DEF Hole, At, Going, Nullary
<1>4. ASSUME Still, UNCHANGED heapVars, frames' = frames, wild' = wild, state' = state,
             NEW v, val' = Unrooted(v), Anchored(items, stack, v, Len(stack)), v \in Val
      PROVE  AGoal
  <2>1. HeapKept /\ Onto(Len(stack)) /\ NoWildAccess'
    BY <1>4, HeapSame, StackSame, Unhurt
  <2>2. val' # Pending /\ val'.v = v
    BY <1>4, StackAssumption DEF Unrooted, Slot
  <2>3. Anchored(items', stack', v, Len(stack'))
    BY <1>4, <2>1, KeptAnchored
  <2> QED
    BY <1>2, <1>3, <1>4, <2>1, <2>2, <2>3, LeafA
<1>5. ASSUME NEW s \in Literals, ExprScalar(s) PROVE AGoal
  <2>1. Anchored(items, stack, s, Len(stack)) /\ s \in Val
    BY EvalAssumption DEF Anchored, Val
  <2> QED
    BY <1>4, <1>5, <2>1 DEF ExprScalar, Quiet
<1>6. ASSUME NEW id \in Ids, ExprVar(id) PROVE AGoal
  <2>1. CASE IsA(id, "VAR")
    <3>1. Anchored(items, stack, stack[Newest(id)].v, Len(stack))
      BY <2>1, VariableAnchored
    <3>2. stack[Newest(id)].v \in Val
      <4>1. stack[Newest(id)] \in Symbol
        BY <2>1, GoingFacts, NewestIsHit DEF IsA
      <4> QED
        BY <4>1 DEF Symbol
    <3> QED
      BY <1>4, <1>6, <2>1, <3>1, <3>2 DEF ExprVar
  <2>2. CASE ~IsA(id, "VAR")
    BY <1>6, <2>2, StopsOnError DEF ExprVar
  <2> QED
    BY <2>1, <2>2
<1>7. ASSUME NEW o \in Obj, NewHeapVal(o), items' = items, wild' = Fault({})
      PROVE  /\ NoWildAccess' /\ HeapKept /\ Onto(Len(stack)) /\ Len(stack') \in Nat
             /\ Anchored(items', stack', o, Len(stack'))
             /\ o \notin Live(items', RootsIn(stack', Len(stack)))
  <2>1. wild' = "no"
    BY <1>2, <1>7, NoFault
  <2>2. Fills(o)
    BY <1>7, FillsNone
  <2> QED
    BY <1>2, <1>7, <2>1, <2>2, HeapAllocated, Unhurt DEF Onto
<1>8. ASSUME NEW o \in Obj, ExprStr(o) PROVE AGoal
  <2>1. /\ NoWildAccess' /\ HeapKept /\ Onto(Len(stack))
        /\ Anchored(items', stack', o, Len(stack'))
    BY <1>7, <1>8 DEF ExprStr
  <2>2. frames' = frames /\ state' = "NONE" /\ val' = Rooted(o)
    BY <1>2, <1>8 DEF ExprStr
  <2>3. val' # Pending /\ val'.v = o
    BY <1>2, <2>2, StackAssumption DEF Rooted, Slot, Val
  <2> QED
    BY <1>2, <1>3, <2>1, <2>2, <2>3, LeafA
<1>9. ASSUME NEW o \in Obj, NEW form, NEW k \in {"list", "dict_k"}, ExprContainer(o, form, k)
      PROVE  AGoal
  <2> DEFINE f == [New(k) EXCEPT !.hold = <<Rooted(o)>>]
  <2>1. /\ NoWildAccess' /\ HeapKept /\ Onto(Len(stack)) /\ Len(stack') \in Nat
        /\ Anchored(items', stack', o, Len(stack'))
        /\ o \notin Live(items', RootsIn(stack', Len(stack)))
    BY <1>7, <1>9 DEF ExprContainer
  <2>2. <<Rooted(o)>> \in Seq(Slot)
    BY <1>2 DEF Rooted, Slot, Val
  <2>3. IsFrame(f, k, Len(stack), 0, <<Rooted(o)>>)
    BY <1>2, <2>2, NewWithHold DEF New, Kinds
  <2>4. Enter(f)
    BY <1>9 DEF ExprContainer
  <2> HIDE DEF f
  <2>5. f \in Frame /\ f.k = k /\ f.base = Len(stack) /\ f.hold = <<Rooted(o)>>
    BY <2>3 DEF IsFrame
  <2>6. Sort(f) /\ k \notin Clauses /\ Loop(f) = 0 /\ f.k # "arg"
    BY <2>5 DEF Sort, Missing, Clauses, Inner, Loop
  <2>7. \A j \in 1 .. Len(f.hold) : f.hold[j].v = o
    BY <2>5 DEF Rooted
  <2>8. Guarded(items', stack', f, Len(stack'))
    <3>1. Len(stack') - 0 = Len(stack')
      BY <2>1
    <3> QED
      BY <2>1, <2>6, <2>7, <3>1 DEF Guarded
  <2>9. Own(items', stack', f)
    <3>1. f.hold[1].v = o
      BY <2>5 DEF Rooted
    <3> QED
      BY <2>1, <2>5, <3>1 DEF Own
  <2> QED
    BY <1>2, <1>3, <2>1, <2>4, <2>5, <2>6, <2>8, <2>9, EnterA
<1>10. ASSUME NEW o \in Obj, ExprList(o) \/ ExprDict(o) PROVE AGoal
  BY <1>9, <1>10 DEF ExprList, ExprDict
<1>11. CASE ExprAssign
  BY <1>11 DEF ExprAssign, ExprOp, Starts, Going, Nullary
<1>12. ASSUME NEW k \in {"bin_l", "un", "arg"}, Enter(New(k)), UNCHANGED heapVars, wild' = wild, Still
       PROVE  AGoal
  <2>1. k \in Kinds \ (Missing \cup Building \cup {"each_b"}) /\ k \notin Clauses
    BY DEF Kinds, Missing, Building, Clauses, Inner
  <2> QED
    BY <1>2, <1>3, <1>12, <2>1, EnterStillA
<1>13. CASE ExprBin \/ ExprUn
  BY <1>12, <1>13 DEF ExprBin, ExprUn, ExprOp, Quiet
<1>14. ASSUME NEW id \in Ids \cup {Lib}, ExprCall(id) PROVE AGoal
  <2>1. id \in Ids
    BY <1>14 DEF ExprCall, Starts, Going, Nullary
  <2>2. ~IsA(id, "REG")
    BY <2>1, NoRegistered
  <2>3. /\ Still /\ UNCHANGED heapVars /\ wild' = wild
        /\ Enter(New("arg")) \/ err' = TRUE
    BY <1>14, <2>2 DEF ExprCall
  <2> QED
    BY <1>12, <2>3, StopsOnError
<1> QED
  BY <1>5, <1>6, <1>8, <1>10, <1>11, <1>13, <1>14 DEF Expression


(* An activation that gets a value before a jump is pending *)
LEMMA HavingFacts ==
  ASSUME Going, Given, Top.k \notin Looking
  PROVE  /\ val # Pending /\ state = "NONE" /\ state # "RET" /\ wild = "no" /\ Top.k \notin Missing
         /\ val \in Slot /\ val.v \in objs \cup Scalar /\ Anchored(items, stack, val.v, Len(stack))
         /\ Top.base \in Nat /\ Top.base <= Len(stack) /\ Len(stack) \in Nat
<1>1. val # Pending /\ state = "NONE" /\ wild = "no"
  BY GoingFacts, Having DEF Given, Running
<1> QED
  BY <1>1, GivenFacts, GoingFacts

(* The operands of a binary operator *)
LEMMA OperandFacts ==
  ASSUME Going, Given, At({"bin_r"})
  PROVE  /\ Len(Top.hold) >= 1 /\ Top.hold \in Seq(Slot)
         /\ \A v \in Operands : Anchored(items, stack, v, Len(stack))
         /\ Operands \subseteq objs \cup Scalar
<1>1. Top.k = "bin_r" /\ Top.hold \in Seq(Slot) /\ Len(Top.hold) >= 1
  BY GoingFacts, TypedFacts DEF At, Shaped, Holds
<1>2. 1 \in 1 .. Len(Top.hold)
  BY <1>1
<1>3. Anchored(items, stack, Top.hold[1].v, Len(stack))
  BY <1>1, <1>2, HeldAnchored
<1>4. Anchored(items, stack, val.v, Len(stack))
  BY <1>1, HavingFacts DEF Looking
<1>5. \A v \in Operands : Anchored(items, stack, v, Len(stack))
  BY <1>3, <1>4 DEF Operands
<1>6. Operands \subseteq objs \cup Scalar
  BY <1>5, HeapTyped DEF Anchored
<1> QED
  BY <1>1, <1>5, <1>6

(* An activation ends with a value that can be reached. *)
LEMMA LeaveAnchoredA ==
  ASSUME Going, HeapKept, NoWildAccess', Onto(Len(stack)), frames' = Below, val' # Pending,
         Anchored(items', stack', val'.v, Len(stack')), state' # "RET", state # "RET" \/ Calls # {}
  PROVE  AGoal
<1>1. Rooting'
  BY RootingKept DEF HeapKept
<1>2. val'.v \in objs' \cup Scalar
  BY <1>1, TrackedAfter DEF HeapKept
<1>3. Len(stack) >= Top.base
  BY GoingFacts
<1> QED
  BY <1>2, <1>3, LeaveA

LEMMA Concatenated ==
  ASSUME NEW S, NEW s \in Seq(S), NEW t \in Seq(S), NEW i \in 1 .. Len(s \o t)
  PROVE  \/ \E j \in 1 .. Len(s) : (s \o t)[i] = s[j]
         \/ \E j \in 1 .. Len(t) : (s \o t)[i] = t[j]
<1>1. Len(s) \in Nat /\ Len(t) \in Nat /\ Len(s \o t) = Len(s) + Len(t)
  BY ConcatProperties, LenProperties
<1>2. CASE i <= Len(s)
  <2>1. i \in 1 .. Len(s) /\ (s \o t)[i] = s[i]
    BY <1>1, <1>2, ConcatProperties
  <2> QED
    BY <2>1
<1>3. CASE ~(i <= Len(s))
  <2>1. i - Len(s) \in 1 .. Len(t) /\ (s \o t)[i] = t[i - Len(s)]
    BY <1>1, <1>3, ConcatProperties
  <2> QED
    BY <2>1
<1> QED
  BY <1>2, <1>3

LEMMA ConcatA ==
  ASSUME Going, NEW o \in Obj, BinConcat(o)
  PROVE  AGoal
<1> DEFINE a == Top.hold[1].v
           b == val.v
           L == Live(items, RootsIn(stack, Len(stack)))
<1>1. Given /\ Top.k = "bin_r" /\ At({"bin_r"}) /\ Operands \subseteq Obj
  BY DEF BinConcat, At
<1>2. state = "NONE" /\ state # "RET"
  BY <1>1, HavingFacts DEF Looking
<1>3. a \in Obj /\ b \in Obj /\ a \in L /\ b \in L
  BY <1>1, OperandFacts, ObjAssumption DEF Anchored, Operands
<1>4. NewHeapVal(o) /\ items' = [items EXCEPT ![o] = items[a] \o items[b]]
  BY DEF BinConcat
<1>5. KidsIn(items, a) \subseteq L /\ KidsIn(items, b) \subseteq L
  BY <1>3, LiveFacts DEF RootsIn
<1>6. items \in [Obj -> Seq(Val)]
  BY HeapTyped
<1>7. wild' = Fault(Operands) /\ val' = Rooted(o) /\ frames' = Below /\ state' = state
  BY DEF BinConcat, Leave
<1> HIDE DEF a, b, L
<1>8. items[a] \in Seq(Val) /\ items[b] \in Seq(Val)
  BY <1>3, <1>6
<1>9. KidsIn(items', o) \subseteq L
  <2>1. items'[o] = items[a] \o items[b]
    BY <1>4, <1>6
  <2>3. ASSUME NEW i \in 1 .. Len(items'[o]), items'[o][i] \in Obj
        PROVE  items'[o][i] \in L
    <3>1. \/ \E j \in 1 .. Len(items[a]) : items'[o][i] = items[a][j]
          \/ \E j \in 1 .. Len(items[b]) : items'[o][i] = items[b][j]
      <4> DEFINE s == items[a]
                 t == items[b]
      <4>1. s \in Seq(Val) /\ t \in Seq(Val) /\ i \in 1 .. Len(s \o t)
        BY <1>8, <2>1
      <4> HIDE DEF s, t
      <4>3. \/ \E j \in 1 .. Len(s) : (s \o t)[i] = s[j]
            \/ \E j \in 1 .. Len(t) : (s \o t)[i] = t[j]
        BY <4>1, Concatenated
      <4>2. \/ \E j \in 1 .. Len(items[a]) : (items[a] \o items[b])[i] = items[a][j]
            \/ \E j \in 1 .. Len(items[b]) : (items[a] \o items[b])[i] = items[b][j]
        BY <4>3 DEF s, t
      <4> QED
        BY <2>1, <4>2
    <3> QED
      BY <1>5, <2>3, <3>1 DEF KidsIn
  <2> QED
    BY <2>3 DEF KidsIn
<1>10. Fills(o)
  BY <1>4, <1>6, <1>9 DEF Fills, L
<1>11. /\ HeapKept /\ Onto(Len(stack)) /\ Anchored(items', stack', o, Len(stack'))
  BY <1>2, <1>4, <1>10, HeapAllocated
<1>12. NoWildAccess'
  <2>1. wild' = "no"
    BY <1>1, <1>2, <1>4, <1>7, OperandFacts, NoFault
  <2> QED
    BY <2>1, Unhurt
<1>13. val' # Pending /\ val'.v = o
  BY <1>7, DepthFacts, StackAssumption DEF Rooted, Slot, Val
<1> QED
  BY <1>2, <1>7, <1>11, <1>12, <1>13, LeaveAnchoredA

(* What is being built can be reached, and from nothing below it. *)
LEMMA LiteralFacts ==
  ASSUME Going, Top.k \in Building
  PROVE  /\ Literal \in objs /\ Literal \notin Live(items, RootsIn(stack, Top.base))
         /\ Literal \in Live(items, RootsIn(stack, Len(stack)))
         /\ Top.hold \in Seq(Slot) /\ Len(Top.hold) >= 1 /\ Top.hold[1] \in Slot
         /\ Top.k = "dict_v" => Len(Top.hold) >= 2
<1>1. Top.hold \in Seq(Slot) /\ Top.hold[1].v \in Obj /\ Top.k # "each_b"
  BY GoingFacts, TypedFacts DEF Shaped, Containers, Building
<1>2. Len(Top.hold) >= 1 /\ (Top.k = "dict_v" => Len(Top.hold) >= 2)
  BY GoingFacts, TypedFacts DEF Shaped, Holds, Building
<1>3. 1 \in 1 .. Len(Top.hold)
  BY <1>1, <1>2
<1>4. Anchored(items, stack, Top.hold[1].v, Len(stack))
  BY <1>1, <1>3, HeldAnchored
<1>5. Literal \in Live(items, RootsIn(stack, Len(stack))) /\ Literal \in objs
  BY <1>1, <1>4, HeapTyped, ObjAssumption DEF Anchored, Literal
<1>6. Own(items, stack, Top)
  <2>1. Depth \in 1 .. Depth
    BY DepthFacts
  <2> QED
    BY <2>1, GoingFacts DEF Private
<1>7. Top.hold[1] \in Slot
  BY <1>1, <1>3, ElementOfSeq
<1> QED
  BY <1>1, <1>2, <1>5, <1>6, <1>7 DEF Own, Literal

(* A key of a dict is kept beside the dict until its value is there. *)
LEMMA DictKeyA ==
  ASSUME Going, DictKey
  PROVE  AGoal
<1> DEFINE hold == Append(Top.hold, val)
           f    == [Top EXCEPT !.k = "dict_v", !.hold = hold]
<1>1. Given /\ Top.k = "dict_k" /\ Resume(f) /\ Still /\ UNCHANGED heapVars /\ wild' = wild
  BY DEF DictKey, At, Quiet, heapVars
<1>2. Top.hold \in Seq(Slot) /\ Len(Top.hold) >= 1 /\ Len(Top.hold) \in Nat
  BY <1>1, LiteralFacts DEF Building
<1>3. /\ val \in Slot /\ state # "RET" /\ NoWildAccess' /\ HeapKept
      /\ Anchored(items, stack, val.v, Len(stack)) /\ Len(stack) >= Top.base
  BY <1>1, HavingFacts, HeapSame, Unhurt DEF Looking
<1>4. /\ hold \in Seq(Slot) /\ Len(hold) = Len(Top.hold) + 1 /\ hold[Len(Top.hold) + 1] = val
      /\ \A j \in 1 .. Len(Top.hold) : hold[j] = Top.hold[j]
  BY <1>2, <1>3, Appended
<1>5. 1 \in 1 .. Len(Top.hold)
  BY <1>2
<1>6. IsFrame(f, "dict_v", Top.base, Top.own, hold)
  <2>1. "dict_v" \in Kinds
    BY DEF Kinds
  <2> HIDE DEF hold
  <2> QED
    BY <1>4, <2>1, WithHold
<1> HIDE DEF f, hold
<1>7. f \in Frame /\ f.k = "dict_v" /\ f.base = Top.base /\ f.hold = hold
  BY <1>6 DEF IsFrame
<1>8. Onto(Len(stack)) /\ Len(stack') = Len(stack)
  BY <1>1, StackSame
<1>9. ASSUME NEW j \in 1 .. Len(hold) PROVE Anchored(items', stack', hold[j].v, Len(stack'))
  <2>1. Anchored(items, stack, hold[j].v, Len(stack))
    <3>1. j \in 1 .. Len(Top.hold) \/ j = Len(Top.hold) + 1
      BY <1>2, <1>4
    <3>2. CASE j \in 1 .. Len(Top.hold)
      BY <1>1, <1>4, <3>2, HeldAnchored
    <3>3. CASE j = Len(Top.hold) + 1
      BY <1>3, <1>4, <3>3
    <3> QED
      BY <3>1, <3>2, <3>3
  <2> QED
    BY <1>3, <1>8, <2>1, KeptAnchored
<1>10. Guarded(items', stack', f, Len(stack'))
  <2>1. Loop(f) = 0 /\ Len(stack') - 0 = Len(stack')
    BY <1>7, <1>8, DepthFacts DEF Loop
  <2> QED
    BY <1>7, <1>9, <2>1 DEF Guarded
<1>11. f.hold[1].v = Top.hold[1].v /\ Top.k \in Building
  BY <1>1, <1>4, <1>5, <1>7 DEF Building
<1>12. f.k \notin Missing \cup {"arg", "call"} /\ f.k \notin Clauses /\ f.base >= Top.base
  BY <1>7, GoingFacts DEF Missing, Clauses, Inner
<1> QED
  BY <1>1, <1>3, <1>7, <1>8, <1>10, <1>11, <1>12, ResumeA DEF HeapKept

(* An entry of a dict is added, or its value replaced. *)
LEMMA PutKids ==
  ASSUME Going, NEW o \in objs, NEW k \in objs \cup Scalar, NEW v \in objs \cup Scalar, Put(o, k, v)
  PROVE  /\ \A p \in Obj \ {o} : items'[p] = items[p]
         /\ KidsIn(items', o) \subseteq objs
<1>1. objs \subseteq Obj /\ o \in Obj /\ items \in [Obj -> Seq(Val)] /\ items[o] \in Seq(Val)
  BY HeapTyped
<1>2. ASSUME NEW e, e \in Obj, e \in {k, v} PROVE e \in objs
  BY <1>2, ObjAssumption
<1>3. \A i \in 1 .. Len(items[o]) : items[o][i] \in Obj => items[o][i] \in objs
  BY GoingFacts DEF Steady, KidsIn
<1>4. CASE items' = [items EXCEPT ![o] = @ \o <<k, v>>]
  <2> DEFINE s == items[o]
             t == <<k, v>>
  <2>1. items'[o] = s \o t /\ \A p \in Obj \ {o} : items'[p] = items[p]
    BY <1>1, <1>4
  <2>2. k \in Val /\ v \in Val
    BY <1>1 DEF Val
  <2>3. s \in Seq(Val) /\ t \in Seq(Val) /\ \A j \in 1 .. Len(t) : t[j] \in {k, v}
    BY <1>1, <2>2
  <2>4. \A j \in 1 .. Len(s) : s[j] \in Obj => s[j] \in objs
    BY <1>3
  <2> HIDE DEF s, t
  <2>5. ASSUME NEW i \in 1 .. Len(s \o t), (s \o t)[i] \in Obj PROVE (s \o t)[i] \in objs
    <3>1. \/ \E j \in 1 .. Len(s) : (s \o t)[i] = s[j]
          \/ \E j \in 1 .. Len(t) : (s \o t)[i] = t[j]
      BY <2>3, Concatenated
    <3> QED
      BY <1>2, <2>3, <2>4, <2>5, <3>1
  <2> QED
    BY <2>1, <2>5 DEF KidsIn
<1>5. CASE \E i \in 1 .. Len(items[o]) : items' = [items EXCEPT ![o][i] = v]
  <2>1. PICK i \in 1 .. Len(items[o]) : items' = [items EXCEPT ![o][i] = v]
    BY <1>5
  <2> DEFINE s == items[o]
             t == [s EXCEPT ![i] = v]
  <2>2. items'[o] = t /\ \A p \in Obj \ {o} : items'[p] = items[p]
    BY <1>1, <2>1
  <2>3. v \in Val
    BY <1>1 DEF Val
  <2>4. Len(t) = Len(s) /\ \A j \in 1 .. Len(s) : t[j] = v \/ t[j] = s[j]
    BY <1>1, <2>3
  <2>5. \A j \in 1 .. Len(s) : s[j] \in Obj => s[j] \in objs
    BY <1>3
  <2> HIDE DEF s, t
  <2>6. ASSUME NEW j \in 1 .. Len(t), t[j] \in Obj PROVE t[j] \in objs
    BY <1>2, <2>4, <2>5, <2>6
  <2> QED
    BY <2>2, <2>6 DEF KidsIn
<1> QED
  BY <1>4, <1>5 DEF Put

LEMMA DictValA ==
  ASSUME Going, DictVal
  PROVE  AGoal
<1> DEFINE hold == <<Top.hold[1]>>
           f    == [Top EXCEPT !.k = "dict_k", !.hold = hold]
<1>1. /\ Given /\ Top.k = "dict_v" /\ Resume(f) /\ Still /\ UNCHANGED <<objs, freed>>
      /\ Put(Literal, Top.hold[2].v, val.v) /\ Reads({Top.hold[2].v})
  BY DEF DictVal, At
<1>2. /\ Literal \in objs /\ Literal \notin Live(items, RootsIn(stack, Top.base))
      /\ Literal \in Live(items, RootsIn(stack, Len(stack)))
      /\ Top.hold \in Seq(Slot) /\ Len(Top.hold) >= 2 /\ Top.hold[1] \in Slot
  BY <1>1, LiteralFacts DEF Building
<1>3. val.v \in objs \cup Scalar /\ state # "RET" /\ Len(stack) >= Top.base
  BY <1>1, HavingFacts DEF Looking
<1>4. Top.hold[2].v \in objs \cup Scalar
  <2>1. 2 \in 1 .. Len(Top.hold)
    BY <1>2
  <2>2. Anchored(items, stack, Top.hold[2].v, Len(stack))
    BY <1>1, <2>1, HeldAnchored
  <2> QED
    BY <2>2, HeapTyped DEF Anchored
<1>5. NoWildAccess'
  <2>1. {Top.hold[2].v} \subseteq objs \cup Scalar
    BY <1>4
  <2> QED
    BY <1>1, <2>1, NoReadFault, Unhurt
<1>6. /\ \A p \in Obj \ {Literal} : items'[p] = items[p]
      /\ KidsIn(items', Literal) \subseteq objs
  BY <1>1, <1>2, <1>3, <1>4, PutKids
<1>7. HeapMoved
  BY <1>1, <1>2, <1>6, HeapWritten
<1>8. hold \in Seq(Slot) /\ Len(hold) = 1 /\ hold[1] = Top.hold[1]
  BY <1>2
<1>9. IsFrame(f, "dict_k", Top.base, Top.own, hold)
  <2>1. "dict_k" \in Kinds
    BY DEF Kinds
  <2> HIDE DEF hold
  <2> QED
    BY <1>8, <2>1, WithHold
<1> HIDE DEF f, hold
<1>10. f \in Frame /\ f.k = "dict_k" /\ f.base = Top.base /\ f.hold = hold
  BY <1>9 DEF IsFrame
<1>11. Onto(Len(stack)) /\ Len(stack') = Len(stack) /\ stack' = stack
  BY <1>1, StackSame
<1>12. Literal \in Live(items', RootsIn(stack', Len(stack')))
  <2>1. \A p \in Obj \ {Literal} : KidsIn(items', p) = KidsIn(items, p)
    BY <1>6 DEF KidsIn
  <2>2. RootsIn(stack, Len(stack)) \subseteq Obj
    BY DEF RootsIn
  <2> QED
    BY <1>2, <1>11, <2>1, <2>2, LiveItself
<1>13. Guarded(items', stack', f, Len(stack'))
  <2>1. Loop(f) = 0 /\ Len(stack') - 0 = Len(stack')
    BY <1>10, <1>11, DepthFacts DEF Loop
  <2>2. \A j \in 1 .. Len(f.hold) : f.hold[j].v = Literal
    <3>1. \A j \in 1 .. Len(hold) : j = 1
      BY <1>8
    <3> QED
      BY <1>8, <1>10, <3>1 DEF Literal
  <2> QED
    BY <1>12, <2>1, <2>2 DEF Guarded, Anchored
<1>14. f.hold[1].v = Top.hold[1].v /\ Top.k \in Building
  BY <1>1, <1>8, <1>10 DEF Building
<1>15. f.k \notin Missing \cup {"arg", "call"} /\ f.k \notin Clauses /\ f.base >= Top.base
  BY <1>10, GoingFacts DEF Missing, Clauses, Inner
<1> QED
  BY <1>1, <1>3, <1>5, <1>7, <1>10, <1>11, <1>13, <1>14, <1>15, ResumeA

LEMMA OperatorA ==
  ASSUME Going, Operator
  PROVE  AGoal
<1>1. ASSUME Top.k \in Missing, Given \/ Asked PROVE FALSE
  <2>1. Depth \in 1 .. Depth
    BY DepthFacts
  <2> QED
    BY <1>1, <2>1, GoingFacts DEF Kinded, Sort
<1>2. ASSUME Throw PROVE AGoal
  BY <1>2, StopsOnError DEF Throw
<1>3. CASE UnDone
  <2>1. Given /\ Top.k = "un"
    BY <1>3 DEF UnDone, At
  <2>2. CASE val.v \in {"num", "bool"}
    <3>1. Leave(Unrooted(val.v)) /\ Still /\ UNCHANGED heapVars /\ wild' = wild /\ state' = state
      BY <1>3, <2>2 DEF UnDone, Quiet, heapVars
    <3>2. Onto(Len(stack)) /\ NoWildAccess' /\ state # "RET" /\ Len(stack) >= Top.base
      BY <2>1, <3>1, StackSame, Unhurt, HavingFacts DEF Looking
    <3> QED
      BY <2>2, <3>1, <3>2, LeaveScalarA DEF Scalar
  <2> QED
    BY <1>2, <1>3, <2>2 DEF UnDone
<1>4. CASE BinLeft
  <2>1. Given /\ Top.k = "bin_l" /\ Still /\ UNCHANGED heapVars /\ wild' = wild
        /\ Resume([Top EXCEPT !.k = "bin_r", !.hold = <<val>>])
    BY <1>4 DEF BinLeft, At, Quiet
  <2>2. val # Pending /\ state # "RET" /\ NoWildAccess'
    BY <2>1, HavingFacts, Unhurt DEF Looking
  <2>3. "bin_r" \in Kinds \ (Missing \cup Building \cup {"arg", "call", "each_b"}) /\ "bin_r" \notin Clauses
    BY DEF Kinds, Missing, Building, Clauses, Inner
  <2> QED
    BY <2>1, <2>2, <2>3, ResumeValA
<1>5. CASE BinIndex
  <2>1. Given /\ Top.k = "bin_r" /\ At({"bin_r"}) /\ Top.hold[1].v \in Obj /\ Reads(Operands)
        /\ Still /\ UNCHANGED heapVars /\ state' = state
    BY <1>5 DEF BinIndex, At
  <2>2. PICK e \in Items(Top.hold[1].v) \cup {"none"} : Leave(Unrooted(e))
    BY <1>5 DEF BinIndex
  <2>3. Anchored(items, stack, e, Len(stack))
    <3>1. Anchored(items, stack, Top.hold[1].v, Len(stack))
      BY <2>1, OperandFacts DEF Operands
    <3> QED
      BY <2>1, <2>2, <3>1, ItemAnchored DEF Anchored, Scalar
  <2>4. NoWildAccess' /\ state # "RET" /\ HeapKept /\ Onto(Len(stack))
    BY <2>1, OperandFacts, NoReadFault, Unhurt, HavingFacts, HeapSame, StackSame DEF Looking
  <2>5. frames' = Below /\ val'.v = e /\ val' # Pending
    <3>1. e \in Val
      BY <2>3, HeapTyped DEF Anchored, Val
    <3> QED
      BY <2>2, <3>1, StackAssumption DEF Leave, Unrooted, Slot
  <2>6. Anchored(items', stack', e, Len(stack'))
    BY <2>3, <2>4, KeptAnchored
  <2> QED
    BY <2>1, <2>4, <2>5, <2>6, LeaveAnchoredA
<1>6. ASSUME NEW s \in Literals \ {"none"}, BinScalar(s) PROVE AGoal
  <2>1. Given /\ Top.k = "bin_r" /\ At({"bin_r"}) /\ Reads(Operands)
        /\ Still /\ UNCHANGED heapVars /\ state' = state /\ Leave(Unrooted(s))
    BY <1>6 DEF BinScalar, At
  <2>2. NoWildAccess' /\ state # "RET" /\ Onto(Len(stack)) /\ Len(stack) >= Top.base
    BY <2>1, OperandFacts, NoReadFault, Unhurt, HavingFacts, StackSame DEF Looking
  <2>3. s \in Scalar
    BY EvalAssumption
  <2> QED
    BY <2>1, <2>2, <2>3, LeaveScalarA
<1>7. CASE \E o \in Obj : BinConcat(o)
  BY <1>7, ConcatA
<1>8. CASE BinError
  BY <1>2, <1>8 DEF BinError
<1>9. CASE AssignElem \/ AssignDone \/ AssignError \/ \E id \in Ids : AssignVar(id)
  BY <1>1, <1>9 DEF AssignElem, AssignDone, AssignError, AssignVar, At, Missing
<1>10. CASE ListItem
  <2>1. Given /\ Top.k = "list" /\ Still /\ UNCHANGED <<objs, freed>> /\ wild' = wild
        /\ Insert(Literal, val.v) /\ Resume(Top)
    BY <1>10 DEF ListItem, At
  <2>2. /\ state # "RET" /\ val.v \in objs \cup Scalar /\ NoWildAccess'
    BY <2>1, HavingFacts, Unhurt DEF Looking
  <2>3. Literal \in objs /\ Literal \notin Live(items, RootsIn(stack, Top.base)) /\ Top.k \in Building
    BY <2>1, LiteralFacts DEF Building
  <2>4. HeapKept
    BY <2>1, <2>2, <2>3, HeapInserted
  <2>5. Top \in Frame /\ Top.k \notin Missing \cup {"arg", "call"} /\ Top.k \notin Clauses
    BY <2>1, GoingFacts DEF Missing, Clauses, Inner
  <2> QED
    BY <2>1, <2>2, <2>3, <2>4, <2>5, ResumeTopA
<1>11. CASE LiteralDone
  <2>1. Asked /\ Top.k \in {"list", "dict_k"} /\ Leave(Top.hold[1]) /\ Still
        /\ UNCHANGED heapVars /\ wild' = wild /\ state' = state
    BY <1>11 DEF LiteralDone, At, Quiet, heapVars
  <2>2. state # "RET" /\ HeapKept /\ Onto(Len(stack)) /\ NoWildAccess'
    BY <2>1, AskedFacts, HeapSame, StackSame, Unhurt
  <2>3. Top.hold \in Seq(Slot) /\ Len(Top.hold) >= 1
    BY <2>1, GoingFacts, TypedFacts DEF Shaped, Holds
  <2>4. 1 \in 1 .. Len(Top.hold) /\ Top.hold[1] \in Slot
    BY <2>3, ElementOfSeq
  <2>5. Anchored(items, stack, Top.hold[1].v, Len(stack))
    BY <2>1, <2>4, HeldAnchored
  <2>6. Anchored(items', stack', Top.hold[1].v, Len(stack'))
    BY <2>2, <2>5, KeptAnchored
  <2>7. frames' = Below /\ val' = Top.hold[1] /\ val' # Pending
    BY <2>1, <2>4, StackAssumption DEF Leave
  <2> QED
    BY <2>1, <2>2, <2>6, <2>7, LeaveAnchoredA
<1>12. CASE DictKey \/ DictVal
  BY <1>12, DictKeyA, DictValA
<1> QED
  BY <1>3, <1>4, <1>5, <1>6, <1>7, <1>8, <1>9, <1>10, <1>11, <1>12 DEF Operator


(* What an activation of a kind the fragment has is like *)
LEMMA TopKinds ==
  ASSUME Going
  PROVE  Top.k \notin Missing /\ (Top.k \in {"arg", "call"} => Top.own = 0)
<1>1. Depth \in 1 .. Depth
  BY DepthFacts
<1> QED
  BY <1>1, GoingFacts DEF Kinded, Sort

LEMMA CallA ==
  ASSUME Going, Call
  PROVE  AGoal
<1>1. CASE \E id \in Ids : ArgParam(id)
  BY <1>1, GivenFacts DEF ArgParam, Given, At
<1>2. CASE \E o \in Obj : ArgAny(o)
  BY <1>2 DEF ArgAny, Going, Nullary
<1>3. CASE \/ \E o \in Obj : LibNew(o)
           \/ \E s \in Literals : LibScalar(s)
           \/ AnyItem \/ RegArg \/ LibAppend \/ LibRemove \/ LibInsert \/ LibError
  BY <1>3, TopKinds DEF LibNew, LibScalar, AnyItem, RegArg, LibAppend, LibRemove, LibInsert,
                        LibError, At, Missing
<1>4. CASE CallArity
  BY <1>4, StopsOnError DEF CallArity, Throw
<1>5. CASE CallBody
  <2> DEFINE f == [Top EXCEPT !.k = "call"]
             g == New("body")
  <2>1. Asked /\ Top.k = "arg" /\ Still /\ Continue(f, g) /\ UNCHANGED heapVars
    BY <1>5, TopKinds DEF CallBody, At, Missing, heapVars
  <2>2. wild' = "no"
    <3>1. Top.buf = cap /\ cap' = cap
      BY <2>1, GoingFacts DEF Kinded, Still
    <3> QED
      BY <1>5, <3>1 DEF CallBody
  <2>3. IsFrame(f, "call", Top.base, 0, Top.hold)
    BY <2>1, WithKind, TopKinds DEF Kinds
  <2>4. IsFrame(g, "body", Len(stack), 0, <<>>)
    BY NewFacts, DepthFacts DEF New, Kinds
  <2> HIDE DEF f, g
  <2>5. state # "RET" /\ NoWildAccess' /\ HeapKept /\ Onto(Len(stack)) /\ Len(stack') = Len(stack)
    BY <2>1, <2>2, AskedFacts, Unhurt, HeapSame, StackSame
  <2>6. /\ Sort(f) /\ Loop(Top) = 0 /\ Loop(f) = 0 /\ f.k # "arg"
        /\ f.k \notin Clauses /\ f.k \notin Building
    BY <2>1, <2>3 DEF IsFrame, Sort, Missing, Building, Loop, Clauses, Inner
  <2>7. Len(stack') >= Len(stack) + Loop(f)
    BY <2>5, <2>6, DepthFacts
  <2>8. f \in Frame /\ f.base = Top.base /\ f.hold = Top.hold
    BY <2>3 DEF IsFrame
  <2>9. g \in Frame /\ g.k = "body" /\ g.base = Len(stack') /\ g.hold = <<>>
    BY <2>4, <2>5 DEF IsFrame
  <2> QED
    BY <2>1, <2>5, <2>6, <2>7, <2>8, <2>9, ContinueA
<1>6. CASE CallReturn
  <2>1. Given /\ Top.k = "call" /\ state' = "NONE" /\ UNCHANGED heapVars /\ wild' = wild
    BY <1>6 DEF CallReturn, At, heapVars
  <2>2. Len(stack) - Top.own = Len(stack) /\ Len(stack) \in 0 .. Len(stack)
    BY <2>1, TopKinds, DepthFacts
  <2>3. stack' = Prefix(Len(stack)) /\ Leave(val)
    BY <1>6, <2>2 DEF CallReturn, Cut, SetStack
  <2>4. Onto(Len(stack)) /\ HeapKept /\ NoWildAccess'
    BY <2>1, <2>2, <2>3, StackCut, HeapSame, Unhurt
  <2>5. val \in Slot /\ Anchored(items, stack, val.v, Len(stack))
    BY <2>1, GivenFacts, GoingFacts DEF Given, Flight
  <2>6. val' # Pending /\ val'.v = val.v /\ frames' = Below
    BY <2>3, <2>5, StackAssumption DEF Leave
  <2>7. Anchored(items', stack', val.v, Len(stack'))
    BY <2>4, <2>5, KeptAnchored
  <2>8. Calls # {}
    <3>1. Depth \in 1 .. Depth
      BY DepthFacts
    <3> QED
      BY <2>1, <3>1, DepthFacts DEF Calls
  <2> QED
    BY <2>1, <2>4, <2>6, <2>7, <2>8, LeaveAnchoredA
<1> QED
  BY <1>1, <1>2, <1>3, <1>4, <1>5, <1>6 DEF Call


(* A return of a scalar is followed only when no call waits for it. *)
LEMMA ReturnsFacts ==
  ASSUME Going, NEW v, Returns(v)
  PROVE  /\ NoWildAccess' /\ UNCHANGED heapVars /\ Still /\ state' = "RET"
         /\ wild' = "no" /\ v \in Scalar => Calls = {}
<1> DEFINE last == CHOOSE i \in Calls : \A j \in Calls : j <= i
<1>1. wild' = IF v \in Scalar /\ Calls # {} /\ "scalar_result" \notin Forms /\ frames[last].own = 0
              THEN "outside" ELSE "no"
  BY DEF Returns
<1>2. ASSUME Calls # {} PROVE frames[last].own = 0
  <2>1. Depth \in Nat /\ Calls \subseteq 1 .. Depth
    BY DepthFacts DEF Calls
  <2>2. \E i \in Calls : \A j \in Calls : j <= i
    BY <1>2, <2>1, GreatestExists
  <2>3. last \in Calls
    BY <2>2
  <2> HIDE DEF last
  <2>4. last \in 1 .. Depth /\ frames[last].k = "call"
    BY <2>3 DEF Calls
  <2> QED
    BY <2>4, GoingFacts DEF Kinded, Sort
<1> HIDE DEF last
<1>3. "scalar_result" \notin Forms
  BY DEF Going, Nullary
<1> QED
  BY <1>1, <1>2, <1>3, Unhurt DEF Returns

(* A statement ends while a return is on its way. *)
LEMMA LeaveReturningA ==
  ASSUME Going, val # Pending, UNCHANGED heapVars, NoWildAccess', NEW n, Onto(n), n >= Top.base,
         frames' = Below, val' # Pending, val'.v = val.v, Top.k \in Clauses,
         state' = "RET", wild' = "no" /\ val.v \in Scalar => Calls = {}
  PROVE  AGoal
<1>1. HeapKept /\ objs' = objs
  BY HeapSame DEF heapVars
<1>2. val'.v \in objs' \cup Scalar
  BY <1>1, GivenFacts
<1> QED
  BY <1>1, <1>2, LeaveA

(* A sub-tree that is a statement without one of its own *)
LEMMA LeafNoneA ==
  ASSUME Going, Asked, At({"body"}), UNCHANGED heapVars, frames' = frames, val' = VNONE,
         Onto(Len(stack)), NoWildAccess', wild' = "no" /\ state' = "RET" => Calls = {}
  PROVE  AGoal
<1>1. state # "RET" /\ Top.k # "arg" /\ HeapKept
  BY AskedFacts, HeapSame DEF At
<1>2. val' # Pending /\ val'.v = "none"
  BY StackAssumption DEF VNONE, Unrooted, Slot, Val, Scalar
<1>3. Anchored(items', stack', val'.v, Len(stack'))
  BY <1>2 DEF Anchored, Scalar
<1> QED
  BY <1>1, <1>2, <1>3, LeafA

LEMMA StatementA ==
  ASSUME Going,
         \/ StmtDef \/ StmtIf \/ StmtWhile \/ StmtFor \/ StmtEach
         \/ StmtRet \/ StmtRetNone \/ StmtBreak \/ StmtCont
         \/ \E id \in Ids : StmtFn(id)
  PROVE  AGoal
<1>1. Asked
  BY DEF StmtDef, StmtIf, StmtWhile, StmtFor, StmtEach, StmtRet, StmtRetNone, StmtBreak,
         StmtCont, StmtFn, Opens, Statement
<1>2. state = "NONE" /\ state # "RET"
  BY <1>1, AskedFacts
<1>3. ASSUME NEW form, NEW k \in {"if", "while_0", "for_v", "each_c", "ret"}, NEW r, Opens(form, k, r)
      PROVE  AGoal
  <2>1. Top.k = "body" /\ Enter(New(k)) /\ Still /\ UNCHANGED heapVars /\ wild' = wild
    BY <1>3 DEF Opens, Statement, At, Quiet, heapVars
  <2>2. k \in Kinds \ (Missing \cup Building \cup {"each_b"})
    BY DEF Kinds, Missing, Building
  <2> QED
    BY <1>2, <2>1, <2>2, EnterStillA
<1>4. CASE StmtIf \/ StmtWhile \/ StmtFor \/ StmtEach \/ StmtRet
  BY <1>3, <1>4 DEF StmtIf, StmtWhile, StmtFor, StmtEach, StmtRet
<1>5. CASE StmtDef
  <2>1. Top.k # "arg" /\ Enter(New("def")) /\ Still /\ UNCHANGED heapVars /\ wild' = wild
    BY <1>5 DEF StmtDef, At, Quiet, heapVars
  <2>2. "def" \in Kinds \ (Missing \cup Building \cup {"each_b"}) /\ "def" \notin Clauses
    BY DEF Kinds, Missing, Building, Clauses, Inner
  <2> QED
    BY <1>2, <2>1, <2>2, EnterStillA
<1>6. ASSUME NEW id \in Ids, StmtFn(id) PROVE AGoal
  <2> DEFINE sym == [kind |-> "FUNC", id |-> id, v |-> "none"]
  <2>1. /\ At({"body"}) /\ Push(sym) /\ UNCHANGED heapVars /\ frames' = frames /\ val' = VNONE
        /\ wild' = wild /\ state' = state
    BY <1>6 DEF StmtFn, Statement, Quiet, heapVars
  <2>2. Sound(sym)
    BY DEF Sound
  <2> HIDE DEF sym
  <2>3. Onto(Len(stack)) /\ NoWildAccess'
    BY <2>1, <2>2, StackPushed, Unhurt
  <2> QED
    BY <1>1, <1>2, <2>1, <2>3, LeafNoneA
<1>7. CASE StmtRetNone
  <2>1. At({"body"}) /\ frames' = frames /\ val' = VNONE /\ Returns("none") /\ "none" \in Scalar
    BY <1>7 DEF StmtRetNone, Statement, Scalar
  <2>2. /\ NoWildAccess' /\ UNCHANGED heapVars /\ Onto(Len(stack))
        /\ wild' = "no" => Calls = {}
    BY <2>1, ReturnsFacts, StackSame
  <2> QED
    BY <1>1, <2>1, <2>2, LeafNoneA
<1>8. CASE StmtBreak \/ StmtCont
  <2>1. At({"body"}) /\ frames' = frames /\ val' = VNONE /\ UNCHANGED heapVars /\ Still
        /\ wild' = wild /\ state' # "RET"
    BY <1>8 DEF StmtBreak, StmtCont, Jump, Statement
  <2>2. Onto(Len(stack)) /\ NoWildAccess'
    BY <2>1, StackSame, Unhurt
  <2> QED
    BY <1>1, <2>1, <2>2, LeafNoneA
<1> QED
  BY <1>4, <1>5, <1>6, <1>7, <1>8


(* A body that returns cuts the stack and gives the value a TEMP. *)
LEMMA StackReplaced ==
  ASSUME Going, NEW n \in 0 .. Len(stack), NEW sym, stack' = Append(Prefix(n), sym), Sound(sym)
  PROVE  Onto(n) /\ Len(stack') = n + 1 /\ stack'[n + 1] = sym
<1>1. stack \in Seq(Symbol) /\ Len(stack) \in Nat /\ n \in Nat
  BY GoingFacts
<1>2. /\ Prefix(n) \in Seq(Symbol) /\ Len(Prefix(n)) = n
      /\ \A i \in 1 .. n : Prefix(n)[i] = stack[i]
  BY <1>1, GoingFacts, SubSeqProperties DEF Prefix
<1>3. /\ Len(stack') = n + 1 /\ stack'[n + 1] = sym
      /\ \A i \in 1 .. n : stack'[i] = stack[i]
  BY <1>2, Appended
<1>4. \A j \in n + 1 .. Len(stack') : j = n + 1
  BY <1>1, <1>3
<1> QED
  BY <1>1, <1>3, <1>4 DEF Onto, Keeps

LEMMA UnwindBodyA ==
  ASSUME Going, BodyUnwind
  PROVE  AGoal
<1>1. Given /\ Top.k = "body" /\ state' = state /\ UNCHANGED heapVars /\ wild' = wild
  BY DEF BodyUnwind, At, Quiet, heapVars
<1>2. Top.base \in 0 .. Len(stack) /\ Top.base >= Top.base
  BY GoingFacts
<1>3. NoWildAccess' /\ HeapKept /\ val # Pending /\ objs' = objs
  BY <1>1, HeapSame, Unhurt DEF Given, heapVars
<1>4. CASE state = "RET"
  <2>1. /\ stack' = Append(Prefix(Top.base), Temp(val.v))
        /\ Leave([v |-> val.v, at |-> IF val.v \in objs \cup Scalar THEN Top.base + 1 ELSE 0])
    BY <1>4 DEF BodyUnwind, SetStack
  <2>2. val.v \in objs \cup Scalar /\ (val.v \in Scalar => Calls = {})
    BY <1>3, <1>4, GoingFacts, GivenFacts DEF Flight
  <2>3. Sound(Temp(val.v))
    BY <1>3, <1>4, <2>2 DEF Sound, Temp
  <2>4. Onto(Top.base) /\ Len(stack') = Top.base + 1 /\ stack'[Top.base + 1] = Temp(val.v)
    BY <1>2, <2>1, <2>3, StackReplaced
  <2>5. frames' = Below /\ val'.v = val.v /\ val' # Pending
    <3>1. val' = [v |-> val.v, at |-> IF val.v \in objs \cup Scalar THEN Top.base + 1 ELSE 0]
          /\ frames' = Below
      BY <2>1 DEF Leave
    <3>2. val' \in Slot
      BY <1>2, <2>2, <3>1, HeapTyped DEF Slot, Val
    <3> QED
      BY <3>1, <3>2, StackAssumption
  <2>6. Anchored(items', stack', val.v, Len(stack'))
    <3>1. Top.base + 1 \in 1 .. Len(stack')
      BY <1>2, <2>4
    <3>2. stack'[Top.base + 1].kind = "TEMP" /\ stack'[Top.base + 1].v = val.v
      BY <2>4 DEF Temp
    <3>3. val.v \in Obj => val.v \in RootsIn(stack', Len(stack'))
      BY <3>1, <3>2 DEF RootsIn
    <3> QED
      BY <2>2, <3>3, HeapTyped, LiveFacts DEF Anchored, RootsIn
  <2> QED
    BY <1>1, <1>2, <1>3, <1>4, <2>2, <2>4, <2>5, <2>6, LeaveA
<1>5. CASE state # "RET"
  <2>1. stack' = Prefix(Top.base) /\ Leave(Unrooted("none")) /\ "none" \in Scalar
    BY <1>5 DEF BodyUnwind, Cut, SetStack, VNONE, Scalar
  <2>2. Onto(Top.base)
    BY <1>2, <2>1, StackCut
  <2> QED
    BY <1>1, <1>2, <1>3, <1>5, <2>1, <2>2, LeaveScalarA
<1> QED
  BY <1>4, <1>5

LEMMA EachA ==
  ASSUME Going, EachEnter \/ EachNext \/ \E id \in Ids : EachHead(id)
  PROVE  AGoal
<1>1. CASE EachEnter
  <2>1. /\ Given /\ Top.k = "each_c" /\ Still /\ UNCHANGED heapVars
        /\ Resume([Top EXCEPT !.k = "each_n", !.hold = <<val>>])
    BY <1>1 DEF EachEnter, At
  <2>2. val # Pending /\ state # "RET" /\ val.v \in objs \cup Scalar
    BY <2>1, HavingFacts DEF Looking
  <2>3. NoWildAccess'
    <3>1. Reads({val.v}) => wild' = "no"
      BY <2>2, NoReadFault
    <3> QED
      BY <1>1, <3>1, Unhurt DEF EachEnter
  <2>4. "each_n" \in Kinds \ (Missing \cup Building \cup {"arg", "call", "each_b"}) /\ Top.k \in Clauses
    BY <2>1 DEF Kinds, Missing, Building, Clauses, Inner
  <2> QED
    BY <2>1, <2>2, <2>3, <2>4, ResumeValA
<1>2. ASSUME NEW id \in Ids, EachHead(id) PROVE AGoal
  <2>1. Asked /\ Top.k = "each_n" /\ Reads({Literal}) /\ UNCHANGED heapVars /\ state' = state
    BY <1>2 DEF EachHead, At
  <2>2. state # "RET" /\ HeapKept
    BY <2>1, AskedFacts, HeapSame
  <2>3. Literal \in Obj /\ Anchored(items, stack, Literal, Len(stack)) /\ Top.n \in Nat
    <3>1. /\ Top.hold \in Seq(Slot) /\ Len(Top.hold) >= 1 /\ Top.hold[1].v \in Obj /\ Top.n \in Nat
      BY <2>1, GoingFacts, TypedFacts DEF Shaped, Holds, Containers
    <3>2. 1 \in 1 .. Len(Top.hold)
      BY <3>1
    <3> QED
      BY <2>1, <3>1, <3>2, HeldAnchored DEF Literal
  <2>4. NoWildAccess'
    <3>1. Literal \in objs \cup Scalar
      BY <2>3, HeapTyped DEF Anchored
    <3> QED
      BY <2>1, <3>1, NoReadFault, Unhurt
  <2>5. CASE Top.n < Len(items[Literal])
    <3> DEFINE e == items[Literal][Top.n + 1]
               f == [Top EXCEPT !.k = "each_b", !.own = 1]
               g == NewAt("body", Len(stack) + 1)
    <3>1. Push(Var(id, e)) /\ Continue(f, g)
      BY <1>2, <2>5 DEF EachHead
    <3>2. Anchored(items, stack, e, Len(stack))
      <4>1. items[Literal] \in Seq(Val)
        BY <2>3, HeapTyped
      <4>2. Top.n + 1 \in 1 .. Len(items[Literal])
        BY <2>3, <2>5, <4>1
      <4>3. e \in Items(Literal)
        BY <4>2, SMTT(30) DEF Items
      <4> QED
        BY <2>3, <4>3, ItemAnchored
    <3>3. IsFrame(f, "each_b", Top.base, 1, Top.hold)
      BY WithOwn DEF Kinds
    <3>4. IsFrame(g, "body", Len(stack) + 1, 0, <<>>)
      BY NewFacts, DepthFacts DEF Kinds
    <3> HIDE DEF e, f, g
    <3>5. Sound(Var(id, e))
      <4>1. e \in objs' \cup Scalar
        BY <2>1, <3>2, HeapTyped DEF Anchored, heapVars
      <4> QED
        BY <4>1 DEF Sound, Var
    <3>6. Onto(Len(stack)) /\ Len(stack') = Len(stack) + 1
      BY <3>1, <3>5, StackPushed
    <3>7. /\ f \in Frame /\ f.k = "each_b" /\ f.base = Top.base /\ f.hold = Top.hold
          /\ g \in Frame /\ g.k = "body" /\ g.base = Len(stack') /\ g.hold = <<>>
      BY <3>3, <3>4, <3>6 DEF IsFrame
    <3>8. /\ Sort(f) /\ Loop(Top) = 0 /\ Loop(f) = 1 /\ Top.k \in Clauses
          /\ f.k \notin Building /\ f.k # "arg"
      BY <2>1, <3>7 DEF Sort, Missing, Building, Loop, Clauses, Inner
    <3>9. Len(stack') >= Len(stack) + Loop(f)
      BY <3>6, <3>8, DepthFacts
    <3> QED
      BY <2>2, <2>4, <3>1, <3>6, <3>7, <3>8, <3>9, ContinueA
  <2>6. CASE ~(Top.n < Len(items[Literal]))
    <3>1. Leave(Unrooted("none")) /\ Still /\ "none" \in Scalar
      BY <1>2, <2>6 DEF EachHead, VNONE, Scalar
    <3>2. Onto(Len(stack)) /\ Len(stack) >= Top.base
      BY <3>1, StackSame, GoingFacts
    <3> QED
      BY <2>1, <2>2, <2>4, <3>1, <3>2, LeaveScalarA
  <2> QED
    BY <2>5, <2>6
<1>3. CASE EachNext
  <2> DEFINE n == Len(stack) - 1
  <2>1. Given /\ Top.k = "each_b" /\ stack' = Prefix(n) /\ UNCHANGED heapVars /\ wild' = wild
    BY <1>3 DEF EachNext, At, Cut, SetStack, Looped, Quiet, heapVars
  <2>2. n \in 0 .. Len(stack) /\ n >= Top.base /\ n \in Int /\ Top.base \in Nat /\ n + 1 = Len(stack)
    <3>1. Top.own = 1 /\ Top.base + Top.own <= Len(stack) /\ Top.base \in Nat /\ Len(stack) \in Nat
      BY <2>1, GoingFacts, TypedFacts DEF Shaped
    <3> QED
      BY <3>1
  <2>3. n - 0 = n /\ Len(stack) - 1 = n
    BY <2>2
  <2> HIDE DEF n
  <2>4. Onto(n) /\ Len(stack') = n /\ HeapKept /\ NoWildAccess' /\ val # Pending
    BY <2>1, <2>2, StackCut, HeapSame, Unhurt DEF Given
  <2>5. CASE Looped({"BREAK"}) /\ Leave(VNONE)
    <3>1. state # "RET" /\ state' # "RET" /\ Leave(Unrooted("none")) /\ "none" \in Scalar
      BY <2>5 DEF Looped, VNONE, Scalar
    <3> QED
      BY <2>1, <2>2, <2>4, <3>1, LeaveScalarA
  <2>6. CASE /\ Looped({"NONE", "CONT"})
             /\ Resume([Top EXCEPT !.k = "each_n", !.own = 0, !.n = Top.n + 1])
    <3> DEFINE f == [Top EXCEPT !.k = "each_n", !.own = 0, !.n = Top.n + 1]
    <3>1. IsFrame(f, "each_n", Top.base, 0, Top.hold)
      <4>1. Top.n + 1 \in Nat
        BY GoingFacts, TypedFacts
      <4> QED
        BY <4>1, WithNext DEF Kinds
    <3>2. Resume(f) /\ state # "RET"
      BY <2>6 DEF Looped
    <3> HIDE DEF f
    <3>3. f \in Frame /\ f.k = "each_n" /\ f.base = Top.base /\ f.hold = Top.hold
      BY <3>1 DEF IsFrame
    <3>4. /\ f.k \notin Missing \cup Building \cup {"arg", "call"} /\ Top.k \in Clauses
          /\ Loop(f) = 0 /\ Loop(Top) = 1
      BY <2>1, <3>3 DEF Missing, Building, Clauses, Inner, Loop
    <3>5. Guarded(items', stack', f, Len(stack'))
      <4>1. Guarded(items, stack, Top, Len(stack))
        <5>1. Depth \in 1 .. Depth /\ Ceiling(Depth) = Len(stack)
          BY DepthFacts DEF Ceiling
        <5> QED
          BY <5>1, GoingFacts DEF Locals
      <4>2. \A j \in 1 .. Len(Top.hold) : Anchored(items, stack, Top.hold[j].v, n)
        BY <2>3, <3>4, <4>1 DEF Guarded
      <4>3. Guarded(items, stack, f, n)
        BY <2>3, <3>3, <3>4, <4>2 DEF Guarded
      <4>4. \A j \in 1 .. n : stack'[j] = stack[j]
        BY <2>4 DEF Onto, Keeps
      <4>5. Richer(items, items', Live(items, RootsIn(stack, n)))
        BY <2>4, LiveFacts DEF HeapKept, Gains, Richer, RootsIn
      <4> QED
        BY <2>2, <2>4, <4>3, <4>4, <4>5, StaysGuarded
    <3> QED
      BY <2>2, <2>4, <3>2, <3>3, <3>4, <3>5, ResumeA, SMTT(30) DEF HeapKept
  <2>7. CASE state = "RET" /\ Quiet /\ Leave(val)
    <3>1. val \in Slot /\ (val.v \in Scalar => Calls = {})
      BY <2>4, <2>7, GivenFacts, GoingFacts DEF Flight
    <3>2. frames' = Below /\ val'.v = val.v /\ val' # Pending /\ state' = "RET"
      BY <2>7, <3>1, StackAssumption DEF Leave, Quiet
    <3>3. Top.k \in Clauses
      BY <2>1 DEF Clauses, Inner
    <3> QED
      BY <2>1, <2>2, <2>4, <3>1, <3>2, <3>3, LeaveReturningA
  <2> QED
    BY <1>3, <2>5, <2>6, <2>7 DEF EachNext, n
<1> QED
  BY <1>1, <1>2, <1>3


(* A statement that does nothing to the heap goes on, runs a body, or ends. *)
Quietly == UNCHANGED heapVars /\ wild' = wild

LEMMA ClauseResumesA ==
  ASSUME Going, Quietly, Still, state # "RET", Top.k \in Clauses \ {"each_b"},
         NEW k \in Clauses \ {"each_b"}, Resume([Top EXCEPT !.k = k])
  PROVE  AGoal
<1> DEFINE f == [Top EXCEPT !.k = k]
<1>1. k \in Kinds /\ k \notin Missing \cup Building \cup {"arg", "call"}
  BY DEF Clauses, Inner, Kinds, Missing, Building
<1>2. f \in Frame /\ f.k = k /\ f.base = Top.base /\ f.hold = Top.hold
  BY <1>1, WithKind DEF IsFrame
<1>3. Resume(f)
  OBVIOUS
<1> HIDE DEF f
<1>4. HeapKept /\ NoWildAccess'
  BY HeapSame, Unhurt DEF Quietly
<1> QED
  BY <1>1, <1>2, <1>3, <1>4, ResumeTopA

LEMMA LoopRunsA ==
  ASSUME Going, Quietly, Still, state # "RET", Top.k \in Clauses \ {"each_b"},
         NEW k \in {"while_b", "for_b"}, RunBody([Top EXCEPT !.k = k])
  PROVE  AGoal
<1> DEFINE f == [Top EXCEPT !.k = k]
           g == New("body")
<1>1. Continue(f, g)
  BY DEF RunBody
<1>2. IsFrame(f, k, Top.base, Top.own, Top.hold)
  BY WithKind DEF Kinds
<1>3. IsFrame(g, "body", Len(stack), 0, <<>>)
  BY NewFacts, DepthFacts DEF New, Kinds
<1> HIDE DEF f, g
<1>4. NoWildAccess' /\ HeapKept /\ Onto(Len(stack)) /\ Len(stack') = Len(stack)
  BY Unhurt, HeapSame, StackSame DEF Quietly
<1>5. /\ f \in Frame /\ f.k = k /\ f.base = Top.base /\ f.hold = Top.hold
      /\ g \in Frame /\ g.k = "body" /\ g.base = Len(stack') /\ g.hold = <<>>
  BY <1>2, <1>3, <1>4 DEF IsFrame
<1>6. Sort(f) /\ Loop(Top) = 0 /\ Loop(f) = 0 /\ f.k # "arg" /\ f.k \notin Building
  BY <1>5 DEF Sort, Missing, Building, Loop
<1>7. Len(stack') >= Len(stack) + Loop(f)
  BY <1>4, <1>6, DepthFacts
<1> QED
  BY <1>1, <1>4, <1>5, <1>6, <1>7, ContinueA

LEMMA LeaveNoneA ==
  ASSUME Going, Quietly, NEW n, Onto(n), n >= Top.base, Leave(VNONE), state # "RET", state' # "RET"
  PROVE  AGoal
<1>1. "none" \in Scalar /\ Leave(Unrooted("none")) /\ NoWildAccess' /\ UNCHANGED heapVars
  BY Unhurt DEF Scalar, VNONE, Quietly
<1> QED
  BY <1>1, LeaveScalarA

LEMMA StillLeaves ==
  ASSUME Going, Still
  PROVE  Onto(Len(stack)) /\ Len(stack) >= Top.base
BY StackSame, GoingFacts

(* Where a loop that counts its variable leaves the stack *)
LEMMA CutLeaves ==
  ASSUME Going, Cut(Len(stack) - Top.own)
  PROVE  \E n : Onto(n) /\ n >= Top.base
<1> DEFINE n == Len(stack) - Top.own
<1>1. stack' = Prefix(n)
  BY DEF Cut, SetStack
<1>2. n \in 0 .. Len(stack) /\ n >= Top.base
  <2>1. Top.base + Top.own <= Len(stack) /\ Top.base \in Nat /\ Top.own \in Nat /\ Len(stack) \in Nat
    BY GoingFacts, TypedFacts
  <2> QED
    BY <2>1
<1> HIDE DEF n
<1> QED
  BY <1>1, <1>2, StackCut


LEMMA DefA ==
  ASSUME Going, NEW id \in Ids, DefDone(id)
  PROVE  AGoal
<1> DEFINE sym == Var(id, val.v)
<1>1. Given /\ Top.k = "def" /\ Push(sym) /\ Leave(VNONE) /\ Quietly /\ state' = state
  BY DEF DefDone, At, Quiet, Quietly, heapVars
<1>2. state # "RET" /\ val.v \in objs \cup Scalar
  BY <1>1, HavingFacts DEF Looking
<1>3. Sound(sym)
  BY <1>1, <1>2 DEF Sound, Var, Quietly, heapVars
<1> HIDE DEF sym
<1>4. Onto(Len(stack)) /\ Len(stack) >= Top.base
  BY <1>1, <1>3, StackPushed, GoingFacts
<1> QED
  BY <1>1, <1>2, <1>4, LeaveNoneA

(* The branch of an if takes its place. *)
LEMMA IfA ==
  ASSUME Going, If
  PROVE  AGoal
<1>1. /\ Given /\ Top.k = "if" /\ Still /\ Quietly /\ state' = state
      /\ Resume(New("body")) \/ Resume(Top) \/ Leave(VNONE)
  BY DEF If, At, Quiet, Quietly, heapVars
<1>2. state # "RET" /\ HeapKept /\ NoWildAccess' /\ Onto(Len(stack)) /\ Len(stack) >= Top.base
  BY <1>1, HavingFacts, HeapSame, Unhurt, StillLeaves DEF Looking, Quietly
<1>3. CASE Resume(New("body"))
  <2> DEFINE f == New("body")
  <2>1. IsFrame(f, "body", Len(stack), 0, <<>>) /\ Resume(f)
    BY <1>3, NewFacts, DepthFacts DEF New, Kinds
  <2> HIDE DEF f
  <2>2. f \in Frame /\ f.k = "body" /\ f.base >= Top.base /\ f.hold = <<>>
    BY <1>2, <2>1 DEF IsFrame
  <2>3. Guarded(items', stack', f, Len(stack'))
    BY <2>2 DEF Guarded
  <2>4. f.k \notin Missing \cup Building \cup {"arg", "call"} /\ f.k \notin Clauses
    BY <2>2 DEF Missing, Building, Clauses
  <2> QED
    BY <1>2, <2>1, <2>2, <2>3, <2>4, ResumeA DEF HeapKept
<1>4. CASE Resume(Top)
  <2>1. Top \in Frame /\ Top.k \notin Missing \cup {"arg", "call"} /\ Top.k # "each_b"
    BY <1>1, GoingFacts DEF Missing
  <2> QED
    BY <1>1, <1>2, <1>4, <2>1, ResumeTopA
<1>5. CASE Leave(VNONE)
  BY <1>1, <1>2, <1>5, LeaveNoneA
<1> QED
  BY <1>1, <1>3, <1>4, <1>5

(* What a loop gets from its body: the step it takes. *)
LEMMA LoopedA ==
  ASSUME Going, Given, Top.k \in {"while_b", "for_b"},
         \/ Looped({"BREAK"}) /\ Leave(VNONE) /\ \E n : Onto(n) /\ n >= Top.base
         \/ /\ Looped({"NONE", "CONT"}) /\ Still
            /\ \E k \in {"while_c", "for_m"} : Resume([Top EXCEPT !.k = k])
         \/ Returned /\ Still
  PROVE  AGoal
<1>1. Top.k \in Clauses \ {"each_b"}
  BY DEF Clauses, Inner
<1>2. CASE Looped({"BREAK"}) /\ Leave(VNONE) /\ \E n : Onto(n) /\ n >= Top.base
  <2>1. Quietly /\ state # "RET" /\ state' # "RET"
    BY <1>2 DEF Looped, Quietly
  <2> QED
    BY <1>2, <2>1, LeaveNoneA
<1>3. CASE /\ Looped({"NONE", "CONT"}) /\ Still
           /\ \E k \in {"while_c", "for_m"} : Resume([Top EXCEPT !.k = k])
  <2>1. Quietly /\ state # "RET" /\ {"while_c", "for_m"} \subseteq Clauses \ {"each_b"}
    BY <1>3 DEF Looped, Quietly, Clauses, Inner
  <2> QED
    BY <1>1, <1>3, <2>1, ClauseResumesA
<1>4. CASE Returned /\ Still
  <2>1. UNCHANGED heapVars /\ wild' = wild /\ state = "RET" /\ state' = "RET"
        /\ frames' = Below /\ val' = val /\ val # Pending
    BY <1>4 DEF Returned, Quiet, Leave, Given, heapVars
  <2>2. val.v \in Scalar => Calls = {}
    BY <2>1, GoingFacts DEF Flight
  <2>3. NoWildAccess' /\ Onto(Len(stack)) /\ Len(stack) >= Top.base
    BY <1>4, <2>1, Unhurt, StillLeaves
  <2> QED
    BY <1>1, <2>1, <2>2, <2>3, LeaveReturningA
<1> QED
  BY <1>2, <1>3, <1>4

LEMMA WhileA ==
  ASSUME Going, WhileEnter \/ WhileHead \/ WhileNext
  PROVE  AGoal
<1>1. ASSUME Given, Top.k \in {"while_0", "while_c"}, Quiet, Still
      PROVE  state # "RET" /\ state' # "RET" /\ Quietly /\ Top.k \in Clauses \ {"each_b"}
  BY <1>1, HavingFacts DEF Looking, Quiet, Quietly, heapVars, Clauses, Inner
<1>2. CASE WhileEnter
  <2>1. "while_c" \in Clauses \ {"each_b"}
    BY DEF Clauses, Inner
  <2> QED
    BY <1>1, <1>2, <2>1, ClauseResumesA DEF WhileEnter, At
<1>3. CASE WhileHead
  <2>1. Given /\ Top.k \in {"while_0", "while_c"} /\ Quiet /\ Still
        /\ (RunBody([Top EXCEPT !.k = "while_b"]) \/ Leave(VNONE))
    BY <1>3 DEF WhileHead, At
  <2>2. CASE RunBody([Top EXCEPT !.k = "while_b"])
    BY <1>1, <2>1, <2>2, LoopRunsA
  <2>3. CASE Leave(VNONE)
    BY <1>1, <2>1, <2>3, StillLeaves, LeaveNoneA
  <2> QED
    BY <2>1, <2>2, <2>3
<1>4. CASE WhileNext
  <2>1. /\ Given /\ Top.k \in {"while_b", "for_b"} /\ Still
        /\ \/ Looped({"BREAK"}) /\ Leave(VNONE)
           \/ Looped({"NONE", "CONT"}) /\ Resume([Top EXCEPT !.k = "while_c"])
           \/ Returned
    BY <1>4 DEF WhileNext, At
  <2> QED
    BY <2>1, StillLeaves, LoopedA
<1> QED
  BY <1>2, <1>3, <1>4


LEMMA ForA ==
  ASSUME Going, ForEnter \/ ForHead \/ ForNext \/ ForMut
  PROVE  AGoal
<1>1. ASSUME Given, Top.k \in {"for_v", "for_c", "for_m"}, Quiet
      PROVE  state # "RET" /\ state' # "RET" /\ Quietly /\ Top.k \in Clauses \ {"each_b"}
  BY <1>1, HavingFacts DEF Looking, Quiet, Quietly, heapVars, Clauses, Inner
<1>2. CASE ForEnter
  <2> DEFINE own == IF Len(stack) # Top.base THEN 1 ELSE 0
             f   == [Top EXCEPT !.k = "for_c", !.own = own]
  <2>1. Given /\ Top.k = "for_v" /\ Quiet /\ Still /\ Resume(f)
    BY <1>2 DEF ForEnter, At
  <2>2. own \in Nat
    BY SMTT(30)
  <2> HIDE DEF own
  <2>3. IsFrame(f, "for_c", Top.base, own, Top.hold)
    BY <2>2, WithOwn DEF Kinds
  <2> HIDE DEF f
  <2>4. f \in Frame /\ f.k = "for_c" /\ f.base = Top.base /\ f.hold = Top.hold
    BY <2>3 DEF IsFrame
  <2>5. state # "RET" /\ Quietly /\ Top.k \in Clauses \ {"each_b"}
    BY <1>1, <2>1
  <2>6. HeapKept /\ NoWildAccess' /\ f.k \notin Missing \cup Building \cup {"arg", "call"} /\ f.k # "each_b"
    BY <2>4, <2>5, HeapSame, Unhurt DEF Quietly, Missing, Building
  <2> QED
    BY <2>1, <2>4, <2>5, <2>6, ResumeTopA
<1>3. CASE ForHead
  <2>1. Given /\ Top.k \in {"for_v", "for_c", "for_m"} /\ Quiet
    BY <1>3 DEF ForHead, At
  <2>2. CASE RunBody([Top EXCEPT !.k = "for_b"]) /\ Still
    BY <1>1, <2>1, <2>2, LoopRunsA
  <2>3. CASE Leave(VNONE) /\ Cut(Len(stack) - Top.own)
    <3>1. \E n : Onto(n) /\ n >= Top.base
      BY <2>3, CutLeaves
    <3> QED
      BY <1>1, <2>1, <2>3, <3>1, LeaveNoneA
  <2> QED
    BY <1>3, <2>2, <2>3 DEF ForHead, ForLeave
<1>4. CASE ForNext
  <2>1. /\ Given /\ Top.k \in {"while_b", "for_b"}
        /\ \/ Looped({"BREAK"}) /\ Leave(VNONE) /\ Cut(Len(stack) - Top.own)
           \/ Looped({"NONE", "CONT"}) /\ Resume([Top EXCEPT !.k = "for_m"]) /\ Still
           \/ Returned /\ Still
    BY <1>4 DEF ForNext, ForLeave, At
  <2> QED
    BY <2>1, CutLeaves, LoopedA
<1>5. CASE ForMut
  <2>1. "for_c" \in Clauses \ {"each_b"}
    BY DEF Clauses, Inner
  <2> QED
    BY <1>1, <1>5, <2>1, ClauseResumesA DEF ForMut, At
<1> QED
  BY <1>2, <1>3, <1>4, <1>5

(* A body goes on after a statement, or ends. *)
LEMMA BodyA ==
  ASSUME Going, BodyNext \/ BodyEnd
  PROVE  AGoal
<1>1. CASE BodyNext
  <2>1. Top.k = "body" /\ Resume(Top) /\ Still /\ Quietly /\ state # "RET"
    BY <1>1 DEF BodyNext, At, Quiet, Quietly, heapVars
  <2>2. HeapKept /\ NoWildAccess' /\ Top \in Frame
    BY <2>1, HeapSame, Unhurt, GoingFacts DEF Quietly
  <2>3. Top.k # "each_b" /\ Top.k \notin Missing \cup {"arg", "call"} /\ Top.k \notin Clauses
    BY <2>1 DEF Missing, Clauses
  <2> QED
    BY <2>1, <2>2, <2>3, ResumeTopA
<1>2. CASE BodyEnd
  <2>1. Asked /\ stack' = Prefix(Top.base) /\ Leave(VNONE) /\ Quietly /\ state' = state
    BY <1>2 DEF BodyEnd, Cut, SetStack, Quiet, Quietly, heapVars
  <2>2. Top.base \in 0 .. Len(stack) /\ Top.base >= Top.base /\ state # "RET"
    BY <2>1, GoingFacts, AskedFacts
  <2>3. Onto(Top.base)
    BY <2>1, <2>2, StackCut
  <2> QED
    BY <2>1, <2>2, <2>3, LeaveNoneA
<1> QED
  BY <1>1, <1>2

LEMMA RetA ==
  ASSUME Going, RetDone
  PROVE  AGoal
<1>1. Given /\ Top.k = "ret" /\ Leave(val) /\ Returns(val.v)
  BY DEF RetDone, At
<1>2. /\ NoWildAccess' /\ UNCHANGED heapVars /\ Still /\ state' = "RET"
      /\ wild' = "no" /\ val.v \in Scalar => Calls = {}
  BY <1>1, ReturnsFacts
<1>3. val # Pending /\ frames' = Below /\ val' = val /\ Top.k \in Clauses
  BY <1>1 DEF Given, Leave, Clauses, Inner
<1>4. Onto(Len(stack)) /\ Len(stack) >= Top.base
  BY <1>2, StillLeaves
<1> QED
  BY <1>2, <1>3, <1>4, LeaveReturningA

LEMMA StmtA ==
  ASSUME Going, Stmt
  PROVE  AGoal
<1>1. CASE CondError
  BY <1>1, StopsOnError DEF CondError, Throw
<1>2. CASE \E id \in Ids : DefDone(id)
  BY <1>2, DefA
<1> QED
  BY <1>1, <1>2, StatementA, UnwindBodyA, EachA, IfA, WhileA, ForA, BodyA, RetA DEF Stmt

-----------------------------------------------------------------------------
(* The theorem.                                                            *)

LEMMA InitA == Init /\ Nullary => AInv
<1> SUFFICES ASSUME Init, Nullary PROVE AInv
  OBVIOUS
<1> DEFINE reg == [kind |-> "REG", id |-> Lib, v |-> "none"]
<1>1. /\ stack = <<reg>> /\ frames = <<NewAt("body", 1)>> /\ val = Pending
      /\ wild = "no" /\ objs = {} /\ items = [o \in Obj |-> <<>>]
  BY DEF Init, StackInit, HeapInit
<1>2. /\ Len(stack) = 1 /\ stack[1] = reg /\ Depth = 1
      /\ frames[1].k = "body" /\ frames[1].hold = <<>>
  BY <1>1 DEF Depth, NewAt
<1>3. reg.kind = "REG" /\ reg.id = Lib
  OBVIOUS
<1> HIDE DEF reg
<1>4. \A j \in 1 .. Len(stack) : stack[j] = reg
  BY <1>2
<1>5. Top = frames[1] /\ \A i \in 1 .. Depth : i = 1
  BY <1>2 DEF Top
<1>6. Kinded
  BY <1>2, <1>3, <1>4, <1>5 DEF Kinded, Sort, Missing
<1>7. RootsIn(stack, Len(stack)) = {} /\ ScalarTemps = {}
  BY <1>3, <1>4 DEF RootsIn, ScalarTemps
<1>8. Steady
  BY <1>1 DEF Steady, Unused
<1>9. Locals
  BY <1>2, <1>5 DEF Locals, Guarded
<1>10. Private
  BY <1>2, <1>5 DEF Private, Own, Building
<1>11. Alive
  BY <1>1, <1>6, <1>7, <1>8, <1>9, <1>10 DEF Alive, Rooting, Flight, NoScalarTemp
<1> QED
  BY <1>1, <1>11, InitU DEF AInv, NoWildAccess

(* After an error nothing is reached, only unwound. *)
LEMMA FailedA ==
  ASSUME AInv, err, Expression \/ Operator \/ Call \/ Stmt \/ Unwind
  PROVE  NoWildAccess' /\ ~Clean'
<1>1. UInv /\ NoWildAccess
  BY DEF AInv
<1>2. ~(Asked \/ Given)
  BY <1>1, Asking DEF Given
<1>3. Unwind
  BY <1>2, Forward
<1>4. wild' = wild /\ err'
  BY <1>3 DEF Unwind, ErrPlain, ErrPush, ErrAppend, ErrRet, Failed, Quiet
<1> QED
  BY <1>1, <1>4 DEF NoWildAccess, Clean

LEMMA NextA == AInv /\ [Next]_vars => AInv'
<1> SUFFICES ASSUME AInv, [Next]_vars PROVE AInv'
  OBVIOUS
<1>1. UInv' /\ UInv /\ Nullary
  BY NextU DEF AInv
<1>2. CASE UNCHANGED vars
  <2>1. Alive => Alive'
    BY <1>2 DEF Alive, Kinded, Steady, Rooting, Locals, Private, Flight, NoScalarTemp, vars, stackVars,
                heapVars, Depth, Top, Ceiling, Calls, ScalarTemps, Unused
  <2> QED
    BY <1>1, <1>2, <2>1 DEF AInv, NoWildAccess, Clean, vars
<1>3. CASE Expression \/ Operator \/ Call \/ Stmt \/ Unwind
  <2>1. Running
    BY <1>3, RunsOnly
  <2>2. CASE err
    BY <1>1, <1>3, <2>2, FailedA DEF AInv
  <2>3. CASE ~err
    <3>1. Going
      BY <1>1, <2>1, <2>3 DEF AInv, Clean, Going, Running
    <3>2. ~Unwind
      BY <2>3 DEF Unwind, ErrPlain, ErrPush, ErrAppend, ErrRet, Failed
    <3>3. AGoal
      BY <1>3, <3>1, <3>2, ExpressionA, OperatorA, CallA, StmtA
    <3> QED
      BY <1>1, <3>3 DEF AInv, AGoal
  <2> QED
    BY <2>2, <2>3
<1> QED
  BY <1>2, <1>3 DEF Next, Stopped

(* In the fragment Nullary no step of eval, and no mark phase, ever reaches *)
(* an object the collector has freed, follows the scalar of a TEMP, or uses *)
(* an EvalSymbol from a buffer the stack has left, whatever the program,    *)
(* the number of its objects, the depth of its calls and when collections   *)
(* come: no value loses its last root while an activation holds it.         *)
THEOREM NothingWild == Nullary => (Spec => []NoWildAccess)
<1>1. AInv => NoWildAccess
  BY DEF AInv
<1> SUFFICES ASSUME Nullary PROVE Spec => []NoWildAccess
  OBVIOUS
<1>2. Init => AInv
  BY InitA
<1> QED
  BY <1>1, <1>2, NextA, PTL DEF Spec

-----------------------------------------------------------------------------
(***************************************************************************)
(* No activation but a definition leaves a name behind, as long as nothing *)
(* is popped by counting: without parameters and without for.              *)
(***************************************************************************)
Uncounted == Forms \cap {"param", "variadic", "for"} = {}

\* The activations that are not there without these forms, and the statements, which
\* a body evaluates directly.
Absent == {"any", "for_v", "for_c", "for_b", "for_m"}
Direct == (Inner \ {"body"}) \cup {"def"}

Uncounts(f)   == f.k \notin Absent /\ (f.k \in {"arg", "call"} => f.own = 0)
Within(f, g)  == /\ f.k # "arg"
                 /\ g.k \in Direct => f.k = "body"
                 /\ f.k = "each_b" => g.k = "body"
Arranged == /\ \A i \in 1 .. Depth : Uncounts(frames[i])
            /\ \A i \in 1 .. Depth - 1 : Within(frames[i], frames[i + 1])
            /\ frames # <<>> /\ Top.k = "arg" => val = Pending

\* Only TEMPs between g and h
Plain(st, g, h) == \A j \in g + 1 .. h : st[j].kind = "TEMP"

\* A body has names above its base, and so has a foreach whose body returns.
Shows(i) == frames[i].k = "body" \/ (frames[i].k = "each_b" /\ i = Depth /\ state = "RET")
Tidy     == \A i \in 1 .. Depth :
              Shows(i) \/ Plain(stack, frames[i].base, Ceiling(i) - Loop(frames[i]))

NInv == UInv /\ Uncounted /\ (~err => Arranged /\ Tidy)

\* A step, and what it has to establish
Tidying == UInv /\ Uncounted /\ Arranged /\ Tidy /\ Running /\ ~err
NoName  == (Depth > 0 /\ frames' = Below /\ Top.k # "def" /\ ~err' /\ state' = "NONE") =>
             Plain(stack', Top.base, Len(stack'))
NGoal   == (~err' => Arranged' /\ Tidy') /\ NoName

\* The first h symbols stay what they are.
Stays(h) == /\ h \in 0 .. Len(stack) /\ h <= Len(stack')
            /\ \A j \in 1 .. h : stack'[j].kind = stack[j].kind

-----------------------------------------------------------------------------
(* What each kind of step has to show.                                     *)

LEMMA TidyFacts ==
  ASSUME Tidying
  PROVE  /\ UInv /\ IInv /\ Running /\ Arranged /\ Tidy
         /\ frames \in Seq(Frame) /\ Depth \in Nat \ {0}
         /\ Top = frames[Depth] /\ Top \in Frame /\ Top.base \in Nat /\ Top.base <= Len(stack)
         /\ stack \in Seq(Symbol) /\ Len(stack) \in Nat
         /\ Uncounts(Top) /\ Loop(Top) \in {0, 1}
         /\ Top.k = "each_b" => Top.base < Len(stack)
<1>1. UInv /\ IInv /\ Running /\ Arranged /\ Tidy
  BY DEF Tidying, UInv
<1>2. /\ frames \in Seq(Frame) /\ Depth \in Nat \ {0} /\ Top = frames[Depth] /\ Top \in Frame
  BY <1>1, Here
<1>3. /\ Top.base \in Nat /\ Top.own \in Nat /\ Top.base + Top.own <= Len(stack)
      /\ stack \in Seq(Symbol) /\ Len(stack) \in Nat /\ Shaped(Top)
  BY <1>1, TypedFacts
<1>4. Top.k = "each_b" => Top.own = 1
  BY <1>3 DEF Shaped
<1>5. Uncounts(Top)
  BY <1>1, <1>2 DEF Arranged
<1>6. Loop(Top) \in {0, 1}
  BY DEF Loop
<1>7. Top.base <= Len(stack) /\ (Top.k = "each_b" => Top.base < Len(stack))
  BY <1>3, <1>4
<1> QED
  BY <1>1, <1>2, <1>3, <1>5, <1>6, <1>7

LEMMA HeightFacts ==
  ASSUME Tidying
  PROVE  Depth \in Nat \ {0} /\ Top = frames[Depth] /\ Len(stack) \in Nat /\ Top.base \in Nat
  BY TidyFacts

(* The innermost activation has left only TEMPs. *)
LEMMA TopPlain ==
  ASSUME Tidying, Top.k # "body", Top.k = "each_b" => state # "RET"
  PROVE  Plain(stack, Top.base, Len(stack) - Loop(Top))
<1>1. Depth \in 1 .. Depth /\ Top = frames[Depth] /\ Tidy
  BY TidyFacts
<1>2. ~Shows(Depth) /\ Ceiling(Depth) = Len(stack)
  BY <1>1 DEF Shows, Ceiling
<1> QED
  BY <1>1, <1>2 DEF Tidy

(* The activations below it keep what they have. *)
LEMMA BelowPlain ==
  ASSUME Tidying, Stays(Top.base), NEW i \in 1 .. Depth - 1, frames[i].k # "body"
  PROVE  Plain(stack', frames[i].base, frames[i + 1].base - Loop(frames[i]))
<1>1. i \in 1 .. Depth /\ i + 1 \in 1 .. Depth /\ i # Depth /\ Tidy
  BY TidyFacts
<1>2. Plain(stack, frames[i].base, frames[i + 1].base - Loop(frames[i]))
  BY <1>1 DEF Tidy, Shows, Ceiling
<1>3. frames[i].base \in Nat /\ frames[i + 1].base \in Nat /\ frames[i + 1].base <= Top.base
  <2>1. \A n \in 1 .. Depth : frames[n] \in Frame
    BY TidyFacts, ElementOfSeq DEF Depth
  <2>2. \A n \in 1 .. Depth : frames[n].base \in Nat /\ frames[n].own \in Nat
    BY <2>1 DEF Frame
  <2>3. CASE i + 1 = Depth
    BY <1>1, <2>2, <2>3, HeightFacts
  <2>4. CASE i + 1 # Depth
    <3>1. Depth \in i + 1 + 1 .. Depth
      BY <1>1, <2>4, HeightFacts
    <3>2. frames[i + 1].base + frames[i + 1].own <= frames[Depth].base
      BY <1>1, <3>1, TidyFacts DEF IInv, StackDiscipline
    <3> QED
      BY <1>1, <2>2, <3>2, HeightFacts, SMTT(30)
  <2> QED
    BY <2>3, <2>4
<1>4. Loop(frames[i]) \in {0, 1}
  BY DEF Loop
<1>5. \A j \in frames[i].base + 1 .. frames[i + 1].base - Loop(frames[i]) : j \in 1 .. Top.base
  BY <1>3, <1>4, HeightFacts
<1> QED
  BY <1>2, <1>5 DEF Plain, Stays

(* A sub-tree without one of its own is evaluated. *)
LEMMA LeafN ==
  ASSUME Tidying, frames' = frames, Stays(Len(stack)), Len(stack') \in Nat, Top.k \notin {"arg", "each_b"},
         Top.k = "body" \/ Plain(stack', Len(stack), Len(stack'))
  PROVE  NGoal
<1>1. Depth' = Depth
  BY DEF Depth
<1>2. Arranged'
  <2>1. Top' = Top
    BY <1>1 DEF Top
  <2> QED
    BY <1>1, <2>1, TidyFacts DEF Arranged
<1>3. ASSUME NEW i \in 1 .. Depth
      PROVE  Shows(i)' \/ Plain(stack', frames'[i].base, Ceiling(i)' - Loop(frames'[i]))
  <2>1. CASE frames[i].k = "body"
    BY <2>1 DEF Shows
  <2>2. CASE frames[i].k # "body" /\ i # Depth
    <3>1. i \in 1 .. Depth - 1 /\ Stays(Top.base)
      BY <2>2, TidyFacts DEF Stays
    <3>2. Plain(stack', frames[i].base, frames[i + 1].base - Loop(frames[i]))
      BY <2>2, <3>1, BelowPlain
    <3> QED
      BY <1>1, <2>2, <3>2 DEF Ceiling
  <2>3. CASE frames[i].k # "body" /\ i = Depth
    <3>1. frames[i] = Top /\ Ceiling(i)' = Len(stack')
      BY <1>1, <2>3, HeightFacts DEF Ceiling
    <3>2. Plain(stack, Top.base, Len(stack) - Loop(Top)) /\ Loop(Top) = 0
      BY <2>3, <3>1, TopPlain DEF Loop
    <3>3. Plain(stack', Top.base, Len(stack'))
      <4>1. ASSUME NEW j \in Top.base + 1 .. Len(stack') PROVE stack'[j].kind = "TEMP"
        <5>1. CASE j <= Len(stack)
          <6>1. j \in Top.base + 1 .. Len(stack) - Loop(Top) /\ j \in 1 .. Len(stack)
            BY <3>2, <5>1, HeightFacts
          <6> QED
            BY <3>2, <6>1 DEF Plain, Stays
        <5>2. CASE ~(j <= Len(stack))
          <6>1. j \in Len(stack) + 1 .. Len(stack')
            BY <5>2, HeightFacts
          <6> QED
            BY <2>3, <3>1, <6>1 DEF Plain
        <5> QED
          BY <5>1, <5>2
      <4> QED
        BY <4>1 DEF Plain
    <3> QED
      BY <3>1, <3>2, <3>3
  <2> QED
    BY <2>1, <2>2, <2>3
<1>4. Tidy'
  BY <1>1, <1>3 DEF Tidy
<1>5. NoName
  <2>1. frames' # Below
    BY TidyFacts, Here
  <2> QED
    BY <2>1 DEF NoName
<1> QED
  BY <1>2, <1>4, <1>5 DEF NGoal

(* A sub-tree is entered. *)
LEMMA EnterN ==
  ASSUME Tidying, NEW f, Enter(f), f.base = Len(stack), Uncounts(f), Within(Top, f),
         f.k # "each_b", Top.k # "each_b",
         Stays(Len(stack)), Len(stack') \in Nat, Plain(stack', Len(stack), Len(stack'))
  PROVE  NGoal
<1>1. /\ Depth' = Depth + 1 /\ frames'[Depth + 1] = f
      /\ \A i \in 1 .. Depth : frames'[i] = frames[i]
  BY TidyFacts, Appended DEF Enter, Depth
<1>2. ASSUME NEW i \in 1 .. Depth + 1 PROVE Uncounts(frames'[i])
  <2>1. i \in 1 .. Depth \/ i = Depth + 1
    BY HeightFacts
  <2> QED
    BY <1>1, <2>1, TidyFacts DEF Arranged
<1>3. ASSUME NEW i \in 1 .. Depth PROVE Within(frames'[i], frames'[i + 1])
  <2>1. CASE i = Depth
    BY <1>1, <2>1, HeightFacts
  <2>2. CASE i # Depth
    <3>1. i \in 1 .. Depth - 1 /\ i + 1 \in 1 .. Depth
      BY <2>2, HeightFacts
    <3>2. Within(frames[i], frames[i + 1])
      BY <3>1, TidyFacts DEF Arranged
    <3> QED
      BY <1>1, <3>1, <3>2
  <2> QED
    BY <2>1, <2>2
<1>4. Arranged'
  <2>1. Depth' - 1 = Depth
    BY <1>1, HeightFacts
  <2> QED
    BY <1>1, <1>2, <1>3, <2>1 DEF Arranged, Enter
<1>5. ASSUME NEW i \in 1 .. Depth + 1
      PROVE  Shows(i)' \/ Plain(stack', frames'[i].base, Ceiling(i)' - Loop(frames'[i]))
  <2>1. CASE i = Depth + 1
    <3>1. frames'[i] = f /\ Ceiling(i)' = Len(stack') /\ Loop(f) = 0
      BY <1>1, <2>1 DEF Ceiling, Loop
    <3>2. Len(stack') - 0 = Len(stack')
      OBVIOUS
    <3> QED
      BY <3>1, <3>2
  <2>2. CASE i = Depth
    <3>1. frames'[i] = Top /\ Ceiling(i)' = Len(stack)
      BY <1>1, <2>2, HeightFacts DEF Ceiling
    <3>2. CASE Top.k = "body"
      BY <3>1, <3>2 DEF Shows
    <3>3. CASE Top.k # "body"
      <4>1. Plain(stack, Top.base, Len(stack) - Loop(Top)) /\ Loop(Top) = 0
        BY <3>3, TopPlain DEF Loop
      <4>2. \A j \in Top.base + 1 .. Len(stack) - Loop(Top) : j \in 1 .. Len(stack)
        BY <4>1, HeightFacts
      <4>3. Plain(stack', Top.base, Len(stack) - Loop(Top))
        BY <4>1, <4>2 DEF Plain, Stays
      <4> QED
        BY <3>1, <4>3
    <3> QED
      BY <3>2, <3>3
  <2>3. CASE i \in 1 .. Depth - 1
    <3>1. /\ Stays(Top.base) /\ i \in 1 .. Depth /\ i + 1 \in 1 .. Depth /\ i # Depth + 1
          /\ i # Depth'
      BY <1>1, <2>3, TidyFacts DEF Stays
    <3>2. CASE frames[i].k = "body"
      BY <1>1, <3>1, <3>2 DEF Shows
    <3>3. CASE frames[i].k # "body"
      <4>1. Plain(stack', frames[i].base, frames[i + 1].base - Loop(frames[i]))
        BY <2>3, <3>1, <3>3, BelowPlain
      <4> QED
        BY <1>1, <3>1, <4>1 DEF Ceiling
    <3> QED
      BY <3>2, <3>3
  <2>4. i = Depth + 1 \/ i = Depth \/ i \in 1 .. Depth - 1
    BY HeightFacts
  <2> QED
    BY <2>1, <2>2, <2>3, <2>4
<1>6. Tidy'
  BY <1>1, <1>5 DEF Tidy
<1>7. NoName
  <2>1. Len(frames') # Depth - 1
    BY <1>1, HeightFacts DEF Depth
  <2> QED
    BY <2>1, TidyFacts, Here DEF NoName
<1> QED
  BY <1>4, <1>6, <1>7 DEF NGoal


(* The activation goes on, or a body takes its place. *)
LEMMA ResumeN ==
  ASSUME Tidying, NEW f, Resume(f), f.k \notin Absent \cup {"arg", "call", "each_b"},
         f.k \in Direct => Top.k \in Direct, f.base = Top.base \/ Top.k \in Direct,
         NEW h, Stays(h), h >= Top.base,
         f.k = "body" \/ /\ f.base = Top.base /\ Top.k # "body"
                         /\ Top.k = "each_b" => state # "RET"
                         /\ Len(stack') = h /\ h = Len(stack) - Loop(Top)
  PROVE  NGoal
<1>1. /\ Depth' = Depth /\ frames'[Depth] = f
      /\ \A i \in 1 .. Depth - 1 : frames'[i] = frames[i]
  BY TidyFacts, Here, Appended DEF Resume, Depth
<1>2. ASSUME NEW i \in 1 .. Depth PROVE Uncounts(frames'[i])
  <2>1. i \in 1 .. Depth - 1 \/ i = Depth
    BY HeightFacts
  <2> QED
    BY <1>1, <2>1, TidyFacts DEF Arranged, Uncounts
<1>3. ASSUME NEW i \in 1 .. Depth - 1 PROVE Within(frames'[i], frames'[i + 1])
  <2>1. Within(frames[i], frames[i + 1])
    BY TidyFacts DEF Arranged
  <2>2. CASE i + 1 = Depth
    <3>1. frames'[i + 1] = f /\ frames'[i] = frames[i] /\ frames[i + 1] = Top
      BY <1>1, <2>2, HeightFacts
    <3>2. Top.k = "body" => f.k = "body"
      OBVIOUS
    <3>3. f.k \in Direct => frames[i].k = "body"
      BY <2>1, <3>1 DEF Within
    <3> QED
      BY <2>1, <3>1, <3>2, <3>3 DEF Within
  <2>3. CASE i + 1 # Depth
    <3>1. i + 1 \in 1 .. Depth - 1
      BY <2>3, HeightFacts
    <3> QED
      BY <1>1, <2>1, <3>1
  <2> QED
    BY <2>2, <2>3
<1>4. Arranged'
  BY <1>1, <1>2, <1>3 DEF Arranged, Resume
<1>5. ASSUME NEW i \in 1 .. Depth
      PROVE  Shows(i)' \/ Plain(stack', frames'[i].base, Ceiling(i)' - Loop(frames'[i]))
  <2>1. CASE i = Depth
    <3>1. frames'[i] = f /\ Ceiling(i)' = Len(stack') /\ Loop(f) = 0
      BY <1>1, <2>1 DEF Ceiling, Loop
    <3>2. CASE f.k = "body"
      BY <3>1, <3>2 DEF Shows
    <3>3. CASE f.k # "body"
      <4>1. Plain(stack, Top.base, h) /\ Len(stack') = h /\ f.base = Top.base /\ h \in Nat
        BY <3>3, TopPlain DEF Stays
      <4>2. \A j \in Top.base + 1 .. h : j \in 1 .. h
        BY <4>1, HeightFacts
      <4>3. Plain(stack', Top.base, h)
        BY <4>1, <4>2 DEF Plain, Stays
      <4>4. h - 0 = h
        BY <4>1
      <4> QED
        BY <3>1, <4>1, <4>3, <4>4
    <3> QED
      BY <3>2, <3>3
  <2>2. CASE i # Depth
    <3>1. i \in 1 .. Depth - 1 /\ i + 1 \in 1 .. Depth
      BY <2>2, HeightFacts
    <3>2. CASE frames[i].k = "body"
      BY <1>1, <3>1, <3>2 DEF Shows
    <3>3. CASE frames[i].k # "body"
      <4>1. Stays(Top.base)
        <5>1. \A j \in 1 .. Top.base : j \in 1 .. h
          BY HeightFacts DEF Stays
        <5>2. Top.base \in 0 .. Len(stack) /\ Top.base <= Len(stack')
          BY TidyFacts DEF Stays
        <5> QED
          BY <5>1, <5>2 DEF Stays
      <4>2. Plain(stack', frames[i].base, frames[i + 1].base - Loop(frames[i]))
        BY <3>1, <3>3, <4>1, BelowPlain
      <4>3. CASE i + 1 # Depth
        <5>1. i + 1 \in 1 .. Depth - 1
          BY <3>1, <4>3, HeightFacts
        <5> QED
          BY <1>1, <2>2, <3>1, <4>2, <5>1 DEF Ceiling
      <4>4. CASE i + 1 = Depth
        <5>1. frames'[i] = frames[i] /\ frames'[i + 1] = f /\ frames[i + 1] = Top
              /\ Ceiling(i)' = f.base
          BY <1>1, <2>2, <3>1, <4>4, HeightFacts DEF Ceiling
        <5>2. CASE f.base = Top.base
          BY <4>2, <5>1, <5>2
        <5>3. CASE Top.k \in Direct
          <6>1. Within(frames[i], frames[i + 1])
            BY <3>1, TidyFacts DEF Arranged
          <6> QED
            BY <3>3, <5>1, <5>3, <6>1 DEF Within
        <5> QED
          BY <5>2, <5>3
      <4> QED
        BY <4>3, <4>4
    <3> QED
      BY <3>2, <3>3
  <2> QED
    BY <2>1, <2>2
<1>6. Tidy'
  BY <1>1, <1>5 DEF Tidy
<1>7. NoName
  <2>1. Len(frames') # Depth - 1
    BY <1>1, HeightFacts DEF Depth
  <2> QED
    BY <2>1, TidyFacts, Here DEF NoName
<1> QED
  BY <1>4, <1>6, <1>7 DEF NGoal

(* A body runs above the activation. *)
LEMMA ContinueN ==
  ASSUME Tidying, NEW f, NEW g, Continue(f, g), f.base = Top.base, g.base = Len(stack'),
         Len(stack') = Len(stack) + Loop(f), Stays(Len(stack)), Top.k \notin {"body", "each_b"},
         Uncounts(f), f.k # "arg", f.k \in Direct => Top.k \in Direct, g.k = "body"
  PROVE  NGoal
<1> DEFINE s == Append(Below, f)
<1>1. /\ s \in Seq(Frame \cup {f}) /\ Len(s) = Depth /\ s[Depth] = f
      /\ \A i \in 1 .. Depth - 1 : s[i] = frames[i]
  BY TidyFacts, Here, Appended
<1>2. frames' = Append(s, g)
  BY DEF Continue
<1> HIDE DEF s
<1>3. /\ Depth' = Depth + 1 /\ frames'[Depth + 1] = g /\ frames'[Depth] = f
      /\ \A i \in 1 .. Depth - 1 : frames'[i] = frames[i]
  BY <1>1, <1>2, HeightFacts, Appended DEF Depth
<1>4. ASSUME NEW i \in 1 .. Depth + 1 PROVE Uncounts(frames'[i])
  <2>1. i \in 1 .. Depth - 1 \/ i = Depth \/ i = Depth + 1
    BY HeightFacts
  <2>2. Uncounts(g)
    BY DEF Uncounts, Absent
  <2> QED
    BY <1>3, <2>1, <2>2, TidyFacts DEF Arranged
<1>5. ASSUME NEW i \in 1 .. Depth PROVE Within(frames'[i], frames'[i + 1])
  <2>1. CASE i = Depth
    BY <1>3, <2>1 DEF Within, Direct
  <2>2. CASE i = Depth - 1
    <3>1. i \in 1 .. Depth - 1 /\ i + 1 = Depth
      BY <2>2, HeightFacts
    <3>2. frames'[i + 1] = f /\ frames'[i] = frames[i] /\ frames[i + 1] = Top
      BY <1>3, <3>1, HeightFacts
    <3>3. Within(frames[i], Top)
      BY <3>1, <3>2, TidyFacts DEF Arranged
    <3> QED
      BY <3>2, <3>3 DEF Within
  <2>3. CASE i # Depth /\ i # Depth - 1
    <3>1. i \in 1 .. Depth - 1 /\ i + 1 \in 1 .. Depth - 1
      BY <2>3, HeightFacts
    <3>2. Within(frames[i], frames[i + 1])
      BY <3>1, TidyFacts DEF Arranged
    <3> QED
      BY <1>3, <3>1, <3>2
  <2> QED
    BY <2>1, <2>2, <2>3
<1>6. Arranged'
  <2>1. Depth' - 1 = Depth
    BY <1>3, HeightFacts
  <2> QED
    BY <1>3, <1>4, <1>5, <2>1 DEF Arranged, Continue
<1>7. ASSUME NEW i \in 1 .. Depth + 1
      PROVE  Shows(i)' \/ Plain(stack', frames'[i].base, Ceiling(i)' - Loop(frames'[i]))
  <2>1. CASE i = Depth + 1
    BY <1>3, <2>1 DEF Shows
  <2>2. CASE i = Depth
    <3>1. frames'[i] = f /\ Ceiling(i)' = Len(stack') /\ f.base = Top.base
      BY <1>3, <2>2, HeightFacts DEF Ceiling
    <3>2. Loop(Top) = 0 /\ Loop(f) \in {0, 1}
      BY DEF Loop
    <3>3. Plain(stack, Top.base, Len(stack) - Loop(Top))
      BY TopPlain
    <3>4. Len(stack') - Loop(f) = Len(stack) /\ Len(stack) - Loop(Top) = Len(stack)
      BY <3>2, HeightFacts
    <3>5. \A j \in Top.base + 1 .. Len(stack) : j \in 1 .. Len(stack)
      BY HeightFacts
    <3>6. Plain(stack', Top.base, Len(stack))
      BY <3>3, <3>4, <3>5 DEF Plain, Stays
    <3> QED
      BY <3>1, <3>4, <3>6
  <2>3. CASE i \in 1 .. Depth - 1
    <3>1. /\ Stays(Top.base) /\ i \in 1 .. Depth /\ i # Depth + 1 /\ i # Depth'
          /\ i + 1 \in 1 .. Depth - 1 \/ i + 1 = Depth
      BY <1>3, <2>3, TidyFacts DEF Stays
    <3>2. CASE frames[i].k = "body"
      BY <1>3, <2>3, <3>2 DEF Shows
    <3>3. CASE frames[i].k # "body"
      <4>1. Plain(stack', frames[i].base, frames[i + 1].base - Loop(frames[i]))
        BY <2>3, <3>1, <3>3, BelowPlain
      <4>2. Ceiling(i)' = frames[i + 1].base
        BY <1>3, <3>1, HeightFacts DEF Ceiling
      <4> QED
        BY <1>3, <2>3, <4>1, <4>2
    <3> QED
      BY <3>2, <3>3
  <2>4. i = Depth + 1 \/ i = Depth \/ i \in 1 .. Depth - 1
    BY HeightFacts
  <2> QED
    BY <2>1, <2>2, <2>3, <2>4
<1>8. Tidy'
  BY <1>3, <1>7 DEF Tidy
<1>9. NoName
  <2>1. Len(frames') # Depth - 1
    BY <1>3, HeightFacts DEF Depth
  <2> QED
    BY <2>1, TidyFacts, Here DEF NoName
<1> QED
  BY <1>6, <1>8, <1>9 DEF NGoal

(* The activation ends. *)
LEMMA LeaveN ==
  ASSUME Tidying, frames' = Below, Stays(Top.base), Len(stack') \in Nat,
         \/ Plain(stack', Top.base, Len(stack')) \/ Top.k = "def"
         \/ Top.k = "each_b" /\ state' = "RET",
         Top.k = "body" => state' = "RET" \/ Len(stack') = Top.base
  PROVE  NGoal
<1>1. Depth' = Depth - 1 /\ \A i \in 1 .. Depth - 1 : frames'[i] = frames[i]
  BY TidyFacts, Here DEF Depth
<1>2. Arranged'
  <2>1. \A i \in 1 .. Depth - 1 : Uncounts(frames'[i])
    BY <1>1, TidyFacts DEF Arranged
  <2>2. ASSUME NEW i \in 1 .. Depth - 1 - 1 PROVE Within(frames'[i], frames'[i + 1])
    <3>1. i \in 1 .. Depth - 1 /\ i + 1 \in 1 .. Depth - 1
      BY HeightFacts
    <3> QED
      BY <1>1, <3>1, TidyFacts DEF Arranged
  <2>3. ASSUME frames' # <<>> PROVE Top'.k # "arg"
    <3>1. Depth - 1 \in 1 .. Depth - 1 /\ (Depth - 1) + 1 = Depth
      BY <2>3, TidyFacts, Here, EmptySeq
    <3>2. Top' = frames[Depth - 1] /\ Within(frames[Depth - 1], Top)
      BY <1>1, <3>1, TidyFacts DEF Top, Arranged
    <3> QED
      BY <3>2 DEF Within
  <2> QED
    BY <1>1, <2>1, <2>2, <2>3 DEF Arranged
<1>3. ASSUME NEW i \in 1 .. Depth - 1
      PROVE  Shows(i)' \/ Plain(stack', frames'[i].base, Ceiling(i)' - Loop(frames'[i]))
  <2>1. CASE frames[i].k = "body"
    BY <1>1, <2>1 DEF Shows
  <2>2. CASE frames[i].k # "body" /\ i + 1 # Depth
    <3>1. i + 1 \in 1 .. Depth - 1 /\ i # Depth' /\ Ceiling(i)' = frames[i + 1].base
      BY <1>1, <2>2, HeightFacts DEF Ceiling
    <3>2. Plain(stack', frames[i].base, frames[i + 1].base - Loop(frames[i]))
      BY <2>2, BelowPlain
    <3> QED
      BY <1>1, <3>1, <3>2
  <2>3. CASE frames[i].k # "body" /\ i + 1 = Depth
    <3>1. frames'[i] = frames[i] /\ i = Depth' /\ Ceiling(i)' = Len(stack') /\ frames[i + 1] = Top
      BY <1>1, <2>3, HeightFacts DEF Ceiling
    <3>2. Plain(stack', frames[i].base, Top.base - Loop(frames[i]))
      BY <2>3, <3>1, BelowPlain
    <3>3. Within(frames[i], Top)
      BY <3>1, TidyFacts DEF Arranged
    <3>4. CASE frames[i].k = "each_b"
      <4>1. Top.k = "body"
        BY <3>3, <3>4 DEF Within
      <4>2. CASE state' = "RET"
        BY <3>1, <3>4, <4>2 DEF Shows
      <4>3. CASE Len(stack') = Top.base
        BY <3>1, <3>2, <4>3
      <4> QED
        BY <4>1, <4>2, <4>3
    <3>5. CASE frames[i].k # "each_b"
      <4>1. Plain(stack', Top.base, Len(stack'))
        BY <2>3, <3>3 DEF Within, Direct, Inner
      <4>2. Loop(frames[i]) = 0 /\ Top.base - 0 = Top.base /\ Len(stack') - 0 = Len(stack')
        BY <3>5, HeightFacts DEF Loop
      <4>3. \A j \in frames[i].base + 1 .. Len(stack') :
              j \in frames[i].base + 1 .. Top.base \/ j \in Top.base + 1 .. Len(stack')
        <5>1. frames[i] \in Frame
          BY TidyFacts, ElementOfSeq DEF Depth
        <5>2. frames[i].base \in Nat
          BY <5>1 DEF Frame
        <5> QED
          BY <5>2, HeightFacts
      <4> QED
        BY <3>1, <3>2, <4>1, <4>2, <4>3 DEF Plain
    <3> QED
      BY <3>4, <3>5
  <2> QED
    BY <2>1, <2>2, <2>3
<1>4. Tidy'
  BY <1>1, <1>3 DEF Tidy
<1>5. NoName
  BY DEF NoName
<1> QED
  BY <1>2, <1>4, <1>5 DEF NGoal


-----------------------------------------------------------------------------
(* What the parts of the actions do to the stack and the activations.      *)

LEMMA StayedPut ==
  ASSUME Tidying, Still
  PROVE  Stays(Len(stack)) /\ Len(stack') = Len(stack) /\ Len(stack') \in Nat
  BY HeightFacts DEF Still, Stays

LEMMA Pushed ==
  ASSUME Tidying, NEW sym, Push(sym)
  PROVE  /\ Stays(Len(stack)) /\ Len(stack') = Len(stack) + 1 /\ Len(stack') \in Nat
         /\ sym.kind = "TEMP" => Plain(stack', Len(stack), Len(stack'))
<1>1. /\ Len(stack') = Len(stack) + 1 /\ stack'[Len(stack) + 1] = sym
      /\ \A i \in 1 .. Len(stack) : stack'[i] = stack[i]
  BY TidyFacts, Appended DEF Push, SetStack
<1>2. Stays(Len(stack))
  BY <1>1, HeightFacts DEF Stays
<1>3. \A j \in Len(stack) + 1 .. Len(stack') : j = Len(stack) + 1
  BY <1>1, HeightFacts
<1> QED
  BY <1>1, <1>2, <1>3, HeightFacts DEF Plain

LEMMA CutTo ==
  ASSUME Tidying, NEW n \in 0 .. Len(stack)
  PROVE  /\ Prefix(n) \in Seq(Symbol) /\ Len(Prefix(n)) = n
         /\ \A i \in 1 .. n : Prefix(n)[i] = stack[i]
         /\ Cut(n) => Stays(n) /\ Len(stack') = n
<1>1. \A i \in 1 .. Len(stack) : stack[i] \in Symbol
  BY TidyFacts, ElementOfSeq
<1>2. /\ Prefix(n) \in Seq(Symbol) /\ Len(Prefix(n)) = n
      /\ \A i \in 1 .. n : Prefix(n)[i] = stack[i]
  BY <1>1, TidyFacts, SubSeqProperties DEF Prefix
<1>3. Cut(n) => Stays(n) /\ Len(stack') = n
  BY <1>2, HeightFacts DEF Cut, SetStack, Stays
<1> QED
  BY <1>2, <1>3

LEMMA PlainNone ==
  ASSUME NEW g \in Nat, NEW st
  PROVE  Plain(st, g, g)
  BY DEF Plain

(* Where an activation that is made or goes on begins *)
LEMMA BaseFacts ==
  ASSUME Tidying
  PROVE  /\ \A k : New(k).base = Len(stack) /\ New(k).own = 0
         /\ \A k, h : NewAt(k, h).base = h
         /\ \A k, hold : [New(k) EXCEPT !.hold = hold].base = Len(stack)
         /\ \A k : [Top EXCEPT !.k = k].base = Top.base /\ [Top EXCEPT !.k = k].own = Top.own
         /\ \A k, hold : [Top EXCEPT !.k = k, !.hold = hold].base = Top.base
         /\ \A k, own : [Top EXCEPT !.k = k, !.own = own].base = Top.base
         /\ \A k, own, n : [Top EXCEPT !.k = k, !.own = own, !.n = n].base = Top.base
         /\ \A hold : [Top EXCEPT !.hold = hold].base = Top.base
<1>1. Top \in [k : Kinds, base : Nat, own : Nat, n : Nat, buf : Nat, hold : Seq(Slot)]
  BY TidyFacts DEF Frame
<1> QED
  BY <1>1 DEF New, NewAt

(* A step that has met an error shows nothing. *)
LEMMA ErrN ==
  ASSUME err'
  PROVE  NGoal
  BY DEF NGoal, NoName

(* What an activation is like that gets a value or evaluates something *)
LEMMA TopN ==
  ASSUME Tidying
  PROVE  /\ Top.k \notin Absent /\ (Top.k \in {"arg", "call"} => Top.own = 0)
         /\ Given => Top.k # "arg"
         /\ Asked => state = "NONE"
<1>1. Top.k = "arg" => val = Pending
  BY TidyFacts, Here DEF Arranged
<1>2. Asked => state = "NONE"
  BY TidyFacts, Asking
<1> QED
  BY <1>1, <1>2, TidyFacts DEF Uncounts, Given

(* The usual cases of the lemmas above. *)
LEMMA LeafStillN ==
  ASSUME Tidying, frames' = frames, Still, Top.k \notin {"arg", "each_b"}
  PROVE  NGoal
  BY StayedPut, PlainNone, LeafN

LEMMA EnterStillN ==
  ASSUME Tidying, Still, Top.k \notin {"arg", "each_b"},
         NEW k, k \notin Absent \cup {"each_b"}, Enter(New(k)), k \in Direct => Top.k = "body"
  PROVE  NGoal
<1> DEFINE f == New(k)
<1>1. f.base = Len(stack) /\ f.own = 0 /\ f.k = k
  BY BaseFacts, KindFacts, TidyFacts
<1>2. Enter(f)
  OBVIOUS
<1> HIDE DEF f
<1>3. Uncounts(f) /\ Within(Top, f) /\ f.k # "each_b"
  BY <1>1 DEF Uncounts, Within
<1>4. Stays(Len(stack)) /\ Len(stack') \in Nat /\ Plain(stack', Len(stack), Len(stack'))
  BY StayedPut, PlainNone
<1> QED
  BY <1>1, <1>2, <1>3, <1>4, EnterN

LEMMA ResumeStillN ==
  ASSUME Tidying, Still, NEW f, Resume(f), f.base = Top.base,
         f.k \notin Absent \cup {"arg", "call", "each_b"}, f.k \in Direct => Top.k \in Direct,
         Top.k \notin {"body", "each_b"}
  PROVE  NGoal
<1>1. Stays(Len(stack)) /\ Len(stack') = Len(stack)
  BY StayedPut
<1>2. Len(stack) >= Top.base /\ Len(stack) = Len(stack) - Loop(Top)
  BY TidyFacts DEF Loop
<1> QED
  BY <1>1, <1>2, ResumeN

LEMMA LeaveOverN ==
  ASSUME Tidying, frames' = Below, Top.k \notin {"body", "each_b"},
         Stays(Len(stack)), Len(stack') \in Nat, Plain(stack', Len(stack), Len(stack'))
  PROVE  NGoal
<1>1. Plain(stack, Top.base, Len(stack) - Loop(Top)) /\ Loop(Top) = 0
  BY TopPlain DEF Loop
<1>2. Stays(Top.base)
  BY TidyFacts DEF Stays
<1>3. Plain(stack', Top.base, Len(stack'))
  <2>1. ASSUME NEW j \in Top.base + 1 .. Len(stack') PROVE stack'[j].kind = "TEMP"
    <3>1. CASE j <= Len(stack)
      <4>1. j \in Top.base + 1 .. Len(stack) - Loop(Top) /\ j \in 1 .. Len(stack)
        BY <1>1, <3>1, HeightFacts
      <4> QED
        BY <1>1, <4>1 DEF Plain, Stays
    <3>2. CASE ~(j <= Len(stack))
      <4>1. j \in Len(stack) + 1 .. Len(stack')
        BY <3>2, HeightFacts
      <4> QED
        BY <4>1 DEF Plain
    <3> QED
      BY <3>1, <3>2
  <2> QED
    BY <2>1 DEF Plain
<1> QED
  BY <1>2, <1>3, LeaveN

LEMMA LeaveStillN ==
  ASSUME Tidying, frames' = Below, Still, Top.k \notin {"body", "each_b"}
  PROVE  NGoal
<1>1. Stays(Len(stack)) /\ Len(stack') \in Nat /\ Plain(stack', Len(stack), Len(stack'))
  BY StayedPut, PlainNone
<1> QED
  BY <1>1, LeaveOverN


-----------------------------------------------------------------------------
(* The actions.                                                            *)

LEMMA ExpressionN ==
  ASSUME Tidying, Expression
  PROVE  NGoal
<1>1. Hole
  BY DEF Expression, ExprScalar, ExprVar, ExprStr, ExprContainer, ExprList, ExprDict,
         ExprBin, ExprAssign, ExprUn, ExprOp, ExprCall, Starts
<1>2. Top.k \notin {"arg", "each_b"}
  BY <1>1 DEF Hole, At, ExprKinds, Tidying, Uncounted
<1>3. CASE \/ \E s \in Literals : ExprScalar(s)
           \/ \E id \in Ids : ExprVar(id)
  BY <1>2, <1>3, LeafStillN DEF ExprScalar, ExprVar
<1>4. CASE \E o \in Obj : ExprStr(o)
  <2>1. PICK o \in Obj : ExprStr(o)
    BY <1>4
  <2>2. frames' = frames /\ Push(Temp(o)) /\ Temp(o).kind = "TEMP"
    BY <2>1 DEF ExprStr, NewHeapVal, Temp
  <2> QED
    BY <1>2, <2>2, Pushed, LeafN
<1>5. ASSUME NEW o \in Obj, NEW form, NEW k \in {"list", "dict_k"}, ExprContainer(o, form, k)
      PROVE  NGoal
  <2> DEFINE f == [New(k) EXCEPT !.hold = <<Rooted(o)>>]
  <2>1. Enter(f) /\ Push(Temp(o)) /\ Temp(o).kind = "TEMP"
    BY <1>5 DEF ExprContainer, NewHeapVal, Temp
  <2>2. f.k = k /\ f.base = Len(stack)
    BY KindFacts, BaseFacts, TidyFacts
  <2> HIDE DEF f
  <2>3. Uncounts(f) /\ Within(Top, f) /\ f.k # "each_b"
    BY <1>2, <2>2 DEF Uncounts, Within, Absent, Direct, Inner
  <2>4. Stays(Len(stack)) /\ Len(stack') \in Nat /\ Plain(stack', Len(stack), Len(stack'))
    BY <2>1, Pushed
  <2> QED
    BY <1>2, <2>1, <2>2, <2>3, <2>4, EnterN
<1>6. ASSUME NEW k \in {"bin_l", "asg_r", "un", "arg", "reg"}, Enter(New(k)), Still PROVE NGoal
  BY <1>2, <1>6, EnterStillN DEF Absent, Direct, Inner
<1>7. CASE ExprBin \/ ExprAssign \/ ExprUn
  BY <1>6, <1>7 DEF ExprBin, ExprAssign, ExprUn, ExprOp
<1>8. CASE \E id \in Ids \cup {Lib} : ExprCall(id)
  <2>1. Still /\ (Enter(New("arg")) \/ Enter(New("reg")) \/ frames' = frames)
    BY <1>8 DEF ExprCall
  <2> QED
    BY <1>2, <1>6, <2>1, LeafStillN
<1> QED
  BY <1>3, <1>4, <1>5, <1>7, <1>8 DEF Expression, ExprList, ExprDict

LEMMA OperatorN ==
  ASSUME Tidying, Operator
  PROVE  NGoal
<1>1. ASSUME NEW f, Resume(f), f.base = Top.base, Still,
             f.k \in {"bin_r", "asg_c", "asg_k", "list", "dict_k", "dict_v"},
             Top.k \notin {"body", "each_b"}
      PROVE  NGoal
  BY <1>1, ResumeStillN DEF Absent, Direct, Inner
<1>2. CASE \/ UnDone \/ BinIndex \/ BinError \/ AssignDone \/ AssignError \/ LiteralDone
           \/ \E s \in Literals \ {"none"} : BinScalar(s)
  <2>1. /\ Top.k \in {"un", "bin_r", "asg_k", "asg_r", "list", "dict_k"}
        /\ (frames' = Below /\ Still) \/ err'
    BY <1>2 DEF UnDone, BinIndex, BinError, AssignDone, AssignError, LiteralDone, BinScalar,
                At, Leave, Throw
  <2> QED
    BY <2>1, ErrN, LeaveStillN
<1>3. CASE \E o \in Obj : BinConcat(o)
  <2>1. PICK o \in Obj : BinConcat(o)
    BY <1>3
  <2>2. frames' = Below /\ Push(Temp(o)) /\ Temp(o).kind = "TEMP" /\ Top.k = "bin_r"
    BY <2>1 DEF BinConcat, NewHeapVal, Temp, Leave, At
  <2> QED
    BY <2>2, Pushed, LeaveOverN
<1>4. CASE \E id \in Ids : AssignVar(id)
  <2>1. PICK id \in Ids : AssignVar(id)
    BY <1>4
  <2>2. /\ frames' = Below /\ Top.k = "asg_r"
        /\ stack' = stack \/ stack' = [stack EXCEPT ![Newest(id)].v = val.v]
    BY <2>1 DEF AssignVar, Leave, At
  <2>3. Len(stack') = Len(stack) /\ \A j \in 1 .. Len(stack) : stack'[j].kind = stack[j].kind
    <3>1. CASE stack' = stack
      BY <3>1
    <3>2. CASE stack' = [stack EXCEPT ![Newest(id)].v = val.v]
      <4> DEFINE st == [stack EXCEPT ![Newest(id)].v = val.v]
      <4>1. stack \in Seq(Symbol) /\ \A j \in 1 .. Len(stack) : stack[j] \in Symbol
        BY TidyFacts, ElementOfSeq
      <4>2. Len(st) = Len(stack)
        BY <4>1
      <4>3. ASSUME NEW j \in 1 .. Len(stack) PROVE st[j].kind = stack[j].kind
        BY <4>1 DEF Symbol
      <4> QED
        BY <3>2, <4>2, <4>3
    <3> QED
      BY <2>2, <3>1, <3>2
  <2>4. Stays(Len(stack)) /\ Len(stack') \in Nat /\ Plain(stack', Len(stack), Len(stack'))
    BY <2>3, HeightFacts, PlainNone DEF Stays
  <2> QED
    BY <2>2, <2>4, LeaveOverN
<1>5. CASE BinLeft
  <2>1. /\ [Top EXCEPT !.k = "bin_r", !.hold = <<val>>].k = "bin_r"
        /\ [Top EXCEPT !.k = "bin_r", !.hold = <<val>>].base = Top.base
    BY KindFacts, BaseFacts, TidyFacts
  <2> QED
    BY <1>1, <1>5, <2>1 DEF BinLeft, At
<1>6. CASE AssignElem
  <2>1. /\ [Top EXCEPT !.k = "asg_c", !.hold = <<val>>].k = "asg_c"
        /\ [Top EXCEPT !.k = "asg_c", !.hold = <<val>>].base = Top.base
        /\ [Top EXCEPT !.k = "asg_k", !.hold = Append(Top.hold, val)].k = "asg_k"
        /\ [Top EXCEPT !.k = "asg_k", !.hold = Append(Top.hold, val)].base = Top.base
    BY KindFacts, BaseFacts, TidyFacts
  <2>2. /\ Still /\ Top.k \in {"asg_r", "asg_c"}
        /\ \/ Resume([Top EXCEPT !.k = "asg_c", !.hold = <<val>>])
           \/ Resume([Top EXCEPT !.k = "asg_k", !.hold = Append(Top.hold, val)])
    BY <1>6 DEF AssignElem, At
  <2> QED
    BY <1>1, <2>1, <2>2
<1>7. CASE ListItem
  BY <1>1, <1>7 DEF ListItem, At
<1>8. CASE DictKey
  <2>1. /\ [Top EXCEPT !.k = "dict_v", !.hold = Append(Top.hold, val)].k = "dict_v"
        /\ [Top EXCEPT !.k = "dict_v", !.hold = Append(Top.hold, val)].base = Top.base
    BY KindFacts, BaseFacts, TidyFacts
  <2> QED
    BY <1>1, <1>8, <2>1 DEF DictKey, At
<1>9. CASE DictVal
  <2>1. /\ [Top EXCEPT !.k = "dict_k", !.hold = <<Top.hold[1]>>].k = "dict_k"
        /\ [Top EXCEPT !.k = "dict_k", !.hold = <<Top.hold[1]>>].base = Top.base
    BY KindFacts, BaseFacts, TidyFacts
  <2> QED
    BY <1>1, <1>9, <2>1 DEF DictVal, At
<1> QED
  BY <1>2, <1>3, <1>4, <1>5, <1>6, <1>7, <1>8, <1>9 DEF Operator


LEMMA CallN ==
  ASSUME Tidying, Call
  PROVE  NGoal
<1>1. CASE (\E id \in Ids : ArgParam(id)) \/ AnyItem \/ \E o \in Obj : ArgAny(o)
  BY <1>1, TopN DEF ArgParam, AnyItem, ArgAny, At, Absent, Tidying, Uncounted
<1>2. CASE \/ LibAppend \/ LibRemove \/ LibInsert
           \/ \E s \in Literals : LibScalar(s)
  <2>1. frames' = Below /\ Still /\ Top.k = "reg"
    BY <1>2 DEF LibAppend, LibRemove, LibInsert, LibScalar, Edits, At, Leave
  <2> QED
    BY <2>1, LeaveStillN
<1>3. CASE \E o \in Obj : LibNew(o)
  <2>1. PICK o \in Obj : LibNew(o)
    BY <1>3
  <2>2. frames' = Below /\ Push(Temp(o)) /\ Temp(o).kind = "TEMP" /\ Top.k = "reg"
    BY <2>1 DEF LibNew, NewHeapVal, Temp, Leave, At
  <2> QED
    BY <2>2, Pushed, LeaveOverN
<1>4. CASE CallArity \/ LibError
  BY <1>4, ErrN DEF CallArity, LibError, Throw
<1>5. CASE CallBody
  <2> DEFINE f == [Top EXCEPT !.k = "call"]
             g == New("body")
  <2>1. Top.k = "arg" /\ Top.own = 0 /\ Still /\ Continue(f, g)
    BY <1>5, TopN DEF CallBody, At, Absent
  <2>2. /\ f.k = "call" /\ f.base = Top.base /\ f.own = Top.own
        /\ g.k = "body" /\ g.base = Len(stack)
    BY KindFacts, BaseFacts, TidyFacts
  <2> HIDE DEF f, g
  <2>3. Uncounts(f) /\ f.k \notin Direct \cup {"arg"} /\ Loop(f) = 0
    BY <2>1, <2>2 DEF Uncounts, Absent, Direct, Inner, Loop
  <2>4. Stays(Len(stack)) /\ Len(stack') = Len(stack) + Loop(f) /\ g.base = Len(stack')
    BY <2>1, <2>2, <2>3, StayedPut
  <2> QED
    BY <2>1, <2>2, <2>3, <2>4, ContinueN
<1>6. CASE CallReturn
  <2>1. Top.k = "call" /\ frames' = Below /\ Cut(Len(stack) - Top.own) /\ Top.own = 0
    BY <1>6, TopN DEF CallReturn, At, Leave
  <2>2. Len(stack) - Top.own = Len(stack) /\ Len(stack) \in 0 .. Len(stack)
    BY <2>1, HeightFacts
  <2>3. Stays(Len(stack)) /\ Len(stack') = Len(stack)
    BY <2>1, <2>2, CutTo
  <2> QED
    BY <2>1, <2>3, HeightFacts, PlainNone, LeaveOverN
<1>7. CASE RegArg
  <2>1. /\ [Top EXCEPT !.hold = Append(Top.hold, val)].k = Top.k
        /\ [Top EXCEPT !.hold = Append(Top.hold, val)].base = Top.base
    BY KindFacts, BaseFacts, TidyFacts
  <2>2. Still /\ Top.k = "reg" /\ Resume([Top EXCEPT !.hold = Append(Top.hold, val)])
    BY <1>7 DEF RegArg, At
  <2> QED
    BY <2>1, <2>2, ResumeStillN DEF Absent, Direct, Inner
<1> QED
  BY <1>1, <1>2, <1>3, <1>4, <1>5, <1>6, <1>7 DEF Call

LEMMA StatementN ==
  ASSUME Tidying,
         \/ StmtDef \/ StmtIf \/ StmtWhile \/ StmtFor \/ StmtEach
         \/ StmtRet \/ StmtRetNone \/ StmtBreak \/ StmtCont
         \/ \E id \in Ids : StmtFn(id)
  PROVE  NGoal
<1>1. ASSUME NEW k \in {"def", "if", "while_0", "each_c", "ret"}, Enter(New(k)), Still, Top.k = "body"
      PROVE  NGoal
  BY <1>1, EnterStillN DEF Absent
<1>2. CASE StmtIf \/ StmtWhile \/ StmtEach \/ StmtRet
  BY <1>1, <1>2 DEF StmtIf, StmtWhile, StmtEach, StmtRet, Opens, Statement, At
<1>3. CASE StmtFor
  BY <1>3 DEF StmtFor, Opens, Statement, Tidying, Uncounted
<1>4. CASE StmtDef
  <2>1. Enter(New("def")) /\ Still /\ Top.k \in {"body", "for_v"}
    BY <1>4 DEF StmtDef, At
  <2> QED
    BY <1>1, <2>1, TopN DEF Absent
<1>5. CASE StmtRetNone \/ StmtBreak \/ StmtCont
  <2>1. frames' = frames /\ Still /\ Top.k = "body"
    BY <1>5 DEF StmtRetNone, StmtBreak, StmtCont, Statement, Returns, Jump, At
  <2> QED
    BY <2>1, LeafStillN
<1>6. CASE \E id \in Ids : StmtFn(id)
  <2>1. PICK id \in Ids : StmtFn(id)
    BY <1>6
  <2>2. /\ frames' = frames /\ Push([kind |-> "FUNC", id |-> id, v |-> "none"])
        /\ Top.k = "body"
    BY <2>1 DEF StmtFn, Statement, At
  <2> QED
    BY <2>2, Pushed, LeafN
<1> QED
  BY <1>2, <1>3, <1>4, <1>5, <1>6

LEMMA EachN ==
  ASSUME Tidying, EachEnter \/ EachNext \/ \E id \in Ids : EachHead(id)
  PROVE  NGoal
<1>1. CASE EachEnter
  <2>1. /\ [Top EXCEPT !.k = "each_n", !.hold = <<val>>].k = "each_n"
        /\ [Top EXCEPT !.k = "each_n", !.hold = <<val>>].base = Top.base
    BY KindFacts, BaseFacts, TidyFacts
  <2>2. Still /\ Top.k = "each_c" /\ Resume([Top EXCEPT !.k = "each_n", !.hold = <<val>>])
    BY <1>1 DEF EachEnter, At
  <2> QED
    BY <2>1, <2>2, ResumeStillN DEF Absent, Direct, Inner
<1>2. CASE \E id \in Ids : EachHead(id)
  <2> DEFINE f == [Top EXCEPT !.k = "each_b", !.own = 1]
             g == NewAt("body", Len(stack) + 1)
  <2>1. PICK id \in Ids : EachHead(id)
    BY <1>2
  <2>2. /\ Top.k = "each_n"
        /\ \/ frames' = Below /\ Still
           \/ Push(Var(id, items[Literal][Top.n + 1])) /\ Continue(f, g)
    BY <2>1 DEF EachHead, At, Leave
  <2>3. f.k = "each_b" /\ f.base = Top.base /\ g.k = "body" /\ g.base = Len(stack) + 1
    BY KindFacts, BaseFacts, TidyFacts
  <2> HIDE DEF f, g
  <2>4. CASE Push(Var(id, items[Literal][Top.n + 1])) /\ Continue(f, g)
    <3>1. Uncounts(f) /\ f.k # "arg" /\ Loop(f) = 1 /\ Top.k \in Direct
      BY <2>2, <2>3 DEF Uncounts, Absent, Direct, Inner, Loop
    <3>2. Stays(Len(stack)) /\ Len(stack') = Len(stack) + Loop(f) /\ g.base = Len(stack')
      BY <2>3, <2>4, <3>1, Pushed
    <3> QED
      BY <2>2, <2>3, <2>4, <3>1, <3>2, ContinueN
  <2> QED
    BY <2>2, <2>4, LeaveStillN
<1>3. CASE EachNext
  <2> DEFINE f == [Top EXCEPT !.k = "each_n", !.own = 0, !.n = Top.n + 1]
             h == Len(stack) - 1
  <2>1. /\ Top.k = "each_b" /\ Cut(h)
        /\ \/ state # "RET" /\ (frames' = Below \/ Resume(f))
           \/ state' = "RET" /\ frames' = Below
    BY <1>3 DEF EachNext, Looped, At, Leave, Quiet
  <2>2. f.k = "each_n" /\ f.base = Top.base
    BY KindFacts, BaseFacts, TidyFacts
  <2> HIDE DEF f
  <2>3. h \in 0 .. Len(stack) /\ h >= Top.base /\ h = Len(stack) - Loop(Top)
    BY <2>1, TidyFacts DEF Loop
  <2>4. Stays(h) /\ Len(stack') = h
    BY <2>1, <2>3, CutTo
  <2> HIDE DEF h
  <2>5. CASE Resume(f)
    <3>1. CASE state # "RET"
      <4>1. f.k \notin Absent \cup {"arg", "call", "each_b"} /\ Top.k \in Direct /\ Top.k # "body"
        BY <2>1, <2>2 DEF Absent, Direct, Inner
      <4> QED
        BY <2>2, <2>3, <2>4, <2>5, <3>1, <4>1, ResumeN
    <3>2. CASE frames' = Below
      <4>1. Len(frames') = Depth
        BY <2>5, Here, TidyFacts, Appended DEF Resume
      <4> QED
        BY <3>2, <4>1, Here, TidyFacts
    <3> QED
      BY <2>1, <3>1, <3>2
  <2>6. CASE frames' = Below
    <3>1. Stays(Top.base)
      BY <2>3, <2>4, HeightFacts DEF Stays
    <3>2. Plain(stack', Top.base, Len(stack')) \/ state' = "RET"
      <4>1. ASSUME state # "RET" PROVE Plain(stack', Top.base, h)
        <5>1. Plain(stack, Top.base, h)
          BY <2>3, <4>1, TopPlain, <2>1
        <5>2. \A j \in Top.base + 1 .. h : j \in 1 .. h
          BY <2>3, HeightFacts
        <5> QED
          BY <2>4, <5>1, <5>2 DEF Plain, Stays
      <4> QED
        BY <2>1, <2>4, <4>1
    <3> QED
      BY <2>1, <2>3, <2>4, <2>6, <3>1, <3>2, LeaveN
  <2> QED
    BY <2>1, <2>5, <2>6
<1> QED
  BY <1>1, <1>2, <1>3


LEMMA BodyN ==
  ASSUME Tidying, BodyNext \/ BodyEnd \/ BodyUnwind
  PROVE  NGoal
<1>1. CASE BodyNext
  <2>1. Top.k = "body" /\ Resume(Top) /\ Still
    BY <1>1 DEF BodyNext, At
  <2>2. Stays(Len(stack)) /\ Len(stack) >= Top.base
    BY <2>1, StayedPut, TidyFacts
  <2> QED
    BY <2>1, <2>2, TopN, ResumeN DEF Direct, Inner
<1>2. ASSUME Top.k = "body", frames' = Below, Cut(Top.base) PROVE NGoal
  <2>1. Top.base \in 0 .. Len(stack)
    BY TidyFacts
  <2>2. Stays(Top.base) /\ Len(stack') = Top.base
    BY <1>2, <2>1, CutTo
  <2> QED
    BY <1>2, <2>2, HeightFacts, PlainNone, LeaveN
<1>3. CASE BodyEnd
  BY <1>2, <1>3 DEF BodyEnd, At, Leave
<1>4. CASE BodyUnwind
  <2>1. /\ Top.k = "body" /\ frames' = Below /\ state' = state
        /\ \/ Cut(Top.base)
           \/ state = "RET" /\ stack' = Append(Prefix(Top.base), Temp(val.v))
    BY <1>4 DEF BodyUnwind, At, Leave, SetStack, Quiet
  <2>2. CASE state = "RET" /\ stack' = Append(Prefix(Top.base), Temp(val.v))
    <3>1. Top.base \in 0 .. Len(stack) /\ Top.base \in Nat
      BY TidyFacts
    <3>2. /\ Prefix(Top.base) \in Seq(Symbol) /\ Len(Prefix(Top.base)) = Top.base
          /\ \A i \in 1 .. Top.base : Prefix(Top.base)[i] = stack[i]
      BY <3>1, CutTo
    <3>3. /\ Len(stack') = Top.base + 1 /\ stack'[Top.base + 1] = Temp(val.v)
          /\ \A i \in 1 .. Top.base : stack'[i] = stack[i]
      BY <2>2, <3>2, Appended
    <3>4. Stays(Top.base) /\ Len(stack') \in Nat
      BY <3>1, <3>3 DEF Stays
    <3>5. Plain(stack', Top.base, Len(stack'))
      <4>1. \A j \in Top.base + 1 .. Len(stack') : j = Top.base + 1
        BY <3>1, <3>3
      <4> QED
        BY <3>3, <4>1 DEF Plain, Temp
    <3> QED
      BY <2>1, <2>2, <3>4, <3>5, LeaveN
  <2> QED
    BY <1>2, <2>1, <2>2
<1> QED
  BY <1>1, <1>3, <1>4

LEMMA StmtN ==
  ASSUME Tidying, Stmt
  PROVE  NGoal
<1>1. CASE \E id \in Ids : DefDone(id)
  <2>1. PICK id \in Ids : DefDone(id)
    BY <1>1
  <2>2. Top.k = "def" /\ Push(Var(id, val.v)) /\ frames' = Below
    BY <2>1 DEF DefDone, At, Leave
  <2>3. Stays(Len(stack)) /\ Len(stack') \in Nat
    BY <2>2, Pushed
  <2>4. Stays(Top.base)
    BY <2>3, TidyFacts DEF Stays
  <2> QED
    BY <2>2, <2>3, <2>4, LeaveN
<1>2. ASSUME NEW f, Resume(f), f.base = Top.base, Still, f.k \in {"if", "while_c"},
             Top.k \in {"if", "while_0", "while_b"}
      PROVE  NGoal
  BY <1>2, ResumeStillN DEF Absent, Direct, Inner
<1>3. CASE If
  <2>1. /\ Still /\ Top.k = "if"
        /\ Resume(New("body")) \/ Resume(Top) \/ frames' = Below
    BY <1>3 DEF If, At, Leave
  <2>2. CASE Resume(New("body"))
    <3>1. New("body").k = "body" /\ Stays(Len(stack)) /\ Len(stack) >= Top.base
      BY <2>1, KindFacts, StayedPut, TidyFacts
    <3> QED
      BY <2>1, <2>2, <3>1, ResumeN DEF Absent, Direct, Inner
  <2> QED
    BY <1>2, <2>1, <2>2, LeaveStillN
<1>4. CASE CondError
  BY <1>4, ErrN DEF CondError, Throw
<1>5. /\ [Top EXCEPT !.k = "while_c"].k = "while_c"
      /\ [Top EXCEPT !.k = "while_c"].base = Top.base
      /\ [Top EXCEPT !.k = "while_b"].k = "while_b"
      /\ [Top EXCEPT !.k = "while_b"].base = Top.base
  BY KindFacts, BaseFacts, TidyFacts
<1>6. CASE WhileEnter
  BY <1>2, <1>5, <1>6 DEF WhileEnter, At
<1>7. CASE WhileNext
  <2>1. Still /\ Top.k = "while_b" /\ (frames' = Below \/ Resume([Top EXCEPT !.k = "while_c"]))
    BY <1>7 DEF WhileNext, Returned, At, Leave
  <2> QED
    BY <1>2, <1>5, <2>1, LeaveStillN
<1>8. CASE WhileHead
  <2> DEFINE f == [Top EXCEPT !.k = "while_b"]
             g == New("body")
  <2>1. Still /\ Top.k = "while_c" /\ (frames' = Below \/ Continue(f, g))
    BY <1>8 DEF WhileHead, RunBody, At, Leave
  <2>2. f.k = "while_b" /\ f.base = Top.base /\ g.k = "body" /\ g.base = Len(stack)
    BY <1>5, KindFacts, BaseFacts, TidyFacts
  <2> HIDE DEF f, g
  <2>3. CASE Continue(f, g)
    <3>1. Uncounts(f) /\ f.k # "arg" /\ Top.k \in Direct /\ Loop(f) = 0
      BY <2>1, <2>2 DEF Uncounts, Absent, Direct, Inner, Loop
    <3>2. Stays(Len(stack)) /\ Len(stack') = Len(stack) + Loop(f) /\ g.base = Len(stack')
      BY <2>1, <2>2, <3>1, StayedPut
    <3> QED
      BY <2>1, <2>2, <2>3, <3>1, <3>2, ContinueN
  <2> QED
    BY <2>1, <2>3, LeaveStillN
<1>9. CASE ForEnter \/ ForHead \/ ForNext \/ ForMut
  BY <1>9, TopN DEF ForEnter, ForHead, ForNext, ForMut, At, Absent
<1>10. CASE RetDone
  <2>1. frames' = Below /\ Still /\ Top.k = "ret"
    BY <1>10 DEF RetDone, Returns, At, Leave
  <2> QED
    BY <2>1, LeaveStillN
<1> QED
  BY StatementN, EachN, BodyN, <1>1, <1>3, <1>4, <1>6, <1>7, <1>8, <1>9, <1>10 DEF Stmt

-----------------------------------------------------------------------------
(* The theorem.                                                            *)

LEMMA InitN == Init /\ Uncounted => NInv
<1> SUFFICES ASSUME Init, Uncounted PROVE NInv
  OBVIOUS
<1>1. frames = <<NewAt("body", 1)>>
  BY DEF Init, StackInit
<1>2. Depth = 1 /\ frames[1].k = "body" /\ Top = frames[1]
  BY <1>1 DEF Depth, Top, NewAt
<1>3. Arranged
  BY <1>2 DEF Arranged, Uncounts, Absent
<1>4. Tidy
  BY <1>2 DEF Tidy, Shows
<1> QED
  BY <1>3, <1>4, InitU DEF NInv

LEMMA StepN ==
  ASSUME NInv, Expression \/ Operator \/ Call \/ Stmt \/ Unwind
  PROVE  NGoal
<1>1. CASE err
  <2>1. Unwind
    BY <1>1, Forward, Asking DEF NInv, Given
  <2>2. err'
    BY <1>1, <2>1 DEF Unwind, ErrPlain, ErrPush, ErrAppend, ErrRet, Quiet
  <2> QED
    BY <2>2, ErrN
<1>2. CASE ~err
  <2>1. Tidying
    BY <1>2, RunsOnly DEF NInv, Tidying
  <2>2. ~Unwind
    BY <1>2 DEF Unwind, ErrPlain, ErrPush, ErrAppend, ErrRet, Failed
  <2> QED
    BY <2>1, <2>2, ExpressionN, OperatorN, CallN, StmtN
<1> QED
  BY <1>1, <1>2

LEMMA NextN == NInv /\ [Next]_vars => NInv' /\ [NoName]_vars
<1> SUFFICES ASSUME NInv, [Next]_vars PROVE NInv' /\ [NoName]_vars
  OBVIOUS
<1>1. UInv' /\ UInv /\ Uncounted
  BY NextU DEF NInv
<1>2. CASE UNCHANGED vars
  <2>1. Arranged /\ Tidy => Arranged' /\ Tidy'
    BY <1>2 DEF Arranged, Tidy, Shows, vars, stackVars, Depth, Top, Ceiling
  <2> QED
    BY <1>1, <1>2, <2>1 DEF NInv, vars
<1>3. CASE Expression \/ Operator \/ Call \/ Stmt \/ Unwind
  BY <1>1, <1>3, StepN DEF NInv, NGoal
<1> QED
  BY <1>2, <1>3 DEF Next, Stopped

(* An activation that ends leaves no name on the eval stack, but that of a  *)
(* definition: whatever it has pushed and not popped are TEMPs, for every   *)
(* program whose functions have no parameters and that has no for.  So the  *)
(* names a body, a call, a while or a foreach has introduced are out of     *)
(* scope behind it, also when a break, a continue or a return ends it.      *)
THEOREM NoNameLeft == Uncounted => (Spec => LeavesNoName)
<1> SUFFICES ASSUME Uncounted PROVE Spec => LeavesNoName
  OBVIOUS
<1>1. Init => NInv
  BY InitN
<1>2. NInv /\ [Next]_vars => NInv' /\ [NoName]_vars
  BY NextN
<1> QED
  BY <1>1, <1>2, PTL DEF Spec, LeavesNoName, NoName, Plain
=============================================================================
