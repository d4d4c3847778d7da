------------------------------ MODULE EvalStack -----------------------------
(***************************************************************************)
(* The evaluation stack ctx->stack and the activations of eval that share  *)
(* it: the data, the operations on them, and the protocol eval must follow *)
(* so that every activation finds its symbols where it left them and every *)
(* value protected by a TEMP stays alive.  EpslEval is the evaluator that  *)
(* is to follow it.                                                        *)
(*                                                                         *)
(* The C recursion of eval is the sequence frames: one record for every    *)
(* activation that waits for the value of a sub-tree, the innermost last.  *)
(* An activation that returns puts its result in val, and the frame below  *)
(* consumes it.  val = Pending: the innermost activation is about to       *)
(* evaluate its next sub-tree.                                             *)
(*                                                                         *)
(* A value in a C local variable is a slot: the value v and the index at   *)
(* where the EVAL_SYMB_TEMP that is to protect it was pushed (0: none was).*)
(* The field at is a history variable: no guard reads it, and it stays what*)
(* it is when the TEMP goes.                                               *)
(***************************************************************************)
EXTENDS GcHeap

CONSTANTS
  Ids,             \* names the program uses
  Lib,             \* a name reg_stdlib registers a C function for
  NoId,            \* the id of a symbol that has none (a TEMP)
  Pending,         \* "no value yet"
  CP_DA_INIT_CAP   \* first capacity of the stack, 256 in the code

VARIABLES
  stack,           \* ctx->stack: symbols, the newest last
  cap,             \* capacity of the stack's buffer, which moves when it grows
  frames,          \* the activations of eval
  val              \* the slot the last activation returned, or Pending

stackVars == <<stack, cap, frames, val>>

Symbol == [kind : {"VAR", "TEMP", "FUNC", "REG"}, id : Ids \cup {Lib, NoId}, v : Val]
Slot   == [v : Val, at : Nat]
Kinds  == {"body", "def", "asg_r", "asg_c", "asg_k", "bin_l", "bin_r", "un",
           "list", "dict_k", "dict_v", "arg", "any", "call", "reg", "if",
           "while_0", "while_c", "while_b", "for_v", "for_c", "for_b", "for_m",
           "each_c", "each_n", "each_b", "ret"}

(* k: what the activation evaluates next.  base: ctx->stack.count when it   *)
(* was entered.  own: how many symbols it is to pop in the end (args_cnt,   *)
(* remove_last, the loop variable).  n: the index of a foreach.  buf: the   *)
(* stack's capacity when a call looked up the EvalSymbol it points to.      *)
(* hold: the values in C local variables.                                   *)
Frame  == [k : Kinds, base : Nat, own : Nat, n : Nat, buf : Nat, hold : Seq(Slot)]

ASSUME StackAssumption ==
  /\ Lib \notin Ids /\ NoId \notin Ids \cup {Lib}
  /\ Pending \notin Slot
  /\ CP_DA_INIT_CAP \in Nat \ {0}

Depth  == Len(frames)
Top    == frames[Depth]
Below  == SubSeq(frames, 1, Depth - 1)

Temp(v)     == [kind |-> "TEMP", id |-> NoId, v |-> v]
Var(id, v)  == [kind |-> "VAR", id |-> id, v |-> v]
Rooted(v)   == [v |-> v, at |-> Len(stack) + 1]     \* its TEMP is pushed now
Unrooted(v) == [v |-> v, at |-> 0]
VNONE       == Unrooted("none")

NewAt(k, h)    == [k |-> k, base |-> h, own |-> 0, n |-> 0, buf |-> cap, hold |-> <<>>]
New(k)         == NewAt(k, Len(stack))
Enter(f)       == frames' = Append(frames, f) /\ val' = Pending
Resume(f)      == frames' = Append(Below, f) /\ val' = Pending
Continue(f, g) == frames' = Append(Append(Below, f), g) /\ val' = Pending
Leave(slot)    == frames' = Below /\ val' = slot

(* da_append and assignments to ctx->stack.count: da_reserve doubles the   *)
(* buffer until n symbols fit, and it never shrinks.                       *)
Capacity(n) == IF n <= cap THEN cap ELSE IF n <= 2 * cap THEN 2 * cap ELSE 4 * cap
SetStack(s) == stack' = s /\ cap' = Capacity(Len(s))
Push(sym)   == SetStack(Append(stack, sym))
Prefix(n)   == SubSeq(stack, 1, n)
Cut(n)      == SetStack(Prefix(n))

(* eval_stack_get *)
Hits(id)      == {j \in 1 .. Len(stack) : stack[j].kind # "TEMP" /\ stack[j].id = id}
Newest(id)    == CHOOSE j \in Hits(id) : \A i \in Hits(id) : i <= j
IsA(id, kind) == Hits(id) # {} /\ stack[Newest(id)].kind = kind

StackTypeOK ==
  /\ stack \in Seq(Symbol) /\ cap \in Nat
  /\ frames \in Seq(Frame)
  /\ val \in Slot \cup {Pending}

(* reg_stdlib has run: the C functions lie below everything else. *)
StackInit ==
  /\ stack = <<[kind |-> "REG", id |-> Lib, v |-> "none"]>>
  /\ cap = CP_DA_INIT_CAP
  /\ frames = <<NewAt("body", 1)>>
  /\ val = Pending

-----------------------------------------------------------------------------
(***************************************************************************)
(* The protocol.                                                           *)
(***************************************************************************)

(* A symbol stays what it is; only the value of a variable may change. *)
Same(a, b) == a = b \/ (a.kind = "VAR" /\ b = [a EXCEPT !.v = b.v])
Agree(h)   == /\ h <= Len(stack) /\ h <= Len(stack')
              /\ \A j \in 1 .. h : Same(stack[j], stack'[j])

(* The loop variable of a foreach goes while the list is still held. *)
Loop(f) == IF f.k = "each_b" THEN 1 ELSE 0

(* The height of the stack when the activation above frame i was entered *)
Ceiling(i) == IF i = Depth THEN Len(stack) ELSE frames[i + 1].base

(* The TEMP of a slot is where it was pushed, no higher than h, and no     *)
(* collection has freed its object.                                        *)
Standing(slot, h) == /\ slot.at \in 1 .. h
                     /\ stack[slot.at] = Temp(slot.v)
                     /\ slot.v \in objs \cup Scalar

(* The slots of an activation, the result it was given among them, whose   *)
(* TEMP is gone, or goes with the loop variable above it                   *)
HeldBy(f) == {f.hold[j] : j \in 1 .. Len(f.hold)}
InHand(i) == IF i = Depth THEN {val} \ {Pending} ELSE {}
Bare(i)  ==
  IF i \notin 1 .. Depth THEN {}
  ELSE {slot \in HeldBy(frames[i]) :
          slot.at # 0 /\ ~Standing(slot, Ceiling(i) - Loop(frames[i]))}
         \cup {slot \in InHand(i) : slot.at # 0 /\ ~Standing(slot, Len(stack))}

(* A slot a step hands on: unprotected, handed on from before with its     *)
(* TEMP at most at h or gone already, or protected anew.                   *)
Old           == HeldBy(Top) \cup {val}
Kept(slot, h) == slot.at = 0 \/ (slot \in Old /\ (slot.at <= h \/ slot \in Bare(Depth)))
Fresh(slot)   == /\ slot.at \in 1 .. Len(stack')
                 /\ stack'[slot.at] = Temp(slot.v)
                 /\ slot.v \in objs' \cup Scalar

(* A call that has pushed parameters pops as many symbols when it ends, and *)
(* a foreach pops one when its body returns: in both the body has put the   *)
(* TEMP of the result above them, so that the TEMP is what goes.            *)
Drops == (Top.k = "call" /\ Top.own > 0) \/ Top.k = "each_b"

(* A sub-tree without one of its own is evaluated. *)
ProtoLeaf ==
  /\ frames' = frames /\ val' # Pending
  /\ Agree(Len(stack))
  /\ Kept(val', Len(stack)) \/ Fresh(val')

ProtoEnter ==
  LET f == frames'[Depth + 1]
  IN  /\ Len(frames') = Depth + 1 /\ Enter(f)
      /\ f.base = Len(stack) /\ f.own = 0 /\ Loop(f) = 0
      /\ Agree(Len(stack))
      /\ \A i \in 1 .. Len(f.hold) : f.hold[i].at = 0 \/ Fresh(f.hold[i])

(* The activation goes on, or a body takes its place at the stack's end. *)
ProtoResume ==
  LET f == frames'[Depth]
  IN  /\ Len(frames') = Depth /\ Resume(f)
      /\ f.base \in {Top.base, Len(stack')} /\ f.base + f.own <= Len(stack')
      /\ Loop(f) = 0
      /\ \E h \in 0 .. Len(stack) :
           /\ h >= Top.base /\ Agree(h)
           /\ \A i \in 1 .. Len(f.hold) : Kept(f.hold[i], h) \/ Fresh(f.hold[i])

ProtoContinue ==
  LET f == frames'[Depth]
      g == frames'[Depth + 1]
  IN  /\ Len(frames') = Depth + 1 /\ Continue(f, g)
      /\ f.base = Top.base /\ f.base + f.own <= Len(stack')
      /\ g.base = Len(stack') /\ g.own = 0 /\ Loop(g) = 0 /\ g.hold = <<>>
      /\ Agree(Len(stack)) /\ Len(stack') >= Len(stack) + Loop(f)
      /\ \A i \in 1 .. Len(f.hold) : Kept(f.hold[i], Len(stack))

(* An activation ends: it may cut the stack, never below where it began. *)
ProtoLeave ==
  /\ Leave(val') /\ val' # Pending
  /\ \E h \in 0 .. Len(stack) :
       /\ h >= Top.base /\ Agree(h)
       /\ Kept(val', h) \/ Fresh(val') \/ (Drops /\ val' = val)

(* A collection spares the objects that have a TEMP. *)
Spares == \A j \in 1 .. Len(stack) :
            stack[j].kind = "TEMP" /\ stack[j].v \in objs => stack[j].v \in objs'

ProtoNext ==
  /\ frames # <<>>
  /\ ProtoLeaf \/ ProtoEnter \/ ProtoResume \/ ProtoContinue \/ ProtoLeave
  /\ Spares

(* eval follows the protocol. *)
Protocol == StackInit /\ [][ProtoNext]_<<stack, frames, val, objs>>

-----------------------------------------------------------------------------

(* An activation never finds the stack lower than it left it, and the       *)
(* symbols it is to pop are still there: count is restored to stack_size,   *)
(* or lowered by args_cnt or by one, at several places of eval, each with a *)
(* count of its own.                                                        *)
StackDiscipline ==
  \A i \in 1 .. Depth :
     /\ frames[i].base + frames[i].own <= Len(stack)
     /\ \A j \in i + 1 .. Depth : frames[i].base + frames[i].own <= frames[j].base

(* A value with a TEMP keeps it for as long as a C local variable or the    *)
(* result in flight names the value, but for the result of a call with      *)
(* parameters (eval.c:699) and of a foreach left by a return (591), whose   *)
(* TEMP is popped while it is in flight: no other step of any activation    *)
(* takes a TEMP from under a value, and no collection frees its object.     *)
TempsStay ==
  [][\A i \in 1 .. Depth' :
       Bare(i)' \subseteq Bare(i) \cup Bare(i + 1) \cup (IF Drops THEN {val'} ELSE {})
    ]_<<objs, stack, frames, val>>

(* An activation leaves the symbols below it as they were: no name is added *)
(* or lost there, no TEMP changes, and only variables are assigned.         *)
EnclosingScopeUntouched ==
  [][frames # <<>> => Agree(Top.base)]_<<stack, frames, val>>
=============================================================================
