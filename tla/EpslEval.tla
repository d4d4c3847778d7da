------------------------------ MODULE EpslEval ------------------------------
(***************************************************************************)
(* The tree-walking evaluator: eval and its helpers in src/eval.c, and the *)
(* C functions of src/stdlib.c it calls.                                   *)
(*                                                                         *)
(* The program is not fixed: where the innermost activation evaluates a    *)
(* sub-tree, any construct of Forms may be there.  A behaviour is thus one *)
(* execution of some program of the language fragment Forms.               *)
(***************************************************************************)
EXTENDS EvalStack

CONSTANTS
  VaArgs,              \* the name "_VA_ARGS_" (one of Ids)
  Forms,               \* the constructs the program may contain
  Literals,            \* the scalars its literals, operators and C functions give
  MaxDepth,            \* bound: nested activations of eval
  MaxStack,            \* bound: no sub-tree is entered on a longer eval stack
  MaxItems,            \* bound: items of one object
  MaxArgs              \* bound: parameters of a call

AllForms == {"var", "str", "list", "dict", "bin", "concat", "un", "assign",
             "lib", "edit", "call", "param", "variadic", "scalar_result",
             "def", "fn", "if", "while", "for", "each", "ret", "break", "error"}

ASSUME EvalAssumption ==
  /\ VaArgs \in Ids
  /\ Forms \subseteq AllForms /\ Literals \subseteq Scalar
  /\ {MaxDepth, MaxStack, MaxItems, MaxArgs} \subseteq Nat

VARIABLES
  state,       \* ctx->state
  err,         \* ctx->err_ctx.got_err
  wild         \* "no", or why the behaviour is not followed any further: the
               \* undefined behaviour or failed assertion it has run into

vars == <<heapVars, stackVars, state, err, wild>>

(***************************************************************************)
(* The heap as the evaluator uses it.                                      *)
(***************************************************************************)
(* slip: temporaries are no roots *)
RootsVarsOnly == {stack[j].v : j \in {i \in 1 .. Len(stack) : stack[i].kind = "VAR"}} \cap Obj

Roots == {stack[j].v : j \in {i \in 1 .. Len(stack) : stack[i].kind \in {"VAR", "TEMP"}}} \cap Obj

(* The mark phase tests a variable for being a heap value before it follows*)
(* it, a temporary it follows as it is.                                    *)
ScalarTemps == {j \in 1 .. Len(stack) : stack[j].kind = "TEMP" /\ stack[j].v \in Scalar}
Collects    == Full /\ state # "RET"
MarkFault   == IF Collects /\ ScalarTemps # {} THEN "scalar_temp"
               ELSE IF Collects /\ Reach(Roots) \cap freed # {} THEN "dangling"
               ELSE "no"

(* eval_new_heap_val for the object o: allocate, then push its TEMP. *)
NewHeapVal(o) ==
  /\ Alloc(o, Roots, state # "RET")
  /\ Push(Temp(o))

(* Reading or writing through the objects of V once the step's collection  *)
(* is over.                                                                *)
Fault(V) == IF MarkFault # "no" THEN MarkFault
            ELSE IF V \cap freed' # {} THEN "dangling" ELSE "no"
Reads(V) == \/ wild' = "no"
            \/ Reach(V \cap Obj) \cap freed # {} /\ wild' = "dangling"

Items(o)    == {items[o][i] : i \in 1 .. Len(items[o])}
Held        == {Top.hold[i].v : i \in 1 .. Len(Top.hold)}
Room(k)     == Len(frames) + k <= MaxDepth /\ Len(stack) < MaxStack
Fits(o, k)  == Len(items[o]) + k <= MaxItems

Running == wild = "no" /\ frames # <<>>
Asked   == Running /\ val = Pending
Given   == Running /\ val # Pending /\ ~err
At(K)   == Top.k \in K


(* eval_error: got_err is set and the failing activation returns VNONE. *)
Throw == err' = TRUE /\ Leave(VNONE) /\ UNCHANGED <<heapVars, stack, cap, state, wild>>
Fails == "error" \in Forms

Quiet == UNCHANGED <<heapVars, state, err, wild>>
Still == UNCHANGED <<stack, cap>>

(***************************************************************************)
(* Expressions.  Every activation of ExprKinds evaluates one next; a body  *)
(* does so for an AST_VAR_MUT statement.                                   *)
(***************************************************************************)
ExprKinds == Kinds \ {"call", "while_b", "for_b", "each_n", "each_b"}

Hole ==
  /\ Asked /\ At(ExprKinds)
  /\ At({"list", "any"}) => Fits(Top.hold[1].v, 1)
  /\ At({"dict_k"})      => Fits(Top.hold[1].v, 2)
  /\ At({"arg"})         => Top.own < MaxArgs /\ "param" \in Forms
  /\ At({"reg"})         => Len(Top.hold) < MaxArgs

Starts(form) == Hole /\ form \in Forms

(* AST_LIT other than a string, AST_VAL_NONE *)
ExprScalar(s) ==
  /\ Hole
  /\ val' = Unrooted(s)
  /\ Quiet /\ Still /\ UNCHANGED frames

(* A name that is no variable, or no function: the error is raised and yet  *)
(* a value is returned, read from the wrong union member or uninitialized.  *)
Garbage == \E v \in Val : val' = Unrooted(v)

(* AST_VAR *)
ExprVar(id) ==
  /\ Starts("var")
  /\ IF IsA(id, "VAR")
     THEN val' = Unrooted(stack[Newest(id)].v) /\ UNCHANGED err
     ELSE Fails /\ err' = TRUE /\ Garbage
  /\ Still /\ UNCHANGED <<heapVars, frames, state, wild>>

(* AST_LIT of a string *)
ExprStr(o) ==
  /\ Starts("str") /\ Room(0)
  /\ NewHeapVal(o)
  /\ val' = Rooted(o)
  /\ wild' = Fault({})
  /\ UNCHANGED <<items, frames, state, err>>

(* AST_LIST, AST_DICT: the container is rooted before its items are evaluated *)
ExprContainer(o, form, k) ==
  /\ Starts(form) /\ Room(1)
  /\ NewHeapVal(o)
  /\ Enter([New(k) EXCEPT !.hold = <<Rooted(o)>>])
  /\ wild' = Fault({})
  /\ UNCHANGED <<items, state, err>>

ExprList(o) == ExprContainer(o, "list", "list")
ExprDict(o) == ExprContainer(o, "dict", "dict_k")

ExprOp(form, k) == Starts(form) /\ Room(1) /\ Enter(New(k)) /\ Quiet /\ Still

(* AST_BIN_EXPR with an operator, with an assignment; AST_UN_EXPR *)
ExprBin    == ExprOp("bin", "bin_l")
ExprAssign == ExprOp("assign", "asg_r")
ExprUn     == ExprOp("un", "un")

(* AST_FUNC_CALL: the symbol is looked up before the arguments are evaluated *)
ExprCall(id) ==
  /\ Starts(IF id = Lib THEN "lib" ELSE "call") /\ Room(2)
  /\ \/ IsA(id, "FUNC") /\ Enter(New("arg")) /\ UNCHANGED err
     \/ IsA(id, "REG") /\ Enter(New("reg")) /\ UNCHANGED err
     \/ /\ ~IsA(id, "FUNC") /\ ~IsA(id, "REG")
        /\ Fails /\ err' = TRUE /\ Garbage /\ UNCHANGED frames
  /\ Still /\ UNCHANGED <<heapVars, state, wild>>

(* eval_unop *)
UnDone ==
  /\ Given /\ At({"un"})
  /\ IF val.v \in {"num", "bool"} THEN Leave(Unrooted(val.v)) /\ Quiet /\ Still
     ELSE Fails /\ Throw

(* eval_binop: lv is kept in a C local while the right side is evaluated *)
BinLeft ==
  /\ Given /\ At({"bin_l"})
  /\ Resume([Top EXCEPT !.k = "bin_r", !.hold = <<val>>])
  /\ Quiet /\ Still

Operands == {Top.hold[1].v, val.v}

(* arithmetic and comparisons; two strings are compared by strcmp *)
BinScalar(s) ==
  /\ Given /\ At({"bin_r"})
  /\ Leave(Unrooted(s))
  /\ Reads(Operands)
  /\ Still /\ UNCHANGED <<heapVars, state, err>>

(* string or list concatenation: the result is allocated, then both sides read *)
BinConcat(o) ==
  /\ Given /\ At({"bin_r"}) /\ Operands \subseteq Obj /\ Room(0) /\ "concat" \in Forms
  /\ LET both == items[Top.hold[1].v] \o items[val.v]
     IN  Len(both) <= MaxItems /\ items' = [items EXCEPT ![o] = both]
  /\ NewHeapVal(o)
  /\ Leave(Rooted(o))
  /\ wild' = Fault(Operands)
  /\ UNCHANGED <<state, err>>

(* AST_OP_ARR: an item, none for a key that is missing, or an error *)
BinIndex ==
  /\ Given /\ At({"bin_r"}) /\ Top.hold[1].v \in Obj
  /\ \E e \in Items(Top.hold[1].v) \cup {"none"} : Leave(Unrooted(e))
  /\ Reads(Operands)
  /\ Still /\ UNCHANGED <<heapVars, state, err>>

BinError == Given /\ At({"bin_r"}) /\ Fails /\ Throw

(***************************************************************************)
(* Assignment: the right side first, then container and key.               *)
(***************************************************************************)
(* eval_val_mut on a variable: "=" replaces it, a compound operator needs  *)
(* two scalars and asserts that the left one is a number.                  *)
AssignVar(id) ==
  /\ Given /\ At({"asg_r"})
  /\ IsA(id, "VAR")
  /\ Leave(VNONE)
  /\ \/ stack' = [stack EXCEPT ![Newest(id)].v = val.v] /\ UNCHANGED <<wild, err>>
     \/ /\ UNCHANGED stack
        /\ IF {stack[Newest(id)].v, val.v} \subseteq Scalar
           THEN wild' = (IF stack[Newest(id)].v = "none" THEN "assert" ELSE "no") /\ UNCHANGED err
           ELSE Fails /\ err' = TRUE /\ UNCHANGED wild
  /\ UNCHANGED <<heapVars, cap, state>>

AssignError ==
  /\ Given /\ Fails /\ Throw
  /\ \/ At({"asg_k"})
     \/ At({"asg_r"}) /\ \E id \in Ids : ~IsA(id, "VAR")

AssignElem ==
  /\ Given
  /\ \/ At({"asg_r"}) /\ Resume([Top EXCEPT !.k = "asg_c", !.hold = <<val>>])
     \/ At({"asg_c"}) /\ Resume([Top EXCEPT !.k = "asg_k", !.hold = Append(@, val)])
  /\ Quiet /\ Still

(* ValDict_add of key k: a new entry, or a new value for an equal key *)
Put(o, k, v) ==
  \/ Fits(o, 2) /\ items' = [items EXCEPT ![o] = @ \o <<k, v>>]
  \/ \E i \in 1 .. Len(items[o]) : items' = [items EXCEPT ![o][i] = v]

(* An entry of a dict or an item of a list changes, or nothing does: index *)
(* = count passes the range check but is no item, a compound operator      *)
(* leaves a scalar a scalar, and other containers are skipped silently.    *)
AssignDone ==
  /\ Given /\ At({"asg_k"})
  /\ LET rhs == Top.hold[1].v
         con == Top.hold[2].v
     IN  \/ con \in Obj /\ Put(con, val.v, rhs) /\ Reads({con, val.v})
         \/ UNCHANGED items /\ Reads({con, val.v})
         \/ /\ con \in Obj /\ "none" \in Items(con) /\ rhs \in Scalar
            /\ UNCHANGED items /\ wild' = "assert"
  /\ Leave(VNONE)
  /\ Still /\ UNCHANGED <<objs, freed, threshold, state, err>>

(***************************************************************************)
(* List and dictionary literals.                                           *)
(***************************************************************************)
Literal == Top.hold[1].v

Insert(o, v) == items' = [items EXCEPT ![o] = Append(@, v)]

ListItem ==
  /\ Given /\ At({"list"})
  /\ Insert(Literal, val.v) /\ Resume(Top)
  /\ Still /\ UNCHANGED <<objs, freed, threshold, state, err, wild>>

DictKey ==
  /\ Given /\ At({"dict_k"})
  /\ Resume([Top EXCEPT !.k = "dict_v", !.hold = Append(@, val)])
  /\ Quiet /\ Still

DictVal ==
  /\ Given /\ At({"dict_v"})
  /\ Put(Literal, Top.hold[2].v, val.v)
  /\ Reads({Top.hold[2].v})
  /\ Resume([Top EXCEPT !.k = "dict_k", !.hold = <<Top.hold[1]>>])
  /\ Still /\ UNCHANGED <<objs, freed, threshold, state, err>>

LiteralDone ==
  /\ Asked /\ At({"list", "dict_k"})
  /\ Leave(Top.hold[1])
  /\ Quiet /\ Still

(***************************************************************************)
(* A call of a function of the program.                                    *)
(***************************************************************************)
ArgParam(id) ==
  /\ Given /\ At({"arg"})
  /\ Push(Var(id, val.v))
  /\ Resume([Top EXCEPT !.own = @ + 1])
  /\ Quiet

(* The parameter "..." is reached: a list is made for the arguments left. *)
ArgAny(o) ==
  /\ Asked /\ At({"arg"}) /\ "variadic" \in Forms
  /\ NewHeapVal(o)
  /\ Resume([Top EXCEPT !.k = "any", !.hold = <<Rooted(o)>>])
  /\ wild' = Fault({})
  /\ UNCHANGED <<items, state, err>>

AnyItem ==
  /\ Given /\ At({"any"})
  /\ Insert(Literal, val.v) /\ Resume(Top)
  /\ Still /\ UNCHANGED <<objs, freed, threshold, state, err, wild>>

(* The body runs.  func was looked up before the arguments were evaluated: *)
(* a stack that has grown since may have left it in a freed buffer.        *)
CallBody ==
  /\ Asked
  /\ \/ At({"arg"}) /\ Still /\ Continue([Top EXCEPT !.k = "call"], New("body"))
     \/ /\ At({"any"}) /\ items[Literal] # <<>>
        /\ Push(Var(VaArgs, Literal))
        /\ Continue([Top EXCEPT !.k = "call", !.own = @ + 1], NewAt("body", Len(stack) + 1))
  /\ state' = "NONE"
  /\ wild' = "no" \/ (Top.buf # cap' /\ wild' = "stale_func")
  /\ UNCHANGED <<heapVars, err>>

CallArity == Asked /\ At({"arg"}) /\ Fails /\ Throw

(* One symbol is popped for every argument and one for _VA_ARGS_, whatever *)
(* the body and the arguments have left above them.                        *)
(* slip: a TEMP of the result is popped even if there is none *)
CallReturnPopsTemp ==
  /\ Given /\ At({"call"})
  /\ state' = "NONE"
  /\ Cut(Len(stack) - Top.own - 1)
  /\ Leave(val)
  /\ UNCHANGED <<heapVars, err, wild>>

CallReturn ==
  /\ Given /\ At({"call"})
  /\ state' = "NONE"
  /\ Cut(Len(stack) - Top.own)
  /\ Leave(val)
  /\ UNCHANGED <<heapVars, err, wild>>

(***************************************************************************)
(* A call of a C function: its arguments stay in a C array.                *)
(***************************************************************************)
RegArg ==
  /\ Given /\ At({"reg"})
  /\ Resume([Top EXCEPT !.hold = Append(@, val)])
  /\ Quiet /\ Still

(* func is read again for the call, as above. *)
Stale == Top.buf # cap /\ wild' = "stale_func"

(* len, int, float, has, kind, print, println *)
LibScalar(s) ==
  /\ Asked /\ At({"reg"})
  /\ Leave(Unrooted(s))
  /\ Reads(Held) \/ Stale
  /\ Still /\ UNCHANGED <<heapVars, state, err>>

(* str, input, range: the result is allocated, then the arguments are read *)
LibNew(o) ==
  /\ Asked /\ At({"reg"}) /\ Room(0)
  /\ NewHeapVal(o)
  /\ Leave(Rooted(o))
  /\ wild' = Fault(Held) \/ Stale
  /\ UNCHANGED <<items, state, err>>

(* append: all values but the list, one after the other *)
Values == [i \in 1 .. Len(Top.hold) - 1 |-> Top.hold[i + 1].v]

LibAppend ==
  /\ Asked /\ At({"reg"}) /\ Len(Top.hold) >= 2 /\ Literal \in Obj
  /\ Fits(Literal, Len(Values))
  /\ items' = [items EXCEPT ![Literal] = @ \o Values]
  /\ Leave(VNONE) /\ (Reads({Literal}) \/ Stale)
  /\ Still /\ UNCHANGED <<objs, freed, threshold, state, err>>

Edits(t) ==
  /\ items' = [items EXCEPT ![Literal] = t]
  /\ Leave(VNONE) /\ (Reads({Literal}) \/ Stale)
  /\ Still /\ UNCHANGED <<objs, freed, threshold, state, err>>

(* remove; an index that is no item's is outside the model *)
LibRemove ==
  /\ Asked /\ At({"reg"}) /\ "edit" \in Forms /\ Held # {} /\ Literal \in Obj
  /\ \E i \in 1 .. Len(items[Literal]) :
       Edits(SubSeq(items[Literal], 1, i - 1) \o SubSeq(items[Literal], i + 1, Len(items[Literal])))

(* insert accepts an int only *)
LibInsert ==
  /\ Asked /\ At({"reg"}) /\ "edit" \in Forms /\ Held # {} /\ Literal \in Obj
  /\ Fits(Literal, 1)
  /\ \E i \in 0 .. Len(items[Literal]) :
       Edits(SubSeq(items[Literal], 1, i) \o <<"num">> \o SubSeq(items[Literal], i + 1, Len(items[Literal])))

LibError == Asked /\ At({"reg"}) /\ Fails /\ Throw

(***************************************************************************)
(* Statements: a body runs them until one leaves a state other than NONE.  *)
(***************************************************************************)
Statement(form) == Asked /\ At({"body"}) /\ form \in Forms
Opens(form, k, r) == Statement(form) /\ Room(r) /\ Enter(New(k)) /\ Quiet /\ Still

(* A body above f in place of the innermost activation (a branch of an if  *)
(* is a tail call: nothing is left of the if itself).                      *)
RunBody(f) == Continue(f, New("body"))

StmtDef ==
  /\ Asked /\ At({"body", "for_v"}) /\ "def" \in Forms
  /\ Room(1) /\ Enter(New("def")) /\ Quiet /\ Still

DefDone(id) ==
  /\ Given /\ At({"def"})
  /\ Push(Var(id, val.v))
  /\ Leave(VNONE) /\ Quiet

StmtFn(id) ==
  /\ Statement("fn") /\ Room(0)
  /\ Push([kind |-> "FUNC", id |-> id, v |-> "none"])
  /\ val' = VNONE
  /\ Quiet /\ UNCHANGED frames

StmtIf == Opens("if", "if", 1)

If ==
  /\ Given /\ At({"if"}) /\ val.v = "bool"
  /\ \/ Resume(New("body"))      \* the branch, or that of a last else
     \/ Resume(Top)              \* else if
     \/ Leave(VNONE)             \* no else
  /\ Quiet /\ Still

StmtWhile == Opens("while", "while_0", 2)

(* The condition is evaluated once before the loop and again in its head. *)
WhileEnter ==
  /\ Given /\ At({"while_0"}) /\ val.v = "bool"
  /\ Resume([Top EXCEPT !.k = "while_c"])
  /\ Quiet /\ Still

WhileHead ==
  /\ Given /\ At({"while_c"}) /\ val.v = "bool"
  /\ RunBody([Top EXCEPT !.k = "while_b"]) \/ Leave(VNONE)
  /\ Quiet /\ Still

(* What a loop does with the state its body has left *)
(* slip: the state stays *)
LoopedKeepsState(s) == state \in s /\ UNCHANGED <<heapVars, state, err, wild>>

Looped(s) == state \in s /\ state' = "NONE" /\ UNCHANGED <<heapVars, err, wild>>
Returned  == state = "RET" /\ Leave(val) /\ Quiet

WhileNext ==
  /\ Given /\ At({"while_b"})
  /\ \/ Looped({"BREAK"}) /\ Leave(VNONE)
     \/ Looped({"NONE", "CONT"}) /\ Resume([Top EXCEPT !.k = "while_c"])
     \/ Returned
  /\ Still

StmtFor == Opens("for", "for_v", 2)

(* own is remove_last: whether the first clause has left the stack longer *)
ForEnter ==
  /\ Given /\ At({"for_v"})
  /\ Resume([Top EXCEPT !.k = "for_c", !.own = IF Len(stack) # Top.base THEN 1 ELSE 0])
  /\ Quiet /\ Still

(* With remove_last one symbol goes, whichever is last by then. *)
(* slip: a symbol is popped even if the first clause has pushed none *)
ForLeaveAlways == Leave(VNONE) /\ Cut(Len(stack) - 1)

ForLeave == Leave(VNONE) /\ Cut(Len(stack) - Top.own)

ForHead ==
  /\ Given /\ At({"for_c"}) /\ val.v = "bool"
  /\ \/ RunBody([Top EXCEPT !.k = "for_b"]) /\ Still
     \/ ForLeave
  /\ Quiet

ForNext ==
  /\ Given /\ At({"for_b"})
  /\ \/ Looped({"BREAK"}) /\ ForLeave
     \/ Looped({"NONE", "CONT"}) /\ Resume([Top EXCEPT !.k = "for_m"]) /\ Still
     \/ Returned /\ Still

ForMut ==
  /\ Given /\ At({"for_m"})
  /\ Resume([Top EXCEPT !.k = "for_c"])
  /\ Quiet /\ Still

StmtEach == Opens("each", "each_c", 2)

(* The collection is taken for a list whatever it is. *)
EachEnter ==
  /\ Given /\ At({"each_c"})
  /\ Resume([Top EXCEPT !.k = "each_n", !.hold = <<val>>])
  /\ \/ val.v \in Obj /\ Reads({val.v})
     \/ wild' = "not_list"
  /\ Still /\ UNCHANGED <<heapVars, state, err>>

EachHead(id) ==
  /\ Asked /\ At({"each_n"})
  /\ IF Top.n < Len(items[Literal])
     THEN /\ Push(Var(id, items[Literal][Top.n + 1]))
          /\ Continue([Top EXCEPT !.k = "each_b", !.own = 1], NewAt("body", Len(stack) + 1))
     ELSE Leave(VNONE) /\ Still
  /\ Reads({Literal})
  /\ UNCHANGED <<heapVars, state, err>>

(* The loop variable is popped, or the TEMP a returning body has pushed. *)
(* slip: the loop variable stays *)
EachNextKeepsVar ==
  /\ Given /\ At({"each_b"})
  /\ Still
  /\ \/ Looped({"BREAK"}) /\ Leave(VNONE)
     \/ Looped({"NONE", "CONT"}) /\ Resume([Top EXCEPT !.k = "each_n", !.own = 0, !.n = @ + 1])
     \/ state = "RET" /\ Quiet /\ Leave(val)

EachNext ==
  /\ Given /\ At({"each_b"})
  /\ Cut(Len(stack) - 1)
  /\ \/ Looped({"BREAK"}) /\ Leave(VNONE)
     \/ Looped({"NONE", "CONT"}) /\ Resume([Top EXCEPT !.k = "each_n", !.own = 0, !.n = @ + 1])
     \/ state = "RET" /\ Quiet /\ Leave(val)

StmtRet == Opens("ret", "ret", 1)

(* Without the form scalar_result a function without parameters returns    *)
(* heap values only: a program that does otherwise is not followed.        *)
Calls      == {i \in 1 .. Depth : frames[i].k = "call"}
Returns(v) ==
  /\ UNCHANGED <<heapVars, err>> /\ Still
  /\ state' = "RET"
  /\ wild' = IF /\ v \in Scalar /\ Calls # {} /\ "scalar_result" \notin Forms
                /\ LET i == CHOOSE i \in Calls : \A j \in Calls : j <= i
                   IN  frames[i].own = 0
             THEN "outside" ELSE "no"

RetDone     == Given /\ At({"ret"}) /\ Leave(val) /\ Returns(val.v)
StmtRetNone == Statement("ret") /\ val' = VNONE /\ UNCHANGED frames /\ Returns("none")

Jump(s) ==
  /\ state' = s /\ val' = VNONE
  /\ Still /\ UNCHANGED <<heapVars, frames, err, wild>>

StmtBreak   == Statement("break") /\ Jump("BREAK")
StmtCont    == Statement("break") /\ Jump("CONT")

(* slips: a statement after a continue, a statement after an error *)
BodyNextOnCont ==
  /\ Given /\ At({"body"}) /\ state \in {"NONE", "CONT"}
  /\ Resume(Top)
  /\ Quiet /\ Still

BodyNextOnError ==
  /\ Running /\ val # Pending /\ At({"body"}) /\ state = "NONE"
  /\ Resume(Top)
  /\ Quiet /\ Still

BodyNext ==
  /\ Given /\ At({"body"}) /\ state = "NONE"
  /\ Resume(Top)
  /\ Quiet /\ Still

BodyEnd ==
  /\ Asked /\ At({"body"})
  /\ Cut(Top.base)
  /\ Leave(VNONE) /\ Quiet

(* A returned value gets a TEMP where the body began (too late for a value *)
(* whose object has been freed already).                                   *)
(* slip: one symbol too many is cut *)
BodyUnwindShort ==
  /\ Given /\ At({"body"}) /\ state # "NONE"
  /\ IF state = "RET"
     THEN /\ SetStack(Append(Prefix(Top.base - 1), Temp(val.v)))
          /\ Leave([v |-> val.v, at |-> Top.base])
     ELSE Cut(Top.base) /\ Leave(VNONE)
  /\ Quiet

BodyUnwind ==
  /\ Given /\ At({"body"}) /\ state # "NONE"
  /\ IF state = "RET"
     THEN /\ SetStack(Append(Prefix(Top.base), Temp(val.v)))
          /\ Leave([v |-> val.v, at |-> IF val.v \in objs \cup Scalar THEN Top.base + 1 ELSE 0])
     ELSE Cut(Top.base) /\ Leave(VNONE)
  /\ Quiet

(* A condition that is no boolean *)
CondError == Given /\ At({"if", "while_0", "while_c", "for_c"}) /\ val.v # "bool" /\ Fails /\ Throw

(***************************************************************************)
(* After an error every activation returns at once; what it still does is  *)
(* to push the symbol or append the item it was about to, or to set RET.   *)
(***************************************************************************)
Failed == Running /\ val # Pending /\ err

ErrPlain ==
  /\ Failed /\ ~At({"def", "arg", "list", "any", "ret"})
  /\ Leave(VNONE) /\ Still /\ Quiet

ErrPush(id) ==
  /\ Failed /\ At({"def", "arg"})
  /\ Push(Var(id, val.v))
  /\ Leave(VNONE) /\ Quiet

ErrAppend ==
  /\ Failed /\ At({"list", "any"})
  /\ Insert(Literal, val.v)
  /\ Leave(VNONE) /\ Still /\ UNCHANGED <<objs, freed, threshold, state, err, wild>>

ErrRet ==
  /\ Failed /\ At({"ret"})
  /\ state' = "RET" /\ Leave(val)
  /\ Still /\ UNCHANGED <<heapVars, err, wild>>

Stopped == ~Running /\ UNCHANGED vars

-----------------------------------------------------------------------------

Init == HeapInit /\ StackInit /\ state = "NONE" /\ err = FALSE /\ wild = "no"

Expression ==
  \/ \E s \in Literals : ExprScalar(s)
  \/ \E id \in Ids : ExprVar(id)
  \/ \E o \in Obj : ExprStr(o) \/ ExprList(o) \/ ExprDict(o)
  \/ ExprBin \/ ExprAssign \/ ExprUn
  \/ \E id \in Ids \cup {Lib} : ExprCall(id)

Operator ==
  \/ UnDone \/ BinLeft \/ BinIndex \/ BinError
  \/ \E s \in Literals \ {"none"} : BinScalar(s)
  \/ \E o \in Obj : BinConcat(o)
  \/ \E id \in Ids : AssignVar(id)
  \/ AssignElem \/ AssignDone \/ AssignError
  \/ ListItem \/ DictKey \/ DictVal \/ LiteralDone

Call ==
  \/ \E id \in Ids : ArgParam(id)
  \/ \E o \in Obj : ArgAny(o) \/ LibNew(o)
  \/ AnyItem \/ CallBody \/ CallArity \/ CallReturn
  \/ \E s \in Literals : LibScalar(s)
  \/ RegArg \/ LibAppend \/ LibRemove \/ LibInsert \/ LibError

Stmt ==
  \/ StmtDef \/ StmtIf \/ StmtWhile \/ StmtFor \/ StmtEach
  \/ StmtRet \/ StmtRetNone \/ StmtBreak \/ StmtCont
  \/ \E id \in Ids : StmtFn(id) \/ DefDone(id) \/ EachHead(id)
  \/ If \/ CondError \/ WhileEnter \/ WhileHead \/ WhileNext
  \/ ForEnter \/ ForHead \/ ForNext \/ ForMut \/ EachEnter \/ EachNext
  \/ RetDone \/ BodyNext \/ BodyEnd \/ BodyUnwind

Unwind == ErrPlain \/ ErrAppend \/ ErrRet \/ \E id \in Ids : ErrPush(id)

Next == Expression \/ Operator \/ Call \/ Stmt \/ Unwind \/ Stopped

Spec     == Init /\ [][Next]_vars
FairSpec == Spec /\ WF_vars(Next)

-----------------------------------------------------------------------------

(* Every variable keeps its type. *)
TypeOK ==
  /\ HeapTypeOK /\ StackTypeOK
  /\ state \in {"NONE", "RET", "BREAK", "CONT"}
  /\ err \in BOOLEAN
  /\ wild \in {"no", "scalar_temp", "dangling", "not_list", "stale_func", "assert", "outside"}

(* Nothing is evaluated, and so nothing allocated, between a return, break, *)
(* continue or error and the activation that ends it.                       *)
NoEvalWhileUnwinding ==
  (Running /\ val = Pending) => (state = "NONE" /\ ~err)

(* The collector's threshold stays ahead of the objects it tracks. *)
HeapBounded == threshold # 0 => Cardinality(objs) <= threshold

(* No activation but a definition leaves a name behind: all it has pushed   *)
(* and not popped are TEMPs.  Calls and loops count what they pop from the  *)
(* top (eval.c:573, 699), so this is so only without parameters and for:    *)
(* see the run that checks it.                                              *)
LeavesNoName ==
  [][(Depth > 0 /\ frames' = Below /\ Top.k # "def" /\ ~err' /\ state' = "NONE") =>
       \A j \in Top.base + 1 .. Len(stack') : stack'[j].kind = "TEMP"]_vars

(* No step reaches a freed object, in the evaluator or in the mark phase,   *)
(* takes the scalar of a TEMP for an object, or uses the EvalSymbol of a    *)
(* call after the buffer of the stack has moved.  The code keeps to this in *)
(* a fragment only: see the run that checks it.                             *)
NoWildAccess == wild \notin {"dangling", "scalar_temp", "stale_func"}

(* eval_val_mut never reaches the assertion on the kind of its left side. *)
NoAssert == wild # "assert"

(* An error unwinds every activation; a return ends at its call or at the   *)
(* end of the program; break and continue do not stay pending either.       *)
ErrorStops == err ~> frames = <<>>
JumpEnds   == (state # "NONE") ~> (state = "NONE" \/ frames = <<>>)
=============================================================================
