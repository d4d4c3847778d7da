----------------------------- MODULE ExprParser -----------------------------
(***************************************************************************)
(* The expression parser of src/parser.c: parse_expr, parse_expand,        *)
(* parse_list, parse_dict and parse_func_call.                             *)
(*                                                                         *)
(* parse_expr reads tokens into a list of nodes, operators among them with *)
(* empty operands, until a token that ends its kind of expression; brackets*)
(* are parsed by calls of their own.  parse_expand then goes over the list *)
(* and gives each complete node to the neighbouring operator that binds it *)
(* tighter, again and again until one node is left.                        *)
(*                                                                         *)
(* Tokens are strings: "a" an identifier, "1" any literal, and of each row *)
(* of ast_op_precedence one operator, or those the parser tells apart.  The*)
(* tokens that only statements are made of end an expression or are errors *)
(* in it; StmtParser reads them.  Alone, this module parses the expression *)
(* of one statement, up to its ";".                                        *)
(* A node carries the position of its token (loc).  NULL is a node too,    *)
(* also as an empty operand, as it is in the code.                         *)
(***************************************************************************)
EXTENDS Integers, SequencesExt

CONSTANTS Inputs   \* the token sequences that are parsed

Infix == {"=", ":", "&&", "==", "+", "-", "*"}
Id == {"a", "in"}                 \* "in" is no keyword
Lit == {"1", "f", "g", "h"}       \* "f", "g" and "h" are strings that may name files
ExprToken == Infix \cup {"a", "1", "!", "(", ")", "[", "]", "{", "}", ",", ";"}
StmtToken == {"in", "f", "g", "h", ":=", "->", "=>", "...", "if", "else", "while", "for",
              "fn", "return", "break", "import", "EOF"}
Token == ExprToken \cup StmtToken

ASSUME InputAssumption == Inputs \subseteq Seq(Token)

VARIABLES
  toks,        \* the tokens, with the one that ends the expression
  pos,         \* the token peek() shows
  calls,       \* the active calls, the innermost last
  outcome,     \* "run", then "done", "error" (got_err) or "fault" (NULL read)
  ast          \* what the outermost parse_expr returned

vars == <<toks, pos, calls, outcome, ast>>

-----------------------------------------------------------------------------
(* Nodes and precedence.                                                   *)

Node(kind, op, at, args) == [kind |-> kind, op |-> op, at |-> at, args |-> args]
NULL == Node("NULL", "", 0, <<>>)
Bin(op, at) == Node("BIN_EXPR", op, at, <<NULL, NULL>>)
Un(op, at) == Node("UN_EXPR", op, at, <<NULL>>)

Operators == {"BIN_EXPR", "UN_EXPR"}
IsOp(n) == n.kind \in Operators /\ NULL \in Range(n.args)

Rank(op) == CASE op \in {"=", ":"} -> 10 [] op = "&&" -> 15 [] op = "==" -> 20
              [] op \in {"+", "-"} -> 70 [] op = "*" -> 80 [] op = "[" -> 100

\* slip: binds what is at its right like what is at its left.
PrecedenceRight(n, left) ==
  IF n.kind = "UN_EXPR" THEN IF left THEN 0 ELSE 111
  ELSE IF left THEN Rank(n.op) + 1 ELSE Rank(n.op)

\* How strongly operator n binds the operand at its left or at its right.
Precedence(n, left) ==
  IF n.kind = "UN_EXPR" THEN IF left THEN 0 ELSE 111
  ELSE IF left THEN Rank(n.op) ELSE Rank(n.op) + 1

SetVal(expr, n, left) ==
  [expr EXCEPT !.args[IF left THEN 1 ELSE Len(expr.args)] = n]

-----------------------------------------------------------------------------
(* Calls.  i is 0 while parse_expr reads tokens, then parse_expand's index.*)

\* slip: a parenthesised expression ends at a comma, as an argument does.
StopAtComma(kind) == CASE kind = "STMT" -> {";"} [] kind = "PARS" -> {",", ")"}
                       [] kind = "SQBRAS" -> {"]"} [] kind = "COND" -> {"{", "->", "=>"}
                       [] kind = "ARGS" -> {",", "]", "}", ")"}

Stop(kind) == CASE kind = "STMT" -> {";"} [] kind = "PARS" -> {")"}
                [] kind = "SQBRAS" -> {"]"} [] kind = "COND" -> {"{", "->", "=>"}
                [] kind = "ARGS" -> {",", "]", "}", ")"}
Closing(kind) == CASE kind = "LIST" -> "]" [] kind = "DICT" -> "}"
                   [] kind = "FUNC_CALL" -> ")"
Sequences == {"LIST", "DICT", "FUNC_CALL"}
Expressions == {"STMT", "COND", "PARS", "SQBRAS", "ARGS"}

Call(kind, at) == [kind |-> kind, at |-> at, nodes |-> <<>>, i |-> 0, before |-> 0]

At(k) == IF k \in DOMAIN toks THEN toks[k] ELSE "past"
Peek == At(pos)
Peek2 == At(pos + 1)
Top == Last(calls)
Nodes == Top.nodes
AtEnd == Peek \in Stop(Top.kind)

Scans == outcome = "run" /\ Top.kind \in Expressions /\ Top.i = 0
Reads(t) == Scans /\ ~AtEnd /\ Peek = t
Expands == outcome = "run" /\ Top.kind \in Expressions /\ Top.i > 0
Collects == outcome = "run" /\ Top.kind \in Sequences

SetTop(call) == [calls EXCEPT ![Len(calls)] = call]
With(call, n) == [call EXCEPT !.nodes = Append(@, n)]

Ends(how) == outcome' = how /\ UNCHANGED <<toks, pos, calls, ast>>

Shift(n) ==    \* da_append(&nodes, n); next(p)
  /\ calls' = SetTop(With(Top, n)) /\ pos' = pos + 1
  /\ UNCHANGED <<toks, outcome, ast>>

Begin(call, below, skip) ==
  /\ calls' = Append(below, call) /\ pos' = pos + skip
  /\ UNCHANGED <<toks, outcome, ast>>

Return(n) ==   \* what the caller does with n included
  LET below == Front(calls)  caller == Last(below)
  IN  IF below = <<>>
      THEN outcome' = "done" /\ ast' = n /\ UNCHANGED <<toks, pos, calls>>
      ELSE IF Top.kind # "ARGS"
      THEN /\ calls' = [below EXCEPT ![Len(below)] = With(caller, n)]
           /\ pos' = IF Top.kind \in {"STMT", "COND"} THEN pos ELSE pos + 1
           /\ UNCHANGED <<toks, outcome, ast>>
      ELSE IF caller.kind = "DICT" /\ n = NULL THEN Ends("fault")
      ELSE IF \/ caller.kind = "DICT" /\ n.kind # "BIN_EXPR"
              \/ Peek \notin {Closing(caller.kind), ","}
      THEN Ends("error")
      ELSE /\ calls' = [below EXCEPT ![Len(below)] = With(caller, n)]
           /\ UNCHANGED <<toks, pos, outcome, ast>>

-----------------------------------------------------------------------------
(* parse_expr                                                              *)

Literal == (\E t \in Lit : Reads(t)) /\ Shift(Node("LIT", Peek, pos, <<>>))

Variable == /\ \E t \in Id : Reads(t)
            /\ Peek2 # "(" /\ Shift(Node("VAR", Peek, pos, <<>>))

FuncCall == /\ \E t \in Id : Reads(t)
            /\ Peek2 = "(" /\ Begin(Call("FUNC_CALL", pos), calls, 2)

BinOp == \E op \in Infix \ {"-"} : Reads(op) /\ Shift(Bin(op, pos))

Not == Reads("!") /\ Shift(Un("!", pos))

\* slip: complete operators are not told from empty ones.
MinusAnyOperator == Nodes # <<>> /\ Last(Nodes).kind # "BIN_EXPR"

\* The operand before a minus is complete, or the minus follows "!" or "-".
MinusIsBinary == Nodes # <<>> /\ ~(Last(Nodes).kind = "BIN_EXPR" /\ IsOp(Last(Nodes)))

Minus == /\ Reads("-")
         /\ IF Nodes # <<>> /\ Last(Nodes) = NULL THEN Ends("fault")
            ELSE Shift(IF MinusIsBinary THEN Bin("-", pos) ELSE Un("-", pos))

Group == Reads("(") /\ Begin(Call("PARS", pos), calls, 1)

Dict == Reads("{") /\ Begin(Call("DICT", pos), calls, 1)

\* Of the node before the last one: da_get(&nodes, nodes.count - 2).
Lookback == Len(Nodes) - 1
ReadsNull == \E j \in {Lookback, Len(Nodes)} \cap DOMAIN Nodes : Nodes[j] = NULL

Indexes ==
  /\ Nodes # <<>>
  /\ \/ Last(Nodes).kind = "VAR"
     \/ /\ Len(Nodes) >= 2
        /\ Nodes[Lookback].kind = "BIN_EXPR" /\ Nodes[Lookback].op = "["

Index == /\ Reads("[") /\ ~ReadsNull /\ Indexes
         /\ Begin(Call("SQBRAS", pos), SetTop(With(Top, Bin("[", pos))), 1)

List == Reads("[") /\ ~ReadsNull /\ ~Indexes /\ Begin(Call("LIST", pos), calls, 1)

IndexOfNull == Reads("[") /\ ReadsNull /\ Ends("fault")

Unexpected == /\ \E t \in {")", "]", "}", ",", ";"} \cup (StmtToken \ (Id \cup Lit)) : Reads(t)
              /\ Ends("error")

Stopped == /\ Scans /\ AtEnd
           /\ IF Nodes = <<>> THEN Return(NULL)
              ELSE /\ calls' = SetTop([Top EXCEPT !.i = 1, !.before = Len(Nodes)])
                   /\ UNCHANGED <<toks, pos, outcome, ast>>

-----------------------------------------------------------------------------
(* parse_list, parse_dict, parse_func_call                                 *)

Comma == /\ Collects /\ Peek = ","
         /\ IF Peek2 = "," THEN Ends("error")
            ELSE pos' = pos + 1 /\ UNCHANGED <<toks, calls, outcome, ast>>

Item == /\ Collects /\ Peek \notin {",", Closing(Top.kind)}
        /\ Begin(Call("ARGS", pos), calls, 0)

\* slip: the last item is left out.
CloseEarly == /\ Collects /\ Peek = Closing(Top.kind)
              /\ Return(Node(Top.kind, At(Top.at), Top.at,
                             IF Nodes = <<>> THEN <<>> ELSE Front(Nodes)))

Close == /\ Collects /\ Peek = Closing(Top.kind)
         /\ Return(Node(Top.kind, At(Top.at), Top.at, Nodes))

-----------------------------------------------------------------------------
(* parse_expand                                                            *)

I == Top.i
Single == Expands /\ I <= Len(Nodes) /\ Len(Nodes) = 1 /\ Return(Nodes[1])

Visits == Expands /\ I <= Len(Nodes) /\ Len(Nodes) > 1

SkipOp == /\ Visits /\ IsOp(Nodes[I])
          /\ calls' = SetTop([Top EXCEPT !.i = I + 1])
          /\ UNCHANGED <<toks, pos, outcome, ast>>

\* ast_get_op: what reading the operator of the neighbour at j ends in.
Neighbour(j) == IF j \notin DOMAIN Nodes \/ Nodes[j].kind \in Operators THEN "run"
                ELSE IF Nodes[j] = NULL THEN "fault" ELSE "error"

lpr == IF I > 1 THEN Precedence(Nodes[I - 1], FALSE) ELSE 0
rpr == IF I < Len(Nodes) THEN Precedence(Nodes[I + 1], TRUE) ELSE 0

Trouble == IF Nodes[I] = NULL THEN "fault"
           ELSE IF Neighbour(I - 1) # "run" THEN Neighbour(I - 1)
           ELSE IF Neighbour(I + 1) # "run" THEN Neighbour(I + 1)
           ELSE IF lpr = 0 /\ rpr = 0 THEN "error" ELSE "run"

Misplaced == /\ Visits /\ ~IsOp(Nodes[I])
             /\ Trouble # "run" /\ Ends(Trouble)

Attached(left) ==    \* the operator at the right of node I takes it as its left
  LET j == IF left THEN I + 1 ELSE I - 1
  IN  RemoveAt([Nodes EXCEPT ![j] = SetVal(@, Nodes[I], left)], I)

\* slip: the index is not moved back (no i--).
AttachOn == /\ Visits /\ ~IsOp(Nodes[I]) /\ Trouble = "run"
            /\ calls' = SetTop([Top EXCEPT !.nodes = Attached(~(lpr > rpr)), !.i = I + 1])
            /\ UNCHANGED <<toks, pos, outcome, ast>>

Attach == /\ Visits /\ ~IsOp(Nodes[I]) /\ Trouble = "run"
          /\ calls' = SetTop([Top EXCEPT !.nodes = Attached(~(lpr > rpr))])
          /\ UNCHANGED <<toks, pos, outcome, ast>>

\* slip: a pass that did nothing is no error.
PassAgain == /\ Expands /\ I > Len(Nodes)
             /\ calls' = SetTop([Top EXCEPT !.i = 1, !.before = Len(Nodes)])
             /\ UNCHANGED <<toks, pos, outcome, ast>>

PassDone == /\ Expands /\ I > Len(Nodes)
            /\ IF Top.before = Len(Nodes) THEN Ends("error")
               ELSE /\ calls' = SetTop([Top EXCEPT !.i = 1, !.before = Len(Nodes)])
                    /\ UNCHANGED <<toks, pos, outcome, ast>>

-----------------------------------------------------------------------------
Init == /\ \E input \in Inputs : toks = Append(input, ";")
        /\ pos = 1 /\ calls = <<Call("STMT", 1)>>
        /\ outcome = "run" /\ ast = NULL

ExprNext ==
  \/ Literal \/ Variable \/ FuncCall \/ BinOp \/ Not \/ Minus \/ Group \/ Dict
  \/ Index \/ List \/ IndexOfNull \/ Unexpected \/ Stopped
  \/ Comma \/ Item \/ Close
  \/ Single \/ SkipOp \/ Misplaced \/ Attach \/ PassDone

Finished == outcome # "run" /\ UNCHANGED vars

Next == ExprNext \/ Finished

Spec == Init /\ [][Next]_vars /\ WF_vars(Next)

-----------------------------------------------------------------------------
Kinds == Sequences \cup Expressions

\* Positions, kinds of calls and outcomes are what they should be, and the
\* index of parse_expand, which counts below 0 in an unsigned loop, stays
\* within one of its nodes.
TypeOK ==
  /\ toks \in Seq(Token) /\ pos \in 1..Len(toks)
  /\ outcome \in {"run", "done", "error", "fault"}
  /\ calls # <<>>
  /\ \A c \in Range(calls) :
       /\ c.kind \in Kinds /\ c.i \in 0..Len(c.nodes) + 1
       /\ c.kind \in Sequences => c.i = 0

\* NULL is read only where brackets are empty, or for a dict closed by another
\* bracket: wherever in the tree the empty operand has got to meanwhile.
Empty == {<<"(", ")">>, <<"[", "]">>, <<"{", ")">>, <<"{", "]">>, <<",", ")">>, <<",", "]">>}
EmptyBrackets == \E k \in 1..Len(toks) - 1 : <<toks[k], toks[k + 1]>> \in Empty
FaultsOnEmpty == outcome = "fault" => EmptyBrackets

\* The index given to da_get at line 485 is that of a node, as the assertion
\* of da_get (3dparty/cplus.h:265) demands.
InBounds == Reads("[") /\ Nodes # <<>> => Lookback \in DOMAIN Nodes

\* Every expression is parsed or rejected: parse_expand does not call itself
\* for ever and no loop stays at a token.
Answers == <>(outcome # "run")
=============================================================================
