----------------------------- MODULE StmtParser -----------------------------
(***************************************************************************)
(* The statement parser of src/parser.c over the expression parser:        *)
(* parse_body for programs, blocks in braces and the arrow bodies -> and =>*)
(* and the functions it calls for each statement, import included, which   *)
(* parses another file with a parser of its own.                           *)
(*                                                                         *)
(* Each active call of a C function is an entry of "calls", as the calls of*)
(* the expression parser are.  Its nodes are the parts parsed so far, which*)
(* say how far the function is; i is 1 in a body when a statement has been *)
(* parsed and 2 in a statement when its body has begun.                    *)
(*                                                                         *)
(* After parser_error all calls return, and some read tokens on their way: *)
(* those steps are modelled too (Unwind).  A token asked for behind the one*)
(* that ends the file lies outside the buffer of the lexer ("past").       *)
(***************************************************************************)
EXTENDS ExprParser

CONSTANTS
  Files,      \* the files that can be imported: their tokens, by name
  MaxCalls    \* the calls the C stack has room for, in files that import

ASSUME FileAssumption ==
  /\ DOMAIN Files \subseteq Lit
  /\ \A f \in DOMAIN Files : Files[f] \in Seq(Token) \ {<<>>} /\ Last(Files[f]) = "EOF"

Bodies == {"Prog", "Block", "Arrow", "ArrowEq"}
Leads == {"import", "fn", "return", "if", "while", "for", "break"}

-----------------------------------------------------------------------------
(* parse_body: the loop over statements.  Tokens of one kind are one here: *)
(* "break" is continue too.                                                *)

BodyOf(t) == CASE t = "{" -> "Block" [] t = "->" -> "Arrow" [] t = "=>" -> "ArrowEq"

Looks == outcome = "run" /\ Top.kind \in Bodies /\ Top.i = 0 /\ pos <= Len(toks)
AtClose == Peek = IF Top.kind = "Prog" THEN "EOF" ELSE "}"
AtStmt == Looks /\ ~AtClose

Parsing == [Top EXCEPT !.i = 1]

Start(frames, skip) ==    \* calls of functions that begin to parse a statement
  /\ calls' = SetTop(Parsing) \o frames /\ pos' = pos + skip
  /\ UNCHANGED <<toks, outcome, ast>>

Fails(frames, skip) ==    \* parser_error in the function called last
  /\ calls' = SetTop(Parsing) \o frames /\ pos' = pos + skip
  /\ outcome' = "error" /\ UNCHANGED <<toks, ast>>

\* slip: what is assigned is parsed as the condition of a body is.
VarDefCond == /\ AtStmt /\ Peek \in Id /\ Peek2 = ":="
              /\ Start(<<Call("VAR_DEF", pos), Call("COND", pos)>>, 2)

VarDef == /\ AtStmt /\ Peek \in Id /\ Peek2 = ":="
          /\ Start(<<Call("VAR_DEF", pos), Call("STMT", pos)>>, 2)

VarMut == /\ AtStmt /\ Peek \notin Leads /\ ~(Peek \in Id /\ Peek2 = ":=")
          /\ Start(<<Call("VAR_MUT", pos), Call("STMT", pos)>>, 0)

Ret == AtStmt /\ Peek = "return" /\ Start(<<Call("RET", pos), Call("STMT", pos)>>, 1)

If == AtStmt /\ Peek = "if" /\ Start(<<Call("IF", pos), Call("COND", pos)>>, 1)

While == AtStmt /\ Peek = "while" /\ Start(<<Call("WHILE", pos), Call("COND", pos)>>, 1)

Jump == /\ AtStmt /\ Peek = "break"
        /\ calls' = SetTop(With(Parsing, Node("JUMP", "", pos, <<>>)))
        /\ pos' = pos + 1 /\ UNCHANGED <<toks, outcome, ast>>

\* "in" is asked for with && where || is meant: any identifier is taken for it.
IsForEach == At(pos + 2) \in Id

For ==
  /\ AtStmt /\ Peek = "for"
  /\ \/ Peek2 \notin Id /\ Fails(<<Call("FOR", pos)>>, 1)
     \/ /\ Peek2 \in Id /\ IsForEach
        /\ Start(<<Call("FOREACH", pos), Call("COND", pos)>>, 3)
     \/ /\ Peek2 \in Id /\ At(pos + 2) = ":="
        /\ Start(<<Call("FOR", pos), Call("VAR_DEF", pos + 1), Call("STMT", pos)>>, 3)
     \/ /\ Peek2 \in Id /\ ~IsForEach /\ At(pos + 2) # ":="
        /\ Start(<<Call("FOR", pos), Call("VAR_MUT", pos + 1), Call("STMT", pos)>>, 1)

Fn == /\ AtStmt /\ Peek = "fn"
      /\ \/ Peek2 \notin Id /\ Fails(<<Call("FUNC_DEF", pos)>>, 1)
         \/ Peek2 \in Id /\ At(pos + 2) # "(" /\ Fails(<<Call("FUNC_DEF", pos)>>, 2)
         \/ Peek2 \in Id /\ At(pos + 2) = "(" /\ Start(<<Call("FUNC_DEF", pos)>>, 3)

\* The file is parsed by a parser of its own: this one's tokens are put aside.
\* Nothing asks whether it is being parsed already.
Import ==
  /\ AtStmt /\ Peek = "import"
  /\ \/ Peek2 \notin DOMAIN Files /\ Fails(<<>>, 1)
     \/ /\ Peek2 \in DOMAIN Files /\ Len(calls) < MaxCalls
        /\ calls' = SetTop(Parsing) \o
             <<[kind |-> "Prog", at |-> 1, nodes |-> <<>>, i |-> 0, before |-> 0,
                from |-> toks, back |-> pos + 2]>>
        /\ toks' = Files[Peek2] /\ pos' = 1 /\ UNCHANGED <<outcome, ast>>
     \/ /\ Peek2 \in DOMAIN Files /\ Len(calls) >= MaxCalls
        /\ Ends("overflow")

-----------------------------------------------------------------------------
(* What a function does with the parts of its statement.                   *)

Has(kind, n) == outcome = "run" /\ Top.kind = kind /\ Len(Nodes) = n

Give(n) == LET below == Front(calls)
           IN  /\ calls' = [below EXCEPT ![Len(below)] = With(@, n)]
               /\ UNCHANGED <<toks, pos, outcome, ast>>

Arity == [VAR_DEF |-> 1, VAR_MUT |-> 1, RET |-> 1, WHILE |-> 2, FOREACH |-> 2, FOR |-> 4]
Named == CASE Top.kind = "VAR_DEF" -> At(Top.at)
           [] Top.kind \in {"FUNC_DEF", "FOREACH"} -> At(Top.at + 1) [] OTHER -> ""

Complete == /\ outcome = "run"
            /\ \/ Top.kind \in DOMAIN Arity /\ Len(Nodes) = Arity[Top.kind]
               \/ Top.kind = "FUNC_DEF" /\ Top.i = 2
               \/ Top.kind = "IF" /\ Len(Nodes) = 3
            /\ Give(Node(Top.kind, Named, Top.at, Nodes))

ForCond == Has("FOR", 1) /\ Begin(Call("STMT", pos), calls, 1)
ForMut == Has("FOR", 2) /\ Begin(Call("COND", pos), Append(calls, Call("VAR_MUT", pos + 1)), 1)

Params == outcome = "run" /\ Top.kind = "FUNC_DEF" /\ Top.i = 0
Variadic == \E k \in DOMAIN Nodes : Nodes[k].kind = "VAR_ANY"

\* slip: a comma is not skipped.
ParamStays ==
  /\ Params
  /\ \/ Peek \in Id /\ Shift(Node("VAR", Peek, pos, <<>>))
     \/ Peek = "..." /\ ~Variadic /\ Shift(Node("VAR_ANY", Peek, pos, <<>>))
     \/ Peek = "," /\ Peek2 # "," /\ UNCHANGED vars
Param == /\ Params
         /\ \/ Peek \in Id /\ Shift(Node("VAR", Peek, pos, <<>>))
            \/ Peek = "..." /\ ~Variadic /\ Shift(Node("VAR_ANY", Peek, pos, <<>>))
            \/ Peek = "," /\ Peek2 # "," /\ Begin(Top, Front(calls), 1)
BadParam == /\ Params
            /\ \/ Peek \notin Id \cup {"...", ",", ")"}
               \/ Peek = "..." /\ Variadic
               \/ Peek = "," /\ Peek2 = ","
            /\ Ends("error")
ParamsEnd == Params /\ Peek = ")" /\ Begin([Top EXCEPT !.i = 1], Front(calls), 1)

\* parse_body of a statement begins at token "at".
OpenBody(at) ==
  \/ /\ At(at) \in {"{", "->", "=>"}
     /\ calls' = Append(SetTop([Top EXCEPT !.i = 2]), Call(BodyOf(At(at)), at))
     /\ pos' = at + 1 /\ UNCHANGED <<toks, outcome, ast>>
  \/ /\ At(at) \notin {"{", "->", "=>"}
     /\ calls' = SetTop([Top EXCEPT !.i = 2]) /\ pos' = at
     /\ outcome' = "error" /\ UNCHANGED <<toks, ast>>

Body == /\ \/ Has("IF", 1) \/ Has("WHILE", 1) \/ Has("FOREACH", 1) \/ Has("FOR", 3)
           \/ outcome = "run" /\ Top.kind = "FUNC_DEF" /\ Top.i = 1
        /\ OpenBody(pos)

\* The token behind the body's last one decides; nothing says there is one.
NoElse == /\ Has("IF", 2) /\ Peek2 \notin {"else", "past"}
          /\ Give(Node("IF", "", Top.at, Nodes))
ElseIf == /\ Has("IF", 2) /\ Peek2 = "else" /\ At(pos + 2) = "if"
          /\ Begin(Call("COND", pos), Append(calls, Call("IF", pos + 2)), 3)
Else == Has("IF", 2) /\ Peek2 = "else" /\ At(pos + 2) # "if" /\ OpenBody(pos + 2)

-----------------------------------------------------------------------------
(* parse_body: the end of a statement and of a body.                       *)

BodyNode(nodes) == Node("BODY", "", Top.at, nodes)

Leave ==      \* parse_body returns; import adds the statements to its body's
  LET below == Front(calls)
  IN  IF below = <<>>
      THEN outcome' = "done" /\ ast' = BodyNode(Nodes) /\ UNCHANGED <<toks, pos, calls>>
      ELSE IF Top.kind # "Prog" THEN Give(BodyNode(Nodes))
      ELSE /\ calls' = [below EXCEPT ![Len(below)].nodes = @ \o Nodes]
           /\ toks' = Top.from /\ pos' = Top.back
           /\ UNCHANGED <<outcome, ast>>

BodyEnd == Looks /\ AtClose /\ Leave

Parsed1(kind) == outcome = "run" /\ Top.kind = kind /\ Top.i = 1

\* slip: a body without braces takes the token its statement ended at.
ArrowEndTakes == /\ Parsed1("Arrow")
                 /\ LET below == Front(calls)
                    IN  /\ calls' = [below EXCEPT ![Len(below)] = With(@, BodyNode(Nodes))]
                        /\ pos' = pos + 1 /\ UNCHANGED <<toks, outcome, ast>>
ArrowEnd == Parsed1("Arrow") /\ Give(BodyNode(Nodes))

ArrowEqEnd ==
  /\ Parsed1("ArrowEq")
  /\ \/ Nodes = <<>> /\ Ends("fault")
     \/ /\ Nodes # <<>> /\ Last(Nodes).kind # "VAR_MUT"
        /\ Ends("error")
     \/ /\ Nodes # <<>> /\ Last(Nodes).kind = "VAR_MUT"
        /\ Give(BodyNode(<<Node("RET", "", Top.at, Last(Nodes).args)>>))

\* The statement's last token is skipped, whatever it is.
StmtEnd == /\ \/ Parsed1("Prog") \/ Parsed1("Block")
           /\ calls' = SetTop([Top EXCEPT !.i = 0]) /\ pos' = pos + 1
           /\ UNCHANGED <<toks, outcome, ast>>

\* A token is asked for that the file does not have.
PastEnd == /\ outcome = "run"
           /\ \/ Top.kind \in Bodies /\ Top.i = 0 /\ pos > Len(toks)
              \/ Has("IF", 2) /\ Peek2 = "past"
           /\ Ends("past")

-----------------------------------------------------------------------------
(* After an error: the call at the top returns.                            *)

Returning == outcome = "error" /\ calls # <<>>
Caller == IF Len(calls) > 1 THEN calls[Len(calls) - 1].kind ELSE "parse"

\* slip: parse_var_mut returns NULL too.
GivesNullMut == Top.kind \in {"FOR", "FUNC_DEF"} => Top.i # 2

\* parse_for_stmt and parse_func_def do not ask how their body ended.
GivesNull == CASE Top.kind \in {"FOR", "FUNC_DEF"} -> Top.i # 2
               [] Top.kind \in {"VAR_MUT", "RET"} -> FALSE
               [] OTHER -> TRUE

\* parse_expr skips the token of a part, parse_body that of a statement and
\* looks at the next; only a statement that begins with no identifier is not
\* skipped.
SkipsPart == Top.kind \in Sequences \cup {"PARS"}
SkipsStmt == /\ Caller \in {"Prog", "Block"} /\ Top.kind \notin Bodies
             /\ Top.kind = "VAR_MUT" => At(Top.at) \in Id

OfImport == Top.kind = "Prog" /\ Len(calls) > 1

\* slip: the importer goes on at the token number the file has failed at.
ImporterAtFailure == pos

\* The importer stands at the file's name still.
ImporterAt == Top.back - 1

Unwind ==
  /\ Returning
  /\ ~(Caller = "ArrowEq" /\ Top.kind \notin Bodies /\ GivesNull)
  /\ pos + (IF SkipsStmt THEN 1 ELSE 0) <= Len(toks) \/ ~(SkipsPart \/ SkipsStmt)
  /\ calls' = Front(calls)
  /\ pos' = IF OfImport THEN ImporterAt
            ELSE pos + (IF SkipsPart \/ SkipsStmt THEN 1 ELSE 0)
  /\ toks' = IF OfImport THEN Top.from ELSE toks
  /\ UNCHANGED <<outcome, ast>>

UnwindPast == /\ Returning /\ (SkipsPart \/ SkipsStmt)
              /\ pos + (IF SkipsStmt THEN 1 ELSE 0) > Len(toks)
              /\ Ends("past")

\* => looks at the statement without asking whether there is one.
UnwindNull == /\ Returning /\ Caller = "ArrowEq" /\ Top.kind \notin Bodies /\ GivesNull
              /\ Ends("fault")

-----------------------------------------------------------------------------
ParserInit == /\ \E input \in Inputs : toks = Append(input, "EOF")
              /\ pos = 1 /\ calls = <<Call("Prog", 1)>>
              /\ outcome = "run" /\ ast = NULL

Over == outcome \in {"done", "fault", "past", "overflow"} \/ calls = <<>>
Rests == Over /\ UNCHANGED vars

ParserNext ==
  \/ VarDef \/ VarMut \/ Ret \/ If \/ While \/ Jump \/ For \/ Fn \/ Import
  \/ Complete \/ ForCond \/ ForMut \/ Param \/ BadParam \/ ParamsEnd
  \/ Body \/ NoElse \/ ElseIf \/ Else
  \/ BodyEnd \/ ArrowEnd \/ ArrowEqEnd \/ StmtEnd \/ PastEnd
  \/ Unwind \/ UnwindPast \/ UnwindNull
  \/ ExprNext
  \/ Rests

ParserSpec == ParserInit /\ [][ParserNext]_vars /\ WF_vars(ParserNext)
-----------------------------------------------------------------------------
\* NULL is dereferenced for a statement only behind =>, when that is followed by
\* no expression, and for a part of an expression only where brackets are empty.
FaultsOnStatement == outcome = "fault" =>
  \/ EmptyBrackets
  \/ \E k \in 1..Len(toks) - 1 :
       /\ toks[k] = "=>"
       /\ \/ toks[k + 1] \in {"if", "while", "for", "fn", "import"}
          \/ toks[k + 1] \in Id /\ At(k + 2) = ":="

\* While there is no error, a token behind the end of a file is asked for only
\* where the file ends in a break or an import that lacks its ";": however many
\* calls that skip a token unread, or look one further for an else, end there.
Unfinished == At(Len(toks) - 1) = "break" \/ At(Len(toks) - 2) = "import"
StaysInFile == [][outcome = "run" /\ outcome' = "past" => Unfinished]_vars
=============================================================================
