----------------------------- MODULE StmtGrammar ----------------------------
(***************************************************************************)
(* How a program is written: the texts a syntax tree stands for.  It is    *)
(* what StmtParser is held against and knows nothing of calls and skipped  *)
(* tokens: every token of a text belongs to a part of the tree or closes   *)
(* one.                                                                    *)
(***************************************************************************)
EXTENDS StmtParser

CONSTANTS
  Programs,   \* texts that are programs
  Broken      \* texts that would be if the files they import were

\* Expressions.  Parentheses leave no trace in a tree.
RECURSIVE Joined(_), Spelled(_)
Joined(ns) == IF ns = <<>> THEN <<>>
              ELSE Spelled(Head(ns)) \o (IF Tail(ns) = <<>> THEN <<>> ELSE <<",">>)
                     \o Joined(Tail(ns))
Spelled(n) ==
  CASE n = NULL -> <<>>
    [] n.kind \in {"VAR", "LIT", "VAR_ANY"} -> <<n.op>>
    [] n.kind = "UN_EXPR" -> <<n.op>> \o Spelled(n.args[1])
    [] n.kind = "BIN_EXPR" -> Spelled(n.args[1]) \o <<n.op>> \o Spelled(n.args[2])
                                \o (IF n.op = "[" THEN <<"]">> ELSE <<>>)
    [] n.kind = "LIST" -> <<"[">> \o Joined(n.args) \o <<"]">>
    [] n.kind = "DICT" -> <<"{">> \o Joined(n.args) \o <<"}">>
    [] n.kind = "FUNC_CALL" -> <<n.op, "(">> \o Joined(n.args) \o <<")">>

\* Statements with what ends them, and their bodies in each of the forms.
RECURSIVE Texts(_), BodyTexts(_), Listed(_), Plain(_)

Plain(ns) == IF ns = <<>> THEN {<<>>}
             ELSE {t \o r : t \in Texts(Head(ns)), r \in Plain(Tail(ns))}

Items(ns) ==      \* texts of one statement that stands for ns
  (IF Len(ns) = 1 THEN Texts(ns[1]) ELSE {})
    \cup {<<"import", f, ";">> : f \in {g \in DOMAIN Files : Front(Files[g]) \in Plain(ns)}}

Listed(ns) == IF ns = <<>> THEN {<<>>}
  ELSE UNION {{t \o r : t \in Items(SubSeq(ns, 1, k)),
                        r \in Listed(SubSeq(ns, k + 1, Len(ns)))} : k \in 1..Len(ns)}

BodyTexts(b) ==
  {<<"{">> \o t \o <<"}">> : t \in Listed(b.args)}
    \cup {<<"->">> \o t : t \in Items(b.args)}
    \cup {<<"=>">> \o Spelled(r.args[1]) \o <<";">> :
            r \in {n \in Range(b.args) : n.kind = "RET" /\ Len(b.args) = 1}}

Texts(n) ==
  CASE n.kind = "VAR_MUT" -> {Spelled(n.args[1]) \o <<";">>}
    [] n.kind = "VAR_DEF" -> {<<n.op, ":=">> \o Spelled(n.args[1]) \o <<";">>}
    [] n.kind = "RET" -> {<<"return">> \o Spelled(n.args[1]) \o <<";">>}
    [] n.kind = "JUMP" -> {<<"break", ";">>}
    [] n.kind = "WHILE" -> {<<"while">> \o Spelled(n.args[1]) \o b : b \in BodyTexts(n.args[2])}
    [] n.kind = "FOREACH" -> {<<"for", n.op, "in">> \o Spelled(n.args[1]) \o b :
                                b \in BodyTexts(n.args[2])}
    [] n.kind = "FOR" ->
         {<<"for">> \o v \o Spelled(n.args[2]) \o <<";">> \o Spelled(n.args[3].args[1]) \o b :
            v \in Texts(n.args[1]), b \in BodyTexts(n.args[4])}
    [] n.kind = "FUNC_DEF" -> {<<"fn", n.op, "(">> \o Joined(Front(n.args)) \o <<")">> \o b :
                                 b \in BodyTexts(Last(n.args))}
    [] n.kind = "IF" ->
         {<<"if">> \o Spelled(n.args[1]) \o b \o e :
            b \in BodyTexts(n.args[2]),
            e \in IF Len(n.args) = 2 THEN {<<>>}
                  ELSE {<<"else">> \o x : x \in IF n.args[3].kind = "IF" THEN Texts(n.args[3])
                                                ELSE BodyTexts(n.args[3])}}

-----------------------------------------------------------------------------
Input == Front(toks)
Somewhere(P(_)) == \E k \in DOMAIN toks : P(k)

\* What is accepted although it is not written as it is meant: a token other
\* than ";" behind break or import, and a "}" as a body, are skipped unread;
\* any identifier stands for "in"; commas between parameters may be missing or
\* stand alone; => keeps the last statement of what is imported.
Skips == Somewhere(LAMBDA k :
  \/ At(k) = "break" /\ At(k + 1) # ";"
  \/ At(k) = "import" /\ At(k + 2) # ";"
  \/ At(k) \in {"->", "=>"} /\ At(k + 1) = "}"
  \/ At(k) = "=>" /\ At(k + 1) = "import")
AnyIn == Somewhere(LAMBDA k : At(k) = "for" /\ At(k + 1) \in Id /\ At(k + 2) = "a")
LooseCommas == Somewhere(LAMBDA k :
  \/ At(k) = "," /\ (At(k + 1) \in {",", ")", "]", "}"} \/ At(k - 1) \in {"(", "[", "{"})
  \/ At(k - 1) \in {"(", ","} /\ {At(k), At(k + 1)} \subseteq Id \cup {"..."})
Grouped == Somewhere(LAMBDA k : At(k) = "(" /\ At(k - 1) \notin Id)

\* A program that is accepted is what its tree says, token by token: nothing
\* is skipped, joined to another statement or closed by another's brace.
NothingSkipped == outcome = "done" =>
  \/ Skips \/ AnyIn \/ LooseCommas \/ Grouped
  \/ Input \in Listed(ast.args)

Imports == {n \in 2..Len(calls) : calls[n].kind = "Prog"}
Outermost == IF Imports = {} THEN toks ELSE calls[Min(Imports)].from

\* Every program is accepted, with no token asked for behind its end; and when
\* a file it imports is no program there is an error and nothing else: on the
\* way back no token behind the end of the importer is skipped, no NULL read.
ProgramsAccepted ==
  /\ outcome \notin {"run", "done"} => Input \notin Programs
  /\ outcome \notin {"run", "error"} => Front(Outermost) \notin Broken

\* Parsing ends, and the C stack holds its calls unless the input imports a file
\* that imports itself, directly or through others.
ImportsIn(t) == {t[k + 1] : k \in {j \in 1..Len(t) - 1 : t[j] = "import" /\ t[j + 1] \in DOMAIN Files}}
Reach[n \in 0..Cardinality(DOMAIN Files)] ==
  IF n = 0 THEN [f \in DOMAIN Files |-> ImportsIn(Files[f])]
  ELSE [f \in DOMAIN Files |-> Reach[n - 1][f]
          \cup UNION {Reach[n - 1][g] : g \in Reach[n - 1][f]}]
Cyclic == LET reaches == Reach[Cardinality(DOMAIN Files)]
          IN  \E f \in ImportsIn(Outermost) : \E g \in {f} \cup reaches[f] : g \in reaches[g]
Parses == <>(Over /\ (outcome = "overflow" => Cyclic))
=============================================================================
