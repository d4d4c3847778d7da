---------------------------- MODULE ExprGrammar -----------------------------
(***************************************************************************)
(* What an expression means: which token sequences are expressions and the *)
(* tree that the precedence of the operators gives them.  It is what       *)
(* ExprParser is held against and follows none of its steps: a tree is     *)
(* found from the top, by the operator that binds weakest.                 *)
(*                                                                         *)
(* Operators are left-associative.  From weak to strong: = and :, &&, ==,  *)
(* + and -, *, the index, and the prefixes ! and -, so that -a[0] is the   *)
(* element of -a.  A variable can be indexed, and so can an element.       *)
(***************************************************************************)
EXTENDS ExprParser

\* Nesting depth at token k, a bracket being as deep as what surrounds it.
Opens == {"(", "[", "{"}
Closes == {")", "]", "}"}

Count(s, lo, hi, set) == Cardinality({k \in lo..hi : s[k] \in set})
Depth(s, lo, k) == Count(s, lo, k - 1, Opens)
                   - Count(s, lo, IF s[k] \in Closes THEN k ELSE k - 1, Closes)
Outer(s, lo, hi) == {k \in lo..hi : Depth(s, lo, k) = 0}

Encloses(s, lo, hi) ==    \* the bracket at lo is closed at hi
  /\ lo < hi
  /\ <<s[lo], s[hi]>> \in {<<"(", ")">>, <<"[", "]">>, <<"{", "}">>}
  /\ Outer(s, lo, hi) = {lo, hi}

\* Where a bracket stands for an index: after a variable or another index.
RECURSIVE IsIndex(_, _)
IsIndex(s, k) ==
  /\ s[k] = "[" /\ k > 1
  /\ \/ s[k - 1] = "a"
     \/ \E j \in 1..k - 1 : Encloses(s, j, k - 1) /\ IsIndex(s, j)

EndsOperand(t) == t \in {"a", "1", ")", "]", "}"}
Joints(s, lo, hi) ==      \* the binary operators of s[lo..hi], indexes included
  {k \in Outer(s, lo, hi) \ {lo} :
     \/ s[k] \in Infix /\ EndsOperand(s[k - 1])
     \/ IsIndex(s, k)}

Weakest(s, js) == CHOOSE k \in js :
  \A j \in js : \/ Rank(s[k]) < Rank(s[j])
                \/ Rank(s[k]) = Rank(s[j]) /\ k >= j

Kind(t) == CASE t = "[" -> "LIST" [] t = "{" -> "DICT" [] t = "(" -> "FUNC_CALL"

\* The tree of s[lo..hi]; NULL stands in it where something is missing.
RECURSIVE Tree(_, _, _)
Tree(s, lo, hi) ==
  LET joint == Weakest(s, Joints(s, lo, hi))
      Items(open) ==      \* one comma may precede or follow the items
        LET commas == {k \in open + 1..hi - 1 : Depth(s, open + 1, k) = 0 /\ s[k] = ","}
            cuts == {open, hi} \cup commas
            nextCut(k) == CHOOSE j \in cuts : j > k /\ {m \in cuts : k < m /\ m < j} = {}
            full == {k \in cuts \ {hi} : \/ nextCut(k) > k + 1
                                         \/ k \in commas /\ nextCut(k) # hi}
        IN  [n \in 1..Cardinality(full) |->
               LET k == CHOOSE x \in full : Cardinality({y \in full : y <= x}) = n
               IN  Tree(s, k + 1, nextCut(k) - 1)]
  IN  IF lo > hi THEN NULL
      ELSE IF Joints(s, lo, hi) # {}
      THEN Node("BIN_EXPR", s[joint], joint,
                <<Tree(s, lo, joint - 1),
                  IF s[joint] # "[" THEN Tree(s, joint + 1, hi)
                  ELSE IF Encloses(s, joint, hi) THEN Tree(s, joint + 1, hi - 1)
                  ELSE NULL>>)
      ELSE IF s[lo] \in {"!", "-"} THEN Node("UN_EXPR", s[lo], lo, <<Tree(s, lo + 1, hi)>>)
      ELSE IF lo = hi /\ s[lo] = "a" THEN Node("VAR", s[lo], lo, <<>>)
      ELSE IF lo = hi /\ s[lo] = "1" THEN Node("LIT", s[lo], lo, <<>>)
      ELSE IF s[lo] = "a" /\ s[lo + 1] = "(" /\ Encloses(s, lo + 1, hi)
      THEN Node("FUNC_CALL", s[lo], lo, Items(lo + 1))
      ELSE IF ~Encloses(s, lo, hi) THEN NULL
      ELSE IF s[lo] = "(" THEN Tree(s, lo + 1, hi - 1)
      ELSE Node(Kind(s[lo]), s[lo], lo, Items(lo))

RECURSIVE Complete(_)
Complete(n) == /\ n # NULL
               /\ \A k \in DOMAIN n.args : Complete(n.args[k])
               /\ n.kind = "DICT" => \A k \in DOMAIN n.args :
                    n.args[k].kind = "BIN_EXPR" /\ n.args[k].op = ":"

Parsed == Front(toks)
Meaning == Tree(Parsed, 1, Len(Parsed))
WellFormed == Complete(Meaning)

RECURSIVE Places(_)
Places(n) ==     \* the tokens a tree is made of, in order
  FlattenSeq([k \in DOMAIN n.args |-> Places(n.args[k])]) \o <<n.at>>

-----------------------------------------------------------------------------
\* An expression that is accepted has the tree of its precedence: what
\* parse_expand builds in passes, out of neighbours, is what the table says.
ByPrecedence == outcome = "done" /\ WellFormed => ast = Meaning

\* Expressions are rejected in two cases only: a minus after a prefix, which
\* parse_expr takes for a subtraction, and a list next to an element in
\* parentheses, whose bracket it takes for an index.
MinusAfterPrefix == \E k \in 2..Len(toks) :
  toks[k] = "-" /\ toks[k - 1] \in {"!", "-"}
ListAfterElement == \E k \in 3..Len(toks) :
  toks[k] = "[" /\ toks[k - 1] \in Infix /\ toks[k - 2] = ")"
Accepted == outcome \in {"error", "fault"} /\ WellFormed =>
              MinusAfterPrefix \/ ListAfterElement

\* No token is lost: without parentheses a tree that is accepted and has no
\* empty operand is made of every operand and operator of the input, once.
Marks == {")", "]", "}", ","}
NothingLost ==
  outcome = "done" /\ Complete(ast) /\ "(" \notin Range(toks) =>
    /\ IsInjective(Places(ast))
    /\ Range(Places(ast)) = {k \in DOMAIN Parsed : Parsed[k] \notin Marks}
=============================================================================
