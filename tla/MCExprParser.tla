---------------------------- MODULE MCExprParser ----------------------------
(* Instances of ExprParser for TLC: every sequence of at most N tokens, and *)
(* longer ones put together from operands and operators.                    *)
EXTENDS ExprGrammar

CONSTANTS N, M

Arbitrary == UNION {[1..n -> ExprToken \ {";"}] : n \in 0..N}

Built[n \in 0..M] ==
  IF n = 0 THEN {}
  ELSE IF n = 1 THEN {<<"a">>, <<"1">>}
  ELSE LET inner == Built[n - 1]
           inBrackets == IF n = 2 THEN {} ELSE Built[n - 2]
       IN  {<<u>> \o e : u \in {"-", "!"}, e \in inner}
           \cup {<<"(">> \o e \o <<")">> : e \in inBrackets}
           \cup {<<"[">> \o e \o <<"]">> : e \in inBrackets}
           \cup UNION {{l \o <<op>> \o r : l \in Built[k], op \in {"=", "+", "-", "*"},
                                           r \in Built[n - 1 - k]} : k \in 1..n - 2}
           \cup UNION {{<<"a", "[">> \o l \o <<"]">> : l \in Built[n - 3]} : k \in {n} \ 0..3}

Sources == Arbitrary \cup Built[M] \cup Built[M - 1]
\* Sources with an index or a list among them.
Elements == Built[4]
=============================================================================
