---------------------------- MODULE MCStmtParser ----------------------------
(* Instances of StmtParser for TLC: programs put together from statements,  *)
(* the texts with one token of them missing or replaced, and every sequence *)
(* of at most N tokens.                                                     *)
EXTENDS StmtGrammar

CONSTANTS N, M

\* h is no program, and longer than most texts that import it.
MCFiles == [f |-> <<"a", ";", "break", ";", "EOF">>,
            h |-> [k \in 1..16 |-> IF k % 2 = 1 THEN "a" ELSE ";"] \o <<"if", ";", "EOF">>,
            g |-> <<"a", ";", "import", "g", ";", "EOF">>]

Exprs == {<<"a">>, <<"1", "+", "a">>}
Simple == {e \o <<";">> : e \in Exprs} \cup
          {<<"a", ":=", "1", ";">>, <<"return", "a", ";">>, <<"break", ";">>,
           <<"import", "f", ";">>}
Blocks(S) == {<<"{">> \o s \o <<"}">> : s \in S \cup {<<>>}} \cup {<<"->">> \o s : s \in S}
               \cup {<<"=>", "a", ";">>}
Headed(B) ==
  {h \o b : h \in {<<"if", "a">>, <<"while", "1">>, <<"for", "a", "in", "a">>,
                   <<"for", "a", ":=", "1", ";", "a", ";", "a">>,
                   <<"for", "a", ";", "1", ";", "1">>,
                   <<"fn", "a", "(", ")">>, <<"fn", "a", "(", "a", ",", "...", ")">>},
           b \in B}
Elses(B) == {<<"else">> \o b : b \in B} \cup {<<"else", "if", "1">> \o b : b \in B}

Flat == Headed(Blocks(Simple))
Chains == {<<"if", "a">> \o b \o e : b \in Blocks(Simple), e \in Elses(Blocks({<<"a", ";">>}))}
Richer ==
  {<<"if">> \o e \o <<"->", "a", ";">> :
     e \in {<<"a", "[", "-", "1", "]">>, <<"!", "[", "1", "]">>, <<"a", "=", "a", "(", "1", ")">>}}
Nested == Headed(Blocks({s \in Flat \cup Chains : Len(s) <= M}))
MCPrograms == Simple \cup Richer \cup Flat \cup Chains \cup Nested
                \cup {s \o t : s \in Flat, t \in {<<"a", ";">>, <<"break", ";">>}}

Missing(t) == {SubSeq(t, 1, k - 1) \o SubSeq(t, k + 1, Len(t)) : k \in DOMAIN t}
Some == {"a", ";", "{", "}", "->", "=>", "else", "if", "in", "break", "import", ":=", ","}
Replaced(t) == {[t EXCEPT ![k] = x] : k \in DOMAIN t, x \in Some}
MCBroken == UNION {{[t EXCEPT ![k] = "h"] : k \in {j \in DOMAIN t : t[j] = "f"}} : t \in MCPrograms}
Sources ==
  MCPrograms \cup MCBroken
    \cup UNION {Missing(t) \cup Replaced(t) : t \in {s \in MCPrograms : Len(s) <= M}}
    \cup {<<"return", "(", ")", "[", "a", ";">>}
    \cup UNION {[1..n -> Some \cup {"1", "while", "for", "fn", "return", "f", "g", "(", ")"}] :
                  n \in 0..N}
=============================================================================
