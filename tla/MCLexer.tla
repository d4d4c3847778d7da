------------------------------ MODULE MCLexer ------------------------------
(* Instances of Lexer for TLC: every text of at most N characters, every *)
(* one of at most M characters of words, numbers and operators, of line    *)
(* ends and comments, and of a literal.                                    *)
EXTENDS Lexer

CONSTANTS N, M

Alphabet == {"i", "f", "0", ".", "=", "/", " ", "\r", "\n", Quote, "'", "\\", "@"}
Plain == {"i", "f", "0", ".", "=", " "}
Lines == {"/", "\r", "\n", "i"}
Quoted == {Quote, "'", "\\", "n"}
Words(alphabet, n) == UNION {[1..k -> alphabet] : k \in 0..n}
Sources == Words(Alphabet, N) \cup Words(Plain, M) \cup Words(Lines, M + 1)
             \cup {<<q>> \o w : q \in {Quote, "'"}, w \in Words(Quoted, M)}
=============================================================================
