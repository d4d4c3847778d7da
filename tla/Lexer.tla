------------------------------- MODULE Lexer -------------------------------
(***************************************************************************)
(* The lexer, src/lexer.c: lexer_next, which skips white space, line ends  *)
(* and comments and reads one token, and the look-ahead lexer_peek and     *)
(* lexer_peek2, which read on and put the Lexer struct back.               *)
(*                                                                         *)
(* A source text is a sequence of characters, one-character strings, ended *)
(* by a zero byte; nothing is known of the memory behind it.  Every turn of*)
(* a loop of lexer_next is a step: each of them looks at one character and *)
(* relies on itself to stop at the end of the text.                        *)
(*                                                                         *)
(* A token keeps its kind, the place of its first and last character and   *)
(* its location; its data is the text between the two.                     *)
(***************************************************************************)
EXTENDS Integers, Sequences, FiniteSets

CONSTANTS Texts    \* the source texts that are read

NUL == "NUL"
Quote == "\""

Digit == {"0", "1", "2", "3", "4", "5", "6", "7", "8", "9"}
Letter == {"a", "b", "c", "d", "e", "f", "g", "h", "i", "j", "k", "l", "m", "n",
           "o", "p", "q", "r", "s", "t", "u", "v", "w", "x", "y", "z"}
Blank == {" ", "\t"}
Single == {"{", "}", "(", ")", ";", ",", "[", "]", "%", "#", "^", "~", ".", "+",
           "-", "*", "/", "!", "&", "|", ">", "<", "=", ":"}
Pair == {<<"+", "=">>, <<"-", "=">>, <<"-", ">">>, <<"*", "=">>, <<"/", "=">>,
         <<"!", "=">>, <<"&", "&">>, <<"|", "|">>, <<">", "=">>, <<">", ">">>,
         <<"<", "=">>, <<"<", "<">>, <<"=", "=">>, <<"=", ">">>, <<":", "=">>}
Keyword == {<<"f", "o", "r">>, <<"w", "h", "i", "l", "e">>, <<"i", "f">>,
            <<"e", "l", "s", "e">>, <<"e", "x", "t", "e", "r", "n">>,
            <<"t", "r", "u", "e">>, <<"f", "a", "l", "s", "e">>,
            <<"b", "r", "e", "a", "k">>, <<"c", "o", "n", "t", "i", "n", "u", "e">>,
            <<"r", "e", "t", "u", "r", "n">>, <<"i", "m", "p", "o", "r", "t">>,
            <<"f", "n">>, <<"n", "o", "n", "e">>}
InString == {"\\", "0", "n", "r", "t", Quote}    \* what may follow a backslash
InChar == {"\\", "0", "n", "r", "t", "'"}

Char == Digit \cup Letter \cup Blank \cup Single
          \cup {"_", "\n", "\r", Quote, "\\", "'", "@"}   \* @: any other one

ASSUME TextAssumption == Texts \subseteq Seq(Char)

VARIABLES
  text,      \* the source
  lex,       \* the Lexer: cur_char, line_num, line_start, line_char
  mode,      \* the loop of lexer_next that runs; "idle" between two calls
  call,      \* what the call still has to do: "next", "peek" or "peek2"
  saved,     \* the copy lexer_peek puts back
  tokens     \* what lexer_next has returned

vars == <<text, lex, mode, call, saved, tokens>>

-----------------------------------------------------------------------------
End == Len(text) + 1      \* where the zero byte is
Ch(k) == IF k \in DOMAIN text THEN text[k] ELSE NUL
At(m) == mode = m /\ lex.cur <= End
Cur == Ch(lex.cur)
After == Ch(lex.cur + 1)

Move(n, m) == /\ lex' = [lex EXCEPT !.cur = @ + n] /\ mode' = m
              /\ UNCHANGED <<text, call, saved, tokens>>

Token(kind, last) ==
  [kind |-> kind, from |-> lex.char, to |-> last, line |-> lex.line, start |-> lex.start]

\* lexer_next begins: cur_loc.line_char = cur_char.  The parser may have asked
\* for a token behind the last one ("past"), or the cursor has left the text.
Begin(l) == IF l.cur <= End THEN [l EXCEPT !.char = l.cur] ELSE l
Enter(l, ended) == IF ended THEN "past" ELSE IF l.cur <= End THEN "scan" ELSE "beyond"

NoLexer == [cur |-> 1, line |-> 0, start |-> 1, char |-> 1]   \* lexer_from_str

\* slip: lexer_peek puts the character back and forgets the line.
PutBackCursor == [lex EXCEPT !.cur = saved.cur, !.char = saved.char]
PutBack == saved

\* A token is complete: lexer_next returns, which for a peek is not the end.
Emit(kind, last) ==
  LET behind == [lex EXCEPT !.cur = last + 1]
  IN  /\ UNCHANGED text
      /\ \/ /\ call = "next"
            /\ tokens' = Append(tokens, Token(kind, last))
            /\ lex' = behind /\ mode' = "idle"
            /\ UNCHANGED <<call, saved>>
         \/ /\ call = "peek2"
            /\ call' = "peek"
            /\ mode' = Enter(behind, kind = "EOF") /\ lex' = Begin(behind)
            /\ UNCHANGED <<tokens, saved>>
         \/ /\ call = "peek"
            /\ lex' = PutBack /\ mode' = "idle"
            /\ call' = "next" /\ saved' = NoLexer
            /\ UNCHANGED tokens

\* The parser asks for a token.
Ended == tokens # <<>> /\ tokens[Len(tokens)].kind = "EOF"
Call(c) == /\ mode = "idle" /\ call' = c
           /\ mode' = Enter(lex, Ended)
           /\ saved' = IF c = "next" THEN NoLexer ELSE lex
           /\ lex' = Begin(lex)
           /\ UNCHANGED <<text, tokens>>

-----------------------------------------------------------------------------
(* lexer_next between two tokens.  It calls itself after what it skips.    *)

Again(l, m) == lex' = Begin(l) /\ mode' = m /\ UNCHANGED <<text, call, saved, tokens>>

\* slip: the call that skips a blank does not skip it.
SkipBlankStays == At("scan") /\ Cur \in Blank /\ Again(lex, "scan")
\* slip: what follows a blank is skipped with it.
SkipBlankTwo == At("scan") /\ Cur \in Blank /\ Again([lex EXCEPT !.cur = @ + 2], "scan")
SkipBlank == At("scan") /\ Cur \in Blank /\ Again([lex EXCEPT !.cur = @ + 1], "scan")

\* slip: a "\r" is taken for a "\r\n".
NewLineLong ==
  /\ At("scan") /\ Cur \in {"\r", "\n"}
  /\ LET behind == lex.cur + (IF Cur = "\r" THEN 2 ELSE 1)
     IN  Again([cur |-> behind, line |-> lex.line + 1, start |-> behind,
               char |-> lex.char], "scan")

NewLine ==
  /\ At("scan") /\ Cur \in {"\r", "\n"}
  /\ LET behind == lex.cur + (IF Cur = "\r" /\ After = "\n" THEN 2 ELSE 1)
     IN  Again([cur |-> behind, line |-> lex.line + 1, start |-> behind,
               char |-> lex.char], "scan")

Comment == At("scan") /\ Cur = "/" /\ After = "/" /\ Move(0, "comment")
CommentChar == At("comment") /\ Cur # "\n" /\ Move(1, "comment")
CommentEnd == At("comment") /\ Cur = "\n" /\ Again(lex, "scan")

-----------------------------------------------------------------------------
(* The tokens.                                                             *)

EndOfFile == At("scan") /\ Cur = NUL /\ Emit("EOF", lex.cur)

OperatorLength(k) == IF <<Ch(k), Ch(k + 1), Ch(k + 2)>> = <<".", ".", ".">> THEN 3
                     ELSE IF <<Ch(k), Ch(k + 1)>> \in Pair THEN 2 ELSE 1

Operator == /\ At("scan") /\ Cur \in Single /\ ~(Cur = "/" /\ After = "/")
            /\ Emit("OP", lex.cur + OperatorLength(lex.cur) - 1)

Number == At("scan") /\ Cur \in Digit /\ Move(0, "number")
NumberChar == At("number") /\ After \in Digit \cup Letter \cup {"."} /\ Move(1, "number")
NumberEnd ==
  /\ At("number") /\ After \notin Digit \cup Letter \cup {"."}
  /\ Emit(IF \E k \in lex.char..lex.cur : Ch(k) = "." THEN "FLOAT" ELSE "INT", lex.cur)

String == At("scan") /\ Cur = Quote /\ Move(1, "string")
StringChar == At("string") /\ Cur \notin {Quote, "\\", NUL} /\ Move(1, "string")

\* slip: one character too many is skipped.
StringEscapeThree == At("string") /\ Cur = "\\" /\ After \in InString /\ Move(3, "string")

StringEscape == At("string") /\ Cur = "\\" /\ After \in InString /\ Move(2, "string")
StringBad == At("string") /\ Cur = "\\" /\ After \notin InString /\ Emit("ERR", lex.cur)
\* The text ends first: "unclosed string" is overwritten with the string.
StringEnd == At("string") /\ Cur \in {Quote, NUL} /\ Emit("STRING", lex.cur)

Character == At("scan") /\ Cur = "'" /\ Move(1, "char")
CharBody == At("char") /\ Cur # "\\" /\ Move(1, "quote")
CharEscape == At("char") /\ Cur = "\\" /\ After \in InChar /\ Move(2, "quote")
CharBad == At("char") /\ Cur = "\\" /\ After \notin InChar /\ Emit("ERR", lex.cur + 1)
CharEnd == At("quote") /\ Emit(IF Cur = "'" THEN "CHAR" ELSE "ID", lex.cur)

\* slip: what follows the keyword is not looked at.
StandsAnyhow(word, k) == \A n \in DOMAIN word : Ch(k + n - 1) = word[n]

\* is_tok: the keyword stands here and no letter follows.
Stands(word, k) == /\ \A n \in DOMAIN word : Ch(k + n - 1) = word[n]
                   /\ Ch(k + Len(word)) \notin Letter \cup {"_"}

ReadKeyword == /\ At("scan") /\ Cur \in Letter
               /\ \E word \in Keyword : /\ Stands(word, lex.cur)
                                       /\ Emit("KEYWORD", lex.cur + Len(word) - 1)

Word == /\ At("scan") /\ Cur \in Letter \cup {"_"}
        /\ ~\E word \in Keyword : Stands(word, lex.cur)
        /\ Move(1, "word")
WordChar == At("word") /\ Cur \in Letter \cup Digit \cup {"_"} /\ Move(1, "word")

WordEnd == At("word") /\ Cur \notin Letter \cup Digit \cup {"_"} /\ Emit("ID", lex.cur - 1)

Unknown == At("scan") /\ Cur \in {"\\", "@"} /\ Emit("ERR", lex.cur)

\* A loop reads behind the zero byte, where anything may stand.
Beyond == /\ mode \notin {"idle", "beyond", "past"} /\ lex.cur > End
          /\ mode' = "beyond" /\ UNCHANGED <<text, lex, call, saved, tokens>>

-----------------------------------------------------------------------------
Init == /\ text \in Texts /\ lex = NoLexer /\ saved = NoLexer
        /\ mode = "idle" /\ call = "next" /\ tokens = <<>>

\* One step of lexer_next.
Scan ==
  \/ SkipBlank \/ NewLine \/ Comment \/ CommentChar \/ CommentEnd
  \/ EndOfFile \/ Operator \/ Number \/ NumberChar \/ NumberEnd
  \/ String \/ StringChar \/ StringEscape \/ StringBad \/ StringEnd
  \/ Character \/ CharBody \/ CharEscape \/ CharBad \/ CharEnd
  \/ ReadKeyword \/ Word \/ WordChar \/ WordEnd \/ Unknown
  \/ Beyond

Stopped == mode \in {"beyond", "past"} /\ UNCHANGED vars

Next == \/ \E c \in {"next", "peek", "peek2"} : Call(c)
        \/ Scan
        \/ Stopped

Spec == Init /\ [][Next]_vars /\ WF_vars(Scan)

-----------------------------------------------------------------------------
(* What the text says, without the scanner.                                *)

InComment(a, k) == \E j \in a..k :    \* in a comment that begins at a or later
  Ch(j) = "/" /\ Ch(j + 1) = "/" /\ \A i \in j..k : Ch(i) # "\n"
Skipped(a, b) == \A k \in a..b : Ch(k) \in Blank \cup {"\n", "\r"} \/ InComment(a, k)

Returned == IF mode = "idle" THEN DOMAIN tokens ELSE {}
Newest == Len(tokens)
Before(n) == IF n = 1 THEN 0 ELSE tokens[n - 1].to
LineEnds(n) ==      \* in what is skipped before token n
  {k \in Before(n) + 1..tokens[n].from - 1 :
     \/ Ch(k) = "\n"
     \/ Ch(k) = "\r" /\ Ch(k + 1) # "\n" /\ ~InComment(Before(n) + 1, k)}

Escaped(a, k) ==      \* an odd number of backslashes before k, all behind a
  \E j \in a + 1..k - 1 : /\ \A i \in j..k - 1 : Ch(i) = "\\"
                          /\ (j = a + 1 \/ Ch(j - 1) # "\\")
                          /\ (k - j) % 2 = 1

\* What begins at a is not closed by the text.
OpenComment(a) == /\ Ch(a) = "/" /\ Ch(a + 1) = "/"
                  /\ \A k \in a..Len(text) : Ch(k) # "\n"
OpenString(a) == Ch(a) = Quote /\ \A k \in a + 1..Len(text) : Ch(k) = Quote => Escaped(a, k)
OpenChar(a) == /\ Ch(a) = "'"
               /\ \/ a >= Len(text) - 1
                  \/ a = Len(text) - 2 /\ Ch(a + 1) = "\\"

IsString(a, b) == /\ a < b /\ Ch(a) = Quote /\ Ch(b) = Quote /\ ~Escaped(a, b)
                  /\ \A k \in a + 1..b - 1 : IF Escaped(a, k) THEN Ch(k) \in InString
                                             ELSE Ch(k) # Quote
IsChar(a, b) == /\ Ch(a) = "'" /\ Ch(b) = "'"
                /\ \/ b = a + 2 /\ Ch(a + 1) # "\\"
                   \/ b = a + 3 /\ Ch(a + 1) = "\\" /\ Ch(a + 2) \in InChar
Body(a, b, set) == \A k \in a + 1..b : Ch(k) \in set
IsWord(a, b) == Ch(a) \in Letter \cup {"_"} /\ Body(a, b, Letter \cup Digit \cup {"_"})
IsNumber(a, b) == Ch(a) \in Digit /\ Body(a, b, Letter \cup Digit \cup {"."})
IsOperator(a, b) ==
  \/ a = b /\ Ch(a) \in Single
  \/ b = a + 1 /\ <<Ch(a), Ch(b)>> \in Pair
  \/ b = a + 2 /\ <<Ch(a), Ch(a + 1), Ch(b)>> = <<".", ".", ".">>
Lexeme(a, b) == \/ IsWord(a, b) \/ IsNumber(a, b) \/ IsOperator(a, b)
                \/ IsString(a, b) \/ IsChar(a, b)
OfKind(t) ==
  CASE t.kind = "EOF" -> t.from = End /\ t.to = End
    [] t.kind = "OP" -> IsOperator(t.from, t.to)
    [] t.kind \in {"INT", "FLOAT"} ->
         IsNumber(t.from, t.to) /\ (t.kind = "FLOAT" <=> \E k \in t.from..t.to : text[k] = ".")
    [] t.kind \in {"ID", "KEYWORD"} ->
         IsWord(t.from, t.to) /\ (t.kind = "KEYWORD" <=> SubSeq(text, t.from, t.to) \in Keyword)
    [] t.kind = "STRING" -> IsString(t.from, t.to)
    [] t.kind = "CHAR" -> IsChar(t.from, t.to)
    [] t.kind = "ERR" -> ~Lexeme(t.from, t.to)

-----------------------------------------------------------------------------
LexerType == [cur : 1..End + 1, line : Nat, start : 1..End, char : 1..End]
Kinds == {"EOF", "OP", "INT", "FLOAT", "STRING", "CHAR", "ID", "KEYWORD", "ERR"}
Modes == {"idle", "scan", "comment", "number", "string", "char", "quote", "word",
          "beyond", "past"}

TokenType == [kind : Kinds, from : 1..End, to : 0..End, line : Nat, start : 1..End]

\* The fields of the Lexer and of the tokens are places of the text; the cursor
\* gets one character behind the zero byte at most.
TypeOK == /\ text \in Texts /\ lex \in LexerType /\ saved \in LexerType
          /\ tokens \in Seq(TokenType)
          /\ mode \in Modes /\ call \in {"next", "peek", "peek2"}

\* The cursor leaves the buffer (lexer.c:170, 286, 333) only in a comment or
\* literal that the text does not close, or right behind it: a text that
\* closes them is read within its bounds, whatever is peeked.
Open(a) == OpenComment(a) \/ OpenString(a) \/ OpenChar(a)
InBuffer == mode = "beyond" => Open(lex.char)

\* Nothing is lost between tokens: what lies before, between and behind the
\* tokens returned is white space and comments, also after errors and peeks.
NothingLost == \A n \in Returned :
  /\ Before(n) < tokens[n].from /\ tokens[n].from <= tokens[n].to
  /\ Skipped(Before(n) + 1, tokens[n].from - 1)
  /\ lex.cur = tokens[Newest].to + 1

\* A token is a lexeme of its kind and the longest one that begins there.
\* Not so for a keyword followed by a digit, which is_tok takes for a keyword
\* (lexer.c:64), and literals the text does not close.
OpenAt(t) == \/ t.kind = "STRING" /\ t.to = End
             \/ t.kind = "ID" /\ Ch(t.from) = "'"
LongestMatch == \A n \in Returned \cap {Newest} :
  LET t == tokens[n]
  IN  ~OpenAt(t) =>
        /\ OfKind(t)
        /\ t.kind \notin {"EOF", "ERR"} =>
             \A k \in t.to + 1..Len(text) : Lexeme(t.from, k) =>
               t.kind = "KEYWORD" /\ Ch(t.to + 1) \in Digit

\* The line of a token is the number of line ends skipped before it, and its
\* line starts behind the last of them: "\r\n" is one, a "\r" in a comment
\* none, those within strings do not count.  Peeks count nothing twice.
Located == \A n \in Returned \cap {Newest} :
  LET all == UNION {LineEnds(k) : k \in 1..n}
  IN  /\ tokens[n].line = Cardinality(all)
      /\ tokens[n].start = IF all = {} THEN 1
                           ELSE (CHOOSE k \in all : \A j \in all : j <= k) + 1

\* Every call returns, or has left the buffer.
Answers == mode \notin {"idle", "beyond", "past"} ~> mode \in {"idle", "beyond", "past"}
=============================================================================
