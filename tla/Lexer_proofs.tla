---------------------------- MODULE Lexer_proofs ----------------------------
(***************************************************************************)
(* The lexer's cursor, for every set of texts: the Lexer keeps its types,  *)
(* and lexer_next leaves the buffer only behind what the text does not     *)
(* close.  Its tokens follow in the second part.                          *)
(***************************************************************************)
EXTENDS Lexer, FiniteSetTheorems, TLAPS

-----------------------------------------------------------------------------
(* Texts and characters.                                                   *)

(* The text is finite, and only within it are there characters other than  *)
(* the zero byte.                                                          *)
LEMMA TextFacts ==
  ASSUME text \in Texts
  PROVE  /\ Len(text) \in Nat /\ End = Len(text) + 1
         /\ \A k \in Int : Ch(k) # NUL => k \in 1..Len(text)
         /\ Ch(End) = NUL
<1>1. text \in Seq(Char)
  BY TextAssumption
<1> QED
  BY <1>1 DEF Ch, End

(* Neither of the sets of characters the lexer asks for has the zero byte. *)
LEMMA NoNUL == NUL \notin Digit \cup Letter \cup Blank \cup Single
                          \cup {"_", "\n", "\r", Quote, "\\", "'", "@", "."} \cup InString \cup InChar
  BY DEF NUL, Quote, Digit, Letter, Blank, Single, InString, InChar

(* A keyword is written with characters. *)
LEMMA KeywordFacts ==
  ASSUME NEW word \in Keyword
  PROVE  Len(word) \in Nat \ {0} /\ word[Len(word)] # NUL /\ Len(word) \in DOMAIN word
<1>1. CASE word = <<"f", "o", "r">>
  BY <1>1 DEF NUL
<1>2. CASE word = <<"w", "h", "i", "l", "e">>
  BY <1>2 DEF NUL
<1>3. CASE word = <<"i", "f">>
  BY <1>3 DEF NUL
<1>4. CASE word = <<"e", "l", "s", "e">>
  BY <1>4 DEF NUL
<1>5. CASE word = <<"e", "x", "t", "e", "r", "n">>
  BY <1>5 DEF NUL
<1>6. CASE word = <<"t", "r", "u", "e">>
  BY <1>6 DEF NUL
<1>7. CASE word = <<"f", "a", "l", "s", "e">>
  BY <1>7 DEF NUL
<1>8. CASE word = <<"b", "r", "e", "a", "k">>
  BY <1>8 DEF NUL
<1>9. CASE word = <<"c", "o", "n", "t", "i", "n", "u", "e">>
  BY <1>9 DEF NUL
<1>10. CASE word = <<"r", "e", "t", "u", "r", "n">>
  BY <1>10 DEF NUL
<1>11. CASE word = <<"i", "m", "p", "o", "r", "t">>
  BY <1>11 DEF NUL
<1>12. CASE word = <<"f", "n">>
  BY <1>12 DEF NUL
<1>13. CASE word = <<"n", "o", "n", "e">>
  BY <1>13 DEF NUL
<1> QED
  BY <1>1, <1>2, <1>3, <1>4, <1>5, <1>6, <1>7, <1>8, <1>9, <1>10, <1>11, <1>12, <1>13 DEF Keyword

(* Where an operator of two or three characters stands, there are as many. *)
LEMMA OperatorFacts ==
  ASSUME text \in Texts, NEW k \in 1..Len(text)
  PROVE  OperatorLength(k) \in Nat /\ k + OperatorLength(k) - 1 \in k..Len(text)
<1>1. CASE <<Ch(k), Ch(k + 1), Ch(k + 2)>> = <<".", ".", ".">>
  <2>1. Ch(k + 2) = "."
    BY <1>1
  <2>2. k + 2 \in 1..Len(text)
    BY <2>1, TextFacts DEF NUL
  <2> QED
    BY <1>1, <2>2, TextFacts DEF OperatorLength
<1>2. CASE <<Ch(k), Ch(k + 1)>> \in Pair
  <2>1. Ch(k + 1) # NUL
    BY <1>2 DEF Pair, NUL
  <2> QED
    BY <1>1, <1>2, <2>1, TextFacts DEF OperatorLength
<1> QED
  BY <1>1, <1>2, TextFacts DEF OperatorLength

-----------------------------------------------------------------------------
(* The invariant.                                                          *)

Loops == {"scan", "comment", "number", "string", "char", "quote", "word"}

\* The backslashes before k, in a string that begins at a, are even in number.
Even(a, k) == \E j \in a + 1..k : /\ \A i \in j..k - 1 : Ch(i) = "\\"
                                  /\ j = a + 1 \/ Ch(j - 1) # "\\"
                                  /\ (k - j) % 2 = 0

InComments(a, k) == /\ Ch(a) = "/" /\ Ch(a + 1) = "/"
                    /\ \A i \in a..k - 1 : Ch(i) # "\n"

InStrings(a, k) == /\ Ch(a) = Quote /\ Even(a, k)
                   /\ \A i \in a + 1..k - 1 : Ch(i) = Quote => Escaped(a, i)

\* What a loop knows of the text from line_char to the cursor.
InLoop ==
  /\ mode = "scan" => lex.cur <= End /\ lex.char = lex.cur
  /\ mode = "comment" => lex.char <= lex.cur /\ InComments(lex.char, lex.cur)
  /\ mode = "number" => lex.cur < End
  /\ mode = "word" => lex.cur <= End
  /\ mode = "string" => lex.cur <= End /\ lex.char < lex.cur /\ InStrings(lex.char, lex.cur)
  /\ mode = "char" => lex.cur = lex.char + 1 /\ Ch(lex.char) = "'"
  /\ mode = "quote" => /\ Ch(lex.char) = "'"
                       /\ \/ lex.cur = lex.char + 2
                          \/ lex.cur = lex.char + 3 /\ Ch(lex.char + 1) = "\\"

\* A cursor outside of the text got there behind the last token, or behind
\* something the text does not close; a peek always goes back into it.
Behind ==
  /\ mode = "idle" /\ ~Ended /\ lex.cur > End => Open(lex.char)
  /\ mode = "beyond" => Open(lex.char)
  /\ mode \in Loops /\ call # "next" => saved.cur <= End

IInv == TypeOK /\ InLoop /\ Behind

-----------------------------------------------------------------------------
(* Steps.                                                                  *)

(* What the text does not close stays unclosed. *)
LEMMA OpenStays ==
  ASSUME text' = text, lex'.char = lex.char, Open(lex.char)
  PROVE  Open(lex.char)'
<1>1. /\ End' = End /\ Len(text)' = Len(text)
      /\ \A k : Ch(k)' = Ch(k)
  BY DEF End, Ch
<1>2. CASE OpenComment(lex.char)
  BY <1>1, <1>2 DEF OpenComment, Open, Ch
<1>3. CASE OpenString(lex.char)
  BY <1>1, <1>3 DEF OpenString, Open, Ch, Escaped
<1>4. CASE OpenChar(lex.char)
  BY <1>1, <1>4 DEF OpenChar, Open, Ch
<1> QED
  BY <1>2, <1>3, <1>4 DEF Open

(* A call of lexer_next begins. *)
LEMMA BeginFacts ==
  ASSUME text \in Texts, NEW l \in LexerType
  PROVE  /\ Begin(l) \in LexerType /\ Begin(l).cur = l.cur
         /\ l.cur <= End => Begin(l).char = l.cur
         /\ l.cur > End => Begin(l) = l
<1>1. /\ l = [cur |-> l.cur, line |-> l.line, start |-> l.start, char |-> l.char]
      /\ l.cur \in 1..End + 1 /\ l.line \in Nat /\ l.start \in 1..End /\ l.char \in 1..End
  BY DEF LexerType
<1>2. CASE l.cur <= End
  <2>1. [l EXCEPT !.char = l.cur]
          = [cur |-> l.cur, line |-> l.line, start |-> l.start, char |-> l.cur]
    BY <1>1
  <2>2. Begin(l) = [cur |-> l.cur, line |-> l.line, start |-> l.start, char |-> l.cur]
    BY <1>2, <2>1 DEF Begin
  <2>3. l.cur \in 1..End
    BY <1>1, <1>2, TextFacts
  <2> QED
    BY <1>1, <1>2, <2>2, <2>3, TextFacts DEF LexerType
<1>3. CASE l.cur > End
  BY <1>1, <1>3, TextFacts DEF Begin
<1> QED
  BY <1>1, <1>2, <1>3, TextFacts

(* The cursor is moved. *)
LEMMA MoveFacts ==
  ASSUME text \in Texts, NEW l \in LexerType, NEW c \in 1..End + 1
  PROVE  LET to == [l EXCEPT !.cur = c]
         IN  to \in LexerType /\ to.cur = c /\ to.char = l.char
<1>1. [l EXCEPT !.cur = c] = [cur |-> c, line |-> l.line, start |-> l.start, char |-> l.char]
  BY DEF LexerType
<1>2. l.line \in Nat /\ l.start \in 1..End /\ l.char \in 1..End
  BY DEF LexerType
<1> QED
  BY <1>1, <1>2 DEF LexerType

(* A token that ends within the text, or else is the end of the file or    *)
(* something that is not closed, may be returned.                          *)
LEMMA EmitStep ==
  ASSUME IInv, mode \in Loops, NEW kind \in Kinds, NEW last \in 0..End, Emit(kind, last),
         last = End => kind = "EOF" \/ Open(lex.char)
  PROVE  IInv'
<1> DEFINE behind == [lex EXCEPT !.cur = last + 1]
<1>1. /\ Len(text) \in Nat /\ End = Len(text) + 1 /\ text' = text /\ End' = End
      /\ lex'.char = lex.char /\ Open(lex.char) => Open(lex.char)'
  BY TextFacts, OpenStays DEF Emit, IInv, TypeOK, End
<1>2. /\ behind \in LexerType /\ behind.char = lex.char /\ behind.cur = last + 1
      /\ Begin(behind) \in LexerType /\ Begin(behind).cur = last + 1
      /\ last + 1 <= End => Begin(behind).char = last + 1
      /\ last + 1 > End => Begin(behind).char = lex.char
  <2>1. last + 1 \in 1..End + 1 /\ lex \in LexerType /\ text \in Texts
    BY <1>1 DEF IInv, TypeOK
  <2>2. behind \in LexerType /\ behind.char = lex.char /\ behind.cur = last + 1
    BY <2>1, MoveFacts
  <2> HIDE DEF behind
  <2> QED
    BY <2>1, <2>2, <1>1, BeginFacts
<1> HIDE DEF behind
<1>3. LexerType' = LexerType /\ TokenType' = TokenType
  BY <1>1 DEF LexerType, TokenType
<1>4. CASE call = "next"
  <2>1. /\ tokens' = Append(tokens, Token(kind, last)) /\ lex' = behind /\ mode' = "idle"
        /\ call' = call /\ saved' = saved
    BY <1>4 DEF Emit, behind
  <2>2. Token(kind, last) \in TokenType
    BY <1>1 DEF Token, TokenType, IInv, TypeOK, LexerType
  <2>3. tokens' \in Seq(TokenType) /\ (Ended' <=> kind = "EOF")
    BY <2>1, <2>2 DEF Ended, IInv, TypeOK, Token
  <2>4. TypeOK'
    BY <1>1, <1>2, <1>3, <2>1, <2>3 DEF IInv, TypeOK, Modes
  <2>5. InLoop' /\ Behind'
    BY <1>1, <1>2, <1>4, <2>1, <2>3 DEF InLoop, Behind, Loops
  <2> QED
    BY <2>4, <2>5 DEF IInv
<1>5. CASE call = "peek2"
  <2>1. /\ tokens' = tokens /\ lex' = Begin(behind) /\ call' = "peek" /\ saved' = saved
        /\ mode' = IF kind = "EOF" THEN "past"
                   ELSE IF behind.cur <= End THEN "scan" ELSE "beyond"
    BY <1>5 DEF Emit, Enter, behind
  <2>2. TypeOK'
    BY <1>1, <1>2, <1>3, <2>1 DEF IInv, TypeOK, Modes
  <2>3. /\ mode' = "scan" => last + 1 <= End
        /\ mode' = "beyond" => kind # "EOF" /\ last + 1 > End
    BY <1>1, <1>2, <2>1
  <2>4. InLoop' /\ Behind'
    BY <1>1, <1>2, <1>5, <2>1, <2>3 DEF InLoop, Behind, Loops, IInv
  <2> QED
    BY <2>2, <2>4 DEF IInv
<1>6. CASE call = "peek"
  <2>1. /\ tokens' = tokens /\ lex' = saved /\ mode' = "idle" /\ call' = "next" /\ saved' = NoLexer
    BY <1>6 DEF Emit, PutBack
  <2>2. NoLexer \in LexerType
    BY <1>1 DEF NoLexer, LexerType
  <2>3. TypeOK'
    BY <1>1, <1>3, <2>1, <2>2 DEF IInv, TypeOK, Modes
  <2>4. InLoop' /\ Behind'
    BY <1>1, <1>6, <2>1 DEF InLoop, Behind, Loops, IInv, TypeOK, LexerType
  <2> QED
    BY <2>3, <2>4 DEF IInv
<1> QED
  BY <1>4, <1>5, <1>6 DEF IInv, TypeOK

(* Within the text: at a character, and at one that has another behind it. *)
LEMMA PlaceFacts ==
  ASSUME IInv
  PROVE  /\ text \in Texts /\ Len(text) \in Nat /\ End = Len(text) + 1
         /\ lex \in LexerType /\ lex.cur \in 1..End + 1 /\ lex.char \in 1..End
         /\ lex.line \in Nat /\ lex.start \in 1..End
         /\ Cur # NUL => lex.cur \in 1..Len(text)
         /\ After # NUL => lex.cur + 1 \in 1..Len(text)
  BY TextFacts DEF IInv, TypeOK, LexerType, Cur, After

(* A loop moves on by one or two characters. *)
LEMMA MoveStep ==
  ASSUME IInv, NEW n \in 0..2, NEW m \in Loops \ {"scan"}, mode \in Loops, Move(n, m),
         lex.cur + n <= End + 1, InLoop'
  PROVE  IInv'
<1>1. /\ Len(text) \in Nat /\ End = Len(text) + 1 /\ text' = text /\ End' = End
      /\ call' = call /\ saved' = saved /\ tokens' = tokens /\ mode' = m
      /\ lex' = [lex EXCEPT !.cur = lex.cur + n]
  BY PlaceFacts DEF Move, End
<1>2. lex' \in LexerType
  BY <1>1, PlaceFacts, MoveFacts, SMTT(30)
<1>3. LexerType' = LexerType /\ TokenType' = TokenType
  BY <1>1 DEF LexerType, TokenType
<1>4. TypeOK'
  BY <1>1, <1>2, <1>3 DEF IInv, TypeOK, Modes, Loops
<1>5. Behind'
  BY <1>1 DEF IInv, Behind, Loops
<1> QED
  BY <1>4, <1>5 DEF IInv

(* lexer_next calls itself, at a place of the text. *)
LEMMA AgainStep ==
  ASSUME IInv, NEW l \in LexerType, l.cur <= End, mode \in Loops, Again(l, "scan")
  PROVE  IInv'
<1>1. /\ Len(text) \in Nat /\ End = Len(text) + 1 /\ text' = text /\ End' = End
      /\ call' = call /\ saved' = saved /\ tokens' = tokens /\ mode' = "scan" /\ lex' = Begin(l)
  BY PlaceFacts DEF Again, End
<1>2. lex' \in LexerType /\ lex'.cur = l.cur /\ lex'.char = l.cur
  BY <1>1, PlaceFacts, BeginFacts
<1>3. LexerType' = LexerType /\ TokenType' = TokenType
  BY <1>1 DEF LexerType, TokenType
<1>4. TypeOK'
  BY <1>1, <1>2, <1>3 DEF IInv, TypeOK, Modes
<1>5. InLoop' /\ Behind'
  BY <1>1, <1>2 DEF IInv, InLoop, Behind, Loops
<1> QED
  BY <1>4, <1>5 DEF IInv

(* What is skipped between tokens. *)
LEMMA SkipSteps ==
  ASSUME IInv, SkipBlank \/ NewLine \/ Comment \/ CommentChar \/ CommentEnd
  PROVE  IInv'
<1>1. CASE SkipBlank
  <2> DEFINE l == [lex EXCEPT !.cur = lex.cur + 1]
  <2>1. Cur # NUL /\ Again(l, "scan")
    BY <1>1, NoNUL DEF SkipBlank
  <2>2. l \in LexerType /\ l.cur = lex.cur + 1
    BY <2>1, PlaceFacts, MoveFacts
  <2> HIDE DEF l
  <2>3. l.cur <= End
    BY <2>1, <2>2, PlaceFacts
  <2> QED
    BY <1>1, <2>1, <2>2, <2>3, AgainStep DEF SkipBlank, At, Loops
<1>2. CASE NewLine
  <2> DEFINE behind == lex.cur + (IF Cur = "\r" /\ After = "\n" THEN 2 ELSE 1)
             l == [cur |-> behind, line |-> lex.line + 1, start |-> behind,
                   char |-> lex.char]
  <2>1. Cur # NUL /\ (After = "\n" => After # NUL)
    BY <1>2, NoNUL DEF NewLine
  <2>2. behind \in 1..End
    BY <2>1, PlaceFacts
  <2>3. Again(l, "scan")
    BY <1>2 DEF NewLine
  <2> HIDE DEF behind
  <2>4. l \in LexerType /\ l.cur <= End
    BY <2>2, PlaceFacts DEF LexerType
  <2> HIDE DEF l
  <2> QED
    BY <1>2, <2>3, <2>4, AgainStep DEF NewLine, At, Loops
<1>3. CASE Comment
  <2>1. Move(0, "comment") /\ mode = "scan" /\ Ch(lex.cur) = "/" /\ Ch(lex.cur + 1) = "/"
    BY <1>3 DEF Comment, At, Cur, After
  <2>2. lex'.cur = lex.cur /\ lex'.char = lex.char /\ mode' = "comment" /\ text' = text
    BY <2>1, PlaceFacts, MoveFacts DEF Move
  <2>3. InLoop'
    BY <2>1, <2>2, PlaceFacts DEF IInv, InLoop, InComments, Ch
  <2> QED
    BY <2>1, <2>3, MoveStep, PlaceFacts DEF Loops
<1>4. CASE CommentChar
  <2>1. /\ Move(1, "comment") /\ mode = "comment" /\ lex.cur <= End /\ Ch(lex.cur) # "\n"
    BY <1>4 DEF CommentChar, At, Cur
  <2>2. lex'.cur = lex.cur + 1 /\ lex'.char = lex.char /\ mode' = "comment" /\ text' = text
    BY <2>1, PlaceFacts, MoveFacts DEF Move
  <2>3. InLoop'
    BY <2>1, <2>2, PlaceFacts DEF IInv, InLoop, InComments, Ch
  <2> QED
    BY <2>1, <2>3, MoveStep, PlaceFacts DEF Loops
<1>5. CASE CommentEnd
  BY <1>5, AgainStep, PlaceFacts DEF CommentEnd, At, Loops
<1> QED
  BY <1>1, <1>2, <1>3, <1>4, <1>5

(* A token that ends before the zero byte. *)
LEMMA EmitWithin ==
  ASSUME IInv, mode \in Loops, NEW kind \in Kinds, NEW last \in 0..Len(text), Emit(kind, last)
  PROVE  IInv'
<1>1. last \in 0..End /\ last # End
  BY PlaceFacts
<1> QED
  BY <1>1, EmitStep

(* Operators, numbers and words. *)
LEMMA WordSteps ==
  ASSUME IInv,
         \/ EndOfFile \/ Operator \/ Number \/ NumberChar \/ NumberEnd
         \/ ReadKeyword \/ Word \/ WordChar \/ WordEnd \/ Unknown
  PROVE  IInv'
<1>1. CASE EndOfFile
  <2>1. lex.cur \in 0..End /\ Emit("EOF", lex.cur) /\ mode = "scan"
    BY <1>1, PlaceFacts DEF EndOfFile, At
  <2> QED
    BY <2>1, EmitStep DEF Kinds, Loops
<1>2. CASE Operator
  <2> DEFINE last == lex.cur + OperatorLength(lex.cur) - 1
  <2>1. Cur # NUL /\ mode = "scan" /\ Emit("OP", last)
    BY <1>2, NoNUL DEF Operator, At
  <2>2. last \in 0..Len(text)
    BY <2>1, OperatorFacts, PlaceFacts
  <2> HIDE DEF last
  <2> QED
    BY <2>1, <2>2, EmitWithin DEF Kinds, Loops
<1>3. CASE Number
  <2>1. Cur # NUL /\ mode = "scan" /\ Move(0, "number")
    BY <1>3, NoNUL DEF Number, At
  <2>2. lex'.cur = lex.cur /\ mode' = "number" /\ text' = text
    BY <2>1, PlaceFacts, MoveFacts DEF Move
  <2>3. InLoop'
    BY <2>1, <2>2, PlaceFacts DEF InLoop, End
  <2> QED
    BY <2>1, <2>3, MoveStep, PlaceFacts DEF Loops
<1>4. CASE NumberChar
  <2>1. After # NUL /\ mode = "number" /\ Move(1, "number")
    BY <1>4, NoNUL DEF NumberChar, At
  <2>2. lex'.cur = lex.cur + 1 /\ mode' = "number" /\ text' = text
    BY <2>1, PlaceFacts, MoveFacts DEF Move
  <2>3. InLoop'
    BY <2>1, <2>2, PlaceFacts DEF InLoop, End
  <2> QED
    BY <2>1, <2>3, MoveStep, PlaceFacts DEF Loops
<1>5. CASE NumberEnd
  <2>1. mode = "number" /\ lex.cur \in 0..Len(text)
    BY <1>5, PlaceFacts DEF NumberEnd, At, IInv, InLoop
  <2>2. Emit("FLOAT", lex.cur) \/ Emit("INT", lex.cur)
    BY <1>5 DEF NumberEnd
  <2> QED
    BY <2>1, <2>2, EmitWithin DEF Kinds, Loops
<1>6. CASE ReadKeyword
  <2>1. PICK word \in Keyword :
          Stands(word, lex.cur) /\ Emit("KEYWORD", lex.cur + Len(word) - 1)
    BY <1>6 DEF ReadKeyword
  <2>2. Len(word) \in Nat \ {0} /\ Ch(lex.cur + Len(word) - 1) # NUL
    <3>1. Len(word) \in Nat \ {0} /\ word[Len(word)] # NUL /\ Len(word) \in DOMAIN word
      BY KeywordFacts
    <3> QED
      BY <2>1, <3>1 DEF Stands
  <2>3. lex.cur + Len(word) - 1 \in 0..Len(text)
    BY <2>2, PlaceFacts, TextFacts
  <2>4. mode = "scan"
    BY <1>6 DEF ReadKeyword, At
  <2> QED
    BY <2>1, <2>3, <2>4, EmitWithin DEF Kinds, Loops
<1>7. CASE Word
  <2>1. Cur # NUL /\ mode = "scan" /\ Move(1, "word")
    BY <1>7, NoNUL DEF Word, At
  <2>2. lex'.cur = lex.cur + 1 /\ mode' = "word" /\ text' = text
    BY <2>1, PlaceFacts, MoveFacts DEF Move
  <2>3. InLoop'
    BY <2>1, <2>2, PlaceFacts DEF InLoop, End
  <2> QED
    BY <2>1, <2>3, MoveStep, PlaceFacts DEF Loops
<1>8. CASE WordChar
  <2>1. Cur # NUL /\ mode = "word" /\ Move(1, "word")
    BY <1>8, NoNUL DEF WordChar, At
  <2>2. lex'.cur = lex.cur + 1 /\ mode' = "word" /\ text' = text
    BY <2>1, PlaceFacts, MoveFacts DEF Move
  <2>3. InLoop'
    BY <2>1, <2>2, PlaceFacts DEF InLoop, End
  <2> QED
    BY <2>1, <2>3, MoveStep, PlaceFacts DEF Loops
<1>9. CASE WordEnd
  <2>1. mode = "word" /\ lex.cur <= End /\ Emit("ID", lex.cur - 1)
    BY <1>9 DEF WordEnd, At
  <2>2. lex.cur - 1 \in 0..Len(text)
    BY <2>1, PlaceFacts
  <2> QED
    BY <2>1, <2>2, EmitWithin DEF Kinds, Loops
<1>10. CASE Unknown
  <2>1. Cur # NUL /\ mode = "scan" /\ Emit("ERR", lex.cur)
    BY <1>10, NoNUL DEF Unknown, At
  <2>2. lex.cur \in 0..Len(text)
    BY <2>1, PlaceFacts
  <2> QED
    BY <2>1, <2>2, EmitWithin DEF Kinds, Loops
<1> QED
  BY <1>1, <1>2, <1>3, <1>4, <1>5, <1>6, <1>7, <1>8, <1>9, <1>10

-----------------------------------------------------------------------------
(* Strings.                                                                *)

(* A character that is neither a quote nor a backslash. *)
LEMMA StringGoes ==
  ASSUME IInv, NEW a \in Int, NEW k \in Int, a < k, InStrings(a, k),
         Ch(k) \notin {Quote, "\\"}
  PROVE  InStrings(a, k + 1)
<1>1. Even(a, k + 1)
  <2>1. /\ k + 1 \in a + 1..k + 1 /\ (k + 1) - 1 = k /\ ((k + 1) - (k + 1)) % 2 = 0
        /\ \A i \in k + 1..(k + 1) - 1 : FALSE
    OBVIOUS
  <2> QED
    BY <2>1 DEF Even
<1>2. \A i \in a + 1..(k + 1) - 1 : i \in a + 1..k - 1 \/ i = k
  OBVIOUS
<1> QED
  BY <1>1, <1>2 DEF InStrings

(* A backslash with the character it escapes. *)
LEMMA StringEscapes ==
  ASSUME IInv, NEW a \in Int, NEW k \in Int, a < k, InStrings(a, k), Ch(k) = "\\"
  PROVE  InStrings(a, k + 2)
<1>1. PICK j \in a + 1..k : /\ \A i \in j..k - 1 : Ch(i) = "\\"
                            /\ j = a + 1 \/ Ch(j - 1) # "\\"
                            /\ (k - j) % 2 = 0
  BY DEF InStrings, Even
<1>2. \A i \in j..k : Ch(i) = "\\"
  <2>1. \A i \in j..k : i \in j..k - 1 \/ i = k
    OBVIOUS
  <2> QED
    BY <1>1, <2>1
<1>3. Escaped(a, k + 1)
  <2>1. j \in a + 1..(k + 1) - 1 /\ ((k + 1) - j) % 2 = 1 /\ (k + 1) - 1 = k
    BY <1>1
  <2> QED
    BY <1>1, <1>2, <2>1 DEF Escaped
<1>4. Even(a, k + 2)
  <2>1. CASE Ch(k + 1) = "\\"
    <3>1. j \in a + 1..k + 2 /\ ((k + 2) - j) % 2 = 0
      BY <1>1
    <3>2. \A i \in j..(k + 2) - 1 : i \in j..k \/ i = k + 1
      BY <1>1
    <3> QED
      BY <1>1, <1>2, <2>1, <3>1, <3>2 DEF Even
  <2>2. CASE Ch(k + 1) # "\\"
    <3>1. /\ k + 2 \in a + 1..k + 2 /\ ((k + 2) - (k + 2)) % 2 = 0 /\ (k + 2) - 1 = k + 1
          /\ \A i \in k + 2..(k + 2) - 1 : FALSE
      OBVIOUS
    <3> QED
      BY <2>2, <3>1 DEF Even
  <2> QED
    BY <2>1, <2>2
<1>5. \A i \in a + 1..(k + 2) - 1 : i \in a + 1..k - 1 \/ i = k \/ i = k + 1
  OBVIOUS
<1>6. Ch(k) # Quote
  <2>1. "\\" # Quote
    BY Zenon DEF Quote
  <2> QED
    BY <2>1
<1>7. \A i \in a + 1..(k + 2) - 1 : Ch(i) = Quote => Escaped(a, i)
  BY <1>3, <1>5, <1>6 DEF InStrings
<1> QED
  BY <1>4, <1>7 DEF InStrings

(* Where the text ends within a string, the string is open. *)
LEMMA StringOpen ==
  ASSUME IInv, NEW a \in Int, InStrings(a, End)
  PROVE  Open(a)
<1>1. \A i \in a + 1..Len(text) : i \in a + 1..End - 1
  BY PlaceFacts
<1> QED
  BY <1>1 DEF InStrings, Open, OpenString

(* The loop goes on within the text. *)
LEMMA StringMoves ==
  ASSUME IInv, NEW n \in 1..2, mode \in {"scan", "string"}, Move(n, "string"),
         lex.cur + n <= End, lex.char < lex.cur + n, InStrings(lex.char, lex.cur + n)
  PROVE  IInv'
<1>1. lex'.cur = lex.cur + n /\ lex'.char = lex.char /\ mode' = "string" /\ text' = text
  BY PlaceFacts, MoveFacts DEF Move
<1>2. InStrings(lex.char, lex.cur)'
  <2>1. \A k : Ch(k)' = Ch(k)
    BY <1>1 DEF Ch
  <2> QED
    BY <1>1, <2>1 DEF InStrings, Even, Escaped, Ch
<1>3. InLoop'
  BY <1>1, <1>2, PlaceFacts DEF InLoop, End
<1> QED
  BY <1>3, MoveStep, PlaceFacts DEF Loops

(* Strings: the loop keeps within the text, as it stops at a zero byte. *)
LEMMA StringSteps ==
  ASSUME IInv, String \/ StringChar \/ StringEscape \/ StringBad \/ StringEnd
  PROVE  IInv'
<1>1. CASE String
  <2>1. Cur # NUL /\ Ch(lex.char) = Quote /\ mode = "scan" /\ lex.char = lex.cur /\ Move(1, "string")
    BY <1>1, NoNUL DEF String, At, IInv, InLoop, Cur
  <2>2. lex'.cur = lex.cur + 1 /\ lex'.char = lex.char /\ mode' = "string" /\ text' = text
    BY <2>1, PlaceFacts, MoveFacts DEF Move
  <2>3. InStrings(lex.char, lex.cur + 1)
    <3>1. Even(lex.char, lex.char + 1)
      <4>1. /\ lex.char + 1 \in lex.char + 1..lex.char + 1
            /\ ((lex.char + 1) - (lex.char + 1)) % 2 = 0
            /\ \A i \in lex.char + 1..(lex.char + 1) - 1 : FALSE
        BY PlaceFacts
      <4> QED
        BY <4>1 DEF Even
    <3>2. \A i \in lex.char + 1..(lex.char + 1) - 1 : FALSE
      BY PlaceFacts
    <3> QED
      BY <2>1, <3>1, <3>2 DEF InStrings
  <2>4. lex.cur + 1 <= End
    BY <2>1, PlaceFacts
  <2> QED
    BY <2>1, <2>2, <2>3, <2>4, StringMoves, PlaceFacts
<1>2. CASE StringChar
  <2>1. /\ Cur \notin {Quote, "\\"} /\ Cur # NUL /\ mode = "string" /\ Move(1, "string")
        /\ lex.char < lex.cur /\ InStrings(lex.char, lex.cur)
    BY <1>2 DEF StringChar, At, IInv, InLoop
  <2>2. InStrings(lex.char, lex.cur + 1)
    BY <2>1, StringGoes, PlaceFacts DEF Cur
  <2>3. lex.cur + 1 <= End
    BY <2>1, PlaceFacts
  <2> QED
    BY <2>1, <2>2, <2>3, StringMoves, PlaceFacts
<1>3. CASE StringEscape
  <2>1. /\ Cur = "\\" /\ After # NUL /\ mode = "string" /\ Move(2, "string")
        /\ lex.char < lex.cur /\ InStrings(lex.char, lex.cur)
    BY <1>3, NoNUL DEF StringEscape, At, IInv, InLoop
  <2>2. InStrings(lex.char, lex.cur + 2)
    BY <2>1, StringEscapes, PlaceFacts DEF Cur
  <2>3. lex.cur + 2 <= End
    BY <2>1, PlaceFacts
  <2> QED
    BY <2>1, <2>2, <2>3, StringMoves, PlaceFacts
<1>4. CASE StringBad
  <2>1. Cur # NUL /\ mode = "string" /\ Emit("ERR", lex.cur)
    BY <1>4, NoNUL DEF StringBad, At
  <2>2. lex.cur \in 0..Len(text)
    BY <2>1, PlaceFacts
  <2> QED
    BY <2>1, <2>2, EmitWithin DEF Kinds, Loops
<1>5. CASE StringEnd
  <2>1. mode = "string" /\ lex.cur <= End /\ Emit("STRING", lex.cur) /\ InStrings(lex.char, lex.cur)
    BY <1>5 DEF StringEnd, At, IInv, InLoop
  <2>2. lex.cur \in 0..End
    BY <2>1, PlaceFacts
  <2>3. lex.cur = End => Open(lex.char)
    BY <2>1, StringOpen, PlaceFacts
  <2> QED
    BY <2>1, <2>2, <2>3, EmitStep DEF Kinds, Loops
<1> QED
  BY <1>1, <1>2, <1>3, <1>4, <1>5

-----------------------------------------------------------------------------
(* Characters, and the end.                                                *)

(* A character: it is not known to end within the text, only soon.         *)
LEMMA CharSteps ==
  ASSUME IInv, Character \/ CharBody \/ CharEscape \/ CharBad \/ CharEnd
  PROVE  IInv'
<1>1. CASE Character
  <2>1. Cur = "'" /\ Cur # NUL /\ mode = "scan" /\ lex.char = lex.cur /\ Move(1, "char")
    BY <1>1, NoNUL DEF Character, At, IInv, InLoop
  <2>2. lex'.cur = lex.cur + 1 /\ lex'.char = lex.char /\ mode' = "char" /\ text' = text
    BY <2>1, PlaceFacts, MoveFacts DEF Move
  <2>3. InLoop'
    BY <2>1, <2>2 DEF InLoop, Cur, Ch
  <2> QED
    BY <2>1, <2>3, MoveStep, PlaceFacts DEF Loops
<1>2. CASE CharBody
  <2>1. /\ mode = "char" /\ lex.cur <= End /\ Move(1, "quote")
        /\ lex.cur = lex.char + 1 /\ Ch(lex.char) = "'"
    BY <1>2 DEF CharBody, At, IInv, InLoop
  <2>2. lex'.cur = lex.cur + 1 /\ lex'.char = lex.char /\ mode' = "quote" /\ text' = text
    BY <2>1, PlaceFacts, MoveFacts DEF Move
  <2>3. InLoop'
    BY <2>1, <2>2, PlaceFacts DEF InLoop, Ch
  <2> QED
    BY <2>1, <2>3, MoveStep, PlaceFacts DEF Loops
<1>3. CASE CharEscape
  <2>1. /\ mode = "char" /\ Cur = "\\" /\ After # NUL /\ Move(2, "quote")
        /\ lex.cur = lex.char + 1 /\ Ch(lex.char) = "'"
    BY <1>3, NoNUL DEF CharEscape, At, IInv, InLoop
  <2>2. lex'.cur = lex.cur + 2 /\ lex'.char = lex.char /\ mode' = "quote" /\ text' = text
    BY <2>1, PlaceFacts, MoveFacts DEF Move
  <2>3. InLoop'
    BY <2>1, <2>2, PlaceFacts DEF InLoop, Ch, Cur
  <2> QED
    BY <2>1, <2>3, MoveStep, PlaceFacts DEF Loops
<1>4. CASE CharBad
  <2>1. /\ mode = "char" /\ Cur = "\\" /\ Cur # NUL /\ Emit("ERR", lex.cur + 1)
        /\ lex.cur = lex.char + 1 /\ Ch(lex.char) = "'"
    BY <1>4, NoNUL DEF CharBad, At, IInv, InLoop
  <2>2. lex.cur + 1 \in 0..End
    BY <2>1, PlaceFacts
  <2>3. lex.cur + 1 = End => Open(lex.char)
    BY <2>1, PlaceFacts DEF Open, OpenChar
  <2> QED
    BY <2>1, <2>2, <2>3, EmitStep DEF Kinds, Loops
<1>5. CASE CharEnd
  <2>1. /\ mode = "quote" /\ lex.cur <= End /\ Ch(lex.char) = "'"
        /\ \/ lex.cur = lex.char + 2
           \/ lex.cur = lex.char + 3 /\ Ch(lex.char + 1) = "\\"
    BY <1>5 DEF CharEnd, At, IInv, InLoop
  <2>2. Emit("CHAR", lex.cur) \/ Emit("ID", lex.cur)
    BY <1>5 DEF CharEnd
  <2>3. lex.cur \in 0..End
    BY <2>1, PlaceFacts
  <2>4. lex.cur = End => Open(lex.char)
    BY <2>1, PlaceFacts DEF Open, OpenChar
  <2> QED
    BY <2>1, <2>2, <2>3, <2>4, EmitStep DEF Kinds, Loops
<1> QED
  BY <1>1, <1>2, <1>3, <1>4, <1>5

(* The cursor leaves the buffer, in a comment or a character. *)
LEMMA BeyondStep ==
  ASSUME IInv, Beyond
  PROVE  IInv'
<1>1. /\ mode' = "beyond" /\ lex.cur > End
      /\ text' = text /\ lex' = lex /\ call' = call /\ saved' = saved /\ tokens' = tokens
  BY DEF Beyond
<1>2. mode \in {"comment", "char", "quote"}
  BY PlaceFacts DEF Beyond, IInv, TypeOK, InLoop, Modes
<1>3. mode = "comment" => OpenComment(lex.char)
  <2> SUFFICES ASSUME mode = "comment" PROVE OpenComment(lex.char)
    OBVIOUS
  <2>1. InComments(lex.char, lex.cur)
    BY DEF IInv, InLoop
  <2>2. \A i \in lex.char..Len(text) : i \in lex.char..lex.cur - 1
    BY <1>1, PlaceFacts
  <2> QED
    BY <2>1, <2>2 DEF InComments, OpenComment
<1>4. mode \in {"char", "quote"} => OpenChar(lex.char)
  <2> SUFFICES ASSUME mode \in {"char", "quote"} PROVE OpenChar(lex.char)
    OBVIOUS
  <2>1. /\ Ch(lex.char) = "'"
        /\ \/ lex.cur = lex.char + 1 \/ lex.cur = lex.char + 2
           \/ lex.cur = lex.char + 3 /\ Ch(lex.char + 1) = "\\"
    BY DEF IInv, InLoop
  <2> QED
    BY <1>1, <2>1, PlaceFacts DEF OpenChar
<1>5. Open(lex.char)'
  <2>1. Open(lex.char)
    BY <1>2, <1>3, <1>4 DEF Open
  <2> QED
    BY <1>1, <2>1, OpenStays
<1>6. TypeOK'
  <2>1. LexerType' = LexerType /\ TokenType' = TokenType
    BY <1>1 DEF LexerType, TokenType, End
  <2> QED
    BY <1>1, <2>1 DEF IInv, TypeOK, Modes
<1>7. InLoop' /\ Behind'
  BY <1>1, <1>5 DEF InLoop, Behind, Loops
<1> QED
  BY <1>6, <1>7 DEF IInv

(* The parser asks for a token. *)
LEMMA CallStep ==
  ASSUME IInv, NEW c \in {"next", "peek", "peek2"}, Call(c)
  PROVE  IInv'
<1>1. /\ mode = "idle" /\ call' = c /\ lex' = Begin(lex) /\ text' = text /\ tokens' = tokens
      /\ mode' = IF Ended THEN "past" ELSE IF lex.cur <= End THEN "scan" ELSE "beyond"
      /\ saved' = IF c = "next" THEN NoLexer ELSE lex
  BY DEF Call, Enter
<1>2. /\ lex' \in LexerType /\ lex'.cur = lex.cur
      /\ lex.cur <= End => lex'.char = lex.cur
      /\ lex.cur > End => lex' = lex
  BY <1>1, PlaceFacts, BeginFacts
<1>3. End' = End /\ LexerType' = LexerType /\ TokenType' = TokenType
  BY <1>1 DEF LexerType, TokenType, End
<1>4. saved' \in LexerType
  <2>1. NoLexer \in LexerType
    BY PlaceFacts DEF NoLexer, LexerType
  <2> QED
    BY <1>1, <2>1, PlaceFacts
<1>5. TypeOK'
  BY <1>1, <1>2, <1>3, <1>4 DEF IInv, TypeOK, Modes
<1>6. InLoop'
  BY <1>1, <1>2, <1>3 DEF InLoop
<1>7. mode' = "beyond" => Open(lex.char)'
  <2> SUFFICES ASSUME mode' = "beyond" PROVE Open(lex.char)'
    OBVIOUS
  <2>1. ~Ended /\ lex.cur > End /\ lex' = lex
    BY <1>1, <1>2, PlaceFacts
  <2>2. Open(lex.char)
    BY <1>1, <2>1 DEF IInv, Behind
  <2> QED
    BY <1>1, <2>1, <2>2, OpenStays
<1>8. Behind'
  BY <1>1, <1>2, <1>3, <1>7 DEF Behind, Loops
<1> QED
  BY <1>5, <1>6, <1>8 DEF IInv

-----------------------------------------------------------------------------
(* The theorems.                                                           *)

(* The invariant holds of a lexer that was just made, *)
LEMMA InitInvariant == Init => IInv
<1> SUFFICES ASSUME Init PROVE IInv
  OBVIOUS
<1>1. NoLexer \in LexerType /\ Len(text) \in Nat /\ End = Len(text) + 1
  BY TextFacts DEF Init, NoLexer, LexerType
<1>2. TypeOK
  BY <1>1 DEF Init, TypeOK, Modes
<1>3. InLoop /\ Behind
  BY <1>1 DEF Init, NoLexer, InLoop, Behind, Loops, Ended
<1> QED
  BY <1>2, <1>3 DEF IInv

(* and every step of lexer_next and of its callers keeps it. *)
LEMMA NextInvariant == IInv /\ [Next]_vars => IInv'
<1> SUFFICES ASSUME IInv, [Next]_vars PROVE IInv'
  OBVIOUS
<1>1. CASE UNCHANGED vars
  <2>1. /\ text' = text /\ lex' = lex /\ mode' = mode /\ call' = call
        /\ saved' = saved /\ tokens' = tokens
    BY <1>1 DEF vars
  <2>2. Open(lex.char) => Open(lex.char)'
    BY <2>1, OpenStays
  <2>3. End' = End /\ \A k : Ch(k)' = Ch(k)
    BY <2>1 DEF End, Ch
  <2>4. TypeOK'
    BY <2>1, <2>3 DEF IInv, TypeOK, LexerType, TokenType
  <2>5. InLoop'
    BY <2>1, <2>3 DEF IInv, InLoop, InComments, InStrings, Even, Escaped
  <2>6. Behind'
    BY <2>1, <2>2, <2>3 DEF IInv, Behind, Ended
  <2> QED
    BY <2>4, <2>5, <2>6 DEF IInv
<1>2. CASE \E c \in {"next", "peek", "peek2"} : Call(c)
  BY <1>2, CallStep
<1>3. CASE Scan
  BY <1>3, SkipSteps, WordSteps, StringSteps, CharSteps, BeyondStep DEF Scan
<1>4. CASE Stopped
  BY <1>1, <1>4 DEF Stopped
<1> QED
  BY <1>1, <1>2, <1>3, <1>4 DEF Next

(* The cursor, the saved cursor and every token's place are always places  *)
(* of the text, or the one behind its zero byte, for every set of texts.   *)
THEOREM TypeCorrect == Spec => []TypeOK
<1>1. IInv => TypeOK
  BY DEF IInv
<1> QED
  BY <1>1, InitInvariant, NextInvariant, PTL DEF Spec

(* lexer_next leaves the buffer only behind a comment, string or character *)
(* that the text does not close, for every set of texts: peeking, errors   *)
(* and escapes never make it read on behind the zero byte.                 *)
THEOREM StaysInBuffer == Spec => []InBuffer
<1>1. IInv => InBuffer
  BY DEF IInv, Behind, InBuffer
<1> QED
  BY <1>1, InitInvariant, NextInvariant, PTL DEF Spec

-----------------------------------------------------------------------------
(***************************************************************************)
(* What lies between the tokens that lexer_next returns is white space and *)
(* comments, a token's line is the number of line ends in it, and a token  *)
(* is the longest lexeme where it begins: for every set of texts and       *)
(* whatever is peeked in between.                                          *)
(***************************************************************************)
Done == Before(Newest + 1)      \* where the last token that was returned ends

Kept == \A n \in DOMAIN tokens : /\ Before(n) < tokens[n].from /\ tokens[n].from <= tokens[n].to
                                 /\ Skipped(Before(n) + 1, tokens[n].from - 1)

\* Where the call that runs, or the Lexer it will put back, has come from.
Follows ==
  /\ mode = "idle" => lex.cur = Done + 1
  /\ mode \in Loops /\ call = "next" => Done < lex.char /\ Skipped(Done + 1, lex.char - 1)
  /\ mode \in Loops /\ call # "next" => saved.cur = Done + 1
  /\ mode = "word" => lex.char < lex.cur
  /\ mode = "number" => lex.char <= lex.cur

TInv == IInv /\ Kept /\ Follows

Goal   == Kept' /\ Follows'

(* The tokens are numbered from one. *)
LEMMA TokenFacts ==
  ASSUME IInv
  PROVE  /\ tokens \in Seq(TokenType) /\ Newest \in Nat /\ DOMAIN tokens = 1..Newest
         /\ Done \in 0..End
         /\ \A n \in 1..Newest : /\ tokens[n].from \in 1..End /\ tokens[n].to \in 0..End
                                 /\ Before(n) \in 0..End
<1>1. tokens \in Seq(TokenType) /\ Newest \in Nat /\ DOMAIN tokens = 1..Newest
      /\ \A n \in 1..Newest : tokens[n] \in TokenType
  BY DEF IInv, TypeOK, Newest
<1>2. \A n \in 1..Newest : tokens[n].from \in 1..End /\ tokens[n].to \in 0..End
  BY <1>1 DEF TokenType
<1>3. \A n \in 1..Newest + 1 : Before(n) \in 0..End
  BY <1>1, <1>2, PlaceFacts DEF Before
<1> QED
  BY <1>1, <1>2, <1>3 DEF Done

(* What is white space and comments depends on the text alone. *)
LEMMA SameText ==
  ASSUME text' = text, tokens' = tokens
  PROVE  /\ \A a, b : Skipped(a, b)' <=> Skipped(a, b)
         /\ Done' = Done /\ (Kept' <=> Kept)
<1>1. \A k : Ch(k)' = Ch(k)
  BY DEF Ch
<1>2. \A a, b : Skipped(a, b)' <=> Skipped(a, b)
  BY <1>1 DEF Skipped, InComment
<1>3. \A n : Before(n)' = Before(n)
  BY DEF Before
<1> QED
  BY <1>2, <1>3 DEF Kept, Done, Newest

(* A loop moves on within its token. *)
LEMMA WithinToken ==
  ASSUME TInv, mode \in Loops, NEW n \in 0..2, NEW m \in Loops, Move(n, m),
         m \in {"word", "number"} => mode = m \/ mode = "scan",
         m = "word" => n = 1
  PROVE  Goal
<1>1. /\ text' = text /\ tokens' = tokens /\ call' = call /\ saved' = saved /\ mode' = m
      /\ lex' = [lex EXCEPT !.cur = lex.cur + n]
  BY DEF Move
<1>2. lex \in LexerType /\ lex.cur \in Nat /\ lex.char \in Nat
  BY PlaceFacts DEF TInv
<1>3. lex'.cur = lex.cur + n /\ lex'.char = lex.char
  BY <1>1, <1>2 DEF LexerType
<1>4. mode = "scan" => lex.char = lex.cur
  BY DEF TInv, IInv, InLoop
<1>5. Kept'
  BY <1>1, SameText DEF TInv
<1>6. Follows'
  BY <1>1, <1>2, <1>3, <1>4, SameText DEF TInv, Follows, Loops
<1> QED
  BY <1>5, <1>6 DEF Goal

(* What is skipped is skipped up to the place where lexer_next goes on. *)
LEMMA Skips ==
  ASSUME TInv, mode \in Loops, NEW l \in LexerType, l.cur <= End, l.cur >= lex.char,
         Again(l, "scan"), Skipped(Done + 1, lex.char - 1) => Skipped(Done + 1, l.cur - 1)
  PROVE  Goal
<1>1. /\ text' = text /\ tokens' = tokens /\ call' = call /\ saved' = saved /\ mode' = "scan"
      /\ lex' = Begin(l)
  BY DEF Again
<1>2. lex'.cur = l.cur /\ lex'.char = l.cur /\ l.cur \in Nat /\ lex.char \in Nat /\ Done \in Nat
  <2>1. text \in Texts /\ lex.char \in Nat /\ Len(text) \in Nat /\ End = Len(text) + 1 /\ IInv
    BY PlaceFacts DEF TInv
  <2>2. l.cur \in Nat
    BY <2>1 DEF LexerType
  <2>3. Done \in Nat
    BY <2>1, TokenFacts
  <2> QED
    BY <1>1, <2>1, <2>2, <2>3, BeginFacts
<1>3. Kept'
  BY <1>1, SameText DEF TInv
<1>4. Follows'
  BY <1>1, <1>2, SameText DEF TInv, Follows, Loops
<1> QED
  BY <1>3, <1>4 DEF Goal

(* More is skipped, character by character. *)
LEMMA SkippedOn ==
  ASSUME NEW a \in Int, NEW b \in Int, NEW c \in Int, Skipped(a, b - 1),
         \A k \in b..c - 1 : k >= a => Ch(k) \in Blank \cup {"\n", "\r"} \/ InComment(a, k)
  PROVE  Skipped(a, c - 1)
<1>1. \A k \in a..c - 1 : k \in a..b - 1 \/ (k \in b..c - 1 /\ k >= a)
  OBVIOUS
<1> QED
  BY <1>1 DEF Skipped

(* A token is complete. *)
LEMMA Emits ==
  ASSUME TInv, mode \in Loops, NEW kind \in Kinds, NEW last \in Int, lex.char <= last, Emit(kind, last)
  PROVE  Goal
<1>1. text' = text /\ lex \in LexerType /\ lex.char \in Nat /\ Done \in Nat
  BY PlaceFacts, TokenFacts DEF Emit, TInv
<1>2. CASE call = "next"
  <2> DEFINE t == Token(kind, last)
  <2>1. /\ tokens' = Append(tokens, t) /\ lex' = [lex EXCEPT !.cur = last + 1] /\ mode' = "idle"
    BY <1>2 DEF Emit
  <2>2. t.from = lex.char /\ t.to = last
    BY DEF Token
  <2> HIDE DEF t
  <2>3. /\ Newest \in Nat /\ Newest' = Newest + 1 /\ DOMAIN tokens' = 1..Newest + 1
        /\ tokens'[Newest + 1] = t
        /\ \A n \in 1..Newest : tokens'[n] = tokens[n]
        /\ DOMAIN tokens = 1..Newest
    BY <2>1, TokenFacts DEF TInv, Newest
  <2>4. /\ \A k : Ch(k)' = Ch(k)
        /\ \A n \in 1..Newest + 1 : Before(n)' = Before(n)
    BY <1>1, <2>3 DEF Ch, Before
  <2>5. \A a, b : Skipped(a, b)' <=> Skipped(a, b)
    BY <2>4 DEF Skipped, InComment
  <2>6. Done < lex.char /\ Skipped(Done + 1, lex.char - 1)
    BY <1>2 DEF TInv, Follows
  <2>7. ASSUME NEW n \in 1..Newest + 1
        PROVE  /\ Before(n)' < tokens'[n].from /\ tokens'[n].from <= tokens'[n].to
               /\ Skipped(Before(n) + 1, tokens[n].from - 1)'
    <3>1. CASE n \in 1..Newest
      BY <2>3, <2>4, <2>5, <3>1 DEF TInv, Kept
    <3>2. CASE n = Newest + 1
      BY <2>2, <2>3, <2>4, <2>5, <2>6, <3>2 DEF Done
    <3> QED
      BY <2>3, <3>1, <3>2
  <2>8. Kept'
    BY <2>3, <2>7 DEF Kept
  <2>9. Done' = last
    BY <2>2, <2>3 DEF Done, Before
  <2>10. lex'.cur = last + 1
    BY <1>1, <2>1 DEF LexerType
  <2> QED
    BY <2>1, <2>8, <2>9, <2>10 DEF Goal, Follows, Loops
<1>3. CASE call = "peek2"
  <2>1. tokens' = tokens /\ saved' = saved /\ call' = "peek" /\ mode' \in {"past", "scan", "beyond"}
    BY <1>3 DEF Emit, Enter
  <2> QED
    BY <1>1, <1>3, <2>1, SameText DEF TInv, Goal, Follows, Loops
<1>4. CASE call = "peek"
  <2>1. tokens' = tokens /\ lex' = saved /\ mode' = "idle"
    BY <1>4 DEF Emit, PutBack
  <2> QED
    BY <1>1, <1>4, <2>1, SameText DEF TInv, Goal, Follows, Loops
<1> QED
  BY <1>2, <1>3, <1>4 DEF TInv, IInv, TypeOK

-----------------------------------------------------------------------------
(* The steps of lexer_next.                                                *)

LEMMA SkipsOnly ==
  ASSUME TInv, SkipBlank \/ NewLine \/ Comment \/ CommentChar \/ CommentEnd
  PROVE  Goal
<1>1. /\ IInv /\ text \in Texts /\ Done \in Nat /\ lex \in LexerType /\ lex.cur \in Nat
      /\ lex.char \in Nat /\ Len(text) \in Nat /\ End = Len(text) + 1
      /\ lex.line \in Nat
      /\ mode = "scan" => lex.char = lex.cur
  BY PlaceFacts, TokenFacts DEF TInv, IInv, InLoop
<1>2. CASE SkipBlank
  <2> DEFINE l == [lex EXCEPT !.cur = lex.cur + 1]
  <2>1. Ch(lex.cur) \in Blank /\ Cur # NUL /\ Again(l, "scan") /\ mode = "scan"
    BY <1>2, NoNUL DEF SkipBlank, At, Cur
  <2>2. l \in LexerType /\ l.cur = lex.cur + 1
    BY <1>1, <2>1, PlaceFacts, MoveFacts
  <2> HIDE DEF l
  <2>3. \A k \in lex.char..l.cur - 1 : Ch(k) \in Blank
    <3>1. \A k \in lex.char..l.cur - 1 : k = lex.cur
      BY <1>1, <2>1, <2>2
    <3> QED
      BY <2>1, <3>1
  <2>4. Skipped(Done + 1, lex.char - 1) => Skipped(Done + 1, l.cur - 1)
    <3>1. Done + 1 \in Int /\ lex.char \in Int /\ l.cur \in Int
      BY <1>1, <2>2
    <3>2. \A k \in lex.char..l.cur - 1 :
            k >= Done + 1 => Ch(k) \in Blank \cup {"\n", "\r"} \/ InComment(Done + 1, k)
      BY <2>3
    <3> QED
      BY <3>1, <3>2, SkippedOn
  <2>5. l.cur <= End /\ l.cur >= lex.char
    BY <1>1, <2>1, <2>2, PlaceFacts
  <2> QED
    BY <2>1, <2>2, <2>4, <2>5, Skips DEF Loops
<1>3. CASE NewLine
  <2> DEFINE behind == lex.cur + (IF Cur = "\r" /\ After = "\n" THEN 2 ELSE 1)
             l == [cur |-> behind, line |-> lex.line + 1, start |-> behind,
                   char |-> lex.char]
  <2>1. Ch(lex.cur) \in {"\r", "\n"} /\ Cur # NUL /\ (After = "\n" => After # NUL) /\ mode = "scan"
    BY <1>3, NoNUL DEF NewLine, At, Cur
  <2>2. behind \in 1..End /\ behind >= lex.cur
    BY <1>1, <2>1, PlaceFacts
  <2>3. Again(l, "scan")
    BY <1>3 DEF NewLine
  <2>4. \A k \in lex.cur..behind - 1 : Ch(k) \in {"\r", "\n"}
    <3>1. \A k \in lex.cur..behind - 1 : k = lex.cur \/ (k = lex.cur + 1 /\ After = "\n")
      BY <1>1
    <3> QED
      BY <2>1, <3>1 DEF After
  <2> HIDE DEF behind
  <2>5. l \in LexerType /\ l.cur = behind
    BY <1>1, <2>2, PlaceFacts DEF LexerType
  <2> HIDE DEF l
  <2>6. Skipped(Done + 1, lex.char - 1) => Skipped(Done + 1, l.cur - 1)
    <3>1. Done + 1 \in Int /\ lex.char \in Int /\ l.cur \in Int
      BY <1>1, <2>2, <2>5
    <3>2. \A k \in lex.char..l.cur - 1 :
            k >= Done + 1 => Ch(k) \in Blank \cup {"\n", "\r"} \/ InComment(Done + 1, k)
      BY <1>1, <2>1, <2>4, <2>5
    <3> QED
      BY <3>1, <3>2, SkippedOn
  <2>7. l.cur <= End /\ l.cur >= lex.char
    BY <1>1, <2>1, <2>2, <2>5
  <2> QED
    BY <2>1, <2>3, <2>5, <2>6, <2>7, Skips DEF Loops
<1>4. CASE Comment
  BY <1>4, WithinToken DEF Comment, At, Loops
<1>5. CASE CommentChar
  BY <1>5, WithinToken DEF CommentChar, At, Loops
<1>6. CASE CommentEnd
  <2>1. /\ mode = "comment" /\ lex.cur <= End /\ Again(lex, "scan")
        /\ lex.char <= lex.cur /\ InComments(lex.char, lex.cur)
    BY <1>1, <1>6 DEF CommentEnd, At, IInv, InLoop
  <2>2. ASSUME NEW k \in lex.char..lex.cur - 1, k >= Done + 1, Done < lex.char
        PROVE  InComment(Done + 1, k)
    <3>1. lex.char \in Done + 1..k /\ \A i \in lex.char..k : i \in lex.char..lex.cur - 1
      BY <1>1, <2>2
    <3> QED
      BY <2>1, <3>1 DEF InComment, InComments
  <2>3. call = "next" => Done < lex.char
    BY <2>1 DEF TInv, Follows, Loops
  <2>4. Done < lex.char /\ Skipped(Done + 1, lex.char - 1) => Skipped(Done + 1, lex.cur - 1)
    BY <1>1, <2>2, SkippedOn
  <2> QED
    <3>1. /\ text' = text /\ tokens' = tokens /\ call' = call /\ saved' = saved /\ mode' = "scan"
          /\ lex'.cur = lex.cur /\ lex'.char = lex.cur
      BY <1>1, <2>1, BeginFacts DEF Again
    <3>2. Kept'
      BY <3>1, SameText DEF TInv
    <3>3. Follows'
      BY <1>1, <2>1, <2>4, <3>1, SameText DEF TInv, Follows, Loops
    <3> QED
      BY <3>2, <3>3 DEF Goal
<1> QED
  BY <1>2, <1>3, <1>4, <1>5, <1>6

\* A loop goes on within its token, or a token is complete.
Goes == /\ mode \in Loops
        /\ \E n \in 0..2, m \in Loops :
             /\ Move(n, m)
             /\ m \in {"word", "number"} => mode = m \/ mode = "scan"
             /\ m = "word" => n = 1
Returns == /\ mode \in Loops
           /\ \E kind \in Kinds, last \in Int : lex.char <= last /\ Emit(kind, last)

LEMMA TokenTurns ==
  ASSUME TInv,
         \/ EndOfFile \/ Operator \/ Number \/ NumberChar \/ NumberEnd
         \/ ReadKeyword \/ Word \/ WordChar \/ WordEnd \/ Unknown
         \/ String \/ StringChar \/ StringEscape \/ StringBad \/ StringEnd
         \/ Character \/ CharBody \/ CharEscape \/ CharBad \/ CharEnd
  PROVE  Goes \/ Returns
<1>1. /\ IInv /\ text \in Texts /\ lex.cur \in Nat /\ lex.char \in Nat
      /\ mode = "scan" => lex.char = lex.cur
      /\ mode = "string" => lex.char < lex.cur
      /\ mode \in {"char", "quote"} => lex.char < lex.cur
      /\ mode = "word" => lex.char < lex.cur
      /\ mode = "number" => lex.char <= lex.cur
  BY PlaceFacts DEF TInv, IInv, InLoop, Follows
<1>2. CASE Number \/ NumberChar \/ Word \/ WordChar \/ String \/ StringChar \/ StringEscape
           \/ Character \/ CharBody \/ CharEscape
  <2>1. CASE Number
    BY <2>1 DEF Number, At, Loops, Goes
  <2>2. CASE NumberChar
    BY <2>2 DEF NumberChar, At, Loops, Goes
  <2>3. CASE Word
    <3>1. mode = "scan" /\ Move(1, "word")
      BY <2>3 DEF Word, At
    <3>2. 1 \in 0..2 /\ "word" \in Loops /\ mode \in Loops /\ (mode = "word" \/ mode = "scan")
      BY <3>1 DEF Loops
    <3> QED
      BY <3>1, <3>2 DEF Goes
  <2>4. CASE WordChar
    <3>1. mode = "word" /\ Move(1, "word")
      BY <2>4 DEF WordChar, At
    <3>2. 1 \in 0..2 /\ "word" \in Loops /\ mode \in Loops /\ (mode = "word" \/ mode = "scan")
      BY <3>1 DEF Loops
    <3> QED
      BY <3>1, <3>2 DEF Goes
  <2>5. CASE String
    BY <2>5 DEF String, At, Loops, Goes
  <2>6. CASE StringChar
    BY <2>6 DEF StringChar, At, Loops, Goes
  <2>7. CASE StringEscape
    BY <2>7 DEF StringEscape, At, Loops, Goes
  <2>8. CASE Character
    BY <2>8 DEF Character, At, Loops, Goes
  <2>9. CASE CharBody
    BY <2>9 DEF CharBody, At, Loops, Goes
  <2>10. CASE CharEscape
    BY <2>10 DEF CharEscape, At, Loops, Goes
  <2> QED
    BY <1>2, <2>1, <2>2, <2>3, <2>4, <2>5, <2>6, <2>7, <2>8, <2>9, <2>10
<1>3. CASE Operator
  <2>1. Cur # NUL /\ mode = "scan" /\ Emit("OP", lex.cur + OperatorLength(lex.cur) - 1)
    BY <1>3, NoNUL DEF Operator, At
  <2>2. lex.cur + OperatorLength(lex.cur) - 1 \in lex.cur..Len(text)
    BY <1>1, <2>1, OperatorFacts, PlaceFacts
  <2> QED
    BY <1>1, <2>1, <2>2, PlaceFacts DEF Kinds, Loops, Returns
<1>4. CASE ReadKeyword
  <2>1. PICK word \in Keyword : Emit("KEYWORD", lex.cur + Len(word) - 1) /\ mode = "scan"
    BY <1>4 DEF ReadKeyword, At
  <2>2. Len(word) \in Nat \ {0}
    BY KeywordFacts
  <2> QED
    BY <1>1, <2>1, <2>2 DEF Kinds, Loops, Returns
<1>5. CASE EndOfFile \/ NumberEnd \/ WordEnd \/ Unknown \/ StringBad \/ StringEnd \/ CharBad \/ CharEnd
  <2>1. CASE EndOfFile
    <3>1. mode = "scan" /\ (Emit("EOF", lex.cur))
      BY <2>1 DEF EndOfFile, At
    <3>2. mode \in Loops /\ lex.char <= lex.cur /\ lex.cur \in Int
      BY <1>1, <3>1 DEF Loops
    <3> QED
      BY <3>1, <3>2 DEF Kinds, Returns
  <2>2. CASE NumberEnd
    <3>1. mode = "number" /\ (Emit("FLOAT", lex.cur) \/ Emit("INT", lex.cur))
      BY <2>2 DEF NumberEnd, At
    <3>2. mode \in Loops /\ lex.char <= lex.cur /\ lex.cur \in Int
      BY <1>1, <3>1 DEF Loops
    <3> QED
      BY <3>1, <3>2 DEF Kinds, Returns
  <2>3. CASE WordEnd
    <3>1. mode = "word" /\ (Emit("ID", lex.cur - 1))
      BY <2>3 DEF WordEnd, At
    <3>2. mode \in Loops /\ lex.char <= lex.cur - 1 /\ lex.cur - 1 \in Int
      BY <1>1, <3>1 DEF Loops
    <3> QED
      BY <3>1, <3>2 DEF Kinds, Returns
  <2>4. CASE Unknown
    <3>1. mode = "scan" /\ (Emit("ERR", lex.cur))
      BY <2>4 DEF Unknown, At
    <3>2. mode \in Loops /\ lex.char <= lex.cur /\ lex.cur \in Int
      BY <1>1, <3>1 DEF Loops
    <3> QED
      BY <3>1, <3>2 DEF Kinds, Returns
  <2>5. CASE StringBad
    <3>1. mode = "string" /\ (Emit("ERR", lex.cur))
      BY <2>5 DEF StringBad, At
    <3>2. mode \in Loops /\ lex.char <= lex.cur /\ lex.cur \in Int
      BY <1>1, <3>1 DEF Loops
    <3> QED
      BY <3>1, <3>2 DEF Kinds, Returns
  <2>6. CASE StringEnd
    <3>1. mode = "string" /\ (Emit("STRING", lex.cur))
      BY <2>6 DEF StringEnd, At
    <3>2. mode \in Loops /\ lex.char <= lex.cur /\ lex.cur \in Int
      BY <1>1, <3>1 DEF Loops
    <3> QED
      BY <3>1, <3>2 DEF Kinds, Returns
  <2>7. CASE CharBad
    <3>1. mode = "char" /\ (Emit("ERR", lex.cur + 1))
      BY <2>7 DEF CharBad, At
    <3>2. mode \in Loops /\ lex.char <= lex.cur + 1 /\ lex.cur + 1 \in Int
      BY <1>1, <3>1 DEF Loops
    <3> QED
      BY <3>1, <3>2 DEF Kinds, Returns
  <2>8. CASE CharEnd
    <3>1. mode = "quote" /\ (Emit("CHAR", lex.cur) \/ Emit("ID", lex.cur))
      BY <2>8 DEF CharEnd, At
    <3>2. mode \in Loops /\ lex.char <= lex.cur /\ lex.cur \in Int
      BY <1>1, <3>1 DEF Loops
    <3> QED
      BY <3>1, <3>2 DEF Kinds, Returns
  <2> QED
    BY <1>5, <2>1, <2>2, <2>3, <2>4, <2>5, <2>6, <2>7, <2>8
<1> QED
  BY <1>2, <1>3, <1>4, <1>5

LEMMA TokenSteps == ASSUME TInv, Goes \/ Returns PROVE Goal
<1>1. CASE Goes
  BY <1>1, WithinToken DEF Goes
<1>2. CASE Returns
  BY <1>2, Emits DEF Returns
<1> QED
  BY <1>1, <1>2

(* A call begins where the last token ends; a peek will go back there. *)
LEMMA Calls ==
  ASSUME TInv, NEW c \in {"next", "peek", "peek2"}, Call(c)
  PROVE  Goal
<1>1. /\ mode = "idle" /\ call' = c /\ lex' = Begin(lex) /\ text' = text /\ tokens' = tokens
      /\ mode' = IF Ended THEN "past" ELSE IF lex.cur <= End THEN "scan" ELSE "beyond"
      /\ saved' = IF c = "next" THEN NoLexer ELSE lex
      /\ lex.cur = Done + 1 /\ Done \in Nat /\ lex \in LexerType
  BY PlaceFacts, TokenFacts DEF Call, Enter, TInv, Follows
<1>2. mode' = "scan" => lex'.char = Done + 1
  BY <1>1, BeginFacts DEF TInv, IInv, TypeOK
<1>3. Skipped(Done + 1, Done)
  BY <1>1 DEF Skipped
<1>4. Kept'
  BY <1>1, SameText DEF TInv
<1>5. Follows'
  <2>1. mode' = "scan" /\ call' = "next" => Done < lex'.char /\ Skipped(Done + 1, lex'.char - 1)
    BY <1>1, <1>2, <1>3
  <2> QED
    BY <1>1, <2>1, SameText DEF Follows, Loops
<1> QED
  BY <1>4, <1>5 DEF Goal

LEMMA TokensStart == Init => TInv
<1> SUFFICES ASSUME Init PROVE TInv
  OBVIOUS
<1>1. IInv
  BY InitInvariant
<1>2. DOMAIN tokens = {} /\ Done = 0
  BY DEF Init, Done, Before, Newest
<1> QED
  BY <1>1, <1>2 DEF Init, TInv, Kept, Follows, Loops, NoLexer

LEMMA TokensKept == TInv /\ [Next]_vars => TInv'
<1> SUFFICES ASSUME TInv, [Next]_vars PROVE TInv'
  OBVIOUS
<1>1. IInv'
  BY NextInvariant DEF TInv
<1>2. CASE UNCHANGED vars
  <2>1. /\ text' = text /\ lex' = lex /\ mode' = mode /\ call' = call
        /\ saved' = saved /\ tokens' = tokens
    BY <1>2 DEF vars
  <2> QED
    BY <1>1, <2>1, SameText DEF TInv, Follows
<1>3. CASE \E c \in {"next", "peek", "peek2"} : Call(c)
  BY <1>1, <1>3, Calls DEF Goal, TInv
<1>4. CASE Scan
  <2>1. CASE Beyond
    BY <1>1, <2>1, SameText DEF Beyond, TInv, Follows, Loops
  <2>2. CASE ~Beyond
    BY <1>1, <1>4, <2>2, SkipsOnly, TokenTurns, TokenSteps DEF Scan, Goal, TInv
  <2> QED
    BY <2>1, <2>2
<1>5. CASE Stopped
  BY <1>2, <1>5 DEF Stopped
<1> QED
  BY <1>2, <1>3, <1>4, <1>5 DEF Next

(* No character is lost or read twice: each token begins behind the one    *)
(* before it, the cursor stands behind the last, and all in between is     *)
(* white space and comments - also after errors, and after peeks, which    *)
(* put back where the cursor was (lexer.c:362).                            *)
THEOREM TokensCoverText == Spec => []NothingLost
<1>1. TInv => NothingLost
  <2> SUFFICES ASSUME TInv, mode = "idle", NEW n \in DOMAIN tokens
               PROVE  /\ Before(n) < tokens[n].from /\ tokens[n].from <= tokens[n].to
                      /\ Skipped(Before(n) + 1, tokens[n].from - 1)
                      /\ lex.cur = tokens[Newest].to + 1
    BY DEF NothingLost, Returned
  <2>1. Newest \in Nat /\ n \in 1..Newest
    BY TokenFacts DEF TInv
  <2>2. Done = tokens[Newest].to
    BY <2>1 DEF Done, Before
  <2> QED
    BY <2>2 DEF TInv, Kept, Follows
<1> QED
  BY <1>1, TokensStart, TokensKept, PTL DEF Spec

-----------------------------------------------------------------------------
(* Lines.                                                                  *)

\* A line ends at k, in what is skipped from a on.
LineEnd(a, k) == \/ Ch(k) = "\n"
                 \/ Ch(k) = "\r" /\ Ch(k + 1) # "\n" /\ ~InComment(a, k)
Ends(a, b) == {k \in a..b : LineEnd(a, k)}
All(n) == UNION {LineEnds(k) : k \in 1..n}

\* line and start of the Lexer or of a token are those behind the line ends S.
Counts(l, S) == /\ IsFiniteSet(S) /\ l.line = Cardinality(S)
                /\ S = {} => l.start = 1
                /\ S # {} => l.start - 1 \in S
                /\ \A j \in S : j < l.start

\* Whatever comment began at a or later has ended before c.
Outside(a, c) ==
  \A j \in a..c - 1 : Ch(j) = "/" /\ Ch(j + 1) = "/" => \E i \in j..c : Ch(i) = "\n"

Numbered ==
  /\ \A n \in DOMAIN tokens : Counts(tokens[n], All(n))
  /\ mode = "idle" => lex.start <= lex.cur /\ Counts(lex, All(Newest))
  /\ mode \in Loops /\ call = "next" =>
       /\ lex.start <= lex.char /\ Outside(Done + 1, lex.char)
       /\ Counts(lex, All(Newest) \cup Ends(Done + 1, lex.char - 1))
  /\ mode \in Loops /\ call # "next" => saved.start <= saved.cur /\ Counts(saved, All(Newest))

LInv == TInv /\ Numbered

(* One line end more, behind all others. *)
LEMMA CountsOne ==
  ASSUME NEW l, NEW S, Counts(l, S), l.start \in Nat, S \subseteq Int,
         NEW e \in Nat, l.start <= e, NEW m, m.line = l.line + 1, m.start = e + 1
  PROVE  Counts(m, S \cup {e})
<1>1. e \notin S /\ \A j \in S : j < e + 1
  BY DEF Counts
<1>2. IsFiniteSet(S \cup {e}) /\ Cardinality(S \cup {e}) = Cardinality(S) + 1
  BY <1>1, FS_AddElement DEF Counts
<1>3. m.start - 1 = e
  OBVIOUS
<1> QED
  BY <1>1, <1>2, <1>3 DEF Counts

(* Line ends are those of the text, and of the tokens that are there. *)
LEMMA SameLines ==
  ASSUME text' = text, tokens' = tokens
  PROVE  /\ \A a, b : Ends(a, b)' = Ends(a, b)
         /\ \A a, c : Outside(a, c)' <=> Outside(a, c)
         /\ \A n : All(n)' = All(n)
         /\ Newest' = Newest /\ Done' = Done
<1>1. \A k : Ch(k)' = Ch(k)
  BY DEF Ch
<1>2. \A a, k : InComment(a, k)' <=> InComment(a, k)
  BY <1>1 DEF InComment
<1>3. \A a, b : Ends(a, b)' = Ends(a, b)
  BY <1>1, <1>2 DEF Ends, LineEnd
<1>4. \A a, c : Outside(a, c)' <=> Outside(a, c)
  BY <1>1 DEF Outside
<1>5. \A n : Before(n)' = Before(n)
  BY DEF Before
<1>6. \A n : LineEnds(n)' = LineEnds(n)
  BY <1>1, <1>2, <1>5 DEF LineEnds
<1>7. \A n : All(n)' = All(n)
  BY <1>6 DEF All
<1> QED
  BY <1>3, <1>4, <1>5, <1>7 DEF Newest, Done

(* The Lexer's line and the tokens stay as they are. *)
LEMMA LinesStay ==
  ASSUME LInv, mode \in Loops, mode' \in Loops \cup {"beyond", "past"},
         text' = text, tokens' = tokens, saved' = saved, call' = call,
         lex'.line = lex.line, lex'.start = lex.start, lex'.char = lex.char
  PROVE  Numbered'
<1>1. \A n \in DOMAIN tokens : Counts(tokens[n], All(n))'
  BY SameLines DEF LInv, Numbered, Counts
<1>2. call = "next" => /\ lex.start <= lex.char /\ Outside(Done + 1, lex.char)
                       /\ Counts(lex, All(Newest) \cup Ends(Done + 1, lex.char - 1))
  BY DEF LInv, Numbered
<1>3. call # "next" => saved.start <= saved.cur /\ Counts(saved, All(Newest))
  BY DEF LInv, Numbered
<1>4. call = "next" => /\ lex'.start <= lex'.char /\ Outside(Done + 1, lex.char)'
                       /\ Counts(lex, All(Newest) \cup Ends(Done + 1, lex.char - 1))'
  BY <1>2, SameLines DEF Counts
<1>5. call # "next" => saved'.start <= saved'.cur /\ Counts(saved, All(Newest))'
  BY <1>3, SameLines DEF Counts
<1>6. mode' # "idle"
  BY DEF Loops
<1> QED
  BY <1>1, <1>4, <1>5, <1>6 DEF Numbered

(* lexer_next calls itself, behind what it has skipped. *)
LEMMA LinesOn ==
  ASSUME LInv, mode \in Loops, NEW l \in LexerType, l.cur <= End, Again(l, "scan"),
         call = "next" => /\ l.start <= l.cur /\ Outside(Done + 1, l.cur)
                          /\ Counts(l, All(Newest) \cup Ends(Done + 1, l.cur - 1))
  PROVE  Numbered'
<1>1. /\ text' = text /\ tokens' = tokens /\ call' = call /\ saved' = saved /\ mode' = "scan"
      /\ lex' = [l EXCEPT !.char = l.cur]
  BY DEF Again, Begin
<1>2. lex'.char = l.cur /\ lex'.line = l.line /\ lex'.start = l.start
  BY <1>1 DEF LexerType
<1>3. \A n \in DOMAIN tokens : Counts(tokens[n], All(n))'
  BY <1>1, SameLines DEF LInv, Numbered, Counts
<1>4. call = "next" => /\ lex'.start <= lex'.char /\ Outside(Done + 1, lex.char)'
                       /\ Counts(lex, All(Newest) \cup Ends(Done + 1, lex.char - 1))'
  BY <1>1, <1>2, SameLines DEF Counts
<1>5. call # "next" => saved'.start <= saved'.cur /\ Counts(saved, All(Newest))'
  BY <1>1, SameLines DEF Counts, LInv, Numbered
<1> QED
  BY <1>1, <1>3, <1>4, <1>5 DEF Numbered

(* Nothing that was skipped from b on ends a line. *)
LEMMA NoMoreEnds ==
  ASSUME NEW a \in Int, NEW b \in Int, NEW c \in Int, a <= b, b <= c,
         \A k \in b..c - 1 : ~LineEnd(a, k)
  PROVE  Ends(a, c - 1) = Ends(a, b - 1)
<1>1. \A k \in a..c - 1 : k \in a..b - 1 \/ k \in b..c - 1
  OBVIOUS
<1>2. \A k \in a..b - 1 : k \in a..c - 1
  OBVIOUS
<1> QED
  BY <1>1, <1>2 DEF Ends

(* The numbers that are line ends before the cursor are places, and the    *)
(* cursor of a call that will return a token is behind the last one.       *)
LEMMA LineFacts ==
  ASSUME LInv, mode \in Loops, call = "next"
  PROVE  /\ Done \in Nat /\ Done < lex.char /\ lex.start <= lex.char
         /\ Outside(Done + 1, lex.char)
         /\ Counts(lex, All(Newest) \cup Ends(Done + 1, lex.char - 1))
         /\ All(Newest) \cup Ends(Done + 1, lex.char - 1) \subseteq Int
<1>1. Done \in Nat /\ Newest \in Nat /\ \A n \in 1..Newest : Before(n) \in Nat /\ tokens[n].from \in Nat
  <2>1. IInv /\ End \in Nat
    BY PlaceFacts DEF LInv, TInv
  <2> QED
    BY <2>1, TokenFacts
<1>2. Done < lex.char
  BY DEF LInv, TInv, Follows
<1>3. \A n \in 1..Newest : LineEnds(n) \subseteq Int
  BY <1>1 DEF LineEnds
<1>4. All(Newest) \subseteq Int
  BY <1>3 DEF All
<1>5. Ends(Done + 1, lex.char - 1) \subseteq Int
  <2>1. lex.char \in Nat
    BY PlaceFacts DEF LInv, TInv
  <2> QED
    BY <1>1, <2>1 DEF Ends
<1> QED
  BY <1>1, <1>2, <1>4, <1>5 DEF LInv, Numbered

LEMMA SkipsCount ==
  ASSUME LInv, SkipBlank \/ NewLine \/ Comment \/ CommentChar \/ CommentEnd
  PROVE  Numbered'
<1>1. /\ IInv /\ text \in Texts /\ lex \in LexerType /\ lex.cur \in Nat
      /\ lex.char \in Nat /\ Len(text) \in Nat /\ End = Len(text) + 1
      /\ lex.line \in Nat /\ lex.start \in Nat
      /\ mode = "scan" => lex.char = lex.cur
  BY PlaceFacts DEF LInv, TInv, IInv, InLoop
<1> DEFINE a == Done + 1
           S == All(Newest) \cup Ends(a, lex.char - 1)
<1>2. CASE SkipBlank
  <2> DEFINE l == [lex EXCEPT !.cur = lex.cur + 1]
  <2>1. Ch(lex.cur) \in Blank /\ Cur # NUL /\ Again(l, "scan") /\ mode = "scan" /\ mode \in Loops
    BY <1>2, NoNUL DEF SkipBlank, At, Cur, Loops
  <2>2. l \in LexerType /\ l.cur = lex.cur + 1 /\ l.start = lex.start /\ l.line = lex.line
    <3>1. l \in LexerType /\ l.cur = lex.cur + 1
      BY <1>1, <2>1, PlaceFacts, MoveFacts
    <3> QED
      BY <1>1, <3>1 DEF LexerType
  <2> HIDE DEF l
  <2>3. l.cur <= End
    BY <1>1, <2>1, <2>2, PlaceFacts
  <2>4. Ch(lex.cur) \notin {"/", "\n", "\r"}
    BY <2>1 DEF Blank
  <2>5. ASSUME call = "next"
        PROVE  /\ l.start <= l.cur /\ Outside(a, l.cur)
               /\ Counts(l, All(Newest) \cup Ends(a, l.cur - 1))
    <3>1. /\ Done \in Nat /\ Done < lex.char /\ lex.start <= lex.char
          /\ Outside(a, lex.char) /\ Counts(lex, S)
      BY <2>1, <2>5, LineFacts
    <3>2. \A k \in lex.char..l.cur - 1 : ~LineEnd(a, k)
      <4>1. \A k \in lex.char..l.cur - 1 : k = lex.cur
        BY <1>1, <2>1, <2>2
      <4> QED
        BY <2>4, <4>1 DEF LineEnd
    <3>3. Ends(a, l.cur - 1) = Ends(a, lex.char - 1)
      <4>1. a \in Int /\ lex.char \in Int /\ l.cur \in Int /\ a <= lex.char /\ lex.char <= l.cur
        BY <1>1, <2>1, <2>2, <3>1
      <4> QED
        BY <3>2, <4>1, NoMoreEnds
    <3>4. Outside(a, l.cur)
      <4>1. ASSUME NEW j \in a..l.cur - 1, Ch(j) = "/", Ch(j + 1) = "/"
            PROVE  \E i \in j..l.cur : Ch(i) = "\n"
        <5>1. j \in a..lex.char - 1 \/ j = lex.cur
          BY <1>1, <2>1, <2>2, <3>1
        <5>2. j \in a..lex.char - 1
          BY <2>4, <4>1, <5>1
        <5>3. \A i \in j..lex.char : i \in j..l.cur
          BY <1>1, <2>1, <2>2
        <5> QED
          BY <3>1, <4>1, <5>2, <5>3 DEF Outside
      <4> QED
        BY <4>1 DEF Outside
    <3>5. Counts(l, All(Newest) \cup Ends(a, l.cur - 1))
      BY <2>2, <3>1, <3>3 DEF Counts
    <3>6. l.start <= l.cur
      BY <1>1, <2>1, <2>2, <3>1
    <3> QED
      BY <3>4, <3>5, <3>6
  <2> QED
    BY <2>1, <2>2, <2>3, <2>5, LinesOn
<1>3. CASE NewLine
  <2> DEFINE behind == lex.cur + (IF Cur = "\r" /\ After = "\n" THEN 2 ELSE 1)
             l == [cur |-> behind, line |-> lex.line + 1, start |-> behind,
                   char |-> lex.char]
  <2>1. /\ Ch(lex.cur) \in {"\r", "\n"} /\ Cur # NUL /\ (After = "\n" => After # NUL)
        /\ mode = "scan" /\ mode \in Loops /\ lex.char = lex.cur
    BY <1>1, <1>3, NoNUL DEF NewLine, At, Cur, Loops
  <2>2. behind \in 1..End /\ behind > lex.cur
    BY <1>1, <2>1, PlaceFacts
  <2>3. Again(l, "scan")
    BY <1>3 DEF NewLine
  <2>4. \/ /\ behind = lex.cur + 1 /\ (Ch(lex.cur) = "\r" => Ch(lex.cur + 1) # "\n")
        \/ /\ behind = lex.cur + 2 /\ Ch(lex.cur) = "\r" /\ Ch(lex.cur + 1) = "\n"
    BY DEF Cur, After
  <2> HIDE DEF behind
  <2>5. l \in LexerType /\ l.cur = behind /\ l.start = behind /\ l.line = lex.line + 1
    BY <1>1, <2>2, PlaceFacts DEF LexerType
  <2> HIDE DEF l
  <2>6. l.cur <= End
    BY <1>1, <2>2, <2>5
  <2>7. ASSUME call = "next"
        PROVE  /\ l.start <= l.cur /\ Outside(a, l.cur)
               /\ Counts(l, All(Newest) \cup Ends(a, l.cur - 1))
    <3>1. /\ Done \in Nat /\ Done < lex.char /\ lex.start <= lex.char
          /\ Outside(a, lex.char) /\ Counts(lex, S) /\ S \subseteq Int
      BY <2>1, <2>7, LineFacts
    <3> DEFINE e == behind - 1
    <3>2. a \in Int /\ lex.char \in Int /\ behind \in Int /\ a <= lex.char /\ e \in lex.char..behind - 1
      BY <1>1, <2>1, <2>2, <3>1
    <3>3. ~InComment(a, lex.cur) \/ Ch(lex.cur) = "\n"
      <4> SUFFICES ASSUME InComment(a, lex.cur), Ch(lex.cur) = "\r" PROVE FALSE
        BY <2>1
      <4>1. PICK j \in a..lex.cur : /\ Ch(j) = "/" /\ Ch(j + 1) = "/"
                                    /\ \A i \in j..lex.cur : Ch(i) # "\n"
        BY DEF InComment
      <4>2. j \in a..lex.char - 1
        <5>1. j # lex.cur
          BY <4>1
        <5> QED
          BY <1>1, <2>1, <3>1, <5>1
      <4> QED
        BY <2>1, <3>1, <4>1, <4>2 DEF Outside
    <3>4. \A k \in lex.char..behind - 1 : LineEnd(a, k) <=> k = e
      <4>1. CASE behind = lex.cur + 1
        <5>1. \A k \in lex.char..behind - 1 : k = lex.cur
          BY <1>1, <2>1, <4>1
        <5>2. e = lex.cur
          BY <1>1, <4>1
        <5>3. LineEnd(a, lex.cur)
          BY <2>1, <2>4, <3>3, <1>1, <4>1 DEF LineEnd
        <5> QED
          BY <5>1, <5>2, <5>3
      <4>2. CASE behind = lex.cur + 2
        <5>1. \A k \in lex.char..behind - 1 : k = lex.cur \/ k = lex.cur + 1
          BY <1>1, <2>1, <4>2
        <5>2. e = lex.cur + 1 /\ lex.cur # lex.cur + 1
          BY <1>1, <4>2
        <5>3. Ch(lex.cur) = "\r" /\ Ch(lex.cur + 1) = "\n"
          BY <1>1, <2>4, <4>2
        <5>4. LineEnd(a, lex.cur + 1) /\ ~LineEnd(a, lex.cur)
          BY <5>3 DEF LineEnd
        <5> QED
          BY <5>1, <5>2, <5>4
      <4> QED
        BY <2>4, <4>1, <4>2
    <3>5. Ends(a, behind - 1) = Ends(a, lex.char - 1) \cup {e}
      <4> HIDE DEF e, a
      <4>1. \A k \in a..behind - 1 : k \in a..lex.char - 1 \/ k \in lex.char..behind - 1
        BY <3>2
      <4>2. e \in a..behind - 1 /\ \A k \in a..lex.char - 1 : k \in a..behind - 1
        BY <3>2
      <4> QED
        BY <3>2, <3>4, <4>1, <4>2 DEF Ends
    <3>6. Counts(l, S \cup {e})
      <4>1. e \in Nat /\ lex.start <= e /\ l.start = e + 1
        BY <1>1, <2>1, <2>2, <2>5, <3>1, <3>2
      <4> HIDE DEF e, S
      <4> QED
        BY <1>1, <2>5, <3>1, <4>1, CountsOne
    <3>7. All(Newest) \cup Ends(a, l.cur - 1) = S \cup {e}
      BY <2>5, <3>5
    <3>8. Counts(l, All(Newest) \cup Ends(a, l.cur - 1))
      BY <3>6, <3>7
    <3>9. Outside(a, l.cur)
      <4>1. ASSUME NEW j \in a..l.cur - 1, Ch(j) = "/", Ch(j + 1) = "/"
            PROVE  \E i \in j..l.cur : Ch(i) = "\n"
        <5>1. j \in a..lex.char - 1 \/ j \in lex.char..behind - 1
          BY <1>1, <2>2, <2>5, <3>1
        <5>2. j \notin lex.char..behind - 1
          <6>1. \A k \in lex.char..behind - 1 : k = lex.cur \/ (k = lex.cur + 1 /\ Ch(k) = "\n")
            BY <1>1, <2>1, <2>4
          <6> QED
            BY <2>1, <4>1, <6>1
        <5>3. \A i \in j..lex.char : i \in j..l.cur
          BY <1>1, <2>1, <2>2, <2>5
        <5> QED
          BY <3>1, <4>1, <5>1, <5>2, <5>3 DEF Outside
      <4> QED
        BY <4>1 DEF Outside
    <3>10. l.start <= l.cur
      BY <2>2, <2>5
    <3> QED
      BY <3>8, <3>9, <3>10
  <2> QED
    BY <2>1, <2>3, <2>5, <2>6, <2>7, LinesOn
<1>4. CASE Comment \/ CommentChar
  <2>1. /\ mode \in Loops /\ mode' \in Loops
        /\ text' = text /\ tokens' = tokens /\ saved' = saved /\ call' = call
        /\ lex' = [lex EXCEPT !.cur = lex'.cur]
    BY <1>1, <1>4 DEF Comment, CommentChar, Move, At, Loops, LexerType
  <2>2. lex'.line = lex.line /\ lex'.start = lex.start /\ lex'.char = lex.char
    BY <1>1, <2>1 DEF LexerType
  <2> QED
    BY <2>1, <2>2, LinesStay
<1>5. CASE CommentEnd
  <2>1. /\ mode = "comment" /\ mode \in Loops /\ lex.cur <= End /\ Again(lex, "scan")
        /\ lex.char <= lex.cur /\ InComments(lex.char, lex.cur) /\ Ch(lex.cur) = "\n"
    BY <1>1, <1>5 DEF CommentEnd, At, IInv, InLoop, Loops, Cur
  <2>2. ASSUME call = "next"
        PROVE  /\ lex.start <= lex.cur /\ Outside(a, lex.cur)
               /\ Counts(lex, All(Newest) \cup Ends(a, lex.cur - 1))
    <3>1. Done \in Nat /\ Done < lex.char /\ lex.start <= lex.char /\ Counts(lex, S)
      BY <2>1, <2>2, LineFacts
    <3>2. ASSUME NEW k \in lex.char..lex.cur - 1 PROVE ~LineEnd(a, k)
      <4>1. Ch(k) # "\n"
        BY <2>1 DEF InComments
      <4>2. InComment(a, k)
        <5>1. lex.char \in a..k /\ \A i \in lex.char..k : i \in lex.char..lex.cur - 1
          BY <1>1, <3>1
        <5> QED
          BY <2>1, <5>1 DEF InComment, InComments
      <4> QED
        BY <4>1, <4>2 DEF LineEnd
    <3>3. Ends(a, lex.cur - 1) = Ends(a, lex.char - 1)
      <4>1. a \in Int /\ lex.char \in Int /\ lex.cur \in Int /\ a <= lex.char
        BY <1>1, <3>1
      <4> QED
        BY <2>1, <3>2, <4>1, NoMoreEnds
    <3>4. Outside(a, lex.cur)
      <4>1. \A j \in a..lex.cur - 1 : lex.cur \in j..lex.cur
        BY <1>1, <3>1
      <4> QED
        BY <2>1, <4>1 DEF Outside
    <3>5. Counts(lex, All(Newest) \cup Ends(a, lex.cur - 1))
      BY <3>1, <3>3
    <3>6. lex.start <= lex.cur
      BY <1>1, <2>1, <3>1
    <3> QED
      BY <3>4, <3>5, <3>6
  <2> QED
    BY <1>1, <2>1, <2>2, LinesOn
<1> QED
  BY <1>2, <1>3, <1>4, <1>5


(* The token that is returned has the line counted so far. *)
LEMMA EmitsLine ==
  ASSUME LInv, mode \in Loops, NEW kind, NEW last \in Int, lex.char <= last, Emit(kind, last)
  PROVE  Numbered'
<1>1. /\ text' = text /\ lex \in LexerType /\ lex.char \in Nat /\ lex.start \in Nat
      /\ tokens \in Seq(TokenType) /\ Newest \in Nat /\ DOMAIN tokens = 1..Newest
  BY PlaceFacts, TokenFacts DEF Emit, LInv, TInv
<1>2. CASE call = "next"
  <2> DEFINE t == Token(kind, last)
             S == All(Newest) \cup Ends(Done + 1, lex.char - 1)
  <2>0. PICK m \in Nat : m = Newest
    BY <1>1
  <2>1. /\ tokens' = Append(tokens, t) /\ lex' = [lex EXCEPT !.cur = last + 1] /\ mode' = "idle"
    BY <1>2 DEF Emit
  <2>2. t.from = lex.char /\ t.line = lex.line /\ t.start = lex.start
    BY DEF Token
  <2>3. lex'.cur = last + 1 /\ lex'.line = lex.line /\ lex'.start = lex.start
    BY <1>1, <2>1 DEF LexerType
  <2> HIDE DEF t
  <2>4. /\ Newest' = m + 1 /\ DOMAIN tokens' = 1..m + 1 /\ tokens'[m + 1] = t
        /\ \A n \in 1..m : tokens'[n] = tokens[n]
    BY <1>1, <2>0, <2>1 DEF Newest
  <2>5. /\ \A k : Ch(k)' = Ch(k)
        /\ \A n \in 1..m + 1 : Before(n)' = Before(n)
    BY <1>1, <2>4 DEF Ch, Before
  <2>6. /\ \A a, k : InComment(a, k)' <=> InComment(a, k)
    BY <2>5 DEF InComment
  <2>7. \A n \in 1..m : LineEnds(n)' = LineEnds(n)
    <3> SUFFICES ASSUME NEW n \in 1..m PROVE LineEnds(n)' = LineEnds(n)
      OBVIOUS
    <3>1. n \in 1..m + 1
      OBVIOUS
    <3>2. Before(n)' = Before(n) /\ tokens'[n] = tokens[n]
      BY <2>4, <2>5, <3>1
    <3> QED
      BY <2>5, <2>6, <3>2 DEF LineEnds
  <2>8. LineEnds(m + 1)' = Ends(Done + 1, lex.char - 1)
    <3>1. m + 1 \in 1..m + 1
      OBVIOUS
    <3>2. Before(m + 1)' = Done /\ tokens'[m + 1].from = lex.char
      BY <2>0, <2>2, <2>4, <2>5, <3>1 DEF Done
    <3> QED
      BY <2>5, <2>6, <3>2 DEF LineEnds, Ends, LineEnd
  <2>9. \A n \in 1..m : All(n)' = All(n)
    <3> SUFFICES ASSUME NEW n \in 1..m PROVE All(n)' = All(n)
      OBVIOUS
    <3>1. \A k \in 1..n : k \in 1..m
      OBVIOUS
    <3>2. \A k \in 1..n : LineEnds(k)' = LineEnds(k)
      BY <2>7, <3>1
    <3> QED
      BY <3>2 DEF All
  <2>10. All(m + 1)' = S
    <3>1. \A k : k \in 1..m + 1 <=> k \in 1..m \/ k = m + 1
      BY <1>1
    <3>2. \A x : (\E k \in 1..m + 1 : x \in LineEnds(k)')
                   <=> (\E k \in 1..m : x \in LineEnds(k)) \/ x \in Ends(Done + 1, lex.char - 1)
      BY <2>7, <2>8, <3>1
    <3>3. \A x : x \in All(m + 1)' <=> \E k \in 1..m + 1 : x \in LineEnds(k)'
      BY DEF All
    <3>4. \A x : x \in All(m) <=> \E k \in 1..m : x \in LineEnds(k)
      BY DEF All
    <3> QED
      BY <2>0, <3>2, <3>3, <3>4
  <2>11. lex.start <= lex.char /\ Counts(lex, S)
    BY <1>2 DEF LInv, Numbered
  <2> HIDE DEF S
  <2>12. Counts(t, S) /\ Counts(lex', S)
    BY <2>2, <2>3, <2>11 DEF Counts
  <2>13. \A n \in 1..m : Counts(tokens'[n], All(n)')
    BY <1>1, <2>0, <2>4, <2>9 DEF LInv, Numbered
  <2>14. ASSUME NEW n \in DOMAIN tokens' PROVE Counts(tokens'[n], All(n)')
    <3>1. n \in 1..m \/ n = m + 1
      BY <2>4
    <3> QED
      BY <2>4, <2>10, <2>12, <2>13, <3>1
  <2>15. lex'.start <= lex'.cur /\ Counts(lex', All(m + 1)')
    BY <1>1, <2>3, <2>10, <2>11, <2>12
  <2>16. \A n \in DOMAIN tokens' : Counts(tokens[n], All(n))'
    BY <2>14 DEF Counts
  <2>17. Counts(lex, All(Newest))'
    <3>1. All(Newest)' = All(m + 1)'
      BY <2>4 DEF All
    <3> QED
      BY <2>15, <3>1 DEF Counts
  <2> QED
    BY <2>1, <2>15, <2>16, <2>17 DEF Numbered, Loops
<1>3. CASE call \in {"peek", "peek2"}
  <2>1. /\ tokens' = tokens
        /\ \A n \in DOMAIN tokens : Counts(tokens[n], All(n))
        /\ saved.start <= saved.cur /\ Counts(saved, All(Newest))
    BY <1>3 DEF Emit, LInv, Numbered
  <2>2. \A n \in DOMAIN tokens : Counts(tokens[n], All(n))'
    BY <1>1, <2>1, SameLines DEF Counts
  <2>3. CASE call = "peek2"
    <3>1. saved' = saved /\ call' = "peek" /\ mode' # "idle"
      BY <2>3 DEF Emit, Enter
    <3>2. saved'.start <= saved'.cur /\ Counts(saved, All(Newest))'
      BY <1>1, <2>1, <3>1, SameLines DEF Counts
    <3> QED
      BY <2>1, <2>2, <3>1, <3>2 DEF Numbered
  <2>4. CASE call = "peek"
    <3>1. lex' = saved /\ mode' = "idle"
      BY <2>4 DEF Emit, PutBack
    <3>2. lex'.start <= lex'.cur /\ Counts(lex, All(Newest))'
      BY <1>1, <2>1, <3>1, SameLines DEF Counts
    <3> QED
      BY <2>1, <2>2, <3>1, <3>2 DEF Numbered, Loops
  <2> QED
    BY <1>3, <2>3, <2>4
<1> QED
  BY <1>2, <1>3 DEF LInv, TInv, IInv, TypeOK

(* A call begins to count where the last one ended. *)
LEMMA CallCounts ==
  ASSUME LInv, NEW c \in {"next", "peek", "peek2"}, Call(c)
  PROVE  Numbered'
<1>1. /\ mode = "idle" /\ call' = c /\ lex' = Begin(lex) /\ text' = text /\ tokens' = tokens
      /\ mode' = IF Ended THEN "past" ELSE IF lex.cur <= End THEN "scan" ELSE "beyond"
      /\ saved' = IF c = "next" THEN NoLexer ELSE lex
      /\ lex.cur = Done + 1 /\ Done \in Nat /\ lex \in LexerType
      /\ lex.start <= lex.cur /\ Counts(lex, All(Newest))
  BY PlaceFacts, TokenFacts DEF Call, Enter, LInv, TInv, Follows, Numbered
<1>2. \A n \in DOMAIN tokens : Counts(tokens[n], All(n))'
  BY <1>1, SameLines DEF LInv, Numbered, Counts
<1>3. CASE c = "next" /\ mode' = "scan"
  <2>1. lex' = [lex EXCEPT !.char = lex.cur]
    BY <1>1, <1>3 DEF Begin
  <2>2. lex'.char = lex.cur /\ lex'.line = lex.line /\ lex'.start = lex.start
    BY <1>1, <2>1 DEF LexerType
  <2>3. Ends(Done + 1, lex.cur - 1) = {} /\ Outside(Done + 1, lex.cur)
    <3>1. \A k \in Done + 1..lex.cur - 1 : FALSE
      BY <1>1
    <3> QED
      BY <3>1 DEF Ends, Outside
  <2>4. Counts(lex', All(Newest) \cup Ends(Done + 1, lex'.char - 1))
    BY <1>1, <2>2, <2>3 DEF Counts
  <2>5. Counts(lex, All(Newest) \cup Ends(Done + 1, lex.char - 1))'
    BY <1>1, <2>4, SameLines DEF Counts
  <2>6. lex'.start <= lex'.char /\ Outside(Done + 1, lex.char)'
    BY <1>1, <2>2, <2>3, SameLines
  <2> QED
    BY <1>1, <1>2, <1>3, <2>5, <2>6 DEF Numbered
<1>4. CASE c # "next" /\ mode' = "scan"
  <2>1. saved'.start <= saved'.cur /\ Counts(saved, All(Newest))'
    BY <1>1, <1>4, SameLines DEF Counts
  <2> QED
    BY <1>1, <1>2, <1>4, <2>1 DEF Numbered
<1>5. CASE mode' # "scan"
  <2>1. mode' \notin Loops /\ mode' # "idle"
    BY <1>1, <1>5 DEF Loops
  <2> QED
    BY <1>2, <1>1, <2>1 DEF Numbered
<1> QED
  BY <1>3, <1>4, <1>5


LEMMA TokensCount == ASSUME LInv, Goes \/ Returns PROVE Numbered'
<1>1. CASE Goes
  <2>1. PICK n \in 0..2, m \in Loops : Move(n, m)
    BY <1>1 DEF Goes
  <2>2. /\ text' = text /\ tokens' = tokens /\ saved' = saved /\ call' = call
        /\ mode' = m /\ lex' = [lex EXCEPT !.cur = lex.cur + n] /\ lex \in LexerType
    BY <2>1, PlaceFacts DEF Move, LInv, TInv
  <2>3. lex'.line = lex.line /\ lex'.start = lex.start /\ lex'.char = lex.char
    BY <2>2 DEF LexerType
  <2>4. mode \in Loops /\ mode' \in Loops
    BY <1>1, <2>2 DEF Goes
  <2> QED
    BY <2>2, <2>3, <2>4, LinesStay
<1>2. CASE Returns
  BY <1>2, EmitsLine DEF Returns
<1> QED
  BY <1>1, <1>2

LEMMA LinesStart == Init => LInv
<1> SUFFICES ASSUME Init PROVE LInv
  OBVIOUS
<1>1. TInv
  BY TokensStart
<1>2. DOMAIN tokens = {} /\ Newest = 0 /\ All(Newest) = {}
  BY DEF Init, Newest, All
<1>3. Counts(NoLexer, {})
  BY FS_EmptySet DEF NoLexer, Counts
<1>4. mode = "idle" /\ lex = NoLexer /\ lex.start <= lex.cur
  BY DEF Init, NoLexer
<1>5. ~(mode \in Loops)
  BY <1>4 DEF Loops
<1>6. Counts(lex, All(Newest))
  BY <1>2, <1>3, <1>4
<1> QED
  BY <1>1, <1>2, <1>4, <1>5, <1>6 DEF LInv, Numbered

LEMMA LinesKept == LInv /\ [Next]_vars => LInv'
<1> SUFFICES ASSUME LInv, [Next]_vars PROVE LInv'
  OBVIOUS
<1>1. TInv'
  BY TokensKept DEF LInv
<1>2. CASE UNCHANGED vars
  <2>1. /\ text' = text /\ lex' = lex /\ mode' = mode /\ call' = call
        /\ saved' = saved /\ tokens' = tokens
    BY <1>2 DEF vars
  <2>2. Numbered'
    BY <2>1, SameLines DEF LInv, Numbered, Counts
  <2> QED
    BY <1>1, <2>2 DEF LInv
<1>3. CASE \E c \in {"next", "peek", "peek2"} : Call(c)
  BY <1>1, <1>3, CallCounts DEF LInv
<1>4. CASE Scan
  <2>1. CASE Beyond
    <3>1. /\ mode' = "beyond" /\ lex' = lex /\ mode \in Loops
          /\ text' = text /\ tokens' = tokens /\ saved' = saved /\ call' = call
      BY <2>1 DEF Beyond, LInv, TInv, IInv, TypeOK, Modes, Loops
    <3> QED
      BY <1>1, <3>1, LinesStay DEF LInv
  <2>2. CASE ~Beyond
    <3>1. Numbered'
      BY <1>4, <2>2, SkipsCount, TokenTurns, TokensCount DEF Scan, LInv
    <3> QED
      BY <1>1, <3>1 DEF LInv
  <2> QED
    BY <2>1, <2>2
<1>5. CASE Stopped
  BY <1>2, <1>5 DEF Stopped
<1> QED
  BY <1>2, <1>3, <1>4, <1>5 DEF Next

(* The line of a token is the number of line ends skipped before it, and   *)
(* its line starts behind the last of them, for every set of texts:        *)
(* "\r\n" is one line end, a "\r" in a comment none, and peeks count       *)
(* nothing twice (lexer.c:242-250, 169-171).                              *)
THEOREM TokensLocated == Spec => []Located
<1>1. LInv => Located
  <2> SUFFICES ASSUME LInv, NEW n \in DOMAIN tokens
               PROVE  LET all == UNION {LineEnds(k) : k \in 1..n}
                      IN  /\ tokens[n].line = Cardinality(all)
                          /\ tokens[n].start = IF all = {} THEN 1
                                               ELSE (CHOOSE k \in all : \A j \in all : j <= k) + 1
    BY DEF Located, Returned
  <2> DEFINE all == UNION {LineEnds(k) : k \in 1..n}
             t == tokens[n]
  <2>1. Counts(t, all)
    BY DEF LInv, Numbered, All
  <2>2. t.start \in Int
    <3>1. End \in Nat /\ tokens \in Seq(TokenType)
      BY PlaceFacts DEF LInv, TInv, IInv, TypeOK
    <3>2. tokens[n] \in TokenType
      BY <3>1
    <3>3. t.start \in 1..End
      BY <3>2 DEF TokenType
    <3> QED
      BY <3>1, <3>3
  <2>3. all \subseteq Int
    <3>1. Newest \in Nat /\ DOMAIN tokens = 1..Newest /\ n \in 1..Newest /\ End \in Nat
      BY TokenFacts, PlaceFacts DEF LInv, TInv
    <3>2. \A k \in 1..n : k \in 1..Newest /\ Before(k) \in 0..End /\ tokens[k].from \in 1..End
      BY <3>1, TokenFacts DEF LInv, TInv
    <3>3. \A k \in 1..n : Before(k) \in Int /\ tokens[k].from \in Int
      BY <3>1, <3>2
    <3>4. \A k \in 1..n : LineEnds(k) \subseteq Int
      BY <3>3 DEF LineEnds
    <3> QED
      BY <3>4
  <2> HIDE DEF all, t
  <2>4. ASSUME all # {} PROVE t.start = (CHOOSE k \in all : \A j \in all : j <= k) + 1
    <3> DEFINE last == CHOOSE k \in all : \A j \in all : j <= k
    <3>1. t.start - 1 \in all /\ \A j \in all : j <= t.start - 1
      BY <2>1, <2>2, <2>3, <2>4 DEF Counts
    <3>2. last \in all /\ \A j \in all : j <= last
      BY <3>1
    <3> HIDE DEF last
    <3>3. last = t.start - 1
      BY <2>2, <2>3, <3>1, <3>2
    <3>4. t.start = last + 1
      BY <2>2, <3>3
    <3> QED
      BY <3>4 DEF last
  <2>5. t.line = Cardinality(all) /\ (all = {} => t.start = 1)
    BY <2>1 DEF Counts
  <2> QED
    BY <2>4, <2>5 DEF all, t
<1> QED
  BY <1>1, LinesStart, LinesKept, PTL DEF Spec


-----------------------------------------------------------------------------
(* Lexemes.                                                                *)

\* What LongestMatch says of a token.
Right(t) ==
  ~OpenAt(t) => /\ OfKind(t)
                /\ t.kind \notin {"EOF", "ERR"} =>
                     \A k \in t.to + 1..Len(text) : Lexeme(t.from, k) =>
                       t.kind = "KEYWORD" /\ Ch(t.to + 1) \in Digit

\* What a loop has read of its lexeme.
Reading ==
  /\ mode = "number" => IsNumber(lex.char, lex.cur)
  /\ mode = "word" => /\ IsWord(lex.char, lex.cur - 1)
                      /\ ~\E word \in Keyword : Stands(word, lex.char)
  /\ mode = "string" => \A k \in lex.char + 1..lex.cur - 1 :
                          Escaped(lex.char, k) => Ch(k) \in InString
  /\ mode = "quote" => \/ lex.cur = lex.char + 2 /\ Ch(lex.char + 1) # "\\"
                       \/ /\ lex.cur = lex.char + 3 /\ Ch(lex.char + 1) = "\\"
                          /\ Ch(lex.char + 2) \in InChar

AllRight == \A n \in DOMAIN tokens : Right(tokens[n])

RInv == TInv /\ Reading /\ AllRight

(* No character begins lexemes of two kinds. *)
LEMMA FirstCharacters ==
  /\ Digit \cap (Letter \cup {"_"}) = {}
  /\ Digit \cap Single = {}
  /\ (Letter \cup {"_"}) \cap Single = {}
  /\ Quote \notin Digit \cup Letter \cup {"_", "'"} \cup Single
  /\ "'" \notin Digit \cup Letter \cup {"_"} \cup Single
  /\ {"\\", "@"} \cap (Digit \cup Letter \cup {"_", "'", Quote} \cup Single) = {}
  /\ "." \in Single
<1>1. Digit \cap (Letter \cup {"_"}) = {}
  BY DEF Digit, Letter
<1>2. Digit \cap Single = {}
  BY DEF Digit, Single
<1>3. (Letter \cup {"_"}) \cap Single = {}
  BY DEF Letter, Single
<1>4. Quote \notin Digit \cup Letter \cup {"_", "'"} \cup Single
  BY DEF Quote, Digit, Letter, Single
<1>5. "'" \notin Digit \cup Letter \cup {"_"} \cup Single
  BY DEF Digit, Letter, Single
<1>6. {"\\", "@"} \cap (Digit \cup Letter \cup {"_", "'", Quote} \cup Single) = {}
  BY DEF Digit, Letter, Single, Quote
<1>7. "." \in Single
  BY DEF Single
<1> QED
  BY <1>1, <1>2, <1>3, <1>4, <1>5, <1>6, <1>7

LEMMA OperatorFirst ==
  ASSUME NEW a, NEW b, IsOperator(a, b)
  PROVE  Ch(a) \in Single
<1>1. CASE <<Ch(a), Ch(b)>> \in Pair
  BY <1>1 DEF Pair, Single
<1>2. CASE <<Ch(a), Ch(a + 1), Ch(b)>> = <<".", ".", ".">>
  BY <1>2, FirstCharacters
<1> QED
  BY <1>1, <1>2 DEF IsOperator

(* The first character tells the kind. *)
LEMMA KindOf ==
  ASSUME NEW a, NEW b, Lexeme(a, b)
  PROVE  /\ Ch(a) \in Digit => IsNumber(a, b)
         /\ Ch(a) \in Letter \cup {"_"} => IsWord(a, b)
         /\ Ch(a) \in Single => IsOperator(a, b)
         /\ Ch(a) = Quote => IsString(a, b)
         /\ Ch(a) = "'" => IsChar(a, b)
         /\ Ch(a) \notin {"\\", "@"}
<1>1. \/ IsWord(a, b) /\ Ch(a) \in Letter \cup {"_"}
      \/ IsNumber(a, b) /\ Ch(a) \in Digit
      \/ IsOperator(a, b) /\ Ch(a) \in Single
      \/ IsString(a, b) /\ Ch(a) = Quote
      \/ IsChar(a, b) /\ Ch(a) = "'"
  BY OperatorFirst DEF Lexeme, IsWord, IsNumber, IsString, IsChar
<1> QED
  BY <1>1, FirstCharacters

(* An even number of backslashes before a character do not escape it. *)
LEMMA EvenEscapesNot ==
  ASSUME NEW a \in Int, NEW k \in Int, Even(a, k)
  PROVE  ~Escaped(a, k)
<1>1. PICK j \in a + 1..k : /\ \A i \in j..k - 1 : Ch(i) = "\\"
                            /\ j = a + 1 \/ Ch(j - 1) # "\\"
                            /\ (k - j) % 2 = 0
  BY DEF Even
<1> SUFFICES ASSUME NEW h \in a + 1..k - 1, \A i \in h..k - 1 : Ch(i) = "\\",
                    h = a + 1 \/ Ch(h - 1) # "\\", (k - h) % 2 = 1
             PROVE  FALSE
  BY DEF Escaped
<1>2. CASE h < j
  <2>1. j - 1 \in h..k - 1 /\ j # a + 1
    BY <1>2
  <2> QED
    BY <1>1, <2>1
<1>3. CASE j < h
  <2>1. h - 1 \in j..k - 1 /\ h # a + 1
    BY <1>3
  <2> QED
    BY <1>1, <2>1
<1>4. CASE j = h
  BY <1>1, <1>4
<1> QED
  BY <1>2, <1>3, <1>4


(* Whether a token is the right one depends on the text alone. *)
LEMMA SameRight ==
  ASSUME text' = text
  PROVE  \A t : Right(t)' <=> Right(t)
<1>1. /\ \A k : Ch(k)' = Ch(k)
      /\ End' = End
  BY DEF Ch, End
<1>2. \A a, b : Escaped(a, b)' <=> Escaped(a, b)
  BY <1>1 DEF Escaped
<1>3. \A a, b : /\ IsString(a, b)' <=> IsString(a, b)
                /\ IsChar(a, b)' <=> IsChar(a, b)
  BY <1>1, <1>2 DEF IsString, IsChar
<1>4. \A a, b : /\ IsWord(a, b)' <=> IsWord(a, b)
                /\ IsNumber(a, b)' <=> IsNumber(a, b)
  BY <1>1 DEF IsWord, IsNumber, Body
<1>5. \A a, b : IsOperator(a, b)' <=> IsOperator(a, b)
  BY <1>1 DEF IsOperator
<1>6. \A a, b : Lexeme(a, b)' <=> Lexeme(a, b)
  BY <1>3, <1>4, <1>5 DEF Lexeme
<1>7. \A t : OfKind(t)' <=> OfKind(t)
  BY <1>1, <1>3, <1>4, <1>5, <1>6 DEF OfKind
<1>8. \A t : OpenAt(t)' <=> OpenAt(t)
  BY <1>1 DEF OpenAt
<1> QED
  BY <1>1, <1>6, <1>7, <1>8 DEF Right

(* A token that is the right one may be returned. *)
LEMMA EmitsRight ==
  ASSUME RInv, NEW kind, NEW last, Emit(kind, last), Right(Token(kind, last))
  PROVE  Reading' /\ AllRight'
<1>1. text' = text /\ tokens \in Seq(TokenType)
  BY DEF Emit, RInv, TInv, IInv, TypeOK
<1>2. mode' \in {"idle", "scan", "beyond", "past"}
  BY DEF Emit, Enter
<1>3. Reading'
  BY <1>2 DEF Reading
<1>4. \A n \in DOMAIN tokens' : Right(tokens'[n])
  <2>1. CASE tokens' = tokens
    BY <2>1 DEF RInv, AllRight
  <2>2. CASE tokens' = Append(tokens, Token(kind, last))
    <3> DEFINE t == Token(kind, last)
    <3> HIDE DEF t
    <3>1. \A n \in DOMAIN tokens' : (n \in DOMAIN tokens /\ tokens'[n] = tokens[n]) \/ tokens'[n] = t
      BY <1>1, <2>2 DEF t
    <3>2. Right(t)
      BY DEF t
    <3> QED
      BY <3>1, <3>2 DEF RInv, AllRight
  <2> QED
    BY <2>1, <2>2 DEF Emit
<1> QED
  BY <1>1, <1>3, <1>4, SameRight DEF AllRight

(* A loop goes on within its lexeme. *)
LEMMA Reads ==
  ASSUME RInv, NEW n \in 0..3, NEW m, Move(n, m),
         m = "number" => IsNumber(lex.char, lex.cur + n),
         m = "word" => /\ IsWord(lex.char, lex.cur + n - 1)
                       /\ ~\E word \in Keyword : Stands(word, lex.char),
         m = "string" => \A k \in lex.char + 1..lex.cur + n - 1 :
                           Escaped(lex.char, k) => Ch(k) \in InString,
         m = "quote" => \/ lex.cur + n = lex.char + 2 /\ Ch(lex.char + 1) # "\\"
                        \/ /\ lex.cur + n = lex.char + 3 /\ Ch(lex.char + 1) = "\\"
                           /\ Ch(lex.char + 2) \in InChar
  PROVE  Reading' /\ AllRight'
<1>1. text' = text /\ tokens' = tokens /\ mode' = m
  BY DEF Move
<1>2. lex'.cur = lex.cur + n /\ lex'.char = lex.char /\ lex.cur \in Int
  BY PlaceFacts DEF RInv, TInv, LexerType, Move
<1>3. AllRight'
  BY <1>1, SameRight DEF RInv, AllRight
<1>4. \A k : Ch(k)' = Ch(k)
  BY <1>1 DEF Ch
<1>5. \A word, k : Stands(word, k)' <=> Stands(word, k)
  BY <1>4 DEF Stands
<1>6. /\ \A a, b : IsNumber(a, b)' <=> IsNumber(a, b)
      /\ \A a, b : IsWord(a, b)' <=> IsWord(a, b)
      /\ \A a, b : Escaped(a, b)' <=> Escaped(a, b)
  BY <1>4 DEF IsNumber, IsWord, Body, Escaped
<1>7. Reading'
  <2>1. mode' = "number" => IsNumber(lex.char, lex.cur)'
    BY <1>1, <1>2, <1>6
  <2>2. mode' = "word" => /\ IsWord(lex.char, lex.cur - 1)'
                          /\ ~\E word \in Keyword : Stands(word, lex.char)'
    <3> SUFFICES ASSUME m = "word" PROVE /\ IsWord(lex.char, lex.cur - 1)'
                                         /\ \A word \in Keyword : ~Stands(word, lex.char)'
      BY <1>1
    <3>1. IsWord(lex.char, lex.cur - 1)'
      <4>1. lex'.cur - 1 = lex.cur + n - 1
        BY <1>2
      <4> QED
        BY <1>2, <1>6, <4>1
    <3>2. ASSUME NEW word \in Keyword PROVE ~Stands(word, lex.char)'
      BY <1>2, <1>5
    <3> QED
      BY <3>1, <3>2
  <2>3. mode' = "string" => \A k \in lex'.char + 1..lex'.cur - 1 :
                              Escaped(lex.char, k)' => Ch(k)' \in InString
    <3> SUFFICES ASSUME m = "string", NEW k \in lex.char + 1..lex.cur + n - 1, Escaped(lex.char, k)'
                 PROVE  Ch(k)' \in InString
      <4>1. lex'.char + 1 = lex.char + 1 /\ lex'.cur - 1 = lex.cur + n - 1
        BY <1>2
      <4> QED
        BY <1>1, <4>1
    <3>1. Escaped(lex.char, k)
      BY <1>2, <1>6
    <3> QED
      BY <1>4, <3>1
  <2>4. mode' = "quote" => \/ lex'.cur = lex'.char + 2 /\ Ch(lex.char + 1)' # "\\"
                           \/ /\ lex'.cur = lex'.char + 3 /\ Ch(lex.char + 1)' = "\\"
                              /\ Ch(lex.char + 2)' \in InChar
    BY <1>1, <1>2, <1>4
  <2> QED
    BY <2>1, <2>2, <2>3, <2>4 DEF Reading
<1> QED
  BY <1>3, <1>7


\* Both hold after the step.
RGoal == Reading' /\ AllRight'

(* Where the Lexer is. *)
LEMMA ReadFacts ==
  ASSUME RInv
  PROVE  /\ IInv /\ text \in Texts /\ text \in Seq(Char) /\ Len(text) \in Nat /\ End = Len(text) + 1
         /\ lex.cur \in Nat /\ lex.char \in 1..End
         /\ mode = "scan" => lex.char = lex.cur
  BY PlaceFacts, TextAssumption DEF RInv, TInv, IInv, InLoop

(* A keyword is written with letters. *)
LEMMA KeywordLetters ==
  ASSUME NEW word \in Keyword
  PROVE  /\ word \in Seq(Letter) /\ Len(word) \in Nat \ {0}
         /\ \A n \in 1..Len(word) : word[n] \in Letter
<1>1. word \in Seq(Letter)
  <2>1. CASE word = <<"f", "o", "r">>
    BY <2>1 DEF Letter
  <2>2. CASE word = <<"w", "h", "i", "l", "e">>
    BY <2>2 DEF Letter
  <2>3. CASE word = <<"i", "f">>
    BY <2>3 DEF Letter
  <2>4. CASE word = <<"e", "l", "s", "e">>
    BY <2>4 DEF Letter
  <2>5. CASE word = <<"e", "x", "t", "e", "r", "n">>
    BY <2>5 DEF Letter
  <2>6. CASE word = <<"t", "r", "u", "e">>
    BY <2>6 DEF Letter
  <2>7. CASE word = <<"f", "a", "l", "s", "e">>
    BY <2>7 DEF Letter
  <2>8. CASE word = <<"b", "r", "e", "a", "k">>
    BY <2>8 DEF Letter
  <2>9. CASE word = <<"c", "o", "n", "t", "i", "n", "u", "e">>
    BY <2>9 DEF Letter
  <2>10. CASE word = <<"r", "e", "t", "u", "r", "n">>
    BY <2>10 DEF Letter
  <2>11. CASE word = <<"i", "m", "p", "o", "r", "t">>
    BY <2>11 DEF Letter
  <2>12. CASE word = <<"f", "n">>
    BY <2>12 DEF Letter
  <2>13. CASE word = <<"n", "o", "n", "e">>
    BY <2>13 DEF Letter
  <2> QED
    BY <2>1, <2>2, <2>3, <2>4, <2>5, <2>6, <2>7, <2>8, <2>9, <2>10, <2>11, <2>12, <2>13 DEF Keyword
<1> QED
  BY <1>1, KeywordFacts

(* The characters from a to b are a keyword if and only if one is there. *)
LEMMA KeywordThere ==
  ASSUME RInv, NEW word \in Keyword, NEW a \in 1..Len(text), NEW b \in a..Len(text)
  PROVE  SubSeq(text, a, b) = word <=>
           b = a + Len(word) - 1 /\ \A n \in 1..Len(word) : Ch(a + n - 1) = word[n]
<1>1. /\ word \in Seq(Letter) /\ Len(word) \in Nat \ {0} /\ Len(text) \in Nat
      /\ \A n \in 1..Len(word) : word[n] \in Letter
      /\ text \in Seq(Char) /\ text \in Texts
  BY KeywordLetters, ReadFacts
<1> DEFINE sub == SubSeq(text, a, b)
<1>2. /\ sub = [n \in 1..b - a + 1 |-> text[a + n - 1]] /\ DOMAIN sub = 1..b - a + 1
  BY <1>1
<1> HIDE DEF sub
<1>3. ASSUME sub = word
      PROVE  b = a + Len(word) - 1 /\ \A n \in 1..Len(word) : Ch(a + n - 1) = word[n]
  <2>1. DOMAIN word = 1..Len(word) /\ DOMAIN word = 1..b - a + 1
    BY <1>1, <1>2, <1>3
  <2>2. b = a + Len(word) - 1
    BY <1>1, <2>1
  <2>3. \A n \in 1..Len(word) : text[a + n - 1] = word[n]
    BY <1>2, <1>3, <2>1
  <2>4. \A n \in 1..Len(word) : a + n - 1 \in 1..Len(text)
    BY <1>1, <2>2, <2>3
  <2> QED
    BY <1>1, <2>2, <2>3, <2>4 DEF Ch
<1>4. ASSUME b = a + Len(word) - 1, \A n \in 1..Len(word) : Ch(a + n - 1) = word[n]
      PROVE  sub = word
  <2>1. \A n \in 1..Len(word) : Ch(a + n - 1) # NUL
    BY <1>1, <1>4, NoNUL
  <2>2. \A n \in 1..Len(word) : text[a + n - 1] = word[n]
    BY <1>1, <1>4, <2>1, TextFacts DEF Ch
  <2>3. b - a + 1 = Len(word) /\ DOMAIN word = 1..Len(word)
    BY <1>1, <1>4
  <2>4. word = [n \in 1..Len(word) |-> word[n]]
    BY <1>1
  <2> QED
    BY <1>2, <2>2, <2>3, <2>4
<1> QED
  BY <1>3, <1>4 DEF sub


\* What a word begins with, and what it goes on with.
WordStart == Letter \cup {"_"}
WordBody == Letter \cup Digit \cup {"_"}

LEMMA WordSets ==
  /\ NUL \notin WordStart /\ Letter \subseteq WordStart /\ WordStart \subseteq WordBody
  /\ \A c \in WordBody : c \in WordStart \/ c \in Digit
  /\ \A a, b : IsWord(a, b) <=> Ch(a) \in WordStart /\ Body(a, b, WordBody)
  /\ \A word, k : Stands(word, k) <=> /\ \A n \in DOMAIN word : Ch(k + n - 1) = word[n]
                                    /\ Ch(k + Len(word)) \notin WordStart
<1>1. NUL \notin WordStart
  BY NoNUL, Zenon DEF WordStart
<1>2. Letter \subseteq WordStart /\ WordStart \subseteq WordBody
  BY Zenon DEF WordStart, WordBody
<1>3. \A c \in WordBody : c \in WordStart \/ c \in Digit
  BY Zenon DEF WordStart, WordBody
<1>4. \A a, b : IsWord(a, b) <=> Ch(a) \in WordStart /\ Body(a, b, WordBody)
  BY Zenon DEF IsWord, WordStart, WordBody
<1>5. \A word, k : Stands(word, k) <=> /\ \A n \in DOMAIN word : Ch(k + n - 1) = word[n]
                                    /\ Ch(k + Len(word)) \notin WordStart
  BY Zenon DEF Stands, WordStart
<1> QED
  BY <1>1, <1>2, <1>3, <1>4, <1>5, Zenon

(* Words: is_tok has tried all keywords before the loop, none stands here; *)
(* and no letter follows a keyword.                                        *)
LEMMA WordsRight ==
  ASSUME RInv, ReadKeyword \/ Word \/ WordChar \/ WordEnd
  PROVE  RGoal
<1>1. /\ Len(text) \in Nat /\ End = Len(text) + 1 /\ lex.cur \in Nat /\ lex.char \in 1..End
      /\ mode = "scan" => lex.char = lex.cur
  BY ReadFacts
<1>2. CASE ReadKeyword
  <2>1. PICK word \in Keyword : /\ Stands(word, lex.cur) /\ Emit("KEYWORD", lex.cur + Len(word) - 1)
                                /\ mode = "scan"
    BY <1>2 DEF ReadKeyword, At
  <2> DEFINE a == lex.char
             b == lex.cur + Len(word) - 1
             t == Token("KEYWORD", b)
  <2>2. /\ t.from = a /\ t.to = b /\ t.kind = "KEYWORD" /\ a = lex.cur
    BY <1>1, <2>1 DEF Token
  <2>3. /\ Len(word) \in Nat \ {0} /\ a \in Nat /\ b = a + Len(word) - 1
        /\ DOMAIN word = 1..Len(word)
        /\ \A n \in 1..Len(word) : Ch(a + n - 1) = word[n] /\ word[n] \in Letter
        /\ Ch(b + 1) \notin WordStart
    <3>1. /\ Len(word) \in Nat \ {0} /\ DOMAIN word = 1..Len(word)
          /\ \A n \in 1..Len(word) : word[n] \in Letter
      BY KeywordLetters
    <3>2. a \in Nat /\ b = a + Len(word) - 1
      BY <1>1, <2>2
    <3>3. b + 1 = a + Len(word)
      BY <3>1, <3>2
    <3>4. Stands(word, a)
      BY <2>1, <2>2
    <3> HIDE DEF a, b
    <3> QED
      BY <3>1, <3>2, <3>3, <3>4, WordSets
  <2> HIDE DEF a, b, t
  <2>4. \A k \in a..b : Ch(k) \in Letter
    <3> SUFFICES ASSUME NEW k \in a..b PROVE Ch(k) \in Letter
      OBVIOUS
    <3>1. k - a + 1 \in 1..Len(word) /\ a + (k - a + 1) - 1 = k
      BY <2>3
    <3> QED
      BY <2>3, <3>1
  <2>5. a \in 1..Len(text) /\ b \in a..Len(text)
    <3>1. a \in a..b /\ b \in a..b /\ a \in Int /\ b \in Int
      BY <2>3
    <3>2. Ch(a) # NUL /\ Ch(b) # NUL
      BY <2>4, <3>1, NoNUL
    <3>3. a \in 1..Len(text) /\ b \in 1..Len(text)
      BY <3>1, <3>2, ReadFacts, TextFacts
    <3> QED
      BY <3>1, <3>3
  <2>6. IsWord(a, b)
    <3>1. a \in a..b /\ \A k \in a + 1..b : k \in a..b
      BY <2>3
    <3> QED
      BY <2>4, <3>1, WordSets DEF Body
  <2>7. SubSeq(text, a, b) \in Keyword
    BY <2>3, <2>5, KeywordThere
  <2>8. OfKind(t)
    BY <2>2, <2>6, <2>7 DEF OfKind
  <2>9. ASSUME NEW k \in b + 1..Len(text), Lexeme(a, k) PROVE Ch(b + 1) \in Digit
    <3>1. Ch(a) \in Letter
      BY <2>4, <2>5
    <3>2. Body(a, k, WordBody)
      BY <2>9, <3>1, KindOf, WordSets, Zenon
    <3>3. b + 1 \in a + 1..k
      BY <2>3, <2>5
    <3> QED
      BY <2>3, <3>2, <3>3, WordSets DEF Body
  <2>10. Right(t)
    BY <2>2, <2>8, <2>9 DEF Right
  <2> QED
    BY <2>1, <2>10, EmitsRight DEF RGoal, b, t
<1>3. CASE Word
  <2>1. /\ mode = "scan" /\ Cur \in WordStart /\ Move(1, "word") /\ lex.char = lex.cur
        /\ ~\E word \in Keyword : Stands(word, lex.char)
    BY <1>1, <1>3, Zenon DEF Word, At, WordStart
  <2>2. lex.cur + 1 - 1 = lex.char /\ \A k \in lex.char + 1..lex.char : FALSE
    BY <1>1, <2>1
  <2>3. IsWord(lex.char, lex.cur + 1 - 1)
    BY <2>1, <2>2, WordSets DEF Body, Cur
  <2> QED
    BY <2>1, <2>3, Reads DEF RGoal
<1>4. CASE WordChar
  <2>1. /\ mode = "word" /\ Cur \in WordBody /\ Move(1, "word")
        /\ IsWord(lex.char, lex.cur - 1) /\ ~\E word \in Keyword : Stands(word, lex.char)
    BY <1>4, Zenon DEF WordChar, At, RInv, Reading, WordBody
  <2>2. \A k \in lex.char + 1..lex.cur + 1 - 1 : k \in lex.char + 1..lex.cur - 1 \/ k = lex.cur
    BY <1>1
  <2>3. IsWord(lex.char, lex.cur + 1 - 1)
    BY <2>1, <2>2, WordSets DEF Body, Cur
  <2> QED
    BY <2>1, <2>3, Reads DEF RGoal
<1>5. CASE WordEnd
  <2>1. /\ mode = "word" /\ Cur \notin WordBody /\ Emit("ID", lex.cur - 1)
        /\ IsWord(lex.char, lex.cur - 1) /\ ~\E word \in Keyword : Stands(word, lex.char)
        /\ lex.char < lex.cur /\ lex.cur <= End
    BY <1>5, Zenon DEF WordEnd, At, RInv, Reading, TInv, Follows, WordBody
  <2> DEFINE a == lex.char
             b == lex.cur - 1
             t == Token("ID", b)
  <2>2. t.from = a /\ t.to = b /\ t.kind = "ID" /\ lex.cur = b + 1
    BY <1>1 DEF Token
  <2>3. a \in 1..Len(text) /\ b \in a..Len(text)
    BY <1>1, <2>1
  <2>4. IsWord(a, b) /\ Ch(b + 1) \notin WordBody
    BY <2>1, <2>2 DEF Cur
  <2> HIDE DEF a, b, t
  <2>5. SubSeq(text, a, b) \notin Keyword
    <3> SUFFICES ASSUME NEW word \in Keyword, SubSeq(text, a, b) = word PROVE FALSE
      OBVIOUS
    <3>1. /\ b = a + Len(word) - 1 /\ DOMAIN word = 1..Len(word) /\ Len(word) \in Nat
          /\ \A n \in 1..Len(word) : Ch(a + n - 1) = word[n]
      BY <2>3, KeywordThere, KeywordLetters
    <3>2. b + 1 = a + Len(word)
      BY <2>3, <3>1
    <3>3. Stands(word, a)
      BY <2>4, <3>1, <3>2, WordSets
    <3> QED
      BY <2>1, <3>3 DEF a
  <2>6. OfKind(t)
    BY <2>2, <2>4, <2>5 DEF OfKind
  <2>7. ASSUME NEW k \in b + 1..Len(text), Lexeme(a, k) PROVE FALSE
    <3>1. Body(a, k, WordBody)
      BY <2>4, <2>7, KindOf, Zenon DEF IsWord, WordBody
    <3>2. b + 1 \in a + 1..k
      BY <2>3
    <3> QED
      BY <2>4, <3>1, <3>2 DEF Body
  <2>8. Right(t)
    BY <2>2, <2>6, <2>7 DEF Right
  <2> QED
    BY <2>1, <2>8, EmitsRight DEF RGoal, b, t
<1> QED
  BY <1>2, <1>3, <1>4, <1>5


(* Numbers: the loop stops at the first character that is none of a        *)
(* number's, with a point read or not.                                     *)
LEMMA NumbersRight ==
  ASSUME RInv, Number \/ NumberChar \/ NumberEnd
  PROVE  RGoal
<1>1. /\ Len(text) \in Nat /\ End = Len(text) + 1 /\ lex.cur \in Nat /\ lex.char \in 1..End
      /\ mode = "scan" => lex.char = lex.cur
  BY ReadFacts
<1>2. CASE Number
  <2>1. mode = "scan" /\ Cur \in Digit /\ Move(0, "number") /\ lex.char = lex.cur
    BY <1>1, <1>2 DEF Number, At
  <2>2. lex.cur + 0 = lex.char /\ \A k \in lex.char + 1..lex.char : FALSE
    BY <1>1, <2>1
  <2>3. IsNumber(lex.char, lex.cur + 0)
    BY <2>1, <2>2 DEF IsNumber, Body, Cur
  <2> QED
    BY <2>1, <2>3, Reads DEF RGoal
<1>3. CASE NumberChar
  <2>1. /\ mode = "number" /\ After \in Letter \cup Digit \cup {"."} /\ Move(1, "number")
        /\ IsNumber(lex.char, lex.cur)
    BY <1>3 DEF NumberChar, At, RInv, Reading
  <2>2. \A k \in lex.char + 1..lex.cur + 1 : k \in lex.char + 1..lex.cur \/ k = lex.cur + 1
    BY <1>1
  <2>3. IsNumber(lex.char, lex.cur + 1)
    BY <2>1, <2>2 DEF IsNumber, Body, After
  <2> QED
    BY <2>1, <2>3, Reads DEF RGoal
<1>4. CASE NumberEnd
  <2> DEFINE kind == IF \E k \in lex.char..lex.cur : Ch(k) = "." THEN "FLOAT" ELSE "INT"
             a == lex.char
             b == lex.cur
             t == Token(kind, b)
  <2>1. /\ mode = "number" /\ After \notin Letter \cup Digit \cup {"."} /\ Emit(kind, b)
        /\ IsNumber(a, b) /\ a <= b /\ b < End
    BY <1>4 DEF NumberEnd, At, RInv, Reading, TInv, Follows, IInv, InLoop
  <2>2. t.from = a /\ t.to = b /\ t.kind = kind
    BY DEF Token
  <2>3. a \in 1..Len(text) /\ b \in a..Len(text)
    BY <1>1, <2>1
  <2>4. kind \in {"FLOAT", "INT"} /\ (kind = "FLOAT" <=> \E k \in a..b : Ch(k) = ".")
    OBVIOUS
  <2>5. \A k \in a..b : Ch(k) = text[k]
    BY <2>3, ReadFacts DEF Ch
  <2>6. Ch(b + 1) \notin Letter \cup Digit \cup {"."}
    BY <2>1 DEF After
  <2> HIDE DEF a, b, t, kind
  <2>7. OfKind(t)
    <3>1. kind = "FLOAT" <=> \E k \in a..b : text[k] = "."
      BY <2>4, <2>5
    <3> QED
      BY <2>1, <2>2, <2>4, <3>1 DEF OfKind
  <2>8. ASSUME NEW k \in b + 1..Len(text), Lexeme(a, k) PROVE FALSE
    <3>1. Ch(a) \in Digit
      BY <2>1 DEF IsNumber
    <3>2. IsNumber(a, k)
      BY <2>8, <3>1, KindOf
    <3>3. b + 1 \in a + 1..k
      BY <2>3
    <3> QED
      BY <2>6, <3>2, <3>3 DEF IsNumber, Body
  <2>9. Right(t)
    BY <2>2, <2>7, <2>8 DEF Right
  <2> QED
    BY <2>1, <2>9, EmitsRight DEF RGoal, t
<1> QED
  BY <1>2, <1>3, <1>4

(* The end of the file, operators, and what begins nothing. *)
LEMMA OthersRight ==
  ASSUME RInv, EndOfFile \/ Operator \/ Unknown
  PROVE  RGoal
<1>1. /\ Len(text) \in Nat /\ End = Len(text) + 1 /\ lex.cur \in Nat /\ lex.char \in 1..End
      /\ mode = "scan" => lex.char = lex.cur /\ lex.cur <= End
  BY ReadFacts DEF RInv, TInv, IInv, InLoop
<1> DEFINE a == lex.char
<1>2. CASE EndOfFile
  <2>1. mode = "scan" /\ Cur = NUL /\ Emit("EOF", lex.cur)
    BY <1>2 DEF EndOfFile, At
  <2> DEFINE t == Token("EOF", lex.cur)
  <2>2. t.from = a /\ t.to = a /\ t.kind = "EOF"
    BY <1>1, <2>1 DEF Token
  <2>3. a = End
    <3>1. a \notin 1..Len(text)
      <4> SUFFICES ASSUME a \in 1..Len(text) PROVE FALSE
        OBVIOUS
      <4>1. text[a] \in Char /\ text[a] = NUL
        BY <1>1, <2>1, ReadFacts DEF Ch, Cur
      <4> QED
        BY <4>1, Zenon DEF Char, NUL, Digit, Letter, Blank, Single, Quote
    <3> QED
      BY <1>1, <3>1
  <2>4. Right(t)
    BY <2>2, <2>3 DEF Right, OfKind
  <2> QED
    BY <2>1, <2>4, EmitsRight DEF RGoal
<1>3. CASE Operator
  <2> DEFINE b == lex.cur + OperatorLength(lex.cur) - 1
             t == Token("OP", b)
  <2>1. mode = "scan" /\ Cur \in Single /\ Emit("OP", b) /\ a = lex.cur
    BY <1>1, <1>3 DEF Operator, At
  <2>2. t.from = a /\ t.to = b /\ t.kind = "OP" /\ Ch(a) \in Single /\ a \in Int
    BY <1>1, <2>1 DEF Token, Cur
  <2>3. b = a + OperatorLength(a) - 1
    BY <2>1
  <2> HIDE DEF a, b, t
  <2>4. \/ b = a + 2 /\ <<Ch(a), Ch(a + 1), Ch(a + 2)>> = <<".", ".", ".">>
        \/ /\ b = a + 1 /\ <<Ch(a), Ch(a + 1)>> \in Pair
           /\ <<Ch(a), Ch(a + 1), Ch(a + 2)>> # <<".", ".", ".">>
        \/ /\ b = a /\ <<Ch(a), Ch(a + 1)>> \notin Pair
           /\ <<Ch(a), Ch(a + 1), Ch(a + 2)>> # <<".", ".", ".">>
    BY <2>2, <2>3 DEF OperatorLength
  <2>5. IsOperator(a, b)
    BY <2>2, <2>4 DEF IsOperator
  <2>6. OfKind(t)
    BY <2>2, <2>5 DEF OfKind
  <2>7. ASSUME NEW k \in b + 1..Len(text), Lexeme(a, k) PROVE FALSE
    <3>1. IsOperator(a, k)
      BY <2>2, <2>7, KindOf
    <3>2. k \in Int /\ b < k
      BY <2>2, <2>4
    <3> QED
      BY <2>2, <2>4, <3>1, <3>2 DEF IsOperator
  <2>8. Right(t)
    BY <2>2, <2>6, <2>7 DEF Right
  <2> QED
    BY <2>1, <2>8, EmitsRight DEF RGoal, t
<1>4. CASE Unknown
  <2> DEFINE t == Token("ERR", lex.cur)
  <2>1. mode = "scan" /\ Cur \in {"\\", "@"} /\ Emit("ERR", lex.cur)
    BY <1>4 DEF Unknown, At
  <2>2. t.from = a /\ t.to = a /\ t.kind = "ERR" /\ Ch(a) \in {"\\", "@"}
    BY <1>1, <2>1 DEF Token, Cur
  <2> HIDE DEF a, t
  <2>3. ~Lexeme(a, a)
    BY <2>2, KindOf
  <2>4. Right(t)
    BY <2>2, <2>3 DEF Right, OfKind
  <2> QED
    BY <2>1, <2>4, EmitsRight DEF RGoal, t
<1> QED
  BY <1>2, <1>3, <1>4


(* Strings: what the loop has passed over is a character or an escape, so  *)
(* it has passed over no quote that ends the string.                       *)
LEMMA StringsRight ==
  ASSUME RInv, String \/ StringChar \/ StringEscape \/ StringBad \/ StringEnd
  PROVE  RGoal
<1> DEFINE a == lex.char
           b == lex.cur
<1>1. /\ Len(text) \in Nat /\ End = Len(text) + 1 /\ b \in Nat /\ a \in 1..End
      /\ mode = "scan" => a = b
      /\ NUL # Quote /\ "\\" # Quote
  BY ReadFacts, NoNUL, Zenon DEF Quote
<1>2. ASSUME mode = "string"
      PROVE  /\ a < b /\ b <= End /\ Ch(a) = Quote /\ Even(a, b)
             /\ \A k \in a + 1..b - 1 : Ch(k) = Quote => Escaped(a, k)
             /\ \A k \in a + 1..b - 1 : Escaped(a, k) => Ch(k) \in InString
  BY <1>2 DEF RInv, TInv, IInv, InLoop, InStrings, Reading
<1>3. CASE String
  <2>1. mode = "scan" /\ Move(1, "string")
    BY <1>3 DEF String, At
  <2>2. \A k \in a + 1..b + 1 - 1 : FALSE
    BY <1>1, <2>1
  <2> QED
    BY <2>1, <2>2, Reads DEF RGoal
<1>4. CASE StringChar \/ StringEscape
  <2>1. mode = "string"
    BY <1>4 DEF StringChar, StringEscape, At
  <2>2. ~Escaped(a, b)
    BY <1>1, <1>2, <2>1, EvenEscapesNot
  <2>3. CASE StringChar
    <3>1. \A k \in a + 1..b + 1 - 1 : k \in a + 1..b - 1 \/ k = b
      BY <1>1
    <3>2. \A k \in a + 1..b + 1 - 1 : Escaped(a, k) => Ch(k) \in InString
      BY <1>2, <2>1, <2>2, <3>1
    <3> QED
      BY <2>3, <3>2, Reads DEF StringChar, RGoal
  <2>4. CASE StringEscape
    <3>1. \A k \in a + 1..b + 2 - 1 : k \in a + 1..b - 1 \/ k = b \/ k = b + 1
      BY <1>1
    <3>2. Ch(b + 1) \in InString
      BY <2>4 DEF StringEscape, After
    <3>3. \A k \in a + 1..b + 2 - 1 : Escaped(a, k) => Ch(k) \in InString
      BY <1>2, <2>1, <2>2, <3>1, <3>2
    <3> QED
      BY <2>4, <3>3, Reads DEF StringEscape, RGoal
  <2> QED
    BY <1>4, <2>3, <2>4
<1>5. CASE StringBad
  <2> DEFINE t == Token("ERR", b)
  <2>1. mode = "string" /\ Ch(b) = "\\" /\ Emit("ERR", b)
    BY <1>5 DEF StringBad, At, Cur
  <2>2. t.from = a /\ t.to = b /\ t.kind = "ERR"
    BY DEF Token
  <2> HIDE DEF t
  <2>3. ~Lexeme(a, b)
    BY <1>1, <1>2, <2>1, KindOf DEF IsString
  <2>4. Right(t)
    BY <2>2, <2>3 DEF Right, OfKind
  <2> QED
    BY <2>1, <2>4, EmitsRight DEF RGoal, t
<1>6. CASE StringEnd
  <2> DEFINE t == Token("STRING", b)
  <2>1. mode = "string" /\ Ch(b) \in {Quote, NUL} /\ Emit("STRING", b)
    BY <1>6 DEF StringEnd, At, Cur
  <2>2. t.from = a /\ t.to = b /\ t.kind = "STRING"
    BY DEF Token
  <2> HIDE DEF t
  <2>3. ASSUME b = End PROVE Right(t)
    BY <2>2, <2>3 DEF Right, OpenAt
  <2>4. ASSUME b # End PROVE Right(t)
    <3> HIDE DEF a, b
    <3>1. b \in 1..Len(text) /\ a < b
      BY <1>1, <1>2, <2>1, <2>4
    <3>2. Ch(b) = Quote
      <4>1. text[b] \in Char /\ Ch(b) = text[b]
        BY <3>1, ReadFacts DEF Ch
      <4>2. NUL \notin Char
        BY Zenon DEF Char, NUL, Digit, Letter, Blank, Single, Quote
      <4> QED
        BY <2>1, <4>1, <4>2
    <3>3. ~Escaped(a, b)
      BY <1>1, <1>2, <2>1, EvenEscapesNot
    <3>4. IsString(a, b)
      BY <1>2, <2>1, <3>1, <3>2, <3>3 DEF IsString
    <3>5. ASSUME NEW k \in b + 1..Len(text), Lexeme(a, k) PROVE FALSE
      <4>1. IsString(a, k)
        BY <1>2, <2>1, <3>5, KindOf
      <4>2. b \in a + 1..k - 1
        BY <1>1, <3>1
      <4> QED
        BY <3>2, <3>3, <4>1, <4>2 DEF IsString
    <3> QED
      BY <2>2, <3>4, <3>5 DEF Right, OfKind
  <2> QED
    BY <2>1, <2>3, <2>4, EmitsRight DEF RGoal, t
<1> QED
  BY <1>3, <1>4, <1>5, <1>6

(* Characters: one, or a backslash and one that may follow it. *)
LEMMA CharsRight ==
  ASSUME RInv, Character \/ CharBody \/ CharEscape \/ CharBad \/ CharEnd
  PROVE  RGoal
<1> DEFINE a == lex.char
           b == lex.cur
<1>1. a \in Int /\ b \in Int
  BY ReadFacts
<1>2. /\ mode = "char" => b = a + 1 /\ Ch(a) = "'"
      /\ mode = "quote" =>
           /\ Ch(a) = "'"
           /\ \/ b = a + 2 /\ Ch(a + 1) # "\\"
              \/ b = a + 3 /\ Ch(a + 1) = "\\" /\ Ch(a + 2) \in InChar
  BY DEF RInv, TInv, IInv, InLoop, Reading
<1>3. CASE Character
  BY <1>3, Reads DEF Character, At, RGoal
<1>4. CASE CharBody
  <2>1. mode = "char" /\ Ch(b) # "\\" /\ Move(1, "quote")
    BY <1>4 DEF CharBody, At, Cur
  <2>2. b + 1 = a + 2 /\ Ch(a + 1) # "\\"
    BY <1>1, <1>2, <2>1
  <2> QED
    BY <2>1, <2>2, Reads DEF RGoal
<1>5. CASE CharEscape
  <2>1. mode = "char" /\ Ch(b) = "\\" /\ Ch(b + 1) \in InChar /\ Move(2, "quote")
    BY <1>5 DEF CharEscape, At, Cur, After
  <2>2. b + 2 = a + 3 /\ Ch(a + 1) = "\\" /\ Ch(a + 2) \in InChar
    <3>1. b = a + 1 /\ b + 1 = a + 2
      BY <1>1, <1>2, <2>1
    <3> QED
      BY <1>1, <2>1, <3>1
  <2> QED
    BY <2>1, <2>2, Reads DEF RGoal
<1>6. CASE CharBad
  <2> DEFINE t == Token("ERR", b + 1)
  <2>1. mode = "char" /\ Ch(b) = "\\" /\ Ch(b + 1) \notin InChar /\ Emit("ERR", b + 1)
    BY <1>6 DEF CharBad, At, Cur, After
  <2>2. t.from = a /\ t.to = b + 1 /\ t.kind = "ERR"
    BY DEF Token
  <2> HIDE DEF t
  <2>3. ~Lexeme(a, b + 1)
    <3>1. Lexeme(a, b + 1) => IsChar(a, b + 1)
      BY <1>2, <2>1, KindOf, Zenon
    <3> QED
      BY <1>1, <1>2, <2>1, <3>1 DEF IsChar
  <2>4. Right(t)
    BY <2>2, <2>3 DEF Right, OfKind
  <2> QED
    BY <2>1, <2>4, EmitsRight DEF RGoal, t
<1>7. CASE CharEnd
  <2> DEFINE kind == IF Cur = "'" THEN "CHAR" ELSE "ID"
             t == Token(kind, b)
  <2>1. mode = "quote" /\ Emit(kind, b)
    BY <1>7 DEF CharEnd, At
  <2>2. t.from = a /\ t.to = b /\ t.kind = kind
    BY DEF Token
  <2>3. (Ch(b) = "'" /\ kind = "CHAR") \/ kind = "ID"
    BY DEF Cur
  <2> HIDE DEF t, kind
  <2>4. ASSUME kind = "ID" PROVE Right(t)
    BY <1>2, <2>1, <2>2, <2>4 DEF Right, OpenAt
  <2>5. ASSUME Ch(b) = "'", kind = "CHAR" PROVE Right(t)
    <3>1. IsChar(a, b)
      BY <1>2, <2>1, <2>5 DEF IsChar
    <3>2. ASSUME NEW k \in b + 1..Len(text), Lexeme(a, k) PROVE FALSE
      <4>1. IsChar(a, k)
        BY <1>2, <2>1, <3>2, KindOf
      <4>2. k \in Int /\ b < k
        BY <1>1
      <4> HIDE DEF a, b
      <4> QED
        BY <1>1, <1>2, <2>1, <4>1, <4>2 DEF IsChar
    <3> QED
      BY <2>2, <2>5, <3>1, <3>2 DEF Right, OfKind
  <2> QED
    BY <2>1, <2>3, <2>4, <2>5, EmitsRight DEF RGoal, t
<1> QED
  BY <1>3, <1>4, <1>5, <1>6, <1>7


(* Between two tokens nothing is read, and those returned stay. *)
LEMMA RestReads ==
  ASSUME RInv, text' = text, tokens' = tokens, mode' \in {"idle", "scan", "comment", "beyond", "past"}
  PROVE  RGoal
<1>1. AllRight'
  BY SameRight DEF RInv, AllRight
<1>2. Reading'
  BY DEF Reading
<1> QED
  BY <1>1, <1>2 DEF RGoal

LEMMA RightStart == Init => RInv
<1> SUFFICES ASSUME Init PROVE RInv
  OBVIOUS
<1>1. TInv
  BY TokensStart
<1>2. mode = "idle" /\ DOMAIN tokens = {}
  BY DEF Init
<1> QED
  BY <1>1, <1>2 DEF RInv, Reading, AllRight

LEMMA RightKept == RInv /\ [Next]_vars => RInv'
<1> SUFFICES ASSUME RInv, [Next]_vars PROVE RInv'
  OBVIOUS
<1>1. TInv'
  BY TokensKept DEF RInv
<1> SUFFICES RGoal
  BY <1>1 DEF RInv, RGoal
<1>2. CASE UNCHANGED vars
  <2>1. text' = text /\ lex' = lex /\ mode' = mode /\ tokens' = tokens
    BY <1>2 DEF vars
  <2>2. \A k : Ch(k)' = Ch(k)
    BY <2>1 DEF Ch
  <2>3. Reading'
    BY <2>1, <2>2 DEF RInv, Reading, IsNumber, IsWord, Body, Stands, Escaped
  <2> QED
    BY <2>1, <2>3, SameRight DEF RInv, AllRight, RGoal
<1>3. CASE \E c \in {"next", "peek", "peek2"} : Call(c)
  BY <1>3, RestReads DEF Call, Enter
<1>4. CASE Scan
  <2>1. CASE SkipBlank \/ NewLine \/ Comment \/ CommentChar \/ CommentEnd \/ Beyond
    <3>1. text' = text /\ tokens' = tokens /\ mode' \in {"scan", "comment", "beyond"}
      BY <2>1 DEF SkipBlank, NewLine, Comment, CommentChar, CommentEnd, Beyond, Again, Move
    <3> QED
      BY <3>1, RestReads
  <2>2. CASE EndOfFile \/ Operator \/ Unknown
    BY <2>2, OthersRight
  <2>3. CASE Number \/ NumberChar \/ NumberEnd
    BY <2>3, NumbersRight
  <2>4. CASE String \/ StringChar \/ StringEscape \/ StringBad \/ StringEnd
    BY <2>4, StringsRight
  <2>5. CASE Character \/ CharBody \/ CharEscape \/ CharBad \/ CharEnd
    BY <2>5, CharsRight
  <2>6. CASE ReadKeyword \/ Word \/ WordChar \/ WordEnd
    BY <2>6, WordsRight
  <2> QED
    BY <1>4, <2>1, <2>2, <2>3, <2>4, <2>5, <2>6 DEF Scan
<1>5. CASE Stopped
  BY <1>2, <1>5 DEF Stopped
<1> QED
  BY <1>2, <1>3, <1>4, <1>5 DEF Next

(* A token is a lexeme of its kind, keywords told from other words and     *)
(* floats from integers, and no longer lexeme begins where it does; an     *)
(* error token is none (lexer.c:110-357).  Except for a keyword before a   *)
(* digit, which is_tok takes for one, and literals that are not closed.    *)
THEOREM TokensLongest == Spec => []LongestMatch
<1>1. RInv => LongestMatch
  BY DEF RInv, AllRight, Right, LongestMatch, Returned
<1> QED
  BY <1>1, RightStart, RightKept, PTL DEF Spec
=============================================================================
